------------------------ MODULE ServerSession_proofs ------------------------
(***************************************************************************)
(* Invariance proofs for ServerSession, for any number of connections and  *)
(* requests, any size of a packet and any order of events: a render server *)
(* serves the client that its window shows as connected, and no other; and *)
(* what the streams carry arrives, wherever they are cut into segments,    *)
(* unless a cut is one that the code cannot take.                          *)
(***************************************************************************)
EXTENDS ServerSession, FiniteSetTheorems, TLAPS

-----------------------------------------------------------------------------
(***************************************************************************)
(* The inductive invariant                                                 *)
(***************************************************************************)

\* The types that the window's state depends on.
ServerEnds == {"none", "pending", "open", "closing", "closed"}
TypeInv ==
    /\ serverEnd \in [Connections -> ServerEnds]
    /\ backlog \in Seq(Connections)
    /\ m_clientSocket \in Connections \cup {NoConnection}

\* The window has a client exactly when it is ready, and no other one is open.
ClientInv ==
    /\ m_clientSocket # NoConnection <=> m_serverState = "READY_FOR_RENDERING"
    /\ \A c \in Connections : serverEnd[c] = "open" => m_clientSocket = c

\* Who listens has a device.  OptixRenderer keeps its device when the process is
\* reset, so a second choice of a device ends the server.
DeviceInv ==
    /\ m_server = "listening" \/ m_serverState = "SET_SERVER_SETTINGS"
           => m_computeDevice = "selected"
    /\ m_server = "listening" \/ m_clientSocket # NoConnection
            \/ m_serverState = "SET_SERVER_SETTINGS"
           => isInitialized

\* A socket that closes late is left from a reset, after which the server does not
\* listen again, although the disconnection takes the window back to waiting.
ClosingInv ==
    \A c \in Connections : serverEnd[c] = "closing" =>
        /\ m_server # "listening"
        /\ isInitialized
        /\ m_serverState \notin {"SET_SERVER_SETTINGS", "READY_FOR_RENDERING"}

IInv == TypeInv /\ ClientInv /\ DeviceInv /\ ClosingInv /\ ReadyIsComplete

-----------------------------------------------------------------------------
(***************************************************************************)
(* Initial states, and the actions of the window                           *)
(***************************************************************************)

\* Nothing is chosen and nobody is connected.
LEMMA InitIInv == Init => IInv
<1> SUFFICES ASSUME Init PROVE IInv
  OBVIOUS
<1> USE DEF Init
<1>1. TypeInv
  BY DEF TypeInv, ServerEnds
<1>2. QED
  BY <1>1 DEF IInv, ClientInv, DeviceInv, ClosingInv, ReadyIsComplete

\* The first device is selected; choosing one again is the end.
LEMMA SelectIInv ==
    ASSUME IInv, SelectComputeDevice
    PROVE  IInv'
<1> USE SessionAssumption DEF IInv, SelectComputeDevice
<1>1. CASE isInitialized
  <2> USE <1>1 DEF Crash
  <2>1. TypeInv'
    BY DEF TypeInv, ServerEnds
  <2>2. \A c \in Connections : serverEnd'[c] \in {"none", "closed"}
    BY DEF TypeInv
  <2>3. ClientInv' /\ ClosingInv'
    BY <2>2 DEF ClientInv, ClosingInv
  <2>4. DeviceInv' /\ ReadyIsComplete'
    BY DEF ClientInv, DeviceInv, ReadyIsComplete
  <2>5. QED
    BY <2>1, <2>3, <2>4
<1>2. CASE ~isInitialized
  <2>1. TypeInv'
    BY <1>2 DEF TypeInv
  <2>2. QED
    BY <1>2, <2>1 DEF ClientInv, DeviceInv, ClosingInv, ReadyIsComplete
<1>3. QED
  BY <1>1, <1>2

\* Listening starts with a device.
LEMMA StartIInv ==
    ASSUME IInv, StartServer
    PROVE  IInv'
<1> USE DEF IInv, StartServer
<1>1. TypeInv'
  BY DEF TypeInv
<1>2. QED
  BY <1>1 DEF ClientInv, DeviceInv, ClosingInv, ReadyIsComplete

\* A client is accepted only while nobody is, and turned away in all other states.
LEMMA NewConnectionIInv ==
    ASSUME IInv, onNewConnection
    PROVE  IInv'
<1> USE SessionAssumption DEF IInv, onNewConnection, Set
<1> DEFINE c == Head(backlog)
<1>1. c \in Connections /\ Tail(backlog) \in Seq(Connections)
  BY DEF TypeInv
<1> HIDE DEF c
<1>2. CASE AcceptClient(Head(backlog))
  <2>1. AcceptClient(c) /\ backlog' = Tail(backlog)
    BY <1>2 DEF c
  <2> USE <2>1 DEF AcceptClient, Serve
  <2>2. m_clientSocket = NoConnection /\ m_clientSocket' = c /\ servedSocket' = c
        /\ m_serverState' = "READY_FOR_RENDERING" /\ m_computeDevice = "selected"
        /\ isInitialized
    BY DEF ClientInv, DeviceInv
  <2>3. \A d \in Connections : serverEnd[d] \notin {"open", "closing"}
    BY <2>2 DEF ClientInv, ClosingInv
  <2>4. /\ serverEnd' \in [Connections -> ServerEnds]
        /\ \A d \in Connections : serverEnd'[d] \in {"open", "closing"} => d = c /\ serverEnd'[d] = "open"
    BY <1>1, <2>3 DEF TypeInv, ServerEnds
  <2>5. TypeInv'
    BY <1>1, <2>2, <2>4 DEF TypeInv
  <2>6. ClientInv'
    BY <1>1, <2>2, <2>4 DEF ClientInv
  <2>7. DeviceInv' /\ ReadyIsComplete'
    BY <1>1, <2>2 DEF DeviceInv, ReadyIsComplete
  <2>8. ClosingInv'
    BY <2>4 DEF ClosingInv
  <2>9. QED
    BY <2>5, <2>6, <2>7, <2>8
<1>3. CASE RejectClient(Head(backlog))
  <2>1. RejectClient(c) /\ backlog' = Tail(backlog)
    BY <1>3 DEF c
  <2>2. /\ serverEnd' \in [Connections -> ServerEnds]
        /\ \A d \in Connections : serverEnd'[d] = serverEnd[d] \/ serverEnd'[d] = "closed"
        /\ UNCHANGED <<m_serverState, m_clientSocket, servedSocket>>
    BY <1>1, <2>1 DEF RejectClient, serverVars, TypeInv, ServerEnds
  <2>3. TypeInv'
    BY <1>1, <2>1, <2>2 DEF TypeInv
  <2>4. ClientInv' /\ ClosingInv'
    BY <2>2 DEF ClientInv, ClosingInv
  <2>5. QED
    BY <2>2, <2>3, <2>4 DEF DeviceInv, ReadyIsComplete
<1>4. QED
  BY <1>2, <1>3

\* Whether the client that left is the current one or one from before a reset,
\* nobody is open after it.
LEMMA DisconnectedIInv ==
    ASSUME IInv, NEW c \in Connections, ClientConnectionDisconnected(c)
    PROVE  IInv'
<1> USE SessionAssumption DEF IInv, ClientConnectionDisconnected, Set
<1>1. /\ serverEnd' \in [Connections -> ServerEnds]
      /\ \A d \in Connections : serverEnd'[d] = IF d = c THEN "closed" ELSE serverEnd[d]
  BY DEF TypeInv, ServerEnds
<1>2. \A d \in Connections : serverEnd'[d] # "open"
  <2> SUFFICES ASSUME NEW d \in Connections, serverEnd'[d] = "open" PROVE FALSE
    OBVIOUS
  <2>1. d # c /\ m_clientSocket = d
    BY <1>1 DEF ClientInv
  <2>2. CASE serverEnd[c] = "open"
    BY <2>1, <2>2 DEF ClientInv
  <2>3. CASE serverEnd[c] = "closing"
    BY <2>1, <2>3 DEF ClientInv, ClosingInv
  <2>4. QED
    BY <2>2, <2>3
<1>3. TypeInv'
  BY <1>1 DEF TypeInv
<1>4. ClientInv'
  BY <1>2 DEF ClientInv
<1>5. ClosingInv'
  BY <1>1 DEF ClosingInv
<1>6. DeviceInv' /\ ReadyIsComplete'
  BY DEF DeviceInv, ReadyIsComplete
<1>7. QED
  BY <1>3, <1>4, <1>5, <1>6

\* A reset ends the program or leaves a socket that closes, and nobody listens.
LEMMA ResetIInv ==
    ASSUME IInv, resetProcess
    PROVE  IInv'
<1> USE SessionAssumption DEF IInv, resetProcess
<1>1. CASE /\ m_clientSocket # NoConnection
           /\ Crash
           /\ UNCHANGED <<m_serverState, m_clientSocket, m_computeDevice>>
  <2> USE <1>1 DEF Crash
  <2>1. TypeInv'
    BY DEF TypeInv, ServerEnds
  <2>2. \A c \in Connections : serverEnd'[c] \in {"none", "closed"}
    BY DEF TypeInv
  <2>3. QED
    BY <2>1, <2>2 DEF ClientInv, DeviceInv, ClosingInv, ReadyIsComplete
<1>2. CASE /\ ResetWindow
           /\ serverEnd' = [c \in Connections |->
                               IF c = m_clientSocket THEN "closing"
                               ELSE IF c \in ToSet(backlog) THEN "closed" ELSE serverEnd[c]]
           /\ UNCHANGED program
  <2> USE <1>2 DEF ResetWindow
  <2>1. TypeInv'
    BY DEF TypeInv, ServerEnds
  <2>2. \A c \in Connections : serverEnd'[c] # "open"
    BY DEF ClientInv
  <2>3. ClientInv'
    BY <2>2 DEF ClientInv
  <2>4. DeviceInv' /\ ReadyIsComplete' /\ m_server' # "listening"
    BY DEF DeviceInv, ReadyIsComplete
  <2>5. ClosingInv'
    BY <2>4 DEF ClosingInv, DeviceInv
  <2>6. QED
    BY <2>1, <2>3, <2>4, <2>5
<1>3. QED
  BY <1>1, <1>2

-----------------------------------------------------------------------------
(***************************************************************************)
(* The other actions                                                       *)
(***************************************************************************)

\* What reading, writing and the clients leave alone; a new client only waits in
\* the backlog.
LEMMA OthersIInv ==
    ASSUME IInv, UNCHANGED <<windowVars, m_clientSocket, servedSocket>>,
           \/ UNCHANGED <<backlog, serverEnd>>
           \/ \E c \in Connections :
                  backlog' = Append(backlog, c) /\ serverEnd' = Set(serverEnd, c, "pending")
    PROVE  IInv'
<1> USE DEF IInv, windowVars
<1>1. /\ serverEnd' \in [Connections -> ServerEnds] /\ backlog' \in Seq(Connections)
      /\ \A d \in Connections : serverEnd'[d] = serverEnd[d] \/ serverEnd'[d] = "pending"
  BY DEF TypeInv, ServerEnds, Set
<1>2. TypeInv'
  BY <1>1 DEF TypeInv
<1>3. ClientInv' /\ ClosingInv'
  BY <1>1 DEF ClientInv, ClosingInv
<1>4. QED
  BY <1>2, <1>3 DEF DeviceInv, ReadyIsComplete

\* RenderServer reads requests and writes results.
LEMMA ServerIInv ==
    ASSUME IInv, Server
    PROVE  IInv'
<1>1. CASE \E c \in Connections : \E n \in 1 .. Len(up[c]) : DataFromClient(c, n)
  BY <1>1, OthersIInv DEF DataFromClient
<1>2. CASE ReadRequest
  BY <1>2, OthersIInv DEF ReadRequest
<1>3. CASE RendererAnswers
  BY <1>3, OthersIInv DEF RendererAnswers
<1>4. CASE onNewRenderResultPacket
  BY <1>4, OthersIInv DEF onNewRenderResultPacket, serverVars
<1>5. QED
  BY <1>1, <1>2, <1>3, <1>4 DEF Server

\* The dialog of a client
LEMMA DialogIInv ==
    ASSUME IInv, NEW c \in Connections, Dialog(c)
    PROVE  IInv'
<1> USE OthersIInv DEF serverVars
<1>1. CASE FormSubmit(c)
  BY <1>1 DEF FormSubmit
<1>2. CASE ConnectedToHost(c)
  BY <1>2 DEF ConnectedToHost
<1>3. CASE HostConnectionError(c)
  BY <1>3 DEF HostConnectionError
<1>4. CASE \E n \in 1 .. Len(down[c]) : HostDataAvailable(c, n)
  BY <1>4 DEF HostDataAvailable
<1>5. CASE WaitForGreetingError(c)
  BY <1>5 DEF WaitForGreetingError
<1>6. CASE ClosedWhileHanding(c)
  BY <1>6 DEF ClosedWhileHanding
<1>7. CASE NewServerConnection(c)
  BY <1>7 DEF NewServerConnection
<1>8. QED
  BY <1>1, <1>2, <1>3, <1>4, <1>5, <1>6, <1>7 DEF Dialog

\* The connection of a client
LEMMA ConnectionIInv ==
    ASSUME IInv, NEW c \in Connections, Connection(c)
    PROVE  IInv'
<1> USE OthersIInv DEF serverVars
<1>1. CASE PushCommand(c)
  BY <1>1 DEF PushCommand
<1>2. CASE onNewServerCommand(c)
  BY <1>2 DEF onNewServerCommand
<1>3. CASE SendRequest(c)
  BY <1>3 DEF SendRequest
<1>4. CASE \E n \in 1 .. Len(down[c]) : onSocketReadyRead(c, n)
  BY <1>4 DEF onSocketReadyRead
<1>5. CASE SocketDisconnected(c)
  BY <1>5 DEF SocketDisconnected
<1>6. QED
  BY <1>1, <1>2, <1>3, <1>4, <1>5 DEF Connection

-----------------------------------------------------------------------------
(***************************************************************************)
(* Every step                                                              *)
(***************************************************************************)

\* The invariant is inductive.
LEMMA StepIInv == IInv /\ [Next]_vars => IInv'
<1> SUFFICES ASSUME IInv, [Next]_vars PROVE IInv'
  OBVIOUS
<1>1. CASE Window
  BY <1>1, SelectIInv, StartIInv, NewConnectionIInv, DisconnectedIInv, ResetIInv DEF Window
<1>2. CASE Server
  BY <1>2, ServerIInv
<1>3. CASE \E c \in Connections : Dialog(c) \/ Connection(c)
  BY <1>3, DialogIInv, ConnectionIInv
<1>4. CASE UNCHANGED vars
  BY <1>4, OthersIInv DEF vars, serverVars
<1>5. QED
  BY <1>1, <1>2, <1>3, <1>4 DEF Next

\* Every reachable state satisfies the invariant.
THEOREM Invariance == Spec => []IInv
BY InitIInv, StepIInv, PTL DEF Spec

\* A window that shows a client as connected has a device, and that client is the
\* one RenderServer reads from and writes to.
THEOREM ReadyIsCompleteHolds == Spec => []ReadyIsComplete
<1>1. IInv => ReadyIsComplete
  BY DEF IInv
<1>2. QED
  BY <1>1, Invariance, PTL

\* However many clients connect, at most one holds a greeting and an open socket.
THEOREM OneClientServedHolds == Spec => []OneClientServed
<1>1. IInv => OneClientServed
  <2> SUFFICES ASSUME IInv PROVE OneClientServed
    OBVIOUS
  <2> DEFINE Open == {c \in Connections : serverEnd[c] = "open"}
  <2>1. \A c, d \in Open : c = d
    BY DEF IInv, ClientInv
  <2>2. Open = {} \/ \E c : Open = {c}
    BY <2>1
  <2>3. Cardinality(Open) <= 1
    <3>1. CASE Open = {}
      BY <3>1, FS_EmptySet
    <3>2. CASE \E c : Open = {c}
      <4>1. PICK c : Open = {c}
        BY <3>2
      <4>2. Cardinality({c}) = 1
        BY FS_Singleton
      <4>3. QED
        BY <4>1, <4>2
    <3>3. QED
      BY <2>2, <3>1, <3>2
  <2>4. QED
    BY <2>3 DEF OneClientServed
<1>2. QED
  BY <1>1, Invariance, PTL
-----------------------------------------------------------------------------
(***************************************************************************)
(* The streams: a second inductive invariant                               *)
(***************************************************************************)

\* What is left of k packets of which the first units are taken.  Packets are told
\* apart by their places, so that the sizes of bodies and segments may be any.
Packets(stream, taken, k) ==
    /\ taken + Len(stream) = k * Len(Packet)
    /\ \A p \in 0 .. k - 1 : \A j \in 1 .. Len(Packet) :
           p * Len(Packet) + j > taken => stream[p * Len(Packet) + j - taken] = Packet[j]

Taken(c) == IF m_expectingSize[c] = 0 THEN 0 ELSE Len(SizeField)

HasName(stream) == \E i \in 1 .. Len(stream) : stream[i] = "name"

ServerStates == {"NO_DEVICE_INFORMATION", "WAITING_FOR_DEVICE_INFORMATION", "RENDERING",
                 "DISCONNECTED", "ERROR_INVALID_CONFIRMATION"}
Dialogs == {"form", "connecting", "greeting", "handing", "accepted", "failed", "crashed"}

StreamTypes ==
    /\ up \in [Connections -> Seq(Units)]
    /\ upBuffer \in [Connections -> Seq(Units)]
    /\ down \in [Connections -> Seq(Units)]
    /\ downBuffer \in [Connections -> Seq(Units)]
    /\ dialog \in [Connections -> Dialogs]
    /\ clientEnd \in [Connections -> {"none", "open", "closed"}]
    /\ m_renderServerState \in [Connections -> ServerStates]
    /\ newCommands \in [Connections -> Nat]
    /\ m_currentCommand \in [Connections -> {"NULL", "pending", "rejected"}]
    /\ m_expectingSize \in [Connections -> {0, BodyUnits}]
    /\ clientGarbled \in [Connections -> BOOLEAN]
    /\ numRequests \in [Connections -> Nat]
    /\ servedSocket \in Connections \cup {NoConnection}
    /\ queued \in Nat /\ results \in Nat /\ parsed \in Nat
    /\ m_clientExpectingBytes \in {0, Len(Packet)}
    /\ serverEnd \in [Connections -> ServerEnds]
    /\ backlog \in Seq(Connections)

\* A connection the window has not accepted is in the backlog once, and nothing was
\* sent over it.
Fresh(c) ==
    /\ serverEnd[c] \in {"none", "pending"}
           => /\ up[c] = <<>> /\ upBuffer[c] = <<>> /\ down[c] = <<>> /\ downBuffer[c] = <<>>
              /\ dialog[c] \notin {"handing", "accepted"}
              /\ c # servedSocket
    /\ dialog[c] \in {"form", "connecting"} => serverEnd[c] = "none"

BacklogInv ==
    /\ \A i \in 1 .. Len(backlog) : serverEnd[backlog[i]] = "pending"
    /\ \A i, j \in 1 .. Len(backlog) : backlog[i] = backlog[j] => i = j

\* A connection pushes its command once, when it is accepted, and sends requests only
\* after the answer.
Command(c) ==
    /\ m_currentCommand[c] # "rejected"
    /\ dialog[c] # "accepted" => m_renderServerState[c] = "NO_DEVICE_INFORMATION"
    /\ m_renderServerState[c] = "NO_DEVICE_INFORMATION"
           => newCommands[c] = 0 /\ m_currentCommand[c] = "NULL"
    /\ newCommands[c] > 0 =>
           /\ newCommands[c] = 1 /\ m_currentCommand[c] = "NULL"
           /\ m_renderServerState[c] \in {"WAITING_FOR_DEVICE_INFORMATION", "DISCONNECTED"}
    /\ m_currentCommand[c] = "pending" =>
           m_renderServerState[c] \in {"WAITING_FOR_DEVICE_INFORMATION", "DISCONNECTED"}
    /\ m_renderServerState[c] = "WAITING_FOR_DEVICE_INFORMATION" /\ newCommands[c] = 0
           => m_currentCommand[c] = "pending"
    /\ m_renderServerState[c] = "NO_DEVICE_INFORMATION" \/ newCommands[c] > 0
           => up[c] = <<>> /\ ~(c = servedSocket /\ m_renderState = "RENDERING")
    /\ m_renderServerState[c] = "RENDERING" => clientEnd[c] = "open"
    /\ m_renderServerState[c] = "DISCONNECTED" => clientEnd[c] = "closed"
    /\ m_renderServerState[c] \in {"NO_DEVICE_INFORMATION", "WAITING_FOR_DEVICE_INFORMATION"}
           => numRequests[c] = 0 /\ ~clientGarbled[c] /\ m_expectingSize[c] = 0

\* RenderServer has read nothing but the introduction, if that.
IntroductionInv ==
    /\ servedSocket = NoConnection => results = 0
    /\ servedSocket = NoConnection <=> m_renderState = "NOT_VALID_RENDER_STATE"
    /\ m_renderState # "RENDERING" => ~reading /\ queued = 0
    /\ m_renderState = "WAITING_FOR_INTRODUCTION_REQUEST" =>
           /\ upBuffer[servedSocket] = <<>>
           /\ up[servedSocket] \in {<<>>, Text("introduction")}
           /\ ~HasName(down[servedSocket]) /\ ~HasName(downBuffer[servedSocket])
           /\ m_renderServerState[servedSocket] # "RENDERING"
           /\ numRequests[servedSocket] = 0
           /\ parsed = 0 /\ m_clientExpectingBytes = 0 /\ ~serverGarbled /\ ~cutRequest

\* As long as no segment ends inside a request, whole requests are in transit and are
\* read.
RequestInv ==
    m_renderState = "RENDERING" /\ ~cutRequest =>
        /\ ~serverGarbled
        /\ m_clientExpectingBytes = 0
        /\ \E k \in Nat : Packets(upBuffer[servedSocket], 0, k)
        /\ \E k \in Nat : Packets(up[servedSocket], 0, k)
        /\ reading <=> upBuffer[servedSocket] # <<>>
        /\ serverEnd[servedSocket] = "open" /\ ~clientGarbled[servedSocket]
               => parsed * Len(Packet) + Len(upBuffer[servedSocket]) + Len(up[servedSocket])
                      = numRequests[servedSocket] * Len(Packet)

\* Only a client that has its answer causes results, but for the strays.
AskedInv ==
    servedSocket \notin strays =>
        \/ /\ queued = 0 /\ results = 0 /\ ~reading
           /\ m_renderState = "RENDERING" => up[servedSocket] = <<>>
        \/ m_renderServerState[servedSocket] \in {"RENDERING", "DISCONNECTED"}

\* What a client has yet to read: the greeting, the name, or results.
Answers(c) ==
    c \notin strays =>
        /\ dialog[c] = "greeting" =>
               /\ downBuffer[c] = <<>>
               /\ down[c] \in {<<>>, Text("greeting"), Text("busy")}
        /\ /\ dialog[c] \in {"handing", "accepted"} /\ clientEnd[c] = "open"
           /\ m_renderServerState[c] \in {"NO_DEVICE_INFORMATION", "WAITING_FOR_DEVICE_INFORMATION"}
           => /\ downBuffer[c] = <<>>
              /\ down[c] = <<>> \/ (down[c] = Text("name") /\ m_currentCommand[c] = "pending")
        /\ m_renderServerState[c] = "ERROR_INVALID_CONFIRMATION" => c \in cutAnswer
        /\ m_renderServerState[c] = "RENDERING" /\ c \notin cutAnswer =>
               /\ ~clientGarbled[c]
               /\ \E k \in Nat : Packets(downBuffer[c] \o down[c], Taken(c), k)
               /\ c \notin coalesced => Taken(c) + Len(downBuffer[c]) < Len(Packet)

StreamInv ==
    /\ StreamTypes
    /\ BacklogInv
    /\ \A c \in Connections : Fresh(c) /\ Command(c) /\ Answers(c)
    /\ IntroductionInv
    /\ RequestInv
    /\ AskedInv
-----------------------------------------------------------------------------
(***************************************************************************)
(* Parts of sequences                                                      *)
(***************************************************************************)

\* What is left when the first units are taken
LEMMA DropPlaces ==
    ASSUME NEW S, NEW s \in Seq(S), NEW n \in 0 .. Len(s)
    PROVE  /\ Drop(s, n) \in Seq(S)
           /\ Len(Drop(s, n)) = Len(s) - n
           /\ \A i \in 1 .. Len(s) - n : Drop(s, n)[i] = s[n + i]
BY DEF Drop

\* The units that arrive
LEMMA FirstPlaces ==
    ASSUME NEW S, NEW s \in Seq(S), NEW n \in 0 .. Len(s)
    PROVE  /\ SubSeq(s, 1, n) \in Seq(S)
           /\ Len(SubSeq(s, 1, n)) = n
           /\ \A i \in 1 .. n : SubSeq(s, 1, n)[i] = s[i]
OBVIOUS

\* Units are added at the end.
LEMMA JoinPlaces ==
    ASSUME NEW S, NEW s \in Seq(S), NEW t \in Seq(S)
    PROVE  /\ s \o t \in Seq(S)
           /\ Len(s \o t) = Len(s) + Len(t)
           /\ \A i \in 1 .. Len(s) + Len(t) :
                  (s \o t)[i] = IF i <= Len(s) THEN s[i] ELSE t[i - Len(s)]
OBVIOUS

\* Sequences are equal when their units are.
LEMMA SameUnits ==
    ASSUME NEW S, NEW s \in Seq(S), NEW t \in Seq(S), Len(s) = Len(t),
           \A i \in 1 .. Len(s) : s[i] = t[i]
    PROVE  s = t
OBVIOUS

\* Sequences of no unit, and of two
LEMMA TwoUnits ==
    ASSUME NEW S, NEW s \in Seq(S)
    PROVE  /\ Len(s) \in Nat
           /\ s = <<>> <=> Len(s) = 0
           /\ \A e, f : s = <<e, f>> <=> Len(s) = 2 /\ s[1] = e /\ s[2] = f
<1>1. Len(s) \in Nat /\ (s = <<>> <=> Len(s) = 0)
  OBVIOUS
<1>2. ASSUME NEW e, NEW f PROVE s = <<e, f>> <=> Len(s) = 2 /\ s[1] = e /\ s[2] = f
  <2>1. s = <<e, f>> => Len(s) = 2 /\ s[1] = e /\ s[2] = f
    OBVIOUS
  <2>2. ASSUME Len(s) = 2, s[1] = e, s[2] = f PROVE s = <<e, f>>
    <3>1. e \in S /\ f \in S
      BY <2>2
    <3>2. <<e, f>> \in Seq(S) /\ Len(<<e, f>>) = 2
      BY <3>1
    <3>3. QED
      BY <2>2, <3>2, SameUnits
  <2>3. QED
    BY <2>1, <2>2
<1>3. QED
  BY <1>1, <1>2

\* What a sequence of two units is a prefix of
LEMMA PrefixOfTwo ==
    ASSUME NEW S, NEW s \in Seq(S), NEW e, NEW f
    PROVE  IsPrefix(<<e, f>>, s) <=> Len(s) >= 2 /\ s[1] = e /\ s[2] = f
<1>1. Len(<<e, f>>) = 2 /\ SubSeq(<<e, f>>, 1, 2) = <<e, f>> /\ Len(s) \in Nat
  <2> DEFINE pair == <<e, f>>
             first == SubSeq(pair, 1, 2)
  <2>1. pair \in Seq({e, f}) /\ Len(pair) = 2
    OBVIOUS
  <2> HIDE DEF pair
  <2>2. first \in Seq({e, f}) /\ Len(first) = 2 /\ \A i \in 1 .. 2 : first[i] = pair[i]
    <3>1. 2 \in 0 .. Len(pair)
      BY <2>1
    <3>2. QED
      BY <2>1, <3>1, FirstPlaces
  <2> HIDE DEF first
  <2>3. first = pair
    BY <2>1, <2>2, SameUnits
  <2>4. QED
    BY <2>1, <2>3 DEF first, pair
<1>2. CASE Len(s) >= 2
  <2> DEFINE first == SubSeq(s, 1, 2)
  <2>1. first \in Seq(S) /\ Len(first) = 2 /\ first[1] = s[1] /\ first[2] = s[2]
    BY <1>2, FirstPlaces
  <2> HIDE DEF first
  <2>2. first = <<e, f>> <=> s[1] = e /\ s[2] = f
    BY <2>1, TwoUnits
  <2>3. QED
    BY <1>1, <1>2, <2>2 DEF first, IsPrefix
<1>3. CASE ~(Len(s) >= 2)
  BY <1>1, <1>3 DEF IsPrefix
<1>4. QED
  BY <1>2, <1>3

\* The units that arrive leave the stream and join the buffer.
LEMMA MovedUnits ==
    ASSUME NEW S, NEW s \in Seq(S), NEW t \in Seq(S), NEW n \in 0 .. Len(t)
    PROVE  (s \o SubSeq(t, 1, n)) \o Drop(t, n) = s \o t
<1> DEFINE first == SubSeq(t, 1, n)
           rest == Drop(t, n)
           near == s \o first
           all == near \o rest
           both == s \o t
<1>1. first \in Seq(S) /\ Len(first) = n /\ \A i \in 1 .. n : first[i] = t[i]
  BY FirstPlaces
<1>2. rest \in Seq(S) /\ Len(rest) = Len(t) - n /\ \A i \in 1 .. Len(t) - n : rest[i] = t[n + i]
  BY DropPlaces
<1> HIDE DEF first, rest
<1>3. /\ near \in Seq(S) /\ Len(near) = Len(s) + n
      /\ \A i \in 1 .. Len(s) + n : near[i] = IF i <= Len(s) THEN s[i] ELSE first[i - Len(s)]
  BY <1>1, JoinPlaces
<1> HIDE DEF near
<1>4. /\ all \in Seq(S) /\ Len(all) = Len(near) + Len(rest)
      /\ \A i \in 1 .. Len(near) + Len(rest) :
             all[i] = IF i <= Len(near) THEN near[i] ELSE rest[i - Len(near)]
  BY <1>2, <1>3, JoinPlaces
<1>5. /\ both \in Seq(S) /\ Len(both) = Len(s) + Len(t)
      /\ \A i \in 1 .. Len(s) + Len(t) : both[i] = IF i <= Len(s) THEN s[i] ELSE t[i - Len(s)]
  BY JoinPlaces
<1> HIDE DEF all, both
<1>6. Len(s) \in Nat /\ Len(t) \in Nat /\ n \in Nat /\ n <= Len(t)
  OBVIOUS
<1>7. Len(all) = Len(both)
  BY <1>2, <1>3, <1>4, <1>5, <1>6
<1>8. ASSUME NEW i \in 1 .. Len(all) PROVE all[i] = both[i]
  <2>1. i \in 1 .. Len(s) + Len(t)
    BY <1>5, <1>7
  <2>2. CASE i <= Len(s)
    <3>1. all[i] = near[i]
      BY <1>2, <1>3, <1>4, <1>6, <2>1, <2>2
    <3>2. near[i] = s[i]
      BY <1>3, <1>6, <2>1, <2>2
    <3>3. both[i] = s[i]
      BY <1>5, <1>6, <2>1, <2>2
    <3>4. QED
      BY <3>1, <3>2, <3>3
  <2>3. CASE i > Len(s) /\ i <= Len(s) + n
    <3>1. i - Len(s) \in 1 .. n
      BY <1>6, <2>1, <2>3
    <3>2. all[i] = first[i - Len(s)]
      BY <1>2, <1>3, <1>4, <1>6, <2>1, <2>3
    <3>3. both[i] = t[i - Len(s)]
      BY <1>5, <1>6, <2>1, <2>3
    <3>4. QED
      BY <1>1, <3>1, <3>2, <3>3
  <2>4. CASE i > Len(s) + n
    <3>1. i - (Len(s) + n) \in 1 .. Len(t) - n /\ n + (i - (Len(s) + n)) = i - Len(s)
      BY <1>6, <2>1, <2>4
    <3>2. all[i] = rest[i - (Len(s) + n)]
      BY <1>2, <1>3, <1>4, <1>6, <2>1, <2>4
    <3>3. both[i] = t[i - Len(s)]
      BY <1>5, <1>6, <2>1, <2>4
    <3>4. QED
      BY <1>2, <3>1, <3>2, <3>3
  <2>5. QED
    BY <1>6, <2>1, <2>2, <2>3, <2>4
<1>9. all = both
  BY <1>4, <1>5, <1>7, <1>8, SameUnits
<1>10. QED
  BY <1>9 DEF all, both, near, first, rest

\* Taking units from a buffer leaves what follows it alone.
LEMMA DropOfJoin ==
    ASSUME NEW S, NEW s \in Seq(S), NEW t \in Seq(S), NEW n \in 0 .. Len(s)
    PROVE  Drop(s, n) \o t = Drop(s \o t, n)
<1> DEFINE rest == Drop(s, n)
           both == s \o t
           left == rest \o t
           right == Drop(both, n)
<1>1. Len(s) \in Nat /\ Len(t) \in Nat /\ n \in Nat /\ n <= Len(s)
  OBVIOUS
<1>2. rest \in Seq(S) /\ Len(rest) = Len(s) - n /\ \A i \in 1 .. Len(s) - n : rest[i] = s[n + i]
  BY DropPlaces
<1>3. /\ both \in Seq(S) /\ Len(both) = Len(s) + Len(t)
      /\ \A i \in 1 .. Len(s) + Len(t) : both[i] = IF i <= Len(s) THEN s[i] ELSE t[i - Len(s)]
  BY JoinPlaces
<1> HIDE DEF rest, both
<1>4. /\ left \in Seq(S) /\ Len(left) = Len(rest) + Len(t)
      /\ \A i \in 1 .. Len(rest) + Len(t) :
             left[i] = IF i <= Len(rest) THEN rest[i] ELSE t[i - Len(rest)]
  BY <1>2, JoinPlaces
<1>5. /\ right \in Seq(S) /\ Len(right) = Len(both) - n
      /\ \A i \in 1 .. Len(both) - n : right[i] = both[n + i]
  <2>1. n \in 0 .. Len(both)
    BY <1>1, <1>3
  <2>2. QED
    BY <1>3, <2>1, DropPlaces
<1> HIDE DEF left, right
<1>6. Len(left) = Len(right)
  BY <1>1, <1>2, <1>3, <1>4, <1>5
<1>7. ASSUME NEW i \in 1 .. Len(left) PROVE left[i] = right[i]
  <2>1. i \in 1 .. Len(s) + Len(t) - n /\ n + i \in 1 .. Len(s) + Len(t)
    BY <1>1, <1>2, <1>4
  <2>2. right[i] = both[n + i]
    BY <1>1, <1>3, <1>5, <2>1
  <2>3. CASE i <= Len(s) - n
    BY <1>1, <1>2, <1>3, <1>4, <2>1, <2>2, <2>3
  <2>4. CASE i > Len(s) - n
    <3>1. i - (Len(s) - n) = (n + i) - Len(s)
      BY <1>1, <2>1
    <3>2. left[i] = t[i - (Len(s) - n)]
      BY <1>1, <1>2, <1>4, <2>1, <2>4
    <3>3. both[n + i] = t[(n + i) - Len(s)]
      BY <1>1, <1>3, <2>1, <2>4
    <3>4. QED
      BY <2>2, <3>1, <3>2, <3>3
  <2>5. QED
    BY <1>1, <2>1, <2>3, <2>4
<1>8. left = right
  BY <1>4, <1>5, <1>6, <1>7, SameUnits
<1>9. QED
  BY <1>8 DEF left, right, rest, both

\* The units of a buffer that another one is added to
LEMMA JoinWithNothing ==
    ASSUME NEW S, NEW s \in Seq(S)
    PROVE  s \o <<>> = s /\ <<>> \o s = s
OBVIOUS

\* Adding to a stream adds to what a buffer and the stream hold together.
LEMMA JoinThree ==
    ASSUME NEW S, NEW s \in Seq(S), NEW t \in Seq(S), NEW u \in Seq(S)
    PROVE  (s \o t) \o u = s \o (t \o u)
OBVIOUS

-----------------------------------------------------------------------------
(***************************************************************************)
(* Packets                                                                 *)
(***************************************************************************)

\* A packet has its size field and its body.
LEMMA PacketUnits ==
    /\ Packet \in Seq(Units) /\ Len(Packet) = BodyUnits + 2
    /\ Packet[1] = "size" /\ Packet[2] = "size"
    /\ \A i \in 1 .. Len(Packet) : Packet[i] # "name"
    /\ Len(SizeField) = 2
<1> DEFINE field == <<"size", "size">>
           body == [i \in 1 .. BodyUnits |-> "body"]
<1>1. /\ field \in Seq(Units) /\ Len(field) = 2 /\ \A i \in 1 .. 2 : field[i] = "size"
      /\ BodyUnits \in Nat
  BY SessionAssumption DEF Units
<1>2. body \in Seq(Units) /\ Len(body) = BodyUnits /\ \A i \in 1 .. BodyUnits : body[i] = "body"
  BY <1>1 DEF Units
<1> HIDE DEF field, body
<1>3. /\ field \o body \in Seq(Units) /\ Len(field \o body) = 2 + BodyUnits
      /\ \A i \in 1 .. 2 + BodyUnits :
             (field \o body)[i] = IF i <= 2 THEN field[i] ELSE body[i - 2]
  <2>1. /\ field \o body \in Seq(Units) /\ Len(field \o body) = Len(field) + Len(body)
        /\ \A i \in 1 .. Len(field) + Len(body) :
               (field \o body)[i] = IF i <= Len(field) THEN field[i] ELSE body[i - Len(field)]
    <3>1. field \in Seq(Units)
      BY <1>1
    <3>2. body \in Seq(Units)
      BY <1>2
    <3>3. QED
      BY <3>1, <3>2, JoinPlaces
  <2>2. Len(field) = 2 /\ Len(body) = BodyUnits
    BY <1>1, <1>2
  <2>3. QED
    BY <2>1, <2>2
<1>4. \A i \in 1 .. 2 + BodyUnits :
          (field \o body)[i] = IF i <= 2 THEN "size" ELSE "body"
  BY <1>1, <1>2, <1>3
<1>5. Packet = field \o body /\ SizeField = field
  BY DEF field, body, Packet, SizeField
<1>6. QED
  BY <1>1, <1>3, <1>4, <1>5

\* The places of a packet are before those of the next one.
LEMMA PacketEnds ==
    ASSUME NEW p \in Nat, NEW k \in Nat, NEW L \in Nat
    PROVE  /\ p * L \in Nat /\ (p + 1) * L = p * L + L
           /\ p < k => p * L + L <= k * L
           /\ p <= k => p * L <= k * L /\ (k - p) * L = k * L - p * L
<1>1. p * L \in Nat /\ (p + 1) * L = p * L + L
  OBVIOUS
<1>2. ASSUME p <= k PROVE p * L <= k * L /\ (k - p) * L = k * L - p * L
  <2> DEFINE m == k - p
  <2>1. m \in Nat /\ k = p + m
    BY <1>2
  <2> HIDE DEF m
  <2>2. k * L = p * L + m * L /\ m * L \in Nat
    BY <2>1
  <2>3. m * L = k * L - p * L /\ p * L <= k * L
    BY <1>1, <2>2
  <2>4. QED
    BY <2>3 DEF m
<1>3. ASSUME p < k PROVE p * L + L <= k * L
  <2> DEFINE m == k - p - 1
  <2>1. m \in Nat /\ k = p + 1 + m
    BY <1>3
  <2> HIDE DEF m
  <2>2. k * L = p * L + L + m * L /\ m * L \in Nat
    BY <2>1
  <2>3. QED
    BY <1>1, <2>2
<1>4. QED
  BY <1>1, <1>2, <1>3

\* There is nothing of no packet.
LEMMA NoPackets == Packets(<<>>, 0, 0)
BY PacketUnits, SessionAssumption DEF Packets

\* Another packet is written.
LEMMA PacketsAppend ==
    ASSUME NEW stream \in Seq(Units), NEW taken \in Nat, NEW k \in Nat,
           Packets(stream, taken, k)
    PROVE  Packets(stream \o Packet, taken, k + 1)
<1> DEFINE L == Len(Packet)
           longer == stream \o Packet
<1>1. /\ L \in Nat /\ Len(stream) \in Nat /\ taken + Len(stream) = k * L
      /\ \A p \in 0 .. k - 1 : \A j \in 1 .. L :
             p * L + j > taken => stream[p * L + j - taken] = Packet[j]
  BY PacketUnits, SessionAssumption DEF Packets
<1>2. /\ longer \in Seq(Units) /\ Len(longer) = Len(stream) + L
      /\ \A i \in 1 .. Len(stream) + L :
             longer[i] = IF i <= Len(stream) THEN stream[i] ELSE Packet[i - Len(stream)]
  BY PacketUnits, JoinPlaces
<1> HIDE DEF L, longer
<1>3. k * L \in Nat /\ (k + 1) * L = k * L + L
  BY <1>1, PacketEnds
<1>4. taken + Len(longer) = (k + 1) * L
  <2> DEFINE y == k * L
             z == (k + 1) * L
  <2>1. y \in Nat /\ z = y + L /\ taken + Len(stream) = y
    BY <1>1, <1>3
  <2> HIDE DEF y, z
  <2>2. Len(longer) = Len(stream) + L /\ Len(stream) \in Nat /\ L \in Nat
    BY <1>1, <1>2
  <2>3. taken + Len(longer) = z
    BY <2>1, <2>2
  <2>4. QED
    BY <2>3 DEF z
<1>5. ASSUME NEW p \in 0 .. k, NEW j \in 1 .. L, p * L + j > taken
      PROVE  longer[p * L + j - taken] = Packet[j]
  <2> DEFINE x == p * L
             y == k * L
             i == x + j - taken
  <2>1. x \in Nat /\ (p < k => x + L <= y)
    BY <1>1, PacketEnds
  <2>2. CASE p < k
    <3>1. p \in 0 .. k - 1
      BY <2>2
    <3>2. stream[i] = Packet[j] /\ x + j > taken
      BY <1>1, <1>5, <3>1
    <3> HIDE DEF x
    <3>3. y = taken + Len(stream) /\ x + L <= y
      BY <1>1, <2>1, <2>2
    <3> HIDE DEF y
    <3>4. i \in 1 .. Len(stream)
      BY <1>1, <2>1, <3>2, <3>3
    <3>5. i \in 1 .. Len(stream) + L /\ i <= Len(stream)
      BY <1>1, <3>4
    <3> HIDE DEF i
    <3>6. longer[i] = stream[i]
      BY <1>2, <3>5
    <3>7. QED
      BY <3>2, <3>6 DEF i, x
  <2>3. CASE p = k
    <3>1. x = taken + Len(stream)
      BY <1>1, <2>3
    <3> HIDE DEF x
    <3>2. i = Len(stream) + j /\ i \in 1 .. Len(stream) + L /\ ~(i <= Len(stream))
          /\ i - Len(stream) = j
      BY <1>1, <2>1, <3>1
    <3> HIDE DEF i
    <3>3. longer[i] = Packet[j]
      BY <1>2, <3>2
    <3>4. QED
      BY <3>3 DEF i, x
  <2>4. QED
    BY <2>2, <2>3
<1>6. \A p \in 0 .. (k + 1) - 1 : \A j \in 1 .. L :
          p * L + j > taken => longer[p * L + j - taken] = Packet[j]
  BY <1>5
<1>7. QED
  BY <1>4, <1>6 DEF Packets, L, longer

\* Units are taken.
LEMMA PacketsDrop ==
    ASSUME NEW stream \in Seq(Units), NEW taken \in Nat, NEW k \in Nat,
           Packets(stream, taken, k), NEW n \in 0 .. Len(stream)
    PROVE  Packets(Drop(stream, n), taken + n, k)
<1> DEFINE L == Len(Packet)
           rest == Drop(stream, n)
<1>1. /\ L \in Nat /\ Len(stream) \in Nat /\ taken + Len(stream) = k * L
      /\ \A p \in 0 .. k - 1 : \A j \in 1 .. L :
             p * L + j > taken => stream[p * L + j - taken] = Packet[j]
  BY PacketUnits, SessionAssumption DEF Packets
<1>2. /\ Len(rest) = Len(stream) - n
      /\ \A i \in 1 .. Len(stream) - n : rest[i] = stream[n + i]
  BY DropPlaces
<1> HIDE DEF L, rest
<1>3. (taken + n) + Len(rest) = k * L
  <2> DEFINE y == k * L
  <2>1. taken + Len(stream) = y
    BY <1>1
  <2> HIDE DEF y
  <2>2. (taken + n) + Len(rest) = y
    BY <1>1, <1>2, <2>1
  <2>3. QED
    BY <2>2 DEF y
<1>4. ASSUME NEW p \in 0 .. k - 1, NEW j \in 1 .. L, p * L + j > taken + n
      PROVE  rest[p * L + j - (taken + n)] = Packet[j]
  <2> DEFINE x == p * L
             y == k * L
             i == x + j - (taken + n)
  <2>1. x \in Nat /\ x + L <= y /\ y = taken + Len(stream)
    BY <1>1, PacketEnds
  <2>2. x + j > taken + n
    BY <1>4
  <2>3. x + j > taken => stream[x + j - taken] = Packet[j]
    BY <1>1
  <2> HIDE DEF x, y
  <2>4. i \in 1 .. Len(stream) - n /\ n + i = x + j - taken /\ x + j > taken
    BY <1>1, <2>1, <2>2
  <2> HIDE DEF i
  <2>5. rest[i] = Packet[j]
    BY <1>2, <2>3, <2>4
  <2>6. QED
    BY <2>5 DEF i, x
<1>5. QED
  BY <1>3, <1>4 DEF Packets, L, rest

\* Whole packets that were taken need not be counted.
LEMMA PacketsNext ==
    ASSUME NEW stream \in Seq(Units), NEW q \in Nat, NEW k \in Nat, q <= k,
           Packets(stream, q * Len(Packet), k)
    PROVE  Packets(stream, 0, k - q)
<1> DEFINE L == Len(Packet)
           m == k - q
<1>1. /\ L \in Nat /\ q * L + Len(stream) = k * L /\ Len(stream) \in Nat
      /\ \A p \in 0 .. k - 1 : \A j \in 1 .. L :
             p * L + j > q * L => stream[p * L + j - q * L] = Packet[j]
  BY PacketUnits, SessionAssumption DEF Packets
<1>2. m \in Nat /\ m <= k
  OBVIOUS
<1> HIDE DEF L
<1>3. 0 + Len(stream) = m * L
  <2> DEFINE x == q * L
             y == k * L
             z == (k - q) * L
  <2>1. z = y - x /\ x \in Nat /\ y \in Nat
    BY <1>1, PacketEnds
  <2>2. x + Len(stream) = y
    BY <1>1
  <2> HIDE DEF x, y, z
  <2>3. Len(stream) = z
    BY <1>1, <2>1, <2>2
  <2>4. QED
    BY <1>1, <2>3 DEF z
<1>4. ASSUME NEW p \in 0 .. m - 1, NEW j \in 1 .. L, p * L + j > 0
      PROVE  stream[p * L + j - 0] = Packet[j]
  <2> DEFINE x == q * L
             y == p * L
             z == (q + p) * L
  <2>1. z = x + y /\ x \in Nat /\ y \in Nat
    BY <1>1
  <2>2. q + p \in 0 .. k - 1
    OBVIOUS
  <2>3. z + j > x => stream[z + j - x] = Packet[j]
    BY <1>1, <2>2
  <2> HIDE DEF x, y, z
  <2>4. z + j > x /\ z + j - x = y + j - 0
    BY <2>1, <1>1
  <2>5. stream[y + j - 0] = Packet[j]
    BY <2>3, <2>4
  <2>6. QED
    BY <2>5 DEF y
<1>5. QED
  BY <1>3, <1>4 DEF Packets, L

\* A stream that starts with a packet starts with its size.
LEMMA PacketsStart ==
    ASSUME NEW stream \in Seq(Units), NEW k \in Nat, Packets(stream, 0, k), stream # <<>>
    PROVE  /\ k >= 1 /\ Len(stream) >= Len(Packet)
           /\ stream[1] = "size" /\ stream[2] = "size"
<1> DEFINE L == Len(Packet)
<1>1. /\ L \in Nat /\ L >= 3 /\ Len(stream) \in Nat /\ Len(stream) # 0
      /\ 0 + Len(stream) = k * L
      /\ \A p \in 0 .. k - 1 : \A j \in 1 .. L :
             p * L + j > 0 => stream[p * L + j - 0] = Packet[j]
  BY PacketUnits, SessionAssumption, TwoUnits DEF Packets
<1> HIDE DEF L
<1>2. k # 0
  BY <1>1
<1>3. 0 * L = 0 /\ 0 * L + L <= k * L
  <2>1. 0 < k
    BY <1>2
  <2>2. QED
    BY <1>1, <2>1, PacketEnds
<1>4. Len(stream) >= L
  BY <1>1, <1>3
<1>5. 0 \in 0 .. k - 1 /\ 1 \in 1 .. L /\ 2 \in 1 .. L
  BY <1>1, <1>2
<1>6. stream[0 * L + 1 - 0] = Packet[1] /\ stream[0 * L + 2 - 0] = Packet[2]
  <2>1. \A j \in 1 .. L : 0 * L + j > 0 => stream[0 * L + j - 0] = Packet[j]
    BY <1>1, <1>5
  <2>2. 0 * L + 1 > 0 /\ 0 * L + 2 > 0
    BY <1>3
  <2>3. QED
    BY <1>5, <2>1, <2>2
<1>7. 0 * L + 1 - 0 = 1 /\ 0 * L + 2 - 0 = 2
  BY <1>3
<1>8. QED
  BY <1>2, <1>4, <1>6, <1>7, PacketUnits DEF L

\* The first packet is taken.
LEMMA PacketsTakeOne ==
    ASSUME NEW stream \in Seq(Units), NEW k \in Nat, NEW taken \in Nat, NEW n \in Nat,
           Packets(stream, taken, k), taken + n = Len(Packet), n <= Len(stream)
    PROVE  k >= 1 /\ Packets(Drop(stream, n), 0, k - 1)
<1> DEFINE L == Len(Packet)
<1>1. L \in Nat /\ L >= 3 /\ Len(stream) \in Nat /\ taken + Len(stream) = k * L
  BY PacketUnits, SessionAssumption DEF Packets
<1>2. Drop(stream, n) \in Seq(Units) /\ Packets(Drop(stream, n), taken + n, k)
  BY <1>1, PacketsDrop, DropPlaces
<1> HIDE DEF L
<1>3. k # 0
  BY <1>1 DEF L
<1>4. taken + n = 1 * L
  BY <1>1 DEF L
<1>5. Packets(Drop(stream, n), 1 * Len(Packet), k) /\ 1 <= k
  BY <1>2, <1>3, <1>4 DEF L
<1>6. Packets(Drop(stream, n), 0, k - 1)
  BY <1>2, <1>5, PacketsNext
<1>7. QED
  BY <1>5, <1>6

\* Units that end with a packet are packets, and so are those that follow.
LEMMA PacketsSplit ==
    ASSUME NEW stream \in Seq(Units), NEW k \in Nat, Packets(stream, 0, k),
           NEW n \in 0 .. Len(stream), n % Len(Packet) = 0
    PROVE  /\ \E m \in Nat : Packets(SubSeq(stream, 1, n), 0, m)
           /\ \E m \in Nat : Packets(Drop(stream, n), 0, m)
<1> DEFINE L == Len(Packet)
           q == n \div L
           first == SubSeq(stream, 1, n)
<1>1. /\ L \in Nat /\ L >= 3 /\ Len(stream) \in Nat /\ 0 + Len(stream) = k * L
      /\ \A p \in 0 .. k - 1 : \A j \in 1 .. L :
             p * L + j > 0 => stream[p * L + j - 0] = Packet[j]
  BY PacketUnits, SessionAssumption DEF Packets
<1>2. /\ first \in Seq(Units) /\ Len(first) = n
      /\ \A i \in 1 .. n : first[i] = stream[i]
  BY FirstPlaces
<1> HIDE DEF first, L
<1>3. q \in Nat /\ q * L = n
  <2>1. n = L * (n \div L) + (n % L) /\ n \div L \in Nat
    BY <1>1
  <2>2. n % L = 0
    BY DEF L
  <2>3. QED
    BY <1>1, <2>1, <2>2
<1> HIDE DEF q
<1>4. q <= k
  <2> SUFFICES ASSUME k < q PROVE FALSE
    BY <1>3
  <2>1. k * L + L <= q * L /\ k * L \in Nat
    BY <1>1, <1>3, PacketEnds
  <2>2. QED
    BY <1>1, <1>3, <2>1
<1>5. Packets(first, 0, q)
  <2>1. 0 + Len(first) = q * L
    BY <1>2, <1>3
  <2>2. ASSUME NEW p \in 0 .. q - 1, NEW j \in 1 .. L, p * L + j > 0
        PROVE  first[p * L + j - 0] = Packet[j]
    <3> DEFINE x == p * L
               y == q * L
    <3>1. x \in Nat /\ x + L <= y /\ y = n
      BY <1>1, <1>3, PacketEnds
    <3>2. p \in 0 .. k - 1
      BY <1>3, <1>4
    <3>3. stream[x + j - 0] = Packet[j]
      BY <1>1, <2>2, <3>2
    <3> HIDE DEF x, y
    <3>4. x + j - 0 \in 1 .. n
      BY <1>1, <3>1
    <3>5. first[x + j - 0] = Packet[j]
      BY <1>2, <3>3, <3>4
    <3>6. QED
      BY <3>5 DEF x
  <2>3. QED
    BY <2>1, <2>2 DEF Packets, L
<1>6. Packets(Drop(stream, n), 0, k - q)
  <2>1. Drop(stream, n) \in Seq(Units) /\ Packets(Drop(stream, n), 0 + n, k)
    BY PacketsDrop, DropPlaces
  <2>2. 0 + n = q * Len(Packet)
    BY <1>3 DEF L
  <2>3. QED
    BY <1>3, <1>4, <2>1, <2>2, PacketsNext
<1>7. QED
  BY <1>3, <1>4, <1>5, <1>6 DEF first

-----------------------------------------------------------------------------
(***************************************************************************)
(* The texts, and the reader of results                                    *)
(***************************************************************************)

\* No unit of a name comes from elsewhere.
LEMMA NameInParts ==
    ASSUME NEW s \in Seq(Units)
    PROVE  /\ \A t \in Seq(Units) : HasName(s \o t) => HasName(s) \/ HasName(t)
           /\ \A n \in 0 .. Len(s) : HasName(Drop(s, n)) => HasName(s)
           /\ \A n \in 0 .. Len(s) : HasName(SubSeq(s, 1, n)) => HasName(s)
           /\ IsPrefix(Text("name"), s) => HasName(s)
<1>1. ASSUME NEW t \in Seq(Units), HasName(s \o t) PROVE HasName(s) \/ HasName(t)
  <2> DEFINE both == s \o t
  <2>1. /\ Len(both) = Len(s) + Len(t) /\ Len(s) \in Nat /\ Len(t) \in Nat
        /\ \A i \in 1 .. Len(s) + Len(t) : both[i] = IF i <= Len(s) THEN s[i] ELSE t[i - Len(s)]
    BY JoinPlaces
  <2>2. PICK i \in 1 .. Len(both) : both[i] = "name"
    BY <1>1 DEF HasName
  <2> HIDE DEF both
  <2>3. CASE i <= Len(s)
    BY <2>1, <2>2, <2>3 DEF HasName
  <2>4. CASE i > Len(s)
    <3>1. i - Len(s) \in 1 .. Len(t)
      BY <2>1, <2>4
    <3>2. t[i - Len(s)] = "name"
      BY <2>1, <2>2, <2>4
    <3>3. QED
      BY <3>1, <3>2 DEF HasName
  <2>5. QED
    BY <2>1, <2>3, <2>4
<1>2. ASSUME NEW n \in 0 .. Len(s), HasName(Drop(s, n)) PROVE HasName(s)
  <2> DEFINE rest == Drop(s, n)
  <2>1. PICK i \in 1 .. Len(rest) : rest[i] = "name"
    BY <1>2 DEF HasName
  <2>2. /\ Len(s) \in Nat /\ i \in 1 .. Len(s) - n /\ s[n + i] = "name"
    <3>1. Len(rest) = Len(s) - n /\ \A j \in 1 .. Len(s) - n : rest[j] = s[n + j]
      BY DropPlaces
    <3> HIDE DEF rest
    <3>2. QED
      BY <2>1, <3>1
  <2>3. n + i \in 1 .. Len(s)
    BY <2>2
  <2>4. QED
    BY <2>2, <2>3 DEF HasName
<1>3. ASSUME NEW n \in 0 .. Len(s), HasName(SubSeq(s, 1, n)) PROVE HasName(s)
  <2>1. PICK i \in 1 .. Len(SubSeq(s, 1, n)) : SubSeq(s, 1, n)[i] = "name"
    BY <1>3 DEF HasName
  <2>2. Len(s) \in Nat /\ i \in 1 .. n /\ s[i] = "name"
    BY <2>1, FirstPlaces
  <2>3. i \in 1 .. Len(s)
    BY <2>2
  <2>4. QED
    BY <2>2, <2>3 DEF HasName
<1>4. IsPrefix(Text("name"), s) => HasName(s)
  <2> SUFFICES ASSUME IsPrefix(Text("name"), s) PROVE HasName(s)
    OBVIOUS
  <2>1. Len(s) >= 2 /\ s[1] = "name" /\ Len(s) \in Nat
    BY PrefixOfTwo, TwoUnits DEF Text
  <2>2. 1 \in 1 .. Len(s)
    BY <2>1
  <2>3. QED
    BY <2>1, <2>2 DEF HasName
<1>5. QED
  BY <1>1, <1>2, <1>3, <1>4

\* What is sent to a client before its name, and after it, holds none.
LEMMA NamelessTexts ==
    /\ ~HasName(<<>>) /\ ~HasName(Text("greeting")) /\ ~HasName(Text("busy"))
    /\ ~HasName(Packet)
<1>1. ~HasName(<<>>) /\ ~HasName(Text("greeting")) /\ ~HasName(Text("busy"))
  BY DEF HasName, Text
<1>2. ~HasName(Packet)
  BY PacketUnits DEF HasName
<1>3. QED
  BY <1>1, <1>2

\* The texts have two units.
LEMMA TextUnits ==
    ASSUME NEW kind \in Units
    PROVE  /\ Text(kind) \in Seq(Units) /\ Len(Text(kind)) = 2
           /\ Text(kind) # <<>>
           /\ Text(kind)[1] = kind
           /\ Drop(Text(kind), 2) = <<>> /\ SubSeq(Text(kind), 1, 2) = Text(kind)
           /\ IsPrefix(Text(kind), Text(kind))
<1> DEFINE text == Text(kind)
<1>1. text \in Seq(Units) /\ Len(text) = 2 /\ text # <<>> /\ text[1] = kind /\ text[2] = kind
  BY DEF Text
<1>2. Drop(text, 2) = <<>>
  <2>1. Drop(text, 2) \in Seq(Units) /\ Len(Drop(text, 2)) = 0
    <3>1. 2 \in 0 .. Len(text) /\ Len(text) - 2 = 0
      BY <1>1
    <3> HIDE DEF text
    <3>2. QED
      BY <1>1, <3>1, DropPlaces
  <2>2. QED
    BY <2>1, TwoUnits
<1>3. SubSeq(text, 1, 2) = text
  <2> DEFINE first == SubSeq(text, 1, 2)
  <2>1. first \in Seq(Units) /\ Len(first) = 2 /\ \A i \in 1 .. 2 : first[i] = text[i]
    BY <1>1, FirstPlaces
  <2> HIDE DEF text, first
  <2>2. first = text
    BY <1>1, <2>1, SameUnits
  <2>3. QED
    BY <2>2 DEF first
<1>4. IsPrefix(text, text)
  BY <1>1 DEF IsPrefix
<1>5. QED
  BY <1>1, <1>2, <1>3, <1>4

\* The part of a text that arrives is all of it, or one unit and no text.
LEMMA PartOfText ==
    ASSUME NEW kind \in Units, NEW n \in 1 .. Len(Text(kind))
    PROVE  \/ /\ n = 2 /\ SubSeq(Text(kind), 1, n) = Text(kind)
              /\ Drop(Text(kind), n) = <<>>
           \/ /\ n = 1 /\ Len(SubSeq(Text(kind), 1, n)) = 1
              /\ \A other \in Units : ~IsPrefix(Text(other), SubSeq(Text(kind), 1, n))
<1>1. Text(kind) \in Seq(Units) /\ Len(Text(kind)) = 2
  BY TextUnits
<1>2. n = 1 \/ n = 2
  BY <1>1
<1>3. CASE n = 2
  BY <1>3, TextUnits
<1>4. CASE n = 1
  <2> DEFINE first == SubSeq(Text(kind), 1, n)
  <2>1. first \in Seq(Units) /\ Len(first) = 1
    BY <1>1, <1>4, FirstPlaces
  <2> HIDE DEF first
  <2>2. \A other \in Units : ~IsPrefix(Text(other), first)
    BY <2>1, PrefixOfTwo DEF Text
  <2>3. QED
    BY <1>4, <2>1, <2>2 DEF first
<1>5. QED
  BY <1>2, <1>3, <1>4

TakenWhen(expecting) == IF expecting = 0 THEN 0 ELSE Len(SizeField)

\* Reading leaves a part of the buffer.
LEMMA ReadResultTypes ==
    ASSUME NEW buffer \in Seq(Units), NEW expecting \in {0, BodyUnits}
    PROVE  LET read == ReadResult(buffer, expecting) IN
               /\ read.buffer \in Seq(Units)
               /\ read.expecting \in {0, BodyUnits}
               /\ read.garbled \in BOOLEAN
               /\ HasName(read.buffer) => HasName(buffer)
<1> DEFINE read == ReadResult(buffer, expecting)
           rest == Drop(buffer, 2)
<1>1. /\ BodyUnits \in Nat \ {0} /\ Len(SizeField) = 2 /\ Len(buffer) \in Nat
      /\ SizeField = <<"size", "size">>
  BY SessionAssumption, PacketUnits DEF SizeField
<1>2. <<>> \in Seq(Units) /\ ~HasName(<<>>)
  BY NamelessTexts
<1>3. CASE buffer = <<>>
  BY <1>1, <1>2, <1>3 DEF ReadResult
<1>4. CASE buffer # <<>> /\ expecting = 0 /\ ~IsPrefix(SizeField, buffer)
  <2>1. read = [buffer |-> <<>>, expecting |-> 0, garbled |-> TRUE]
    BY <1>1, <1>4 DEF ReadResult
  <2>2. QED
    BY <1>2, <2>1
<1>5. CASE buffer # <<>> /\ expecting = 0 /\ IsPrefix(SizeField, buffer)
  <2>1. Len(buffer) >= 2
    BY <1>1, <1>5, PrefixOfTwo
  <2>2. /\ rest \in Seq(Units) /\ Len(rest) = Len(buffer) - 2
        /\ HasName(rest) => HasName(buffer)
    BY <1>1, <2>1, DropPlaces, NameInParts
  <2>3. read = IF Len(buffer) - 2 >= BodyUnits
               THEN [buffer |-> Drop(rest, BodyUnits), expecting |-> 0,
                     garbled |-> Len(rest) < BodyUnits]
               ELSE [buffer |-> rest, expecting |-> BodyUnits, garbled |-> FALSE]
    BY <1>1, <1>5 DEF ReadResult, Available, SizeOfResult
  <2> HIDE DEF rest, read
  <2>4. CASE Len(buffer) - 2 >= BodyUnits
    <3>1. BodyUnits \in 0 .. Len(rest)
      BY <1>1, <2>2, <2>4
    <3>2. Drop(rest, BodyUnits) \in Seq(Units) /\ (HasName(Drop(rest, BodyUnits)) => HasName(rest))
      BY <2>2, <3>1, DropPlaces, NameInParts
    <3>3. read = [buffer |-> Drop(rest, BodyUnits), expecting |-> 0,
                  garbled |-> Len(rest) < BodyUnits]
      BY <2>3, <2>4
    <3>4. QED
      BY <2>2, <3>2, <3>3 DEF read
  <2>5. CASE ~(Len(buffer) - 2 >= BodyUnits)
    <3>1. read = [buffer |-> rest, expecting |-> BodyUnits, garbled |-> FALSE]
      BY <2>3, <2>5
    <3>2. QED
      BY <2>2, <3>1 DEF read
  <2>6. QED
    BY <2>4, <2>5
<1>6. CASE buffer # <<>> /\ expecting # 0
  <2>1. expecting = BodyUnits
    BY <1>6
  <2>2. read = IF Len(buffer) >= BodyUnits
               THEN [buffer |-> Drop(buffer, BodyUnits), expecting |-> 0,
                     garbled |-> Len(buffer) < BodyUnits]
               ELSE [buffer |-> buffer, expecting |-> BodyUnits, garbled |-> FALSE]
    BY <1>1, <1>6, <2>1 DEF ReadResult, Available
  <2> HIDE DEF read
  <2>3. CASE Len(buffer) >= BodyUnits
    <3>1. BodyUnits \in 0 .. Len(buffer)
      BY <1>1, <2>3
    <3>2. /\ Drop(buffer, BodyUnits) \in Seq(Units)
          /\ HasName(Drop(buffer, BodyUnits)) => HasName(buffer)
      BY <3>1, DropPlaces, NameInParts
    <3>3. read = [buffer |-> Drop(buffer, BodyUnits), expecting |-> 0,
                  garbled |-> Len(buffer) < BodyUnits]
      BY <2>2, <2>3
    <3>4. QED
      BY <3>2, <3>3 DEF read
  <2>4. CASE ~(Len(buffer) >= BodyUnits)
    <3>1. read = [buffer |-> buffer, expecting |-> BodyUnits, garbled |-> FALSE]
      BY <2>2, <2>4
    <3>2. QED
      BY <3>1 DEF read
  <2>5. QED
    BY <2>3, <2>4
<1>7. QED
  BY <1>3, <1>4, <1>5, <1>6

\* A quotient below two, for what is read at once
LEMMA OneResult ==
    ASSUME NEW L \in Nat \ {0}, NEW x \in Nat
    PROVE  /\ x \div L \in Nat
           /\ ~(x \div L > 1) => x < 2 * L
           /\ x < L => x \div L = 0
<1> DEFINE q == x \div L
           r == x % L
<1>1. q \in Nat /\ r \in 0 .. L - 1 /\ x = L * q + r
  OBVIOUS
<1> HIDE DEF q, r
<1>2. ASSUME ~(q > 1) PROVE x < 2 * L
  <2>1. q = 0 \/ q = 1
    BY <1>1, <1>2
  <2>2. CASE q = 0
    BY <1>1, <2>2
  <2>3. CASE q = 1
    BY <1>1, <2>3
  <2>4. QED
    BY <2>1, <2>2, <2>3
<1>3. ASSUME x < L PROVE q = 0
  <2> SUFFICES ASSUME q # 0 PROVE FALSE
    OBVIOUS
  <2> DEFINE m == q - 1
  <2>1. m \in Nat /\ q = m + 1
    BY <1>1
  <2> HIDE DEF m
  <2>2. L * q = L * m + L /\ L * m \in Nat
    BY <2>1
  <2>3. QED
    BY <1>1, <1>3, <2>2
<1>4. QED
  BY <1>1, <1>2, <1>3 DEF q

\* The body of a packet whose size was read is taken from the buffer.
LEMMA TakeTheBody ==
    ASSUME NEW buffer \in Seq(Units), NEW later \in Seq(Units), NEW k \in Nat,
           Packets(buffer \o later, 2, k), BodyUnits \in 0 .. Len(buffer)
    PROVE  \E m \in Nat : Packets(Drop(buffer, BodyUnits) \o later, 0, m)
<1> DEFINE stream == buffer \o later
<1>1. stream \in Seq(Units) /\ Len(stream) = Len(buffer) + Len(later)
  BY JoinPlaces
<1>2. /\ BodyUnits \in Nat /\ 2 + BodyUnits = Len(Packet) /\ BodyUnits <= Len(stream)
      /\ Packets(stream, 2, k)
  BY <1>1, PacketUnits
<1>3. Drop(buffer, BodyUnits) \o later = Drop(stream, BodyUnits)
  BY DropOfJoin
<1> HIDE DEF stream
<1>4. k >= 1 /\ Packets(Drop(stream, BodyUnits), 0, k - 1)
  BY <1>1, <1>2, PacketsTakeOne
<1>5. k - 1 \in Nat
  BY <1>4
<1>6. QED
  BY <1>3, <1>4, <1>5

\* Results are read one after the other as long as no size field is cut, and
\* at most one waits when no two came at once.
LEMMA ReadResultPackets ==
    ASSUME NEW buffer \in Seq(Units), NEW later \in Seq(Units),
           NEW expecting \in {0, BodyUnits}, NEW k \in Nat,
           Packets(buffer \o later, TakenWhen(expecting), k),
           ~(expecting = 0 /\ Len(buffer) % Len(Packet) = 1)
    PROVE  LET read == ReadResult(buffer, expecting) IN
               /\ ~read.garbled
               /\ \E m \in Nat : Packets(read.buffer \o later, TakenWhen(read.expecting), m)
               /\ ~(ResultsIn(buffer, expecting) > 1)
                      => TakenWhen(read.expecting) + Len(read.buffer) < Len(Packet)
<1> DEFINE read == ReadResult(buffer, expecting)
           stream == buffer \o later
<1>1. /\ BodyUnits \in Nat \ {0} /\ Len(SizeField) = 2 /\ Len(Packet) = BodyUnits + 2
      /\ SizeField = <<"size", "size">> /\ Len(buffer) \in Nat /\ Len(later) \in Nat
  BY SessionAssumption, PacketUnits DEF SizeField
<1>2. /\ stream \in Seq(Units) /\ Len(stream) = Len(buffer) + Len(later)
      /\ \A i \in 1 .. Len(buffer) + Len(later) :
             stream[i] = IF i <= Len(buffer) THEN buffer[i] ELSE later[i - Len(buffer)]
  BY JoinPlaces
<1>3. TakenWhen(0) = 0 /\ TakenWhen(BodyUnits) = 2
  BY <1>1 DEF TakenWhen
<1>4. CASE buffer = <<>>
  <2>1. read = [buffer |-> <<>>, expecting |-> expecting, garbled |-> FALSE]
    BY <1>4 DEF ReadResult
  <2>2. read.buffer = buffer /\ read.expecting = expecting /\ ~read.garbled /\ Len(buffer) = 0
    BY <1>4, <2>1
  <2> HIDE DEF read
  <2>3. Packets(read.buffer \o later, TakenWhen(read.expecting), k)
    BY <2>2
  <2>4. TakenWhen(read.expecting) + Len(read.buffer) < Len(Packet)
    BY <1>1, <1>3, <2>2
  <2>5. QED
    BY <2>2, <2>3, <2>4 DEF read
<1>5. CASE buffer # <<>> /\ expecting = 0
  <2> DEFINE rest == Drop(buffer, 2)
  <2>1. Packets(stream, 0, k)
    BY <1>3, <1>5
  <2>2. Len(buffer) # 0 /\ Len(stream) # 0 /\ stream # <<>>
    BY <1>1, <1>2, <1>5, TwoUnits
  <2> HIDE DEF stream
  <2>3. stream[1] = "size" /\ stream[2] = "size"
    BY <1>2, <2>1, <2>2, PacketsStart
  <2>4. Len(buffer) # 1
    <3>1. Len(buffer) = 1 => Len(buffer) % Len(Packet) = 1
      <4> SUFFICES ASSUME NEW L \in Nat, L >= 3 PROVE 1 % L = 1
        BY <1>1
      <4>1. QED
        OBVIOUS
    <3>2. QED
      BY <1>5, <3>1
  <2>5. Len(buffer) >= 2 /\ buffer[1] = "size" /\ buffer[2] = "size"
    <3>1. Len(buffer) \in Nat /\ Len(later) \in Nat /\ Len(buffer) >= 2
      <4>1. Len(buffer) \in Nat /\ Len(later) \in Nat
        BY <1>1
      <4>2. Len(buffer) # 0 /\ Len(buffer) # 1
        BY <2>2, <2>4
      <4> DEFINE n == Len(buffer)
      <4>3. n \in Nat /\ n # 0 /\ n # 1
        BY <4>1, <4>2
      <4> HIDE DEF n
      <4>4. n >= 2
        BY <4>3
      <4>5. QED
        BY <4>1, <4>4 DEF n
    <3>2. 1 \in 1 .. Len(buffer) + Len(later) /\ 2 \in 1 .. Len(buffer) + Len(later)
          /\ 1 <= Len(buffer) /\ 2 <= Len(buffer)
      BY <3>1
    <3>3. stream[1] = buffer[1] /\ stream[2] = buffer[2]
      BY <1>2, <3>2
    <3>4. QED
      BY <2>3, <3>2, <3>3
  <2>6. IsPrefix(SizeField, buffer)
    BY <1>1, <2>5, PrefixOfTwo
  <2>7. rest \in Seq(Units) /\ Len(rest) = Len(buffer) - 2
    BY <1>1, <2>5, DropPlaces
  <2>8. Packets(rest \o later, 2, k)
    <3>1. 2 \in 0 .. Len(buffer) /\ 2 \in 0 .. Len(stream)
      BY <1>1, <1>2, <2>5
    <3>2. rest \o later = Drop(stream, 2)
      BY <3>1, DropOfJoin DEF stream
    <3>3. Packets(Drop(stream, 2), 0 + 2, k)
      BY <1>2, <2>1, <3>1, PacketsDrop
    <3>4. 0 + 2 = 2
      OBVIOUS
    <3> HIDE DEF rest
    <3>5. QED
      BY <3>2, <3>3, <3>4
  <2>9. read = IF Len(buffer) - 2 >= BodyUnits
               THEN [buffer |-> Drop(rest, BodyUnits), expecting |-> 0,
                     garbled |-> Len(rest) < BodyUnits]
               ELSE [buffer |-> rest, expecting |-> BodyUnits, garbled |-> FALSE]
    BY <1>1, <1>5, <2>6 DEF ReadResult, Available, SizeOfResult
  <2> HIDE DEF rest, read
  <2>10. CASE Len(buffer) - 2 >= BodyUnits
    <3> DEFINE after == Drop(rest, BodyUnits)
    <3>1. BodyUnits \in 0 .. Len(rest) /\ (Len(rest) < BodyUnits) = FALSE
      BY <1>1, <2>7, <2>10
    <3>2. read = [buffer |-> after, expecting |-> 0, garbled |-> FALSE]
      BY <2>9, <2>10, <3>1
    <3>3. Len(after) = Len(buffer) - 2 - BodyUnits
      BY <2>7, <3>1, DropPlaces
    <3>4. \E m \in Nat : Packets(after \o later, 0, m)
      BY <1>1, <2>7, <2>8, <3>1, TakeTheBody
    <3> HIDE DEF after
    <3>5. ~(ResultsIn(buffer, 0) > 1) => Len(after) < Len(Packet)
      <4> SUFFICES ASSUME ~((Len(buffer) + 0) \div Len(Packet) > 1) PROVE Len(after) < Len(Packet)
        BY DEF ResultsIn
      <4>1. Len(Packet) \in Nat \ {0} /\ Len(buffer) + 0 \in Nat
        BY <1>1
      <4>2. Len(buffer) + 0 < 2 * Len(Packet)
        BY <4>1, OneResult
      <4>3. QED
        BY <1>1, <3>3, <4>2
    <3>6. ~read.garbled /\ read.buffer = after /\ read.expecting = 0
      BY <3>2
    <3>7. Len(after) \in Nat
      BY <1>1, <2>10, <3>3
    <3>8. QED
      BY <1>3, <1>5, <3>4, <3>5, <3>6, <3>7 DEF read
  <2>11. CASE ~(Len(buffer) - 2 >= BodyUnits)
    <3>1. ~read.garbled /\ read.buffer = rest /\ read.expecting = BodyUnits
      BY <2>9, <2>11
    <3>2. 2 + Len(rest) < Len(Packet)
      BY <1>1, <2>7, <2>11
    <3>3. QED
      BY <1>3, <2>8, <3>1, <3>2 DEF read
  <2>12. QED
    BY <2>10, <2>11
<1>6. CASE buffer # <<>> /\ expecting # 0
  <2>1. expecting = BodyUnits /\ Packets(buffer \o later, 2, k)
    BY <1>3, <1>6
  <2>2. read = IF Len(buffer) >= BodyUnits
               THEN [buffer |-> Drop(buffer, BodyUnits), expecting |-> 0,
                     garbled |-> Len(buffer) < BodyUnits]
               ELSE [buffer |-> buffer, expecting |-> BodyUnits, garbled |-> FALSE]
    BY <1>1, <1>6, <2>1 DEF ReadResult, Available
  <2> HIDE DEF read
  <2>3. CASE Len(buffer) >= BodyUnits
    <3> DEFINE after == Drop(buffer, BodyUnits)
    <3>1. BodyUnits \in 0 .. Len(buffer) /\ (Len(buffer) < BodyUnits) = FALSE
      BY <1>1, <2>3
    <3>2. read = [buffer |-> after, expecting |-> 0, garbled |-> FALSE]
      BY <2>2, <2>3, <3>1
    <3>3. Len(after) = Len(buffer) - BodyUnits
      BY <3>1, DropPlaces
    <3>4. \E m \in Nat : Packets(after \o later, 0, m)
      BY <1>1, <2>1, <3>1, TakeTheBody
    <3> HIDE DEF after
    <3>5. ~(ResultsIn(buffer, BodyUnits) > 1) => Len(after) < Len(Packet)
      <4> SUFFICES ASSUME ~((Len(buffer) + 2) \div Len(Packet) > 1) PROVE Len(after) < Len(Packet)
        BY <1>1 DEF ResultsIn
      <4> DEFINE L == Len(Packet)
      <4>1. L \in Nat \ {0}
        BY <1>1
      <4> HIDE DEF L
      <4>2. Len(buffer) + 2 \in Nat
        BY <1>1
      <4>3. Len(buffer) + 2 < 2 * L
        BY <4>1, <4>2, OneResult DEF L
      <4>4. QED
        BY <1>1, <3>3, <4>3 DEF L
    <3>6. ~read.garbled /\ read.buffer = after /\ read.expecting = 0
      BY <3>2
    <3>7. Len(after) \in Nat
      BY <1>1, <2>3, <3>3
    <3>8. QED
      BY <1>3, <2>1, <3>4, <3>5, <3>6, <3>7 DEF read
  <2>4. CASE ~(Len(buffer) >= BodyUnits)
    <3>1. ~read.garbled /\ read.buffer = buffer /\ read.expecting = BodyUnits
      BY <2>2, <2>4
    <3>2. 2 + Len(buffer) < Len(Packet)
      BY <1>1, <2>4
    <3>3. QED
      BY <1>3, <2>1, <3>1, <3>2 DEF read
  <2>5. QED
    BY <2>3, <2>4
<1>7. QED
  BY <1>4, <1>5, <1>6

-----------------------------------------------------------------------------
(***************************************************************************)
(* What a step that is not about a connection leaves alone                 *)
(***************************************************************************)

\* All that belongs to one connection, but for the server's end
Side(d) == <<up[d], upBuffer[d], down[d], downBuffer[d], dialog[d], clientEnd[d],
             m_renderServerState[d], newCommands[d], m_currentCommand[d],
             m_expectingSize[d], clientGarbled[d], numRequests[d]>>

\* The parts of the invariant that are about one connection
SideInv(d) == Fresh(d) /\ Command(d) /\ Answers(d)

\* A connection to which nothing happens, except that the server closes its end
LEMMA SameSide ==
    ASSUME NEW d \in Connections, SideInv(d), UNCHANGED Side(d),
           serverEnd'[d] = serverEnd[d] \/ serverEnd'[d] \notin {"none", "pending"},
           dialog[d] \in {"form", "connecting"} => serverEnd'[d] = "none",
           servedSocket' = d => servedSocket = d,
           servedSocket' = d /\ m_renderState' = "RENDERING" => m_renderState = "RENDERING",
           d \in cutAnswer' <=> d \in cutAnswer,
           d \in coalesced' <=> d \in coalesced,
           d \in strays => d \in strays'
    PROVE  SideInv(d)'
<1> USE DEF SideInv, Side
<1>1. Fresh(d)'
  BY DEF Fresh
<1>2. Command(d)'
  BY DEF Command
<1>3. Answers(d)'
  BY DEF Answers, Taken
<1>4. QED
  BY <1>1, <1>2, <1>3

\* RenderServer does nothing, and to the client it serves nothing happens but that
\* it reads, or that one of the ends is closed.
LEMMA SameServer ==
    ASSUME IntroductionInv, RequestInv, AskedInv,
           servedSocket \in Connections \cup {NoConnection},
           UNCHANGED <<serverVars, results, strays>>,
           \A c \in Connections : c = servedSocket =>
               /\ UNCHANGED <<up[c], upBuffer[c], numRequests[c]>>
               /\ serverEnd'[c] = "open" => serverEnd[c] = "open"
               /\ clientGarbled[c] => clientGarbled'[c]
               /\ m_renderServerState[c] \in {"RENDERING", "DISCONNECTED"}
                      => m_renderServerState'[c] \in {"RENDERING", "DISCONNECTED"}
               /\ m_renderState = "WAITING_FOR_INTRODUCTION_REQUEST" =>
                      /\ ~HasName(down'[c]) /\ ~HasName(downBuffer'[c])
                      /\ m_renderServerState'[c] # "RENDERING"
    PROVE  IntroductionInv' /\ RequestInv' /\ AskedInv'
<1> USE SessionAssumption DEF serverVars
<1>1. m_renderState = "RENDERING" => servedSocket \in Connections
  BY DEF IntroductionInv
<1>2. IntroductionInv'
  BY DEF IntroductionInv
<1>3. RequestInv'
  BY <1>1 DEF RequestInv
<1>4. AskedInv'
  <2>1. CASE servedSocket \in Connections
    BY <2>1 DEF AskedInv
  <2>2. CASE servedSocket = NoConnection
    BY <2>2, <1>2 DEF AskedInv, IntroductionInv
  <2>3. QED
    BY <2>1, <2>2
<1>5. QED
  BY <1>2, <1>3, <1>4

\* Nothing has been said.
LEMMA InitStream == Init => StreamInv
<1> SUFFICES ASSUME Init PROVE StreamInv
  OBVIOUS
<1> USE SessionAssumption DEF Init
<1>1. StreamTypes
  BY DEF StreamTypes, ServerEnds, ServerStates, Dialogs
<1>2. BacklogInv
  BY DEF BacklogInv
<1>3. ASSUME NEW c \in Connections PROVE Fresh(c) /\ Command(c) /\ Answers(c)
  BY <1>3 DEF Fresh, Command, Answers
<1>4. IntroductionInv /\ RequestInv /\ AskedInv
  BY DEF IntroductionInv, RequestInv, AskedInv
<1>5. QED
  BY <1>1, <1>2, <1>3, <1>4 DEF StreamInv

-----------------------------------------------------------------------------
(***************************************************************************)
(* The window                                                              *)
(***************************************************************************)

\* The server closes ends of connections, and perhaps forgets those that wait.
LEMMA EndsCloseStream ==
    ASSUME StreamInv, serverEnd' \in [Connections -> ServerEnds],
           UNCHANGED <<serverVars, results, clientEnd, up, upBuffer, down, downBuffer,
                       dialog, connectionVars, strays>>,
           \A d \in Connections :
               \/ serverEnd'[d] = serverEnd[d]
               \/ serverEnd'[d] \in {"closing", "closed"} /\ serverEnd[d] # "none",
           \/ backlog' = <<>>
           \/ /\ backlog' = backlog
              /\ \A d \in Connections : serverEnd[d] = "pending" => serverEnd'[d] = "pending"
    PROVE  StreamInv'
<1> USE DEF StreamInv, serverVars, connectionVars
<1>1. StreamTypes'
  <2>1. backlog' \in Seq(Connections)
    <3>1. backlog' = <<>> \/ backlog' = backlog
      OBVIOUS
    <3>2. backlog \in Seq(Connections)
      BY DEF StreamTypes
    <3>3. CASE backlog' = <<>>
      BY <3>3
    <3>4. CASE backlog' = backlog
      BY <3>2, <3>4
    <3>5. QED
      BY <3>1, <3>3, <3>4
  <2>2. QED
    BY <2>1 DEF StreamTypes
<1>2. BacklogInv'
  <2>1. \A i \in 1 .. Len(backlog) : backlog[i] \in Connections
    BY DEF StreamTypes
  <2>2. QED
    BY <2>1 DEF BacklogInv
<1>3. ASSUME NEW d \in Connections PROVE SideInv(d)'
  <2>1. SideInv(d) /\ UNCHANGED Side(d)
    BY DEF SideInv, Side
  <2>2. dialog[d] \in {"form", "connecting"} => serverEnd'[d] = "none"
    BY DEF Fresh
  <2>3. QED
    BY <2>1, <2>2, SameSide
<1>4. IntroductionInv' /\ RequestInv' /\ AskedInv'
  <2>1. servedSocket \in Connections \cup {NoConnection}
    BY DEF StreamTypes
  <2>2. \A c \in Connections : serverEnd'[c] = "open" => serverEnd[c] = "open"
    OBVIOUS
  <2>3. \A c \in Connections :
            c = servedSocket /\ m_renderState = "WAITING_FOR_INTRODUCTION_REQUEST" =>
                /\ ~HasName(down'[c]) /\ ~HasName(downBuffer'[c])
                /\ m_renderServerState'[c] # "RENDERING"
    BY DEF IntroductionInv
  <2>4. QED
    BY <2>1, <2>2, <2>3, SameServer
<1>5. QED
  BY <1>1, <1>2, <1>3, <1>4 DEF SideInv

\* A crash closes everything.
LEMMA CrashStream ==
    ASSUME StreamInv, Crash,
           UNCHANGED <<serverVars, results, clientEnd, up, upBuffer, down, downBuffer,
                       dialog, connectionVars, strays>>
    PROVE  StreamInv'
<1>1. /\ serverEnd' \in [Connections -> ServerEnds] /\ backlog' = <<>>
      /\ \A d \in Connections :
             \/ serverEnd'[d] = serverEnd[d]
             \/ serverEnd'[d] \in {"closing", "closed"} /\ serverEnd[d] # "none"
  BY DEF Crash, ServerEnds
<1>2. QED
  BY <1>1, EndsCloseStream

\* The choice of a device, and the start of the server
LEMMA StartStream ==
    ASSUME StreamInv, SelectComputeDevice \/ StartServer
    PROVE  StreamInv'
<1> USE DEF StreamInv
<1>1. serverEnd \in [Connections -> ServerEnds]
  BY DEF StreamTypes
<1>2. CASE SelectComputeDevice /\ isInitialized
  BY <1>2, CrashStream DEF SelectComputeDevice
<1>3. CASE SelectComputeDevice /\ ~isInitialized
  BY <1>1, <1>3, EndsCloseStream DEF SelectComputeDevice
<1>4. CASE StartServer
  BY <1>1, <1>4, EndsCloseStream DEF StartServer
<1>5. QED
  BY <1>2, <1>3, <1>4

\* The end of a connection that was served
LEMMA DisconnectedStream ==
    ASSUME StreamInv, NEW c \in Connections, ClientConnectionDisconnected(c)
    PROVE  StreamInv'
<1>1. serverEnd \in [Connections -> ServerEnds]
  BY DEF StreamInv, StreamTypes
<1>2. /\ serverEnd[c] \in {"open", "closing"}
      /\ serverEnd' = [serverEnd EXCEPT ![c] = "closed"]
      /\ backlog' = backlog
      /\ UNCHANGED <<serverVars, results, clientEnd, up, upBuffer, down, downBuffer,
                     dialog, connectionVars, strays>>
  BY DEF ClientConnectionDisconnected, Set
<1>3. /\ serverEnd' \in [Connections -> ServerEnds]
      /\ \A d \in Connections : serverEnd'[d] = IF d = c THEN "closed" ELSE serverEnd[d]
  BY <1>1, <1>2 DEF ServerEnds
<1>4. \A d \in Connections :
          /\ \/ serverEnd'[d] = serverEnd[d]
             \/ serverEnd'[d] \in {"closing", "closed"} /\ serverEnd[d] # "none"
          /\ serverEnd[d] = "pending" => serverEnd'[d] = "pending"
  BY <1>2, <1>3
<1>5. QED
  BY <1>2, <1>3, <1>4, EndsCloseStream

\* A reset drops the connections that wait, and the client that is served.
LEMMA ResetStream ==
    ASSUME IInv, StreamInv, resetProcess
    PROVE  StreamInv'
<1>1. serverEnd \in [Connections -> ServerEnds] /\ backlog \in Seq(Connections)
  BY DEF StreamInv, StreamTypes
<1>2. UNCHANGED <<serverVars, results, clientEnd, up, upBuffer, down, downBuffer,
                  dialog, connectionVars, strays>>
  BY DEF resetProcess
<1>3. CASE Crash
  BY <1>2, <1>3, CrashStream
<1>4. CASE /\ ResetWindow
           /\ serverEnd' = [c \in Connections |->
                               IF c = m_clientSocket THEN "closing"
                               ELSE IF c \in ToSet(backlog) THEN "closed" ELSE serverEnd[c]]
  <2>1. backlog' = <<>>
    BY <1>4 DEF ResetWindow
  <2>2. \A d \in Connections : d = m_clientSocket => serverEnd[d] # "none"
    <3>1. m_clientSocket # NoConnection => servedSocket = m_clientSocket
      BY DEF IInv, ClientInv, ReadyIsComplete, resetProcess, MainIsFree
    <3>2. QED
      BY <3>1, SessionAssumption DEF StreamInv, Fresh
  <2>3. \A d \in Connections : d \in ToSet(backlog) => serverEnd[d] = "pending"
    BY <1>1 DEF StreamInv, BacklogInv, ToSet
  <2>4. /\ serverEnd' \in [Connections -> ServerEnds]
        /\ \A d \in Connections :
               serverEnd'[d] = IF d = m_clientSocket THEN "closing"
                               ELSE IF d \in ToSet(backlog) THEN "closed" ELSE serverEnd[d]
    BY <1>1, <1>4 DEF ServerEnds
  <2>5. \A d \in Connections :
            \/ serverEnd'[d] = serverEnd[d]
            \/ serverEnd'[d] \in {"closing", "closed"} /\ serverEnd[d] # "none"
    BY <2>2, <2>3, <2>4
  <2>6. QED
    BY <1>2, <2>1, <2>4, <2>5, EndsCloseStream
<1>5. QED
  BY <1>3, <1>4 DEF resetProcess

\* The first connection that waits
LEMMA FirstWaits ==
    ASSUME NEW S, NEW queue \in Seq(S), queue # <<>>
    PROVE  /\ Head(queue) \in S /\ Tail(queue) \in Seq(S) /\ Head(queue) = queue[1]
           /\ Len(queue) \in Nat /\ 1 \in 1 .. Len(queue)
           /\ Len(Tail(queue)) = Len(queue) - 1
           /\ \A i \in 1 .. Len(Tail(queue)) :
                  i + 1 \in 1 .. Len(queue) /\ Tail(queue)[i] = queue[i + 1] /\ i + 1 # 1
OBVIOUS

\* A client that is accepted finds the server without what was said to others, but
\* for results that are late.
LEMMA AcceptStream ==
    ASSUME StreamInv, onNewConnection, AcceptClient(Head(backlog))
    PROVE  StreamInv'
<1> DEFINE c == Head(backlog)
<1>1. /\ c \in Connections /\ Tail(backlog) \in Seq(Connections) /\ c = backlog[1]
      /\ Len(backlog) \in Nat /\ 1 \in 1 .. Len(backlog)
      /\ Len(Tail(backlog)) = Len(backlog) - 1
      /\ \A i \in 1 .. Len(Tail(backlog)) :
             i + 1 \in 1 .. Len(backlog) /\ Tail(backlog)[i] = backlog[i + 1] /\ i + 1 # 1
  BY FirstWaits DEF onNewConnection, StreamInv, StreamTypes
<1>2. serverEnd[c] = "pending" /\ \A i \in 1 .. Len(Tail(backlog)) : Tail(backlog)[i] # c
  BY <1>1 DEF StreamInv, BacklogInv
<1>3. Serve(c) /\ backlog' = Tail(backlog)
  BY DEF onNewConnection, AcceptClient
<1> HIDE DEF c
<1>4. /\ UNCHANGED <<results, clientEnd, up, upBuffer, downBuffer, dialog, connectionVars>>
      /\ ~reading
  BY DEF onNewConnection, MainIsFree
<1>5. /\ serverEnd' = [serverEnd EXCEPT ![c] = "open"]
      /\ down' = [down EXCEPT ![c] = Text("greeting")]
      /\ servedSocket' = c /\ m_renderState' = "WAITING_FOR_INTRODUCTION_REQUEST"
      /\ m_clientExpectingBytes' = 0 /\ ~serverGarbled' /\ queued' = 0 /\ parsed' = 0
      /\ ~cutRequest' /\ ~reading'
      /\ strays' = IF results > 0 THEN strays \cup {c} ELSE strays
  BY <1>3, <1>4 DEF Serve, Set
<1>6. /\ up[c] = <<>> /\ upBuffer[c] = <<>> /\ downBuffer[c] = <<>>
      /\ dialog[c] \notin {"form", "connecting", "handing", "accepted"}
      /\ m_renderServerState[c] = "NO_DEVICE_INFORMATION"
      /\ numRequests[c] = 0 /\ Command(c)
  BY <1>1, <1>2 DEF StreamInv, Fresh, Command
<1>7. Text("greeting") \in Seq(Units) /\ ~HasName(Text("greeting")) /\ ~HasName(<<>>)
  BY NamelessTexts, TextUnits DEF Units
<1>8. StreamTypes'
  BY <1>1, <1>3, <1>4, <1>5, <1>7 DEF StreamInv, StreamTypes, ServerEnds, connectionVars
<1>9. /\ serverEnd'[c] = "open" /\ down'[c] = Text("greeting")
      /\ \A d \in Connections : d # c => serverEnd'[d] = serverEnd[d] /\ down'[d] = down[d]
  BY <1>1, <1>5 DEF StreamInv, StreamTypes
<1>10. BacklogInv'
  <2>1. \A i \in 1 .. Len(Tail(backlog)) : serverEnd'[Tail(backlog)[i]] = "pending"
    <3> SUFFICES ASSUME NEW i \in 1 .. Len(Tail(backlog))
                 PROVE  serverEnd'[Tail(backlog)[i]] = "pending"
      OBVIOUS
    <3>1. Tail(backlog)[i] \in Connections /\ Tail(backlog)[i] # c
      BY <1>1, <1>2
    <3>2. serverEnd[Tail(backlog)[i]] = "pending"
      BY <1>1 DEF StreamInv, BacklogInv
    <3>3. QED
      BY <1>9, <3>1, <3>2
  <2>2. \A i, j \in 1 .. Len(Tail(backlog)) : Tail(backlog)[i] = Tail(backlog)[j] => i = j
    BY <1>1 DEF StreamInv, BacklogInv
  <2>3. QED
    BY <1>3, <2>1, <2>2 DEF BacklogInv
<1>11. ASSUME NEW d \in Connections PROVE SideInv(d)'
  <2>1. CASE d # c
    <3>1. SideInv(d) /\ UNCHANGED Side(d)
      BY <1>4, <1>9, <2>1 DEF StreamInv, SideInv, Side, connectionVars
    <3>2. /\ serverEnd'[d] = serverEnd[d] /\ servedSocket' # d
          /\ dialog[d] \in {"form", "connecting"} => serverEnd'[d] = "none"
          /\ cutAnswer' = cutAnswer /\ coalesced' = coalesced
          /\ d \in strays => d \in strays'
      BY <1>4, <1>5, <1>9, <2>1 DEF StreamInv, Fresh, connectionVars
    <3>3. QED
      BY <3>1, <3>2, SameSide
  <2>2. CASE d = c
    <3>1. Fresh(d)'
      BY <1>4, <1>6, <1>9, <2>2 DEF Fresh
    <3>2. Command(d)'
      BY <1>4, <1>5, <1>6, <2>2 DEF Command, connectionVars
    <3>3. Answers(d)'
      BY <1>4, <1>6, <1>9, <2>2 DEF Answers, connectionVars
    <3>4. QED
      BY <3>1, <3>2, <3>3 DEF SideInv
  <2>3. QED
    BY <2>1, <2>2
<1>12. IntroductionInv'
  BY <1>1, <1>4, <1>5, <1>6, <1>7, <1>9, SessionAssumption DEF IntroductionInv, connectionVars
<1>13. RequestInv'
  BY <1>5 DEF RequestInv
<1>14. AskedInv'
  <2>1. results \in Nat
    BY DEF StreamInv, StreamTypes
  <2>2. QED
    BY <1>4, <1>5, <2>1 DEF AskedInv
<1>15. QED
  BY <1>8, <1>10, <1>11, <1>12, <1>13, <1>14 DEF StreamInv, SideInv

\* A client that is turned away is told that the server is busy, or nothing.
LEMMA RejectStream ==
    ASSUME StreamInv, onNewConnection, RejectClient(Head(backlog))
    PROVE  StreamInv'
<1> DEFINE c == Head(backlog)
<1>1. /\ c \in Connections /\ Tail(backlog) \in Seq(Connections) /\ c = backlog[1]
      /\ Len(backlog) \in Nat /\ 1 \in 1 .. Len(backlog)
      /\ Len(Tail(backlog)) = Len(backlog) - 1
      /\ \A i \in 1 .. Len(Tail(backlog)) :
             i + 1 \in 1 .. Len(backlog) /\ Tail(backlog)[i] = backlog[i + 1] /\ i + 1 # 1
  BY FirstWaits DEF onNewConnection, StreamInv, StreamTypes
<1>2. serverEnd[c] = "pending" /\ \A i \in 1 .. Len(Tail(backlog)) : Tail(backlog)[i] # c
  BY <1>1 DEF StreamInv, BacklogInv
<1>3. RejectClient(c) /\ backlog' = Tail(backlog)
  BY DEF onNewConnection
<1> HIDE DEF c
<1>4. UNCHANGED <<results, clientEnd, up, upBuffer, downBuffer, dialog, connectionVars,
                  serverVars, strays>>
  BY <1>3 DEF onNewConnection, RejectClient
<1>5. PICK text \in {Text("busy"), <<>>} :
          /\ serverEnd' = [serverEnd EXCEPT ![c] = "closed"]
          /\ down' = [down EXCEPT ![c] = text]
  BY <1>3 DEF RejectClient, Set
<1>6. /\ downBuffer[c] = <<>> /\ c # servedSocket
      /\ dialog[c] \notin {"form", "connecting", "handing", "accepted"}
      /\ m_renderServerState[c] = "NO_DEVICE_INFORMATION"
  BY <1>1, <1>2 DEF StreamInv, Fresh, Command
<1>7. text \in Seq(Units)
  <2>1. Text("busy") \in Seq(Units) /\ <<>> \in Seq(Units)
    BY TextUnits DEF Units
  <2>2. QED
    BY <2>1
<1>8. StreamTypes'
  BY <1>1, <1>3, <1>4, <1>5, <1>7
     DEF StreamInv, StreamTypes, ServerEnds, connectionVars, serverVars
<1>9. /\ serverEnd'[c] = "closed" /\ down'[c] = text
      /\ \A d \in Connections : d # c => serverEnd'[d] = serverEnd[d] /\ down'[d] = down[d]
  BY <1>1, <1>5 DEF StreamInv, StreamTypes
<1>10. BacklogInv'
  <2>1. \A i \in 1 .. Len(Tail(backlog)) : serverEnd'[Tail(backlog)[i]] = "pending"
    <3> SUFFICES ASSUME NEW i \in 1 .. Len(Tail(backlog))
                 PROVE  serverEnd'[Tail(backlog)[i]] = "pending"
      OBVIOUS
    <3>1. Tail(backlog)[i] \in Connections /\ Tail(backlog)[i] # c
      BY <1>1, <1>2
    <3>2. serverEnd[Tail(backlog)[i]] = "pending"
      BY <1>1 DEF StreamInv, BacklogInv
    <3>3. QED
      BY <1>9, <3>1, <3>2
  <2>2. \A i, j \in 1 .. Len(Tail(backlog)) : Tail(backlog)[i] = Tail(backlog)[j] => i = j
    BY <1>1 DEF StreamInv, BacklogInv
  <2>3. QED
    BY <1>3, <2>1, <2>2 DEF BacklogInv
<1>11. ASSUME NEW d \in Connections PROVE SideInv(d)'
  <2>1. CASE d # c
    <3>1. SideInv(d) /\ UNCHANGED Side(d)
      BY <1>4, <1>9, <2>1 DEF StreamInv, SideInv, Side, connectionVars
    <3>2. /\ serverEnd'[d] = serverEnd[d] /\ servedSocket' = servedSocket
          /\ m_renderState' = m_renderState
          /\ dialog[d] \in {"form", "connecting"} => serverEnd'[d] = "none"
          /\ cutAnswer' = cutAnswer /\ coalesced' = coalesced /\ strays' = strays
      BY <1>4, <1>9, <2>1 DEF StreamInv, Fresh, connectionVars, serverVars
    <3>3. QED
      BY <3>1, <3>2, SameSide
  <2>2. CASE d = c
    <3>1. Fresh(d)'
      BY <1>4, <1>6, <1>9, <2>2 DEF Fresh
    <3>2. Command(d)'
      <4>1. Command(d)
        BY DEF StreamInv
      <4>2. QED
        BY <1>4, <4>1 DEF Command, connectionVars, serverVars
    <3>3. Answers(d)'
      BY <1>4, <1>6, <1>9, <2>2 DEF Answers, connectionVars
    <3>4. QED
      BY <3>1, <3>2, <3>3 DEF SideInv
  <2>3. QED
    BY <2>1, <2>2
<1>12. IntroductionInv' /\ RequestInv' /\ AskedInv'
  <2>1. servedSocket \in Connections \cup {NoConnection} /\ IntroductionInv /\ RequestInv /\ AskedInv
    BY DEF StreamInv, StreamTypes
  <2>2. ASSUME NEW d \in Connections, d = servedSocket
        PROVE  /\ UNCHANGED <<up[d], upBuffer[d], numRequests[d], serverEnd[d], clientGarbled[d],
                              m_renderServerState[d]>>
               /\ m_renderState = "WAITING_FOR_INTRODUCTION_REQUEST" =>
                      /\ ~HasName(down'[d]) /\ ~HasName(downBuffer'[d])
                      /\ m_renderServerState'[d] # "RENDERING"
    <3>1. UNCHANGED <<up, upBuffer, numRequests, downBuffer, clientGarbled, m_renderServerState>>
      BY <1>4 DEF connectionVars
    <3>2. down'[d] = down[d] /\ serverEnd'[d] = serverEnd[d]
      BY <1>6, <1>9, <2>2
    <3>3. QED
      BY <2>1, <2>2, <3>1, <3>2 DEF IntroductionInv
  <2>3. QED
    BY <1>4, <2>1, <2>2, SameServer
<1>13. QED
  BY <1>8, <1>10, <1>11, <1>12 DEF StreamInv, SideInv

\* The window
LEMMA WindowStream ==
    ASSUME IInv, StreamInv, Window
    PROVE  StreamInv'
BY StartStream, AcceptStream, RejectStream, DisconnectedStream, ResetStream
   DEF Window, onNewConnection

-----------------------------------------------------------------------------
(***************************************************************************)
(* RenderServer                                                            *)
(***************************************************************************)

\* The client that is served is no longer in the backlog.
LEMMA ServedSide ==
    ASSUME StreamInv, servedSocket \in Connections
    PROVE  serverEnd[servedSocket] \notin {"none", "pending"}
BY DEF StreamInv, Fresh

\* What the server does between reading a segment and the next one changes nothing
\* that belongs to a connection but the bytes it has to read.
LEMMA OwnStepSide ==
    ASSUME StreamInv, NEW d \in Connections,
           UNCHANGED <<servedSocket, m_renderState, serverEnd, clientEnd, up, down, downBuffer,
                       dialog, connectionVars, strays>>,
           d # servedSocket => upBuffer'[d] = upBuffer[d]
    PROVE  SideInv(d)'
<1> USE DEF StreamInv, connectionVars
<1>1. Fresh(d)'
  BY DEF Fresh
<1>2. Command(d)'
  BY DEF Command
<1>3. Answers(d)'
  BY DEF Answers, Taken
<1>4. QED
  BY <1>1, <1>2, <1>3 DEF SideInv

\* The introduction has arrived.
LEMMA IntroducedStream ==
    ASSUME StreamInv, NEW c \in Connections, NEW n \in 1 .. Len(up[c]), DataFromClient(c, n),
           m_renderState = "WAITING_FOR_INTRODUCTION_REQUEST"
    PROVE  StreamInv'
<1> DEFINE text == Text("introduction")
           name == Text("name")
           arrived == upBuffer[c] \o SubSeq(up[c], 1, n)
<1>1. /\ c = servedSocket /\ ~reading /\ up' = [up EXCEPT ![c] = Drop(up[c], n)]
      /\ UNCHANGED <<windowVars, m_clientSocket, backlog, servedSocket,
                     m_clientExpectingBytes, serverGarbled, queued, parsed, results,
                     serverEnd, clientEnd, downBuffer, dialog, connectionVars, strays>>
      /\ ReadIntroduction(arrived)
  BY DEF DataFromClient, MainIsFree, Set
<1>2. /\ upBuffer' = [upBuffer EXCEPT ![c] = <<>>] /\ UNCHANGED <<reading, cutRequest>>
      /\ \/ /\ IsPrefix(text, arrived)
            /\ m_renderState' = "RENDERING"
            /\ down' = [down EXCEPT ![c] = down[c] \o name]
         \/ /\ ~IsPrefix(text, arrived)
            /\ m_renderState' = "ERROR_UNKNOWN" /\ down' = down
  BY <1>1 DEF ReadIntroduction, Set
<1>3. /\ up \in [Connections -> Seq(Units)] /\ upBuffer \in [Connections -> Seq(Units)]
      /\ down \in [Connections -> Seq(Units)]
  BY DEF StreamInv, StreamTypes
<1>4. /\ upBuffer[c] = <<>> /\ up[c] \in {<<>>, text}
      /\ ~HasName(down[c]) /\ m_renderServerState[c] # "RENDERING" /\ numRequests[c] = 0
      /\ parsed = 0 /\ m_clientExpectingBytes = 0 /\ ~serverGarbled /\ ~cutRequest
      /\ queued = 0
  BY <1>1 DEF StreamInv, IntroductionInv
<1>5. text \in Seq(Units) /\ name \in Seq(Units) /\ Len(text) = 2 /\ <<>> \in Seq(Units)
  BY TextUnits DEF Units
<1>6. up[c] = text /\ up[c] # <<>>
  BY <1>4
<1>7. /\ arrived = SubSeq(text, 1, n)
      /\ \/ n = 2 /\ Drop(text, n) = <<>>
         \/ n = 1 /\ ~IsPrefix(text, arrived)
  <2>1. /\ SubSeq(text, 1, n) \in Seq(Units)
        /\ \/ n = 2 /\ Drop(text, n) = <<>>
           \/ n = 1 /\ ~IsPrefix(text, SubSeq(text, 1, n))
    <3>1. n \in 1 .. Len(text)
      BY <1>6
    <3>2. SubSeq(text, 1, n) \in Seq(Units)
      <4>1. n \in 0 .. Len(text)
        BY <1>5, <3>1
      <4>2. QED
        BY <1>5, <4>1, FirstPlaces
    <3>3. \/ n = 2 /\ Drop(text, n) = <<>>
          \/ n = 1 /\ ~IsPrefix(text, SubSeq(text, 1, n))
      BY <3>1, PartOfText DEF Units
    <3>4. QED
      BY <3>2, <3>3
  <2>2. arrived = <<>> \o SubSeq(text, 1, n)
    BY <1>4, <1>6
  <2>3. arrived = SubSeq(text, 1, n)
    BY <2>1, <2>2, JoinWithNothing
  <2>4. QED
    BY <2>1, <2>3
<1> HIDE DEF text, name, arrived
<1>8. Drop(up[c], n) \in Seq(Units)
  <2>1. n \in 0 .. Len(up[c])
    BY <1>5, <1>6
  <2>2. QED
    BY <1>3, <2>1, DropPlaces
<1>9. /\ up' \in [Connections -> Seq(Units)] /\ upBuffer' \in [Connections -> Seq(Units)]
      /\ down' \in [Connections -> Seq(Units)]
      /\ up'[c] = Drop(up[c], n) /\ upBuffer'[c] = <<>>
      /\ \A d \in Connections : d # c =>
             up'[d] = up[d] /\ upBuffer'[d] = upBuffer[d] /\ down'[d] = down[d]
  <2>1. down[c] \o name \in Seq(Units)
    BY <1>3, <1>5, JoinPlaces
  <2>2. QED
    BY <1>1, <1>2, <1>3, <1>5, <1>8, <2>1
<1>10. StreamTypes'
  BY <1>1, <1>9 DEF StreamInv, StreamTypes, connectionVars
<1>11. BacklogInv'
  BY <1>1 DEF StreamInv, BacklogInv
<1>12. /\ serverEnd[c] \notin {"none", "pending"} /\ m_renderServerState[c] # "NO_DEVICE_INFORMATION"
       /\ newCommands[c] = 0 /\ Command(c) /\ Answers(c)
       /\ dialog[c] = "accepted"
  <2>1. Fresh(c) /\ Command(c) /\ Answers(c) /\ newCommands[c] \in Nat
    BY DEF StreamInv, StreamTypes
  <2>2. QED
    BY <1>1, <1>6, <2>1 DEF Fresh, Command
<1>13. m_renderState' = "RENDERING" => up'[c] = <<>> /\ IsPrefix(text, arrived) /\ n = 2
  BY <1>2, <1>6, <1>7, <1>9
<1>14. Answers(c) => c \in strays
          \/ down'[c] = <<>>
          \/ (down'[c] = name /\ m_currentCommand[c] = "pending")
          \/ m_renderServerState[c] \notin {"NO_DEVICE_INFORMATION", "WAITING_FOR_DEVICE_INFORMATION"}
          \/ clientEnd[c] # "open"
  <2> SUFFICES ASSUME Answers(c), c \notin strays, clientEnd[c] = "open",
                      m_renderServerState[c] = "WAITING_FOR_DEVICE_INFORMATION"
               PROVE  down'[c] = <<>> \/ (down'[c] = name /\ m_currentCommand[c] = "pending")
    BY <1>12
  <2>1. down[c] = <<>> \/ (down[c] = name /\ m_currentCommand[c] = "pending")
    BY <1>12 DEF Answers, name
  <2>2. HasName(name)
    BY <1>5, NameInParts, TextUnits DEF Units, name
  <2>3. down[c] = <<>> /\ m_currentCommand[c] = "pending"
    BY <1>4, <1>12, <2>1, <2>2 DEF Command
  <2>4. <<>> \o name = name
    BY <1>5, JoinWithNothing
  <2>5. QED
    BY <1>2, <1>3, <2>3, <2>4
<1>15. ASSUME NEW d \in Connections PROVE SideInv(d)'
  <2>1. CASE d # c
    <3>1. SideInv(d) /\ UNCHANGED Side(d)
      BY <1>1, <1>9, <2>1 DEF StreamInv, SideInv, Side, connectionVars
    <3>2. /\ serverEnd'[d] = serverEnd[d] /\ servedSocket' # d
          /\ dialog[d] \in {"form", "connecting"} => serverEnd'[d] = "none"
          /\ cutAnswer' = cutAnswer /\ coalesced' = coalesced /\ strays' = strays
      BY <1>1, <2>1 DEF StreamInv, Fresh, connectionVars
    <3>3. QED
      BY <3>1, <3>2, SameSide
  <2>2. CASE d = c
    <3>1. Fresh(d)'
      BY <1>1, <1>12, <2>2 DEF Fresh
    <3>2. Command(d)'
      BY <1>1, <1>12, <2>2 DEF Command, connectionVars
    <3>3. Answers(d)'
      BY <1>1, <1>4, <1>12, <1>14, <2>2 DEF Answers, connectionVars, name
    <3>4. QED
      BY <3>1, <3>2, <3>3 DEF SideInv
  <2>3. QED
    BY <2>1, <2>2
<1>16. IntroductionInv'
  BY <1>1, <1>2, <1>4, SessionAssumption DEF StreamInv, IntroductionInv
<1>17. RequestInv'
  <2> SUFFICES ASSUME m_renderState' = "RENDERING" PROVE RequestInv'
    BY DEF RequestInv
  <2>1. /\ ~serverGarbled' /\ m_clientExpectingBytes' = 0 /\ servedSocket' = c
        /\ upBuffer'[c] = <<>> /\ up'[c] = <<>> /\ ~reading'
        /\ parsed' = 0 /\ numRequests'[c] = 0
    BY <1>1, <1>2, <1>4, <1>9, <1>13 DEF connectionVars
  <2>2. Packets(<<>>, 0, 0)
    BY NoPackets
  <2>3. Len(Packet) \in Nat /\ Len(<<>>) = 0
    BY PacketUnits, SessionAssumption
  <2>4. QED
    BY <2>1, <2>2, <2>3 DEF RequestInv
<1>18. AskedInv'
  BY <1>1, <1>2, <1>4, <1>13 DEF StreamInv, AskedInv, connectionVars
<1>19. QED
  BY <1>10, <1>11, <1>15, <1>16, <1>17, <1>18 DEF StreamInv, SideInv

\* A segment with requests has arrived.
LEMMA RequestsArriveStream ==
    ASSUME StreamInv, NEW c \in Connections, NEW n \in 1 .. Len(up[c]), DataFromClient(c, n),
           m_renderState # "WAITING_FOR_INTRODUCTION_REQUEST"
    PROVE  StreamInv'
<1> DEFINE first == SubSeq(up[c], 1, n)
           rest == Drop(up[c], n)
           arrived == upBuffer[c] \o first
<1>1. /\ c = servedSocket /\ ~reading /\ serverEnd[c] = "open"
      /\ up' = [up EXCEPT ![c] = rest]
      /\ upBuffer' = [upBuffer EXCEPT ![c] = arrived]
      /\ reading' = (m_renderState = "RENDERING" /\ ~serverGarbled)
      /\ cutRequest' = (cutRequest \/ ~IsWhole(arrived))
      /\ UNCHANGED <<backlog, servedSocket, m_renderState, m_clientExpectingBytes,
                     serverGarbled, queued, parsed, results, serverEnd, clientEnd, down,
                     downBuffer, dialog, connectionVars, strays>>
  BY DEF DataFromClient, ReadIntroduction, MainIsFree, Set
<1>2. /\ up[c] \in Seq(Units) /\ upBuffer[c] \in Seq(Units)
      /\ up \in [Connections -> Seq(Units)] /\ upBuffer \in [Connections -> Seq(Units)]
  BY DEF StreamInv, StreamTypes
<1>3. n \in 0 .. Len(up[c]) /\ n >= 1 /\ n \in Nat /\ Len(up[c]) \in Nat /\ up[c] # <<>>
  BY <1>2
<1>4. /\ first \in Seq(Units) /\ Len(first) = n /\ rest \in Seq(Units)
      /\ Len(rest) = Len(up[c]) - n
  BY <1>2, <1>3, FirstPlaces, DropPlaces
<1> HIDE DEF first, rest
<1>5. arrived \in Seq(Units) /\ Len(arrived) = Len(upBuffer[c]) + n
  BY <1>2, <1>4, JoinPlaces
<1> HIDE DEF arrived
<1>6. /\ up' \in [Connections -> Seq(Units)] /\ upBuffer' \in [Connections -> Seq(Units)]
      /\ up'[c] = rest /\ upBuffer'[c] = arrived
      /\ \A d \in Connections : d # c => up'[d] = up[d] /\ upBuffer'[d] = upBuffer[d]
  BY <1>1, <1>2, <1>4, <1>5
<1>7. StreamTypes'
  BY <1>1, <1>6 DEF StreamInv, StreamTypes, connectionVars
<1>8. BacklogInv'
  BY <1>1 DEF StreamInv, BacklogInv
<1>9. /\ serverEnd[c] \notin {"none", "pending"} /\ m_renderServerState[c] # "NO_DEVICE_INFORMATION"
      /\ newCommands[c] = 0 /\ Command(c) /\ Answers(c) /\ dialog[c] = "accepted"
  <2>1. Fresh(c) /\ Command(c) /\ Answers(c) /\ newCommands[c] \in Nat
    BY DEF StreamInv, StreamTypes
  <2>2. QED
    BY <1>1, <1>3, <2>1 DEF Fresh, Command
<1>10. ASSUME NEW d \in Connections PROVE SideInv(d)'
  <2>1. CASE d # c
    <3>1. SideInv(d) /\ UNCHANGED Side(d)
      BY <1>1, <1>6, <2>1 DEF StreamInv, SideInv, Side, connectionVars
    <3>2. /\ serverEnd'[d] = serverEnd[d] /\ servedSocket' # d
          /\ dialog[d] \in {"form", "connecting"} => serverEnd'[d] = "none"
          /\ cutAnswer' = cutAnswer /\ coalesced' = coalesced /\ strays' = strays
      BY <1>1, <2>1 DEF StreamInv, Fresh, connectionVars
    <3>3. QED
      BY <3>1, <3>2, SameSide
  <2>2. CASE d = c
    <3>1. Fresh(d)'
      BY <1>1, <1>9, <2>2 DEF Fresh
    <3>2. Command(d)'
      BY <1>1, <1>9, <2>2 DEF Command, connectionVars
    <3>3. Answers(d)'
      BY <1>1, <1>9, <2>2 DEF Answers, Taken, connectionVars
    <3>4. QED
      BY <3>1, <3>2, <3>3 DEF SideInv
  <2>3. QED
    BY <2>1, <2>2
<1>11. IntroductionInv'
  BY <1>1, SessionAssumption DEF StreamInv, IntroductionInv
<1>12. RequestInv'
  <2> SUFFICES ASSUME m_renderState' = "RENDERING", ~cutRequest' PROVE RequestInv'
    BY DEF RequestInv
  <2>1. m_renderState = "RENDERING" /\ ~cutRequest /\ IsWhole(arrived)
    BY <1>1
  <2>2. /\ ~serverGarbled /\ m_clientExpectingBytes = 0 /\ upBuffer[c] = <<>>
        /\ serverEnd[c] = "open" /\ ~clientGarbled[c]
               => parsed * Len(Packet) + Len(upBuffer[c]) + Len(up[c])
                      = numRequests[c] * Len(Packet)
    BY <1>1, <2>1 DEF StreamInv, RequestInv
  <2>3. PICK k \in Nat : Packets(up[c], 0, k)
    BY <1>1, <2>1 DEF StreamInv, RequestInv
  <2>4. arrived = first /\ Len(upBuffer[c]) = 0
    BY <1>4, <2>2, JoinWithNothing DEF arrived
  <2>5. n % Len(Packet) = 0
    BY <1>4, <2>1, <2>4 DEF IsWhole
  <2>6. (\E m \in Nat : Packets(first, 0, m)) /\ (\E m \in Nat : Packets(rest, 0, m))
    BY <1>2, <1>3, <2>3, <2>5, PacketsSplit DEF first, rest
  <2>7. arrived # <<>>
    BY <1>3, <1>4, <2>4, TwoUnits
  <2>8. /\ servedSocket' = c /\ upBuffer'[c] = arrived /\ up'[c] = rest
        /\ reading' /\ ~serverGarbled' /\ m_clientExpectingBytes' = 0
        /\ parsed' = parsed /\ numRequests'[c] = numRequests[c]
        /\ serverEnd'[c] = serverEnd[c] /\ clientGarbled'[c] = clientGarbled[c]
    BY <1>1, <1>6, <2>1, <2>2 DEF connectionVars
  <2>9. serverEnd[c] = "open" /\ ~clientGarbled[c]
            => parsed * Len(Packet) + Len(arrived) + Len(rest) = numRequests[c] * Len(Packet)
    <3> DEFINE x == parsed * Len(Packet)
               y == numRequests[c] * Len(Packet)
    <3>1. x \in Nat
      BY PacketUnits, SessionAssumption DEF StreamInv, StreamTypes
    <3>2. serverEnd[c] = "open" /\ ~clientGarbled[c] => x + 0 + Len(up[c]) = y
      BY <2>2, <2>4
    <3> HIDE DEF x, y
    <3>3. Len(arrived) = n /\ Len(rest) = Len(up[c]) - n
      BY <1>4, <2>4
    <3>4. Len(arrived) + Len(rest) = Len(up[c]) /\ Len(arrived) \in Nat /\ Len(rest) \in Nat
      BY <1>3, <3>3
    <3>5. x + Len(arrived) + Len(rest) = x + 0 + Len(up[c])
      BY <3>1, <3>4
    <3>6. serverEnd[c] = "open" /\ ~clientGarbled[c] => x + Len(arrived) + Len(rest) = y
      BY <3>2, <3>5
    <3>7. QED
      BY <3>6 DEF x, y
  <2>10. QED
    BY <2>4, <2>6, <2>7, <2>8, <2>9 DEF RequestInv
<1>13. AskedInv'
  BY <1>1, <1>3 DEF StreamInv, AskedInv, connectionVars
<1>14. QED
  BY <1>7, <1>8, <1>10, <1>11, <1>12, <1>13 DEF StreamInv, SideInv

\* A turn of the loop that reads a whole packet, or a part of one, keeps the types.
LEMMA ReadRequestTypes ==
    ASSUME StreamInv, ReadRequest, servedSocket \in Connections
    PROVE  /\ upBuffer' \in [Connections -> Seq(Units)]
           /\ m_clientExpectingBytes' \in {0, Len(Packet)}
           /\ queued' \in Nat /\ parsed' \in Nat
           /\ \A d \in Connections : d # servedSocket => upBuffer'[d] = upBuffer[d]
<1> DEFINE buffer == upBuffer[servedSocket]
           readsSize == m_clientExpectingBytes = 0
           expecting == IF readsSize THEN Len(Packet) ELSE m_clientExpectingBytes
           rest == IF readsSize THEN Drop(buffer, Len(SizeField)) ELSE buffer
<1>1. /\ upBuffer \in [Connections -> Seq(Units)] /\ buffer \in Seq(Units)
      /\ m_clientExpectingBytes \in {0, Len(Packet)} /\ queued \in Nat /\ parsed \in Nat
      /\ Len(buffer) \in Nat
  BY DEF StreamInv, StreamTypes
<1>2. /\ BodyUnits \in Nat /\ Len(Packet) = BodyUnits + 2 /\ Len(SizeField) = 2
      /\ SizeField = <<"size", "size">>
  BY PacketUnits, SessionAssumption DEF SizeField
<1>3. expecting = Len(Packet)
  BY <1>1, <1>2
<1>4. CASE readsSize /\ ~IsPrefix(SizeField, buffer)
  <2>1. UNCHANGED <<m_clientExpectingBytes, upBuffer, queued, parsed>>
    BY <1>4 DEF ReadRequest
  <2>2. QED
    BY <1>1, <2>1
<1>5. CASE ~(readsSize /\ ~IsPrefix(SizeField, buffer))
  <2>1. readsSize => Len(buffer) >= 2
    BY <1>1, <1>2, <1>5, PrefixOfTwo
  <2>2. rest \in Seq(Units) /\ Len(rest) = IF readsSize THEN Len(buffer) - 2 ELSE Len(buffer)
    <3>1. CASE readsSize
      <4>1. 2 \in 0 .. Len(buffer)
        BY <1>1, <2>1, <3>1
      <4>2. rest = Drop(buffer, 2)
        BY <1>2, <3>1
      <4>3. QED
        BY <1>1, <3>1, <4>1, <4>2, DropPlaces
    <3>2. CASE ~readsSize
      BY <1>1, <3>2
    <3>3. QED
      BY <3>1, <3>2
  <2>3. CASE Len(buffer) >= expecting
    <3>1. /\ m_clientExpectingBytes' = 0 /\ queued' = queued + 1 /\ parsed' = parsed + 1
          /\ upBuffer' = [upBuffer EXCEPT ![servedSocket] = Drop(rest, BodyUnits)]
      BY <1>5, <2>3 DEF ReadRequest, Set
    <3>2. Drop(rest, BodyUnits) \in Seq(Units)
      <4>1. BodyUnits \in 0 .. Len(rest)
        BY <1>1, <1>2, <1>3, <2>2, <2>3
      <4> HIDE DEF rest
      <4>2. QED
        BY <2>2, <4>1, DropPlaces
    <3>3. QED
      BY <1>1, <3>1, <3>2
  <2>4. CASE ~(Len(buffer) >= expecting)
    <3>1. /\ m_clientExpectingBytes' = expecting /\ queued' = queued /\ parsed' = parsed
          /\ upBuffer' = [upBuffer EXCEPT ![servedSocket] = rest]
      BY <1>5, <2>4 DEF ReadRequest, Set
    <3> HIDE DEF rest, expecting
    <3>2. QED
      BY <1>1, <1>3, <2>2, <3>1
  <2>5. QED
    BY <2>3, <2>4
<1>6. QED
  BY <1>4, <1>5

\* Of whole packets, a turn of the loop reads one.
LEMMA ReadRequestPacket ==
    ASSUME StreamInv, ReadRequest, m_renderState = "RENDERING", ~cutRequest,
           servedSocket \in Connections
    PROVE  /\ ~serverGarbled' /\ m_clientExpectingBytes' = 0 /\ parsed' = parsed + 1
           /\ upBuffer' = [upBuffer EXCEPT ![servedSocket] =
                               Drop(upBuffer[servedSocket], Len(Packet))]
           /\ Len(upBuffer[servedSocket]) >= Len(Packet)
           /\ \E k \in Nat : Packets(upBuffer'[servedSocket], 0, k)
           /\ reading' <=> upBuffer'[servedSocket] # <<>>
<1> DEFINE buffer == upBuffer[servedSocket]
           rest == Drop(buffer, 2)
           after == Drop(buffer, Len(Packet))
<1>1. /\ upBuffer \in [Connections -> Seq(Units)] /\ buffer \in Seq(Units)
      /\ Len(buffer) \in Nat
  BY DEF StreamInv, StreamTypes
<1>2. /\ BodyUnits \in Nat /\ Len(Packet) = BodyUnits + 2 /\ Len(SizeField) = 2
      /\ SizeField = <<"size", "size">>
  BY PacketUnits, SessionAssumption DEF SizeField
<1>3. m_clientExpectingBytes = 0 /\ buffer # <<>>
  BY DEF StreamInv, RequestInv, ReadRequest
<1>4. PICK k \in Nat : Packets(buffer, 0, k)
  BY DEF StreamInv, RequestInv
<1>5. /\ k >= 1 /\ Len(buffer) >= Len(Packet) /\ IsPrefix(SizeField, buffer)
  <2>1. k >= 1 /\ Len(buffer) >= Len(Packet) /\ buffer[1] = "size" /\ buffer[2] = "size"
    BY <1>1, <1>3, <1>4, PacketsStart
  <2>2. Len(buffer) >= 2
    BY <1>1, <1>2, <2>1
  <2>3. QED
    BY <1>1, <1>2, <2>1, <2>2, PrefixOfTwo
<1>6. /\ serverGarbled' = FALSE /\ m_clientExpectingBytes' = 0 /\ parsed' = parsed + 1
      /\ upBuffer' = [upBuffer EXCEPT ![servedSocket] = Drop(rest, BodyUnits)]
      /\ reading' = (Drop(rest, BodyUnits) # <<>>)
  BY <1>2, <1>3, <1>5 DEF ReadRequest, Set, LoopGoesOn
<1> HIDE DEF buffer
<1>7. Drop(rest, BodyUnits) = after
  <2>1. 2 \in 0 .. Len(buffer) /\ Len(Packet) \in 0 .. Len(buffer)
    BY <1>1, <1>2, <1>5
  <2>2. /\ rest \in Seq(Units) /\ Len(rest) = Len(buffer) - 2
        /\ \A i \in 1 .. Len(buffer) - 2 : rest[i] = buffer[2 + i]
    BY <1>1, <2>1, DropPlaces
  <2> HIDE DEF rest
  <2>3. /\ after \in Seq(Units) /\ Len(after) = Len(buffer) - Len(Packet)
        /\ \A i \in 1 .. Len(buffer) - Len(Packet) : after[i] = buffer[Len(Packet) + i]
    BY <1>1, <2>1, DropPlaces
  <2> HIDE DEF after
  <2>4. BodyUnits \in 0 .. Len(rest) /\ rest \in Seq(Units)
    BY <1>1, <1>2, <1>5, <2>2
  <2> DEFINE both == Drop(rest, BodyUnits)
  <2>5. /\ both \in Seq(Units) /\ Len(both) = Len(rest) - BodyUnits
        /\ \A i \in 1 .. Len(rest) - BodyUnits : both[i] = rest[BodyUnits + i]
    BY <2>4, DropPlaces
  <2> HIDE DEF both
  <2>6. Len(both) = Len(after)
    BY <1>1, <1>2, <2>2, <2>3, <2>5
  <2>7. ASSUME NEW i \in 1 .. Len(both) PROVE both[i] = after[i]
    <3>1. /\ i \in 1 .. Len(rest) - BodyUnits /\ i \in 1 .. Len(buffer) - Len(Packet)
          /\ BodyUnits + i \in 1 .. Len(buffer) - 2
          /\ 2 + (BodyUnits + i) = Len(Packet) + i
      BY <1>1, <1>2, <2>2, <2>3, <2>5, <2>6
    <3>2. both[i] = rest[BodyUnits + i] /\ rest[BodyUnits + i] = buffer[2 + (BodyUnits + i)]
      BY <2>2, <2>5, <3>1
    <3>3. QED
      BY <2>3, <3>1, <3>2
  <2>8. both = after
    BY <2>3, <2>5, <2>6, <2>7, SameUnits
  <2>9. QED
    BY <2>8 DEF both
<1>8. after \in Seq(Units) /\ Packets(after, 0, k - 1) /\ k - 1 \in Nat
  <2>1. /\ 0 + Len(Packet) = Len(Packet) /\ Len(Packet) \in Nat /\ Len(Packet) <= Len(buffer)
        /\ Len(Packet) \in 0 .. Len(buffer)
    BY <1>1, <1>2, <1>5
  <2>2. k >= 1 /\ Packets(Drop(buffer, Len(Packet)), 0, k - 1)
    BY <1>1, <1>4, <2>1, PacketsTakeOne
  <2>3. QED
    BY <1>1, <2>1, <2>2, DropPlaces
<1> HIDE DEF rest, after
<1>9. upBuffer'[servedSocket] = after
  BY <1>1, <1>6, <1>7
<1>10. QED
  BY <1>5, <1>6, <1>7, <1>8, <1>9 DEF after, buffer

\* A turn of the loop
LEMMA ReadRequestStream ==
    ASSUME StreamInv, ReadRequest
    PROVE  StreamInv'
<1>1. m_renderState = "RENDERING" /\ servedSocket \in Connections /\ reading
  BY DEF StreamInv, StreamTypes, IntroductionInv, ReadRequest
<1>2. UNCHANGED <<windowVars, m_clientSocket, backlog, servedSocket, m_renderState,
                  cutRequest, results, serverEnd, clientEnd, up, down, downBuffer,
                  dialog, connectionVars, strays>>
  BY DEF ReadRequest
<1>3. StreamTypes'
  BY <1>1, <1>2, ReadRequestTypes DEF StreamInv, StreamTypes, connectionVars
<1>4. BacklogInv'
  BY <1>2 DEF StreamInv, BacklogInv
<1>5. ASSUME NEW d \in Connections PROVE SideInv(d)'
  BY <1>1, <1>2, OwnStepSide, ReadRequestTypes
<1>6. IntroductionInv'
  BY <1>1, <1>2 DEF StreamInv, IntroductionInv
<1>7. RequestInv'
  <2> SUFFICES ASSUME ~cutRequest PROVE RequestInv'
    BY <1>2 DEF RequestInv
  <2> DEFINE c == servedSocket
             buffer == upBuffer[c]
             after == Drop(buffer, Len(Packet))
             L == Len(Packet)
  <2>1. /\ ~serverGarbled' /\ m_clientExpectingBytes' = 0 /\ parsed' = parsed + 1
        /\ upBuffer' = [upBuffer EXCEPT ![c] = after] /\ Len(buffer) >= L
        /\ \E k \in Nat : Packets(upBuffer'[c], 0, k)
        /\ reading' <=> upBuffer'[c] # <<>>
    BY <1>1, ReadRequestPacket
  <2>2. \E k \in Nat : Packets(up[c], 0, k)
    BY <1>1 DEF StreamInv, RequestInv
  <2>3. serverEnd[c] = "open" /\ ~clientGarbled[c]
            => parsed * L + Len(buffer) + Len(up[c]) = numRequests[c] * L
    BY <1>1 DEF StreamInv, RequestInv
  <2>4. /\ buffer \in Seq(Units) /\ up[c] \in Seq(Units) /\ parsed \in Nat
        /\ upBuffer \in [Connections -> Seq(Units)] /\ L \in Nat
        /\ Len(buffer) \in Nat /\ Len(up[c]) \in Nat
    BY <1>1, PacketUnits, SessionAssumption DEF StreamInv, StreamTypes
  <2>5. Len(after) = Len(buffer) - L /\ upBuffer'[c] = after
    <3>1. L \in 0 .. Len(buffer)
      BY <2>1, <2>4
    <3>2. QED
      BY <1>1, <2>1, <2>4, <3>1, DropPlaces
  <2>6. serverEnd[c] = "open" /\ ~clientGarbled[c]
            => (parsed + 1) * L + Len(after) + Len(up[c]) = numRequests[c] * L
    <3> DEFINE x == parsed * L
               z == (parsed + 1) * L
    <3>1. z = x + L /\ x \in Nat
      BY <2>4, PacketEnds
    <3> HIDE DEF x, z, L, buffer, after
    <3>2. Len(after) = Len(buffer) - L /\ Len(buffer) \in Nat /\ L \in Nat
      BY <2>4, <2>5
    <3>3. z + Len(after) = x + Len(buffer)
      BY <3>1, <3>2
    <3>4. QED
      BY <2>3, <3>3 DEF x, z
  <2>7. /\ servedSocket' = c /\ up'[c] = up[c] /\ serverEnd'[c] = serverEnd[c]
        /\ numRequests'[c] = numRequests[c] /\ clientGarbled'[c] = clientGarbled[c]
    BY <1>2 DEF connectionVars
  <2> HIDE DEF buffer, after
  <2>8. QED
    BY <2>1, <2>2, <2>5, <2>6, <2>7 DEF RequestInv
<1>8. AskedInv'
  BY <1>1, <1>2 DEF StreamInv, AskedInv, connectionVars
<1>9. QED
  BY <1>3, <1>4, <1>5, <1>6, <1>7, <1>8 DEF StreamInv, SideInv

\* The renderer answers what was asked.
LEMMA RendererAnswersStream ==
    ASSUME StreamInv, RendererAnswers
    PROVE  StreamInv'
<1>1. /\ queued > 0 /\ queued' = queued - 1 /\ results' \in {results, results + 1}
      /\ UNCHANGED <<backlog, servedSocket, m_renderState,
                     m_clientExpectingBytes, reading, serverGarbled, parsed, cutRequest,
                     serverEnd, clientEnd, up, upBuffer, down, downBuffer, dialog,
                     connectionVars, strays>>
  BY DEF RendererAnswers
<1>2. queued \in Nat /\ results \in Nat /\ servedSocket \in Connections \cup {NoConnection}
  BY DEF StreamInv, StreamTypes
<1>3. m_renderState = "RENDERING" /\ servedSocket \in Connections
  BY <1>1, <1>2 DEF StreamInv, IntroductionInv
<1>4. StreamTypes'
  BY <1>1, <1>2 DEF StreamInv, StreamTypes, connectionVars
<1>5. BacklogInv'
  BY <1>1 DEF StreamInv, BacklogInv
<1>6. ASSUME NEW d \in Connections PROVE SideInv(d)'
  BY <1>1, OwnStepSide
<1>7. IntroductionInv'
  BY <1>1, <1>3 DEF StreamInv, IntroductionInv
<1>8. RequestInv'
  BY <1>1, <1>3 DEF StreamInv, RequestInv, connectionVars
<1>9. AskedInv'
  BY <1>1, <1>2, <1>3 DEF StreamInv, AskedInv, connectionVars
<1>10. QED
  BY <1>4, <1>5, <1>6, <1>7, <1>8, <1>9 DEF StreamInv, SideInv

\* A result is written to the client that is served.
LEMMA ResultPacketStream ==
    ASSUME StreamInv, onNewRenderResultPacket
    PROVE  StreamInv'
<1> DEFINE c == servedSocket
           longer == down[c] \o Packet
<1>1. /\ results > 0 /\ results' = results - 1
      /\ \/ down' = [down EXCEPT ![c] = longer]
         \/ down' = down
      /\ UNCHANGED <<backlog, serverVars, serverEnd, clientEnd, up, upBuffer, downBuffer,
                     dialog, connectionVars, strays>>
  BY DEF onNewRenderResultPacket
<1>2. /\ results \in Nat /\ servedSocket \in Connections \cup {NoConnection}
      /\ down \in [Connections -> Seq(Units)] /\ downBuffer \in [Connections -> Seq(Units)]
  BY DEF StreamInv, StreamTypes
<1>3. c \in Connections
  BY <1>1, <1>2 DEF StreamInv, IntroductionInv
<1>4. longer \in Seq(Units) /\ (HasName(longer) => HasName(down[c]))
  BY <1>2, <1>3, JoinPlaces, PacketUnits, NameInParts, NamelessTexts
<1>5. down' \in [Connections -> Seq(Units)]
  BY <1>1, <1>2, <1>4
<1>6. /\ down'[c] = longer \/ down'[c] = down[c]
      /\ \A d \in Connections : d # c => down'[d] = down[d]
  BY <1>1, <1>2, <1>3
<1>7. StreamTypes'
  <2>1. results' \in Nat
    BY <1>1, <1>2
  <2>2. QED
    BY <1>1, <1>5, <2>1 DEF StreamInv, StreamTypes, connectionVars, serverVars
<1>8. BacklogInv'
  BY <1>1 DEF StreamInv, BacklogInv
<1>9. /\ UNCHANGED <<servedSocket, m_renderState>>
      /\ UNCHANGED connectionVars /\ UNCHANGED strays
  BY <1>1 DEF serverVars
<1>10. ASSUME NEW d \in Connections PROVE SideInv(d)'
  <2>1. CASE d # c
    <3>1. SideInv(d) /\ UNCHANGED Side(d)
      BY <1>1, <1>6, <2>1 DEF StreamInv, SideInv, Side, connectionVars
    <3>2. /\ serverEnd'[d] = serverEnd[d]
          /\ dialog[d] \in {"form", "connecting"} => serverEnd'[d] = "none"
          /\ cutAnswer' = cutAnswer /\ coalesced' = coalesced
      BY <1>1 DEF StreamInv, Fresh, connectionVars
    <3>3. QED
      BY <1>9, <3>1, <3>2, SameSide
  <2>2. CASE d = c
    <3>1. Fresh(d) /\ Command(d) /\ Answers(d) /\ serverEnd[d] \notin {"none", "pending"}
      BY <2>2, ServedSide DEF StreamInv
    <3>2. Fresh(d)'
      BY <1>1, <3>1 DEF Fresh
    <3>3. Command(d)'
      BY <1>1, <1>9, <3>1 DEF Command, connectionVars
    <3>4. Answers(d)'
      <4>1. CASE down'[c] = down[c]
        BY <1>1, <1>9, <2>2, <3>1, <4>1 DEF Answers, Taken, connectionVars
      <4>2. CASE down'[c] = longer /\ d \notin strays
        <5>1. m_renderServerState[d] \in {"RENDERING", "DISCONNECTED"} /\ dialog[d] = "accepted"
          <6>1. m_renderServerState[d] \in {"RENDERING", "DISCONNECTED"}
            BY <1>1, <1>2, <2>2, <4>2 DEF StreamInv, AskedInv
          <6>2. QED
            BY <3>1, <6>1 DEF Command
        <5>2. \A k \in Nat : Packets(downBuffer[d] \o down[d], Taken(d), k)
                  => Packets(downBuffer[d] \o longer, Taken(d), k + 1)
          <6> DEFINE buffer == downBuffer[d]
                     stream == down[d]
                     taken == Taken(d)
          <6>1. buffer \in Seq(Units) /\ stream \in Seq(Units) /\ Packet \in Seq(Units)
                /\ longer = stream \o Packet
            BY <1>2, <2>2, PacketUnits
          <6>2. taken \in Nat
            BY PacketUnits DEF Taken
          <6> HIDE DEF buffer, stream, taken, longer
          <6>3. buffer \o stream \in Seq(Units) /\ (buffer \o stream) \o Packet = buffer \o longer
            BY <6>1, JoinPlaces, JoinThree
          <6>4. ASSUME NEW k \in Nat, Packets(buffer \o stream, taken, k)
                PROVE  Packets(buffer \o longer, taken, k + 1)
            <7>1. Packets((buffer \o stream) \o Packet, taken, k + 1)
              BY <6>2, <6>3, <6>4, PacketsAppend
            <7>2. QED
              BY <6>3, <7>1
          <6>5. QED
            BY <6>4 DEF buffer, stream, taken
        <5> HIDE DEF longer
        <5>3. m_renderServerState[d] = "RENDERING" /\ d \notin cutAnswer =>
                  /\ ~clientGarbled[d]
                  /\ \E k \in Nat : Packets(downBuffer[d] \o longer, Taken(d), k)
                  /\ d \notin coalesced => Taken(d) + Len(downBuffer[d]) < Len(Packet)
          <6>1. \A k \in Nat : k + 1 \in Nat
            OBVIOUS
          <6>2. QED
            BY <3>1, <4>2, <5>2, <6>1 DEF Answers
        <5>4. Taken(d)' = Taken(d)
          BY <1>1 DEF Taken, connectionVars
        <5>5. QED
          BY <1>1, <1>9, <2>2, <4>2, <5>1, <5>3, <5>4 DEF Answers, connectionVars
      <4>3. CASE d \in strays
        BY <1>9, <4>3 DEF Answers
      <4>4. QED
        BY <1>6, <4>1, <4>2, <4>3
    <3>5. QED
      BY <3>2, <3>3, <3>4 DEF SideInv
  <2>3. QED
    BY <2>1, <2>2
<1>11. IntroductionInv'
  BY <1>1, <1>3, <1>4, <1>6, SessionAssumption DEF StreamInv, IntroductionInv, serverVars, connectionVars
<1>12. RequestInv'
  BY <1>1, <1>3 DEF StreamInv, RequestInv, serverVars, connectionVars
<1>13. AskedInv'
  BY <1>1, <1>2, <1>3 DEF StreamInv, AskedInv, serverVars, connectionVars
<1>14. QED
  BY <1>7, <1>8, <1>10, <1>11, <1>12, <1>13 DEF StreamInv, SideInv

\* RenderServer
LEMMA ServerStream ==
    ASSUME StreamInv, Server
    PROVE  StreamInv'
BY IntroducedStream, RequestsArriveStream, ReadRequestStream, RendererAnswersStream,
   ResultPacketStream
   DEF Server

-----------------------------------------------------------------------------
(***************************************************************************)
(* The dialog                                                              *)
(***************************************************************************)

\* A step of one client, which neither writes nor ends a connection of the server
LEMMA ClientStream ==
    ASSUME StreamInv, NEW c \in Connections, StreamTypes',
           UNCHANGED <<serverVars, results, strays, backlog, serverEnd>>,
           \A d \in Connections : d # c =>
               /\ UNCHANGED Side(d)
               /\ d \in cutAnswer' <=> d \in cutAnswer
               /\ d \in coalesced' <=> d \in coalesced,
           SideInv(c)',
           UNCHANGED <<up[c], upBuffer[c], numRequests[c]>>,
           clientGarbled[c] => clientGarbled'[c],
           m_renderServerState[c] \in {"RENDERING", "DISCONNECTED"}
               => m_renderServerState'[c] \in {"RENDERING", "DISCONNECTED"},
           c = servedSocket /\ m_renderState = "WAITING_FOR_INTRODUCTION_REQUEST" =>
               /\ ~HasName(down'[c]) /\ ~HasName(downBuffer'[c])
               /\ m_renderServerState'[c] # "RENDERING"
    PROVE  StreamInv'
<1>1. /\ servedSocket \in Connections \cup {NoConnection} /\ IntroductionInv /\ RequestInv
      /\ AskedInv /\ \A d \in Connections : SideInv(d)
  BY DEF StreamInv, StreamTypes, SideInv
<1>2. BacklogInv'
  BY DEF StreamInv, BacklogInv
<1>3. ASSUME NEW d \in Connections PROVE SideInv(d)'
  <2>1. CASE d = c
    BY <2>1
  <2>2. CASE d # c
    <3>1. /\ SideInv(d) /\ UNCHANGED Side(d)
          /\ UNCHANGED <<serverEnd, servedSocket, m_renderState, strays>>
          /\ d \in cutAnswer' <=> d \in cutAnswer
          /\ d \in coalesced' <=> d \in coalesced
      BY <1>1, <2>2 DEF serverVars
    <3>2. dialog[d] \in {"form", "connecting"} => serverEnd'[d] = "none"
      BY <3>1 DEF SideInv, Fresh
    <3>3. QED
      BY <3>1, <3>2, SameSide
  <2>3. QED
    BY <2>1, <2>2
<1>4. ASSUME NEW d \in Connections, d = servedSocket
      PROVE  /\ UNCHANGED <<up[d], upBuffer[d], numRequests[d]>>
             /\ serverEnd'[d] = "open" => serverEnd[d] = "open"
             /\ clientGarbled[d] => clientGarbled'[d]
             /\ m_renderServerState[d] \in {"RENDERING", "DISCONNECTED"}
                    => m_renderServerState'[d] \in {"RENDERING", "DISCONNECTED"}
             /\ m_renderState = "WAITING_FOR_INTRODUCTION_REQUEST" =>
                    /\ ~HasName(down'[d]) /\ ~HasName(downBuffer'[d])
                    /\ m_renderServerState'[d] # "RENDERING"
  <2>1. CASE d = c
    BY <1>4, <2>1
  <2>2. CASE d # c
    BY <1>1, <1>4, <2>2 DEF Side, IntroductionInv
  <2>3. QED
    BY <2>1, <2>2
<1>5. IntroductionInv' /\ RequestInv' /\ AskedInv'
  BY <1>1, <1>4, SameServer
<1>6. QED
  BY <1>2, <1>3, <1>5 DEF StreamInv, SideInv

\* The dialog, and with it perhaps the client's end, changes before the connection has
\* a command.
LEMMA DialogStepStream ==
    ASSUME StreamInv, NEW c \in Connections, NEW state \in Dialogs,
           UNCHANGED <<serverVars, results, strays, backlog, serverEnd, up, upBuffer, down,
                       downBuffer, connectionVars>>,
           dialog' = [dialog EXCEPT ![c] = state],
           clientEnd' \in {clientEnd, [clientEnd EXCEPT ![c] = "closed"]},
           dialog[c] # "accepted", state # "greeting",
           state \in {"form", "connecting"} => dialog[c] \in {"form", "connecting"},
           state \in {"handing", "accepted"} => dialog[c] = "handing"
    PROVE  StreamInv'
<1> USE DEF StreamInv
<1>1. /\ dialog' \in [Connections -> Dialogs] /\ dialog'[c] = state
      /\ clientEnd' \in [Connections -> {"none", "open", "closed"}]
      /\ clientEnd'[c] \in {clientEnd[c], "closed"}
      /\ \A d \in Connections : d # c => dialog'[d] = dialog[d] /\ clientEnd'[d] = clientEnd[d]
  BY DEF StreamTypes, Dialogs
<1>2. StreamTypes'
  BY <1>1 DEF StreamTypes, serverVars, connectionVars
<1>3. SideInv(c) /\ m_renderServerState[c] = "NO_DEVICE_INFORMATION"
  BY DEF SideInv, Command
<1>4. Fresh(c)'
  BY <1>1, <1>3 DEF SideInv, Fresh, serverVars
<1>5. Command(c)'
  BY <1>1, <1>3 DEF SideInv, Command, serverVars, connectionVars
<1>6. Answers(c)'
  BY <1>1, <1>3 DEF SideInv, Answers, connectionVars
<1>7. \A d \in Connections : d # c => UNCHANGED Side(d)
  BY <1>1 DEF Side, connectionVars
<1>8. m_renderState = "WAITING_FOR_INTRODUCTION_REQUEST" /\ c = servedSocket =>
          ~HasName(down'[c]) /\ ~HasName(downBuffer'[c]) /\ m_renderServerState'[c] # "RENDERING"
  BY DEF IntroductionInv, connectionVars
<1>9. QED
  BY <1>2, <1>3, <1>4, <1>5, <1>6, <1>7, <1>8, ClientStream DEF SideInv, connectionVars

\* A connection waits in the backlog of a server that listens.
LEMMA ConnectedStream ==
    ASSUME StreamInv, NEW c \in Connections, ConnectedToHost(c)
    PROVE  StreamInv'
<1> USE DEF StreamInv
<1>1. /\ dialog[c] = "connecting"
      /\ dialog' = [dialog EXCEPT ![c] = "greeting"]
      /\ clientEnd' = [clientEnd EXCEPT ![c] = "open"]
      /\ serverEnd' = [serverEnd EXCEPT ![c] = "pending"]
      /\ backlog' = Append(backlog, c)
      /\ UNCHANGED <<serverVars, results, up, upBuffer, down, downBuffer, connectionVars, strays>>
  BY DEF ConnectedToHost, SetDialog, Set
<1>2. /\ serverEnd[c] = "none" /\ c # servedSocket
      /\ up[c] = <<>> /\ upBuffer[c] = <<>> /\ down[c] = <<>> /\ downBuffer[c] = <<>>
      /\ m_renderServerState[c] = "NO_DEVICE_INFORMATION"
  BY <1>1 DEF Fresh, Command
<1>3. /\ dialog'[c] = "greeting" /\ clientEnd'[c] = "open" /\ serverEnd'[c] = "pending"
      /\ \A d \in Connections : d # c => /\ dialog'[d] = dialog[d]
                                         /\ clientEnd'[d] = clientEnd[d]
                                         /\ serverEnd'[d] = serverEnd[d]
  BY <1>1 DEF StreamTypes
<1>4. backlog \in Seq(Connections)
  BY DEF StreamTypes
<1>5. StreamTypes'
  <2>1. backlog' \in Seq(Connections)
    BY <1>1, <1>4
  <2>2. QED
    BY <1>1, <2>1 DEF StreamTypes, serverVars, connectionVars, Dialogs, ServerEnds
<1>6. BacklogInv'
  <2>1. /\ Len(backlog') = Len(backlog) + 1 /\ Len(backlog) \in Nat
        /\ \A i \in 1 .. Len(backlog) : backlog'[i] = backlog[i] /\ backlog[i] \in Connections
        /\ backlog'[Len(backlog) + 1] = c
    BY <1>1, <1>4
  <2>2. \A i \in 1 .. Len(backlog) : serverEnd[backlog[i]] = "pending" /\ backlog[i] # c
    BY <1>2 DEF BacklogInv
  <2>3. ASSUME NEW i \in 1 .. Len(backlog')
        PROVE  i \in 1 .. Len(backlog) \/ i = Len(backlog) + 1
    BY <2>1
  <2>4. \A i \in 1 .. Len(backlog') : serverEnd'[backlog'[i]] = "pending"
    BY <1>3, <2>1, <2>2, <2>3
  <2>5. \A i, j \in 1 .. Len(backlog') : backlog'[i] = backlog'[j] => i = j
    BY <2>1, <2>2, <2>3 DEF BacklogInv
  <2>6. QED
    BY <2>4, <2>5 DEF BacklogInv
<1>7. ASSUME NEW d \in Connections PROVE SideInv(d)'
  <2>1. CASE d # c
    <3>1. SideInv(d) /\ UNCHANGED Side(d)
      BY <1>1, <1>3, <2>1 DEF SideInv, Side, connectionVars
    <3>2. /\ serverEnd'[d] = serverEnd[d] /\ UNCHANGED <<servedSocket, m_renderState, strays>>
          /\ dialog[d] \in {"form", "connecting"} => serverEnd'[d] = "none"
          /\ cutAnswer' = cutAnswer /\ coalesced' = coalesced
      BY <1>1, <1>3, <2>1 DEF Fresh, connectionVars, serverVars
    <3>3. QED
      BY <3>1, <3>2, SameSide
  <2>2. CASE d = c
    <3>1. Fresh(d)'
      BY <1>1, <1>2, <1>3, <2>2 DEF Fresh, serverVars
    <3>2. Command(d)'
      BY <1>1, <1>2, <1>3, <2>2 DEF Command, serverVars, connectionVars
    <3>3. Answers(d)'
      BY <1>1, <1>2, <1>3, <2>2 DEF Answers, connectionVars
    <3>4. QED
      BY <3>1, <3>2, <3>3 DEF SideInv
  <2>3. QED
    BY <2>1, <2>2
<1>8. IntroductionInv' /\ RequestInv' /\ AskedInv'
  <2>1. servedSocket \in Connections \cup {NoConnection} /\ IntroductionInv /\ RequestInv /\ AskedInv
    BY DEF StreamTypes
  <2>2. ASSUME NEW d \in Connections, d = servedSocket
        PROVE  /\ UNCHANGED <<up[d], upBuffer[d], numRequests[d], serverEnd[d], clientGarbled[d],
                              m_renderServerState[d]>>
               /\ m_renderState = "WAITING_FOR_INTRODUCTION_REQUEST" =>
                      /\ ~HasName(down'[d]) /\ ~HasName(downBuffer'[d])
                      /\ m_renderServerState'[d] # "RENDERING"
    BY <1>1, <1>2, <1>3, <2>1, <2>2 DEF IntroductionInv, connectionVars
  <2>3. QED
    BY <1>1, <2>1, <2>2, SameServer
<1>9. QED
  BY <1>5, <1>6, <1>7, <1>8 DEF SideInv

\* The greeting is read as a whole, and nothing can follow it yet.
LEMMA GreetedStream ==
    ASSUME StreamInv, NEW c \in Connections, NEW n \in 1 .. Len(down[c]),
           HostDataAvailable(c, n), IsPrefix(Text("greeting"), SubSeq(down[c], 1, n))
    PROVE  StreamInv'
<1> USE DEF StreamInv
<1> DEFINE arrived == SubSeq(down[c], 1, n)
           rest == Drop(down[c], n)
           left == Drop(arrived, 2)
<1>1. /\ dialog[c] = "greeting"
      /\ dialog' = [dialog EXCEPT ![c] = "handing"]
      /\ down' = [down EXCEPT ![c] = rest]
      /\ downBuffer' = [downBuffer EXCEPT ![c] = left]
      /\ UNCHANGED <<serverVars, results, strays, backlog, serverEnd, up, upBuffer, clientEnd,
                     connectionVars>>
  BY DEF HostDataAvailable, SetDialog, Set
<1>2. /\ down \in [Connections -> Seq(Units)] /\ downBuffer \in [Connections -> Seq(Units)]
      /\ down[c] \in Seq(Units) /\ Len(down[c]) \in Nat /\ n \in 0 .. Len(down[c])
      /\ down[c] # <<>> /\ dialog \in [Connections -> Dialogs]
  BY DEF StreamTypes
<1>3. /\ rest \in Seq(Units) /\ arrived \in Seq(Units) /\ Len(arrived) = n
      /\ HasName(rest) => HasName(down[c])
      /\ HasName(arrived) => HasName(down[c])
  BY <1>2, FirstPlaces, DropPlaces, NameInParts
<1> HIDE DEF rest, arrived
<1>4. IsPrefix(Text("greeting"), arrived)
  BY DEF arrived
<1>5. left \in Seq(Units) /\ (HasName(left) => HasName(arrived))
  <2>1. Len(arrived) >= 2 /\ Len(arrived) \in Nat
    BY <1>3, <1>4, PrefixOfTwo, TwoUnits DEF Text
  <2>2. 2 \in 0 .. Len(arrived)
    BY <2>1
  <2>3. QED
    BY <1>3, <2>2, DropPlaces, NameInParts
<1>6. SideInv(c) /\ m_renderServerState[c] = "NO_DEVICE_INFORMATION"
  BY <1>1 DEF SideInv, Command
<1>7. c \notin strays => rest = <<>> /\ left = <<>>
  <2> SUFFICES ASSUME c \notin strays PROVE rest = <<>> /\ left = <<>>
    OBVIOUS
  <2>1. down[c] \in {Text("greeting"), Text("busy")}
    BY <1>1, <1>2, <1>6 DEF SideInv, Answers
  <2>2. ASSUME NEW kind \in Units, down[c] = Text(kind) PROVE rest = <<>> /\ left = <<>>
    <3>1. n \in 1 .. Len(Text(kind))
      BY <2>2
    <3>2. \/ /\ n = 2 /\ SubSeq(Text(kind), 1, n) = Text(kind)
             /\ Drop(Text(kind), n) = <<>>
          \/ \A other \in Units : ~IsPrefix(Text(other), SubSeq(Text(kind), 1, n))
      BY <3>1, PartOfText
    <3>3. arrived = Text(kind) /\ rest = <<>>
      BY <1>4, <2>2, <3>2 DEF arrived, rest, Units
    <3>4. Drop(Text(kind), 2) = <<>>
      BY TextUnits
    <3>5. QED
      BY <3>3, <3>4
  <2>3. QED
    BY <2>1, <2>2 DEF Units
<1> HIDE DEF left
<1>8. /\ down' \in [Connections -> Seq(Units)] /\ downBuffer' \in [Connections -> Seq(Units)]
      /\ dialog' \in [Connections -> Dialogs]
      /\ down'[c] = rest /\ downBuffer'[c] = left /\ dialog'[c] = "handing"
      /\ \A d \in Connections : d # c => /\ down'[d] = down[d]
                                         /\ downBuffer'[d] = downBuffer[d]
                                         /\ dialog'[d] = dialog[d]
  BY <1>1, <1>2, <1>3, <1>5 DEF Dialogs
<1>9. StreamTypes'
  BY <1>1, <1>8 DEF StreamTypes, serverVars, connectionVars
<1>10. Fresh(c)'
  BY <1>1, <1>2, <1>6, <1>8 DEF SideInv, Fresh, serverVars
<1>11. Command(c)'
  BY <1>1, <1>6, <1>8 DEF SideInv, Command, serverVars, connectionVars
<1>12. Answers(c)'
  BY <1>1, <1>6, <1>7, <1>8 DEF SideInv, Answers, connectionVars
<1>13. \A d \in Connections : d # c => UNCHANGED Side(d)
  BY <1>1, <1>8 DEF Side, connectionVars
<1>14. m_renderState = "WAITING_FOR_INTRODUCTION_REQUEST" /\ c = servedSocket =>
          ~HasName(down'[c]) /\ ~HasName(downBuffer'[c]) /\ m_renderServerState'[c] # "RENDERING"
  BY <1>1, <1>3, <1>5, <1>6, <1>8 DEF IntroductionInv, connectionVars
<1>15. QED
  BY <1>1, <1>6, <1>9, <1>10, <1>11, <1>12, <1>13, <1>14, ClientStream
     DEF SideInv, connectionVars

\* The dialog
LEMMA DialogStream ==
    ASSUME StreamInv, NEW c \in Connections, Dialog(c)
    PROVE  StreamInv'
<1> USE DEF SetDialog, Set, serverVars
<1>1. CASE FormSubmit(c)
  BY <1>1, DialogStepStream DEF FormSubmit, Dialogs
<1>2. CASE ConnectedToHost(c)
  BY <1>2, ConnectedStream
<1>3. CASE HostConnectionError(c)
  BY <1>3, DialogStepStream DEF HostConnectionError, Dialogs
<1>4. CASE \E n \in 1 .. Len(down[c]) : HostDataAvailable(c, n)
  <2>1. PICK n \in 1 .. Len(down[c]) : HostDataAvailable(c, n)
    BY <1>4
  <2>2. CASE IsPrefix(Text("greeting"), SubSeq(down[c], 1, n))
    BY <2>1, <2>2, GreetedStream
  <2>3. CASE ~IsPrefix(Text("greeting"), SubSeq(down[c], 1, n))
    BY <2>1, <2>3, DialogStepStream DEF HostDataAvailable, Dialogs
  <2>4. QED
    BY <2>2, <2>3
<1>5. CASE WaitForGreetingError(c)
  BY <1>5, DialogStepStream DEF WaitForGreetingError, Dialogs
<1>6. CASE ClosedWhileHanding(c)
  <2>1. dialog' = [dialog EXCEPT ![c] = "handing"] \/ dialog' = [dialog EXCEPT ![c] = "crashed"]
    BY <1>6 DEF ClosedWhileHanding, StreamInv, StreamTypes
  <2>2. QED
    BY <1>6, <2>1, DialogStepStream DEF ClosedWhileHanding, Dialogs
<1>7. CASE NewServerConnection(c)
  BY <1>7, DialogStepStream DEF NewServerConnection, Dialogs
<1>8. QED
  BY <1>1, <1>2, <1>3, <1>4, <1>5, <1>6, <1>7 DEF Dialog

-----------------------------------------------------------------------------
(***************************************************************************)
(* The connection                                                          *)
(***************************************************************************)

\* The command is pushed once.
LEMMA PushStream ==
    ASSUME StreamInv, NEW c \in Connections, PushCommand(c)
    PROVE  StreamInv'
<1> USE DEF StreamInv
<1>1. /\ dialog[c] = "accepted" /\ m_renderServerState[c] = "NO_DEVICE_INFORMATION"
      /\ newCommands' = [newCommands EXCEPT ![c] = @ + 1]
      /\ m_renderServerState' = [m_renderServerState EXCEPT ![c] = "WAITING_FOR_DEVICE_INFORMATION"]
      /\ UNCHANGED <<backlog, serverVars, results, serverEnd,
                     clientEnd, up, upBuffer, down, downBuffer, dialog, m_currentCommand,
                     m_expectingSize, clientGarbled, numRequests, cutAnswer, coalesced,
                     strays>>
  BY DEF PushCommand, InitialRenderServerState, Set
<1>2. SideInv(c) /\ newCommands[c] = 0
  BY <1>1 DEF SideInv, Command
<1>3. /\ newCommands' \in [Connections -> Nat] /\ newCommands'[c] = 1
      /\ m_renderServerState' \in [Connections -> ServerStates]
      /\ m_renderServerState'[c] = "WAITING_FOR_DEVICE_INFORMATION"
      /\ \A d \in Connections : d # c => /\ newCommands'[d] = newCommands[d]
                                         /\ m_renderServerState'[d] = m_renderServerState[d]
  BY <1>1, <1>2 DEF StreamTypes, ServerStates
<1>4. StreamTypes'
  BY <1>1, <1>3 DEF StreamTypes, serverVars
<1>5. Fresh(c)'
  BY <1>1, <1>2 DEF SideInv, Fresh, serverVars
<1>6. Command(c)'
  BY <1>1, <1>2, <1>3 DEF SideInv, Command, serverVars
<1>7. Answers(c)'
  BY <1>1, <1>2, <1>3 DEF SideInv, Answers
<1>8. \A d \in Connections : d # c => UNCHANGED Side(d)
  BY <1>1, <1>3 DEF Side
<1>9. c = servedSocket /\ m_renderState = "WAITING_FOR_INTRODUCTION_REQUEST" =>
          ~HasName(down'[c]) /\ ~HasName(downBuffer'[c]) /\ m_renderServerState'[c] # "RENDERING"
  BY <1>1, <1>3 DEF IntroductionInv
<1>10. QED
  BY <1>1, <1>4, <1>5, <1>6, <1>7, <1>8, <1>9, ClientStream DEF SideInv

\* A lost connection leaves its command.
LEMMA LostStream ==
    ASSUME StreamInv, NEW c \in Connections, SocketDisconnected(c)
    PROVE  StreamInv'
<1> USE DEF StreamInv
<1>1. /\ dialog[c] = "accepted" /\ clientEnd[c] = "open"
      /\ clientEnd' = [clientEnd EXCEPT ![c] = "closed"]
      /\ m_renderServerState' = [m_renderServerState EXCEPT ![c] = "DISCONNECTED"]
      /\ UNCHANGED <<backlog, serverVars, results, serverEnd, up,
                     upBuffer, down, downBuffer, dialog, newCommands, m_currentCommand,
                     m_expectingSize, clientGarbled, numRequests, cutAnswer, coalesced,
                     strays>>
  BY DEF SocketDisconnected, Set
<1>2. SideInv(c)
  BY DEF SideInv
<1>3. /\ clientEnd' \in [Connections -> {"none", "open", "closed"}] /\ clientEnd'[c] = "closed"
      /\ m_renderServerState' \in [Connections -> ServerStates]
      /\ m_renderServerState'[c] = "DISCONNECTED"
      /\ \A d \in Connections : d # c => /\ clientEnd'[d] = clientEnd[d]
                                         /\ m_renderServerState'[d] = m_renderServerState[d]
  BY <1>1 DEF StreamTypes, ServerStates
<1>4. StreamTypes'
  BY <1>1, <1>3 DEF StreamTypes, serverVars
<1>5. Fresh(c)'
  BY <1>1, <1>2 DEF SideInv, Fresh, serverVars
<1>6. Command(c)'
  BY <1>1, <1>2, <1>3 DEF SideInv, Command, serverVars
<1>7. Answers(c)'
  BY <1>1, <1>2, <1>3 DEF SideInv, Answers
<1>8. \A d \in Connections : d # c => UNCHANGED Side(d)
  BY <1>1, <1>3 DEF Side
<1>9. c = servedSocket /\ m_renderState = "WAITING_FOR_INTRODUCTION_REQUEST" =>
          ~HasName(down'[c]) /\ ~HasName(downBuffer'[c]) /\ m_renderServerState'[c] # "RENDERING"
  BY <1>1, <1>3 DEF IntroductionInv
<1>10. QED
  BY <1>1, <1>3, <1>4, <1>5, <1>6, <1>7, <1>8, <1>9, ClientStream DEF SideInv

\* A client writes: to the other connections nothing happens, and what the server
\* has read stays.
LEMMA WriteOthers ==
    ASSUME StreamInv, NEW c \in Connections, NEW d \in Connections, d # c,
           UNCHANGED <<serverEnd, servedSocket, m_renderState, strays, cutAnswer, coalesced>>,
           UNCHANGED Side(d)
    PROVE  SideInv(d)'
<1>1. SideInv(d) /\ (dialog[d] \in {"form", "connecting"} => serverEnd'[d] = "none")
  BY DEF StreamInv, SideInv, Fresh
<1>2. QED
  BY <1>1, SameSide

\* The introduction is sent.
LEMMA CommandStream ==
    ASSUME StreamInv, NEW c \in Connections, onNewServerCommand(c)
    PROVE  StreamInv'
<1> USE DEF StreamInv
<1> DEFINE text == Text("introduction")
<1>1. SideInv(c) /\ newCommands[c] \in Nat
  BY DEF SideInv, StreamTypes
<1>2. /\ newCommands[c] = 1 /\ m_currentCommand[c] = "NULL" /\ up[c] = <<>>
      /\ m_renderServerState[c] \in {"WAITING_FOR_DEVICE_INFORMATION", "DISCONNECTED"}
      /\ ~(c = servedSocket /\ m_renderState = "RENDERING")
      /\ dialog[c] = "accepted"
  BY <1>1 DEF SideInv, Command, onNewServerCommand
<1>3. text \in Seq(Units) /\ <<>> \o text = text
  BY TextUnits, JoinWithNothing DEF Units
<1> HIDE DEF text
<1>4. /\ newCommands' = [newCommands EXCEPT ![c] = @ - 1]
      /\ m_currentCommand' = [m_currentCommand EXCEPT ![c] = "pending"]
      /\ up' \in {up, [up EXCEPT ![c] = text]}
      /\ UNCHANGED <<backlog, serverVars, results, serverEnd,
                     clientEnd, upBuffer, down, downBuffer, dialog, m_renderServerState,
                     m_expectingSize, clientGarbled, numRequests, cutAnswer, coalesced,
                     strays>>
  BY <1>2, <1>3 DEF onNewServerCommand, Set, text
<1>5. /\ newCommands' \in [Connections -> Nat] /\ newCommands'[c] = 0
      /\ m_currentCommand' \in [Connections -> {"NULL", "pending", "rejected"}]
      /\ m_currentCommand'[c] = "pending"
      /\ up' \in [Connections -> Seq(Units)] /\ up'[c] \in {<<>>, text}
      /\ \A d \in Connections : d # c => /\ newCommands'[d] = newCommands[d]
                                         /\ m_currentCommand'[d] = m_currentCommand[d]
                                         /\ up'[d] = up[d]
  <2>1. /\ up' \in [Connections -> Seq(Units)] /\ up'[c] \in {<<>>, text}
        /\ \A d \in Connections : d # c => up'[d] = up[d]
    <3>1. up \in [Connections -> Seq(Units)]
      BY DEF StreamTypes
    <3>2. CASE up' = up
      BY <1>2, <3>1, <3>2
    <3>3. CASE up' = [up EXCEPT ![c] = text]
      BY <1>3, <3>1, <3>3
    <3>4. QED
      BY <1>4, <3>2, <3>3
  <2>2. /\ newCommands \in [Connections -> Nat]
        /\ m_currentCommand \in [Connections -> {"NULL", "pending", "rejected"}]
    BY DEF StreamTypes
  <2>3. QED
    BY <1>2, <1>4, <2>1, <2>2
<1>6. StreamTypes'
  BY <1>4, <1>5 DEF StreamTypes, serverVars
<1>7. BacklogInv'
  BY <1>4 DEF BacklogInv
<1>8. ASSUME NEW d \in Connections PROVE SideInv(d)'
  <2>1. CASE d # c
    <3>1. UNCHANGED Side(d)
      BY <1>4, <1>5, <2>1 DEF Side
    <3>2. QED
      BY <1>4, <2>1, <3>1, WriteOthers DEF serverVars
  <2>2. CASE d = c
    <3>1. Fresh(d)'
      BY <1>1, <1>2, <1>4, <2>2 DEF SideInv, Fresh, serverVars
    <3>2. Command(d)'
      BY <1>1, <1>2, <1>4, <1>5, <2>2 DEF SideInv, Command, serverVars
    <3>3. Answers(d)'
      BY <1>1, <1>2, <1>4, <1>5, <2>2 DEF SideInv, Answers
    <3>4. QED
      BY <3>1, <3>2, <3>3 DEF SideInv
  <2>3. QED
    BY <2>1, <2>2
<1>9. servedSocket \in Connections \cup {NoConnection}
  BY DEF StreamTypes
<1>10. IntroductionInv'
  <2>1. m_renderState = "WAITING_FOR_INTRODUCTION_REQUEST" => servedSocket \in Connections
    BY <1>9 DEF IntroductionInv
  <2>2. QED
    BY <1>4, <1>5, <2>1 DEF IntroductionInv, serverVars, text
<1>11. RequestInv'
  <2>1. m_renderState = "RENDERING" => servedSocket \in Connections /\ servedSocket # c
    BY <1>2, <1>9 DEF IntroductionInv
  <2>2. QED
    BY <1>4, <1>5, <2>1 DEF RequestInv, serverVars
<1>12. AskedInv'
  <2>1. m_renderState = "RENDERING" => servedSocket \in Connections /\ servedSocket # c
    BY <1>2, <1>9 DEF IntroductionInv
  <2>2. QED
    BY <1>4, <1>5, <2>1 DEF AskedInv, serverVars
<1>13. QED
  BY <1>6, <1>7, <1>8, <1>10, <1>11, <1>12 DEF SideInv

\* A request is sent.
LEMMA SendStream ==
    ASSUME StreamInv, NEW c \in Connections, SendRequest(c)
    PROVE  StreamInv'
<1> USE DEF StreamInv
<1> DEFINE longer == up[c] \o Packet
<1>1. /\ SideInv(c) /\ numRequests[c] \in Nat /\ up[c] \in Seq(Units)
      /\ up \in [Connections -> Seq(Units)] /\ numRequests \in [Connections -> Nat]
      /\ newCommands[c] \in Nat
  BY DEF SideInv, StreamTypes
<1>2. /\ m_renderServerState[c] = "RENDERING"
      /\ numRequests' = [numRequests EXCEPT ![c] = @ + 1]
      /\ \/ ~clientGarbled[c] /\ up' = [up EXCEPT ![c] = longer]
         \/ clientGarbled[c] /\ up' = up
      /\ UNCHANGED <<backlog, serverVars, results, serverEnd,
                     clientEnd, upBuffer, down, downBuffer, dialog, m_renderServerState,
                     newCommands, m_currentCommand, m_expectingSize, clientGarbled,
                     cutAnswer, coalesced, strays>>
  BY <1>1 DEF SendRequest, SideInv, Command
<1>3. newCommands[c] = 0 /\ dialog[c] = "accepted"
  BY <1>1, <1>2 DEF SideInv, Command
<1>4. longer \in Seq(Units) /\ Len(longer) = Len(up[c]) + Len(Packet)
  BY <1>1, JoinPlaces, PacketUnits
<1> HIDE DEF longer
<1>5. /\ up' \in [Connections -> Seq(Units)] /\ numRequests' \in [Connections -> Nat]
      /\ up'[c] = IF clientGarbled[c] THEN up[c] ELSE longer
      /\ numRequests'[c] = numRequests[c] + 1
      /\ \A d \in Connections : d # c => up'[d] = up[d] /\ numRequests'[d] = numRequests[d]
  <2>1. /\ up' \in [Connections -> Seq(Units)]
        /\ up'[c] = IF clientGarbled[c] THEN up[c] ELSE longer
        /\ \A d \in Connections : d # c => up'[d] = up[d]
    <3>1. CASE clientGarbled[c]
      BY <1>1, <1>2, <3>1
    <3>2. CASE ~clientGarbled[c]
      BY <1>1, <1>2, <1>4, <3>2
    <3>3. QED
      BY <3>1, <3>2
  <2>2. /\ numRequests' \in [Connections -> Nat] /\ numRequests'[c] = numRequests[c] + 1
        /\ \A d \in Connections : d # c => numRequests'[d] = numRequests[d]
    BY <1>1, <1>2
  <2>3. QED
    BY <2>1, <2>2
<1>6. StreamTypes'
  BY <1>2, <1>5 DEF StreamTypes, serverVars
<1>7. BacklogInv'
  BY <1>2 DEF BacklogInv
<1>8. ASSUME NEW d \in Connections PROVE SideInv(d)'
  <2>1. CASE d # c
    <3>1. UNCHANGED Side(d)
      BY <1>2, <1>5, <2>1 DEF Side
    <3>2. QED
      BY <1>2, <2>1, <3>1, WriteOthers DEF serverVars
  <2>2. CASE d = c
    <3>1. Fresh(d)'
      BY <1>1, <1>2, <1>3, <2>2 DEF SideInv, Fresh, serverVars
    <3>2. Command(d)'
      BY <1>1, <1>2, <1>3, <2>2 DEF SideInv, Command, serverVars
    <3>3. Answers(d)'
      BY <1>1, <1>2, <2>2 DEF SideInv, Answers, Taken
    <3>4. QED
      BY <3>1, <3>2, <3>3 DEF SideInv
  <2>3. QED
    BY <2>1, <2>2
<1>9. servedSocket \in Connections \cup {NoConnection}
  BY DEF StreamTypes
<1>10. IntroductionInv'
  <2>1. m_renderState = "WAITING_FOR_INTRODUCTION_REQUEST" =>
            servedSocket \in Connections /\ servedSocket # c
    BY <1>2, <1>9 DEF IntroductionInv
  <2>2. QED
    BY <1>2, <1>5, <2>1 DEF IntroductionInv, serverVars
<1>11. RequestInv'
  <2>1. CASE servedSocket # c
    <3>1. m_renderState = "RENDERING" => servedSocket \in Connections
      BY <1>9 DEF IntroductionInv
    <3>2. QED
      BY <1>2, <1>5, <2>1, <3>1 DEF RequestInv, serverVars
  <2>2. CASE servedSocket = c
    <3> SUFFICES ASSUME m_renderState = "RENDERING", ~cutRequest PROVE RequestInv'
      BY <1>2 DEF RequestInv, serverVars
    <3> DEFINE L == Len(Packet)
               buffer == upBuffer[c]
    <3>1. /\ ~serverGarbled /\ m_clientExpectingBytes = 0
          /\ \E k \in Nat : Packets(buffer, 0, k)
          /\ reading <=> buffer # <<>>
          /\ serverEnd[c] = "open" /\ ~clientGarbled[c]
                 => parsed * L + Len(buffer) + Len(up[c]) = numRequests[c] * L
      BY <2>2 DEF RequestInv
    <3>2. PICK k \in Nat : Packets(up[c], 0, k)
      BY <2>2 DEF RequestInv
    <3>3. \E m \in Nat : Packets(up'[c], 0, m)
      <4>1. Packets(longer, 0, k + 1) /\ k + 1 \in Nat
        BY <1>1, <3>2, PacketsAppend DEF longer
      <4>2. QED
        BY <1>5, <3>2, <4>1
    <3>4. serverEnd[c] = "open" /\ ~clientGarbled[c]
              => parsed * L + Len(buffer) + Len(up'[c]) = (numRequests[c] + 1) * L
      <4> SUFFICES ASSUME serverEnd[c] = "open", ~clientGarbled[c]
                   PROVE  parsed * L + Len(buffer) + Len(longer) = (numRequests[c] + 1) * L
        BY <1>5
      <4> DEFINE x == parsed * L
                 y == numRequests[c] * L
                 z == (numRequests[c] + 1) * L
      <4>1. L \in Nat /\ parsed \in Nat /\ buffer \in Seq(Units)
        BY PacketUnits, SessionAssumption DEF StreamTypes
      <4>2. x \in Nat /\ y \in Nat /\ z = y + L
        BY <1>1, <4>1, PacketEnds
      <4>3. x + Len(buffer) + Len(up[c]) = y
        BY <3>1
      <4> HIDE DEF x, y, z
      <4>4. Len(buffer) \in Nat /\ Len(up[c]) \in Nat /\ Len(longer) = Len(up[c]) + L
        BY <1>1, <1>4, <4>1
      <4> DEFINE i == Len(buffer)
                 j == Len(up[c])
      <4> HIDE DEF L
      <4>5. i \in Nat /\ j \in Nat /\ x + i + j = y /\ Len(longer) = j + L /\ L \in Nat
        BY <4>1, <4>3, <4>4
      <4> HIDE DEF i, j
      <4>6. x + i + Len(longer) = z
        BY <4>2, <4>5
      <4>7. QED
        BY <4>6 DEF x, z, i
    <3>5. /\ UNCHANGED <<servedSocket, serverGarbled, m_clientExpectingBytes, reading, parsed>>
          /\ UNCHANGED <<upBuffer, serverEnd, clientGarbled>>
      BY <1>2 DEF serverVars
    <3> HIDE DEF L
    <3>6. QED
      BY <1>5, <2>2, <3>1, <3>3, <3>4, <3>5 DEF RequestInv, L
  <2>3. QED
    BY <2>1, <2>2
<1>12. AskedInv'
  <2>1. m_renderState = "RENDERING" => servedSocket \in Connections
    BY <1>9 DEF IntroductionInv
  <2>2. QED
    BY <1>2, <1>5, <2>1 DEF AskedInv, serverVars
<1>13. QED
  BY <1>6, <1>7, <1>8, <1>10, <1>11, <1>12 DEF SideInv

\* What arrives is what was read, and what is left is what was there.
LEMMA ArrivedUnits ==
    ASSUME StreamInv, NEW c \in Connections, NEW n \in 1 .. Len(down[c])
    PROVE  LET first == SubSeq(down[c], 1, n)
               rest == Drop(down[c], n)
               arrived == downBuffer[c] \o first
           IN  /\ first \in Seq(Units) /\ rest \in Seq(Units) /\ arrived \in Seq(Units)
               /\ arrived # <<>> /\ down[c] # <<>>
               /\ arrived \o rest = downBuffer[c] \o down[c]
               /\ HasName(rest) => HasName(down[c])
               /\ HasName(arrived) => HasName(downBuffer[c]) \/ HasName(down[c])
<1> DEFINE first == SubSeq(down[c], 1, n)
           rest == Drop(down[c], n)
           arrived == downBuffer[c] \o first
<1>1. down[c] \in Seq(Units) /\ downBuffer[c] \in Seq(Units)
  BY DEF StreamInv, StreamTypes
<1>2. n \in 0 .. Len(down[c]) /\ down[c] # <<>>
  BY <1>1
<1>3. /\ first \in Seq(Units) /\ Len(first) = n /\ rest \in Seq(Units)
      /\ HasName(rest) => HasName(down[c])
      /\ HasName(first) => HasName(down[c])
  BY <1>1, <1>2, FirstPlaces, DropPlaces, NameInParts
<1>4. arrived \o rest = downBuffer[c] \o down[c]
  BY <1>1, <1>2, MovedUnits
<1> HIDE DEF first, rest
<1>5. arrived \in Seq(Units) /\ Len(arrived) = Len(downBuffer[c]) + n
  BY <1>1, <1>3, JoinPlaces
<1>6. HasName(arrived) => HasName(downBuffer[c]) \/ HasName(first)
  BY <1>1, <1>3, NameInParts
<1> HIDE DEF arrived
<1>7. arrived # <<>>
  <2>1. Len(downBuffer[c]) \in Nat /\ n \in Nat /\ n >= 1
    BY <1>1
  <2>2. Len(arrived) # 0
    BY <1>5, <2>1
  <2>3. QED
    BY <1>5, <2>2, TwoUnits
<1>8. QED
  BY <1>2, <1>3, <1>4, <1>5, <1>6, <1>7 DEF first, rest, arrived

\* What a client reads changes nothing but its own state.
LEMMA ReadStream ==
    ASSUME StreamInv, NEW c \in Connections, NEW rest \in Seq(Units), NEW left \in Seq(Units),
           NEW expecting \in {0, BodyUnits}, NEW garbled \in BOOLEAN,
           NEW state \in ServerStates, NEW command \in {m_currentCommand[c], "NULL"},
           dialog[c] \in {"handing", "accepted"}, clientEnd[c] = "open",
           UNCHANGED <<serverVars, results, strays, backlog, serverEnd, up, upBuffer,
                       clientEnd, dialog, newCommands, numRequests>>,
           down' = [down EXCEPT ![c] = rest],
           downBuffer' = [downBuffer EXCEPT ![c] = left],
           m_expectingSize' = [m_expectingSize EXCEPT ![c] = expecting],
           clientGarbled' = [clientGarbled EXCEPT ![c] = garbled],
           m_renderServerState' = [m_renderServerState EXCEPT ![c] = state],
           m_currentCommand' = [m_currentCommand EXCEPT ![c] = command],
           cutAnswer' \in {cutAnswer, cutAnswer \cup {c}},
           coalesced' \in {coalesced, coalesced \cup {c}},
           \/ state = m_renderServerState[c] /\ command = m_currentCommand[c]
           \/ /\ m_currentCommand[c] = "pending" /\ command = "NULL"
              /\ state \in {"RENDERING", "ERROR_INVALID_CONFIRMATION"},
           state \in {"NO_DEVICE_INFORMATION", "WAITING_FOR_DEVICE_INFORMATION"}
               => expecting = 0 /\ ~garbled,
           clientGarbled[c] => garbled,
           HasName(rest) \/ HasName(left) => HasName(down[c]) \/ HasName(downBuffer[c]),
           state = "RENDERING" =>
               m_renderServerState[c] = "RENDERING" \/ HasName(down[c]) \/ HasName(downBuffer[c]),
           Answers(c)'
    PROVE  StreamInv'
<1> USE DEF StreamInv
<1>1. SideInv(c)
  BY DEF SideInv
<1>2. /\ down' \in [Connections -> Seq(Units)] /\ downBuffer' \in [Connections -> Seq(Units)]
      /\ down'[c] = rest /\ downBuffer'[c] = left
      /\ \A d \in Connections : d # c => down'[d] = down[d] /\ downBuffer'[d] = downBuffer[d]
  BY DEF StreamTypes
<1>3. /\ m_expectingSize' \in [Connections -> {0, BodyUnits}]
      /\ clientGarbled' \in [Connections -> BOOLEAN]
      /\ m_expectingSize'[c] = expecting /\ clientGarbled'[c] = garbled
      /\ \A d \in Connections : d # c => /\ m_expectingSize'[d] = m_expectingSize[d]
                                         /\ clientGarbled'[d] = clientGarbled[d]
  BY DEF StreamTypes
<1>4. /\ m_renderServerState' \in [Connections -> ServerStates]
      /\ m_currentCommand' \in [Connections -> {"NULL", "pending", "rejected"}]
      /\ m_renderServerState'[c] = state /\ m_currentCommand'[c] = command
      /\ \A d \in Connections : d # c => /\ m_renderServerState'[d] = m_renderServerState[d]
                                         /\ m_currentCommand'[d] = m_currentCommand[d]
  BY DEF StreamTypes
<1>5. StreamTypes'
  BY <1>2, <1>3, <1>4 DEF StreamTypes, serverVars
<1>6. /\ m_currentCommand[c] = "pending" =>
             /\ m_renderServerState[c] = "WAITING_FOR_DEVICE_INFORMATION" /\ newCommands[c] = 0
      /\ m_renderServerState[c] # "DISCONNECTED"
      /\ newCommands[c] \in Nat
  BY <1>1 DEF SideInv, Command, StreamTypes
<1>7. Fresh(c)'
  BY <1>1 DEF SideInv, Fresh, serverVars
<1>8. Command(c)'
  BY <1>1, <1>3, <1>4, <1>6 DEF SideInv, Command, serverVars
<1>9. \A d \in Connections : d # c =>
          /\ UNCHANGED Side(d)
          /\ d \in cutAnswer' <=> d \in cutAnswer
          /\ d \in coalesced' <=> d \in coalesced
  BY <1>2, <1>3, <1>4 DEF Side
<1>10. c = servedSocket /\ m_renderState = "WAITING_FOR_INTRODUCTION_REQUEST" =>
          ~HasName(down'[c]) /\ ~HasName(downBuffer'[c]) /\ m_renderServerState'[c] # "RENDERING"
  BY <1>2, <1>4 DEF IntroductionInv
<1>11. /\ UNCHANGED <<up[c], upBuffer[c], numRequests[c]>>
       /\ clientGarbled[c] => clientGarbled'[c]
       /\ m_renderServerState[c] \in {"RENDERING", "DISCONNECTED"}
              => m_renderServerState'[c] \in {"RENDERING", "DISCONNECTED"}
  BY <1>3, <1>4, <1>6
<1>12. QED
  BY <1>5, <1>7, <1>8, <1>9, <1>10, <1>11, ClientStream DEF SideInv

\* The answer to the introduction is read, with what follows it, or a part of it.
LEMMA ResponseStream ==
    ASSUME StreamInv, NEW c \in Connections, NEW n \in 1 .. Len(down[c]),
           onSocketReadyRead(c, n), CommandResponse(c, downBuffer[c] \o SubSeq(down[c], 1, n))
    PROVE  StreamInv'
<1> USE DEF StreamInv
<1> DEFINE first == SubSeq(down[c], 1, n)
           rest == Drop(down[c], n)
           arrived == downBuffer[c] \o first
           name == Text("name")
<1>1. /\ first \in Seq(Units) /\ rest \in Seq(Units) /\ arrived \in Seq(Units)
      /\ down[c] # <<>>
      /\ HasName(rest) => HasName(down[c])
      /\ HasName(arrived) => HasName(downBuffer[c]) \/ HasName(down[c])
  BY ArrivedUnits
<1>2. /\ dialog[c] \in {"handing", "accepted"} /\ clientEnd[c] = "open"
      /\ down' = [down EXCEPT ![c] = rest]
      /\ UNCHANGED <<serverVars, results, strays, backlog, serverEnd, up, upBuffer,
                     clientEnd, dialog, newCommands, numRequests>>
  BY DEF onSocketReadyRead, Set
<1>3. SideInv(c) /\ m_currentCommand[c] = "pending"
  BY DEF SideInv, CommandResponse
<1>4. /\ m_renderServerState[c] = "WAITING_FOR_DEVICE_INFORMATION"
      /\ ~clientGarbled[c] /\ m_expectingSize[c] = 0 /\ dialog[c] = "accepted"
  BY <1>2, <1>3 DEF SideInv, Command
<1>5. c \notin strays => downBuffer[c] = <<>> /\ down[c] = name
  BY <1>1, <1>2, <1>3, <1>4 DEF SideInv, Answers
<1>6. c \notin strays =>
          \/ n = 2 /\ arrived = name /\ rest = <<>>
          \/ n = 1 /\ Len(arrived) = 1 /\ ~IsPrefix(name, arrived)
  <2> SUFFICES ASSUME c \notin strays
               PROVE  \/ n = 2 /\ arrived = name /\ rest = <<>>
                      \/ n = 1 /\ Len(arrived) = 1 /\ ~IsPrefix(name, arrived)
    OBVIOUS
  <2>1. n \in 1 .. Len(name)
    BY <1>5
  <2>2. arrived = SubSeq(name, 1, n)
    BY <1>1, <1>5, JoinWithNothing
  <2>3. rest = Drop(name, n)
    BY <1>5
  <2>4. \/ n = 2 /\ SubSeq(name, 1, n) = name /\ Drop(name, n) = <<>>
        \/ n = 1 /\ Len(SubSeq(name, 1, n)) = 1 /\ ~IsPrefix(name, SubSeq(name, 1, n))
    BY <2>1, PartOfText DEF Units
  <2> HIDE DEF arrived, rest, name
  <2>5. QED
    BY <2>2, <2>3, <2>4
<1>7. /\ m_currentCommand' = [m_currentCommand EXCEPT ![c] = "NULL"]
      /\ cutAnswer' = IF Len(arrived) < 2 THEN cutAnswer \cup {c} ELSE cutAnswer
      /\ coalesced' = coalesced
  BY DEF CommandResponse, DeleteCommand, Set
<1>8. CASE IsPrefix(name, arrived)
  <2> DEFINE after == Drop(arrived, 2)
             read == ReadResult(after, 0)
  <2>1. /\ m_renderServerState' = [m_renderServerState EXCEPT ![c] = "RENDERING"]
        /\ downBuffer' = [downBuffer EXCEPT ![c] = read.buffer]
        /\ m_expectingSize' = [m_expectingSize EXCEPT ![c] = read.expecting]
        /\ clientGarbled' = [clientGarbled EXCEPT ![c] = read.garbled]
    BY <1>8 DEF CommandResponse, Set
  <2>2. after \in Seq(Units) /\ (HasName(after) => HasName(arrived)) /\ HasName(arrived)
    <3>1. Len(arrived) >= 2 /\ Len(arrived) \in Nat
      BY <1>1, <1>8, PrefixOfTwo, TwoUnits DEF Text
    <3>2. 2 \in 0 .. Len(arrived)
      BY <3>1
    <3>3. QED
      BY <1>1, <1>8, <3>2, DropPlaces, NameInParts
  <2>3. /\ read.buffer \in Seq(Units) /\ read.expecting \in {0, BodyUnits}
        /\ read.garbled \in BOOLEAN /\ (HasName(read.buffer) => HasName(after))
    BY <2>2, ReadResultTypes
  <2>4. c \notin strays => after = <<>> /\ rest = <<>>
    BY <1>6, <1>8, TextUnits DEF Units
  <2>5. after = <<>> => /\ read.buffer = <<>> /\ read.expecting = 0 /\ read.garbled = FALSE
    BY DEF ReadResult
  <2> DEFINE left == read.buffer
             expecting == read.expecting
             garbled == read.garbled
  <2> HIDE DEF first, rest, arrived, name, read, after
  <2>6. /\ down'[c] = rest /\ downBuffer'[c] = left /\ m_expectingSize'[c] = expecting
        /\ clientGarbled'[c] = garbled /\ m_renderServerState'[c] = "RENDERING"
        /\ m_currentCommand'[c] = "NULL"
    BY <1>2, <1>7, <2>1 DEF StreamTypes
  <2>7. Answers(c)'
    <3> SUFFICES ASSUME c \notin strays PROVE Answers(c)'
      BY <1>2 DEF Answers
    <3>1. left = <<>> /\ expecting = 0 /\ garbled = FALSE /\ rest = <<>>
      BY <2>4, <2>5
    <3>2. Packets(<<>> \o <<>>, 0, 0)
      BY NoPackets
    <3>3. Taken(c)' = 0
      BY <2>6, <3>1 DEF Taken
    <3>4. 0 + Len(<<>>) < Len(Packet)
      BY PacketUnits, SessionAssumption
    <3>5. dialog'[c] = "accepted"
      BY <1>2, <1>4
    <3> HIDE DEF left, expecting, garbled
    <3>6. QED
      BY <2>6, <3>1, <3>2, <3>3, <3>4, <3>5 DEF Answers
  <2> HIDE DEF left, expecting, garbled
  <2>8. left \in Seq(Units) /\ expecting \in {0, BodyUnits} /\ garbled \in BOOLEAN
    BY <2>3 DEF left, expecting, garbled
  <2>9. HasName(left) => HasName(arrived)
    BY <2>2, <2>3 DEF left
  <2>10. /\ downBuffer' = [downBuffer EXCEPT ![c] = left]
         /\ m_expectingSize' = [m_expectingSize EXCEPT ![c] = expecting]
         /\ clientGarbled' = [clientGarbled EXCEPT ![c] = garbled]
    BY <2>1 DEF left, expecting, garbled
  <2>11. "RENDERING" \in ServerStates
    BY DEF ServerStates
  <2>12. HasName(down[c]) \/ HasName(downBuffer[c])
    BY <1>1, <2>2
  <2>13. cutAnswer' \in {cutAnswer, cutAnswer \cup {c}}
    BY <1>7
  <2>14. QED
    BY <1>1, <1>2, <1>3, <1>4, <1>7, <2>1, <2>7, <2>8, <2>10, <2>11, <2>12, <2>13, ReadStream
<1>9. CASE ~IsPrefix(name, arrived)
  <2>1. /\ m_renderServerState' = [m_renderServerState EXCEPT ![c] = "ERROR_INVALID_CONFIRMATION"]
        /\ downBuffer' = [downBuffer EXCEPT ![c] = <<>>]
        /\ UNCHANGED <<m_expectingSize, clientGarbled>>
    BY <1>9 DEF CommandResponse, Set
  <2>2. /\ m_expectingSize' = [m_expectingSize EXCEPT ![c] = 0]
        /\ clientGarbled' = [clientGarbled EXCEPT ![c] = FALSE]
    BY <1>4, <2>1 DEF StreamTypes
  <2>3. c \notin strays => c \in cutAnswer'
    <3>1. IsPrefix(name, name)
      BY TextUnits DEF Units
    <3> HIDE DEF first, rest, arrived, name
    <3>2. c \notin strays => Len(arrived) = 1
      BY <1>6, <1>9, <3>1
    <3>3. Len(arrived) = 1 => Len(arrived) < 2
      OBVIOUS
    <3>4. QED
      BY <1>7, <3>2, <3>3
  <2> HIDE DEF first, rest, arrived, name
  <2>4. /\ m_renderServerState'[c] = "ERROR_INVALID_CONFIRMATION" /\ dialog'[c] = "accepted"
    BY <1>2, <1>4, <2>1 DEF StreamTypes
  <2>5. Answers(c)'
    BY <1>2, <2>3, <2>4 DEF Answers
  <2>6. "ERROR_INVALID_CONFIRMATION" \in ServerStates /\ <<>> \in Seq(Units) /\ ~HasName(<<>>)
    BY NamelessTexts DEF ServerStates
  <2>7. cutAnswer' \in {cutAnswer, cutAnswer \cup {c}}
    BY <1>7
  <2>8. QED
    BY <1>1, <1>2, <1>3, <1>4, <1>7, <2>1, <2>2, <2>5, <2>6, <2>7, ReadStream
<1>10. QED
  BY <1>8, <1>9

\* Results are read.
LEMMA ResultStream ==
    ASSUME StreamInv, NEW c \in Connections, NEW n \in 1 .. Len(down[c]),
           onSocketReadyRead(c, n), ResultArrives(c, downBuffer[c] \o SubSeq(down[c], 1, n))
    PROVE  StreamInv'
<1> USE DEF StreamInv
<1> DEFINE first == SubSeq(down[c], 1, n)
           rest == Drop(down[c], n)
           arrived == downBuffer[c] \o first
           read == ReadResult(arrived, m_expectingSize[c])
           left == read.buffer
           expecting == read.expecting
           garbled == read.garbled
<1>1. /\ rest \in Seq(Units) /\ arrived \in Seq(Units)
      /\ arrived \o rest = downBuffer[c] \o down[c]
      /\ HasName(rest) => HasName(down[c])
      /\ HasName(arrived) => HasName(downBuffer[c]) \/ HasName(down[c])
  BY ArrivedUnits
<1>2. /\ dialog[c] \in {"handing", "accepted"} /\ clientEnd[c] = "open"
      /\ down' = [down EXCEPT ![c] = rest]
      /\ UNCHANGED <<serverVars, results, strays, backlog, serverEnd, up, upBuffer,
                     clientEnd, dialog, newCommands, numRequests>>
  BY DEF onSocketReadyRead, Set
<1>3. /\ m_currentCommand[c] # "pending" /\ m_renderServerState[c] = "RENDERING"
      /\ ~clientGarbled[c] /\ SideInv(c) /\ m_expectingSize[c] \in {0, BodyUnits}
      /\ m_renderServerState[c] \in ServerStates
  BY DEF SideInv, ResultArrives, StreamTypes
<1>4. /\ downBuffer' = [downBuffer EXCEPT ![c] = left]
      /\ m_expectingSize' = [m_expectingSize EXCEPT ![c] = expecting]
      /\ clientGarbled' = [clientGarbled EXCEPT ![c] = garbled]
      /\ cutAnswer' = IF m_expectingSize[c] = 0 /\ Len(arrived) % Len(Packet) = 1
                      THEN cutAnswer \cup {c} ELSE cutAnswer
      /\ coalesced' = IF ResultsIn(arrived, m_expectingSize[c]) > 1
                      THEN coalesced \cup {c} ELSE coalesced
      /\ UNCHANGED <<m_renderServerState, m_currentCommand>>
  BY DEF ResultArrives, Set
<1>5. /\ left \in Seq(Units) /\ expecting \in {0, BodyUnits} /\ garbled \in BOOLEAN
      /\ HasName(left) => HasName(arrived)
  BY <1>1, <1>3, ReadResultTypes
<1>6. ASSUME NEW k \in Nat, Packets(arrived \o rest, TakenWhen(m_expectingSize[c]), k),
             ~(m_expectingSize[c] = 0 /\ Len(arrived) % Len(Packet) = 1)
      PROVE  /\ ~garbled
             /\ \E m \in Nat : Packets(left \o rest, TakenWhen(expecting), m)
             /\ ~(ResultsIn(arrived, m_expectingSize[c]) > 1)
                    => TakenWhen(expecting) + Len(left) < Len(Packet)
  BY <1>1, <1>3, <1>6, ReadResultPackets
<1> HIDE DEF first, rest, arrived, read, left, expecting, garbled
<1>7. /\ down'[c] = rest /\ downBuffer'[c] = left /\ m_expectingSize'[c] = expecting
      /\ clientGarbled'[c] = garbled /\ m_renderServerState'[c] = "RENDERING"
      /\ dialog'[c] = "accepted"
  <2>1. dialog[c] = "accepted"
    BY <1>3 DEF SideInv, Command
  <2>2. QED
    BY <1>2, <1>3, <1>4, <2>1 DEF StreamTypes
<1>8. Answers(c)'
  <2> SUFFICES ASSUME c \notin strays, c \notin cutAnswer'
               PROVE  /\ ~garbled
                      /\ \E k \in Nat : Packets(left \o rest, TakenWhen(expecting), k)
                      /\ c \notin coalesced' => TakenWhen(expecting) + Len(left) < Len(Packet)
    <3>1. Taken(c)' = TakenWhen(expecting)
      BY <1>7 DEF Taken, TakenWhen
    <3>2. QED
      BY <1>2, <1>7, <3>1 DEF Answers
  <2>1. c \notin cutAnswer /\ ~(m_expectingSize[c] = 0 /\ Len(arrived) % Len(Packet) = 1)
    BY <1>4
  <2>2. Taken(c) = TakenWhen(m_expectingSize[c])
    BY DEF Taken, TakenWhen
  <2>3. PICK k \in Nat : Packets(downBuffer[c] \o down[c], Taken(c), k)
    BY <1>3, <2>1 DEF SideInv, Answers
  <2>4. Packets(arrived \o rest, TakenWhen(m_expectingSize[c]), k)
    BY <1>1, <2>2, <2>3
  <2>5. /\ ~garbled
        /\ \E m \in Nat : Packets(left \o rest, TakenWhen(expecting), m)
        /\ ~(ResultsIn(arrived, m_expectingSize[c]) > 1)
               => TakenWhen(expecting) + Len(left) < Len(Packet)
    BY <1>6, <2>1, <2>4
  <2>6. c \notin coalesced' => ~(ResultsIn(arrived, m_expectingSize[c]) > 1)
    BY <1>4
  <2>7. QED
    BY <2>5, <2>6
<1>9. /\ m_renderServerState' = [m_renderServerState EXCEPT ![c] = m_renderServerState[c]]
      /\ m_currentCommand' = [m_currentCommand EXCEPT ![c] = m_currentCommand[c]]
  BY <1>4 DEF StreamTypes
<1>10. /\ cutAnswer' \in {cutAnswer, cutAnswer \cup {c}}
       /\ coalesced' \in {coalesced, coalesced \cup {c}}
  BY <1>4
<1>11. /\ m_renderServerState[c] \notin {"NO_DEVICE_INFORMATION", "WAITING_FOR_DEVICE_INFORMATION"}
       /\ HasName(rest) \/ HasName(left) => HasName(down[c]) \/ HasName(downBuffer[c])
  BY <1>1, <1>3, <1>5
<1>12. QED
  BY <1>1, <1>2, <1>3, <1>4, <1>5, <1>8, <1>9, <1>10, <1>11, ReadStream

\* What arrives before anybody reads it stays.
LEMMA NobodyReadsStream ==
    ASSUME StreamInv, NEW c \in Connections, NEW n \in 1 .. Len(down[c]),
           onSocketReadyRead(c, n), NobodyReads(c, downBuffer[c] \o SubSeq(down[c], 1, n))
    PROVE  StreamInv'
<1> USE DEF StreamInv
<1> DEFINE first == SubSeq(down[c], 1, n)
           rest == Drop(down[c], n)
           arrived == downBuffer[c] \o first
<1>1. /\ rest \in Seq(Units) /\ arrived \in Seq(Units) /\ down[c] # <<>>
      /\ HasName(rest) => HasName(down[c])
      /\ HasName(arrived) => HasName(downBuffer[c]) \/ HasName(down[c])
  BY ArrivedUnits
<1>2. /\ dialog[c] \in {"handing", "accepted"} /\ clientEnd[c] = "open"
      /\ down' = [down EXCEPT ![c] = rest]
      /\ UNCHANGED <<serverVars, results, strays, backlog, serverEnd, up, upBuffer,
                     clientEnd, dialog, newCommands, numRequests>>
  BY DEF onSocketReadyRead, Set
<1>3. /\ m_currentCommand[c] # "pending"
      /\ m_renderServerState[c] # "RENDERING" \/ clientGarbled[c]
      /\ downBuffer' = [downBuffer EXCEPT ![c] = arrived]
      /\ UNCHANGED <<m_renderServerState, m_currentCommand, m_expectingSize, clientGarbled,
                     cutAnswer, coalesced>>
  BY DEF NobodyReads, Set
<1>4. SideInv(c)
  BY DEF SideInv
<1> HIDE DEF first, rest, arrived
<1>5. Answers(c)'
  <2> SUFFICES ASSUME c \notin strays PROVE Answers(c)'
    BY <1>2 DEF Answers
  <2>1. m_renderServerState[c] \notin {"NO_DEVICE_INFORMATION", "WAITING_FOR_DEVICE_INFORMATION"}
    BY <1>1, <1>2, <1>3, <1>4 DEF SideInv, Answers
  <2>2. m_renderServerState[c] = "RENDERING" => c \in cutAnswer
    BY <1>3, <1>4 DEF SideInv, Answers
  <2>3. QED
    BY <1>2, <1>3, <1>4, <2>1, <2>2 DEF SideInv, Answers
<1>6. /\ m_expectingSize' = [m_expectingSize EXCEPT ![c] = m_expectingSize[c]]
      /\ clientGarbled' = [clientGarbled EXCEPT ![c] = clientGarbled[c]]
      /\ m_renderServerState' = [m_renderServerState EXCEPT ![c] = m_renderServerState[c]]
      /\ m_currentCommand' = [m_currentCommand EXCEPT ![c] = m_currentCommand[c]]
  BY <1>3 DEF StreamTypes
<1>7. /\ m_expectingSize[c] \in {0, BodyUnits} /\ clientGarbled[c] \in BOOLEAN
      /\ m_renderServerState[c] \in ServerStates
      /\ m_renderServerState[c] \in {"NO_DEVICE_INFORMATION", "WAITING_FOR_DEVICE_INFORMATION"}
             => m_expectingSize[c] = 0 /\ ~clientGarbled[c]
  BY <1>4 DEF SideInv, Command, StreamTypes
<1>8. QED
  BY <1>1, <1>2, <1>3, <1>5, <1>6, <1>7, ReadStream

\* The connection
LEMMA ConnectionStream ==
    ASSUME StreamInv, NEW c \in Connections, Connection(c)
    PROVE  StreamInv'
<1>1. CASE \E n \in 1 .. Len(down[c]) : onSocketReadyRead(c, n)
  <2>1. PICK n \in 1 .. Len(down[c]) : onSocketReadyRead(c, n)
    BY <1>1
  <2> DEFINE arrived == downBuffer[c] \o SubSeq(down[c], 1, n)
  <2>2. CommandResponse(c, arrived) \/ ResultArrives(c, arrived) \/ NobodyReads(c, arrived)
    BY <2>1 DEF onSocketReadyRead
  <2>3. QED
    BY <2>1, <2>2, ResponseStream, ResultStream, NobodyReadsStream
<1>2. QED
  BY <1>1, PushStream, CommandStream, SendStream, LostStream DEF Connection

-----------------------------------------------------------------------------
(***************************************************************************)
(* What the streams carry                                                  *)
(***************************************************************************)

\* With the window's invariant, that of the streams is inductive.
LEMMA StepStream == IInv /\ StreamInv /\ [Next]_vars => StreamInv'
<1> SUFFICES ASSUME IInv, StreamInv, [Next]_vars PROVE StreamInv'
  OBVIOUS
<1>1. CASE Window
  BY <1>1, WindowStream
<1>2. CASE Server
  BY <1>2, ServerStream
<1>3. CASE \E c \in Connections : Dialog(c) \/ Connection(c)
  BY <1>3, DialogStream, ConnectionStream
<1>4. CASE UNCHANGED vars
  BY <1>4, EndsCloseStream DEF vars, windowVars, StreamInv, StreamTypes
<1>5. QED
  BY <1>1, <1>2, <1>3, <1>4 DEF Next

\* Every reachable state satisfies it, whatever the sizes of packets and segments.
THEOREM StreamInvariance == Spec => []StreamInv
BY InitStream, StepStream, Invariance, PTL DEF Spec

\* Unless a segment ends inside a request, no request is lost or misread between
\* SendRequest and onDataFromClient, and the loop there stops with nothing left.
THEOREM RequestsArriveHolds == Spec => []RequestsArrive
<1>1. StreamInv => RequestsArrive
  BY DEF StreamInv, RequestInv, RequestsArrive
<1>2. QED
  BY <1>1, StreamInvariance, PTL

\* Unless a segment ends inside a size field, onSocketReadyRead never takes anything
\* else for a size, and only results that come together leave one unread.
THEOREM ResultsAreReadHolds == Spec => []ResultsAreRead
<1>1. StreamInv => ResultsAreRead
  <2> SUFFICES ASSUME StreamInv, NEW c \in Connections,
                      m_renderServerState[c] = "RENDERING", c \notin cutAnswer \cup strays
               PROVE  /\ ~clientGarbled[c]
                      /\ c \notin coalesced => ResultsIn(downBuffer[c], m_expectingSize[c]) = 0
    BY DEF ResultsAreRead
  <2>1. /\ ~clientGarbled[c]
        /\ c \notin coalesced => Taken(c) + Len(downBuffer[c]) < Len(Packet)
    BY DEF StreamInv, Answers
  <2>2. ASSUME c \notin coalesced PROVE ResultsIn(downBuffer[c], m_expectingSize[c]) = 0
    <3> DEFINE n == Len(downBuffer[c])
               t == Taken(c)
               L == Len(Packet)
    <3>1. n \in Nat /\ t \in Nat /\ L \in Nat \ {0} /\ t + n < L
      BY <2>1, <2>2, PacketUnits, SessionAssumption DEF StreamInv, StreamTypes, Taken
    <3>2. ResultsIn(downBuffer[c], m_expectingSize[c]) = (n + t) \div L
      BY DEF ResultsIn, Taken
    <3> HIDE DEF n, t, L
    <3>3. (n + t) \in Nat /\ n + t < L
      BY <3>1
    <3>4. (n + t) \div L = 0
      BY <3>1, <3>3, OneResult
    <3>5. QED
      BY <3>2, <3>4
  <2>3. QED
    BY <2>1, <2>2
<1>2. QED
  BY <1>1, StreamInvariance, PTL

\* An introduction that fails was answered in parts or with a stranger's result, and no
\* command meets another one.
THEOREM IntroductionSucceedsHolds == Spec => []IntroductionSucceeds
<1>1. StreamInv => IntroductionSucceeds
  BY DEF StreamInv, Command, Answers, IntroductionSucceeds
<1>2. QED
  BY <1>1, StreamInvariance, PTL

-----------------------------------------------------------------------------
(***************************************************************************)
(* The types, and the count of the requests                                *)
(***************************************************************************)

\* The types that the streams do not depend on
OtherTypes ==
    /\ program \in {"running", "crashed"}
    /\ m_serverState \in {"SET_COMPUTE_DEVICE", "SET_SERVER_SETTINGS",
                          "WAIT_FOR_CLIENT_CONNECTION", "READY_FOR_RENDERING"}
    /\ m_server \in {"none", "listening", "closed"}
    /\ m_computeDevice \in {"NULL", "selected"}
    /\ isInitialized \in BOOLEAN /\ reading \in BOOLEAN
    /\ serverGarbled \in BOOLEAN /\ cutRequest \in BOOLEAN
    /\ m_renderState \in {"NOT_VALID_RENDER_STATE", "WAITING_FOR_INTRODUCTION_REQUEST",
                          "RENDERING", "ERROR_UNKNOWN"}
    /\ cutAnswer \subseteq Connections
    /\ coalesced \subseteq Connections
    /\ strays \subseteq Connections

\* What the server has taken of a request it has not read completely
SizeTaken == IF m_clientExpectingBytes = 0 THEN 0 ELSE Len(SizeField)

\* What a client has sent and the server has not read
Unread(c) == Len(upBuffer[c]) + Len(up[c])

\* Wherever the segments end, also inside a request, the server reads no more requests
\* than the client it serves has sent: what it has read, has begun to read and can still
\* read was all written by that client.
CountInv ==
    /\ queued <= parsed
    /\ \A c \in Connections : numRequests[c] <= MaxRequests
    /\ m_renderState # "RENDERING" => parsed = 0
    /\ m_renderState = "RENDERING" =>
           parsed * Len(Packet) + SizeTaken + Unread(servedSocket)
               <= numRequests[servedSocket] * Len(Packet)

\* What the count is made of is a number.
LEMMA CountNumbers ==
    ASSUME StreamTypes
    PROVE  /\ Len(Packet) \in Nat /\ Len(Packet) = BodyUnits + 2 /\ Len(SizeField) = 2
           /\ BodyUnits \in Nat \ {0}
           /\ SizeTaken \in Nat /\ parsed \in Nat /\ queued \in Nat /\ MaxRequests \in Nat
           /\ parsed * Len(Packet) \in Nat
           /\ \A c \in Connections :
                  /\ Len(upBuffer[c]) \in Nat /\ Len(up[c]) \in Nat /\ Unread(c) \in Nat
                  /\ numRequests[c] \in Nat /\ numRequests[c] * Len(Packet) \in Nat
<1>1. /\ Len(Packet) \in Nat /\ Len(Packet) = BodyUnits + 2 /\ Len(SizeField) = 2
      /\ BodyUnits \in Nat \ {0} /\ MaxRequests \in Nat
  BY PacketUnits, SessionAssumption
<1>2. SizeTaken \in Nat /\ parsed \in Nat /\ queued \in Nat
  BY <1>1 DEF SizeTaken, StreamTypes
<1>3. parsed * Len(Packet) \in Nat
  BY <1>1, <1>2, PacketEnds
<1>4. ASSUME NEW c \in Connections
      PROVE  /\ Len(upBuffer[c]) \in Nat /\ Len(up[c]) \in Nat /\ Unread(c) \in Nat
             /\ numRequests[c] \in Nat /\ numRequests[c] * Len(Packet) \in Nat
  <2>1. upBuffer[c] \in Seq(Units) /\ up[c] \in Seq(Units) /\ numRequests[c] \in Nat
    BY DEF StreamTypes
  <2>2. numRequests[c] * Len(Packet) \in Nat
    BY <1>1, <2>1, PacketEnds
  <2> DEFINE i == Len(upBuffer[c])
             j == Len(up[c])
  <2>3. i \in Nat /\ j \in Nat
    BY <2>1
  <2>4. Unread(c) = i + j
    BY DEF Unread
  <2> HIDE DEF i, j
  <2>5. Unread(c) \in Nat
    BY <2>3, <2>4
  <2>6. QED
    BY <2>1, <2>2, <2>3, <2>5 DEF i, j
<1>5. QED
  BY <1>1, <1>2, <1>3, <1>4

\* Nothing is counted.
LEMMA InitCount == Init => OtherTypes /\ CountInv
<1> SUFFICES ASSUME Init PROVE OtherTypes /\ CountInv
  OBVIOUS
<1>1. OtherTypes
  BY DEF Init, OtherTypes
<1>2. /\ queued <= parsed /\ parsed = 0 /\ m_renderState = "NOT_VALID_RENDER_STATE"
      /\ \A c \in Connections : numRequests[c] = 0
  BY DEF Init
<1>3. CountInv
  BY <1>2, SessionAssumption DEF CountInv
<1>4. QED
  BY <1>1, <1>3

\* Nobody sends to the client that is served or reads from it.
LEMMA SameCount ==
    ASSUME StreamInv, CountInv, queued' <= parsed', numRequests' = numRequests,
           UNCHANGED <<servedSocket, m_renderState, m_clientExpectingBytes, parsed>>,
           \A c \in Connections : c = servedSocket /\ m_renderState = "RENDERING"
               => UNCHANGED <<up[c], upBuffer[c]>>
    PROVE  CountInv'
<1>1. m_renderState = "RENDERING" => servedSocket \in Connections
  BY DEF StreamInv, StreamTypes, IntroductionInv
<1>2. SizeTaken' = SizeTaken
  BY DEF SizeTaken
<1>3. m_renderState = "RENDERING" => Unread(servedSocket)' = Unread(servedSocket)
  BY <1>1 DEF Unread
<1>4. QED
  BY <1>1, <1>2, <1>3 DEF CountInv

\* The window serves another client from the start, or leaves the streams alone.
LEMMA WindowCount ==
    ASSUME IInv, StreamInv, OtherTypes, CountInv, Window
    PROVE  OtherTypes' /\ CountInv'
<1> USE DEF StreamInv
<1>1. CASE SelectComputeDevice
  <2>1. OtherTypes'
    BY <1>1 DEF SelectComputeDevice, Crash, OtherTypes, serverVars, connectionVars
  <2>2. CountInv'
    BY <1>1, SameCount DEF SelectComputeDevice, serverVars, connectionVars, CountInv
  <2>3. QED
    BY <2>1, <2>2
<1>2. CASE StartServer
  <2>1. OtherTypes'
    BY <1>2 DEF StartServer, OtherTypes, serverVars, connectionVars
  <2>2. CountInv'
    BY <1>2, SameCount DEF StartServer, serverVars, connectionVars, CountInv
  <2>3. QED
    BY <2>1, <2>2
<1>3. CASE onNewConnection
  <2>1. Head(backlog) \in Connections
    BY <1>3 DEF onNewConnection, StreamTypes
  <2>2. CASE AcceptClient(Head(backlog))
    <3>1. /\ queued' = 0 /\ parsed' = 0 /\ numRequests' = numRequests
          /\ m_renderState' = "WAITING_FOR_INTRODUCTION_REQUEST"
      BY <1>3, <2>2 DEF onNewConnection, AcceptClient, Serve, connectionVars
    <3>2. CountInv'
      BY <3>1 DEF CountInv
    <3>3. OtherTypes'
      BY <1>3, <2>1, <2>2
         DEF onNewConnection, AcceptClient, Serve, OtherTypes, connectionVars
    <3>4. QED
      BY <3>2, <3>3
  <2>3. CASE RejectClient(Head(backlog))
    <3>1. OtherTypes'
      BY <1>3, <2>3 DEF onNewConnection, RejectClient, OtherTypes, serverVars, connectionVars
    <3>2. CountInv'
      BY <1>3, <2>3, SameCount
         DEF onNewConnection, RejectClient, serverVars, connectionVars, CountInv
    <3>3. QED
      BY <3>1, <3>2
  <2>4. QED
    BY <1>3, <2>2, <2>3 DEF onNewConnection
<1>4. CASE \E c \in Connections : ClientConnectionDisconnected(c)
  <2>1. PICK c \in Connections : ClientConnectionDisconnected(c)
    BY <1>4
  <2>2. OtherTypes'
    BY <2>1 DEF ClientConnectionDisconnected, OtherTypes, serverVars, connectionVars
  <2>3. CountInv'
    BY <2>1, SameCount DEF ClientConnectionDisconnected, serverVars, connectionVars, CountInv
  <2>4. QED
    BY <2>2, <2>3
<1>5. CASE resetProcess
  <2>1. OtherTypes'
    BY <1>5 DEF resetProcess, Crash, ResetWindow, OtherTypes, serverVars, connectionVars
  <2>2. CountInv'
    BY <1>5, SameCount DEF resetProcess, serverVars, connectionVars, CountInv
  <2>3. QED
    BY <2>1, <2>2
<1>6. QED
  BY <1>1, <1>2, <1>3, <1>4, <1>5 DEF Window

\* A segment moves from the stream to the buffer; after the introduction nothing is
\* left in either.
LEMMA DataCount ==
    ASSUME StreamInv, StreamInv', OtherTypes, CountInv,
           NEW c \in Connections, NEW n \in 1 .. Len(up[c]), DataFromClient(c, n)
    PROVE  OtherTypes' /\ CountInv'
<1> DEFINE first == SubSeq(up[c], 1, n)
           rest == Drop(up[c], n)
           arrived == upBuffer[c] \o first
<1>1. /\ c = servedSocket /\ up' = [up EXCEPT ![c] = rest]
      /\ UNCHANGED <<windowVars, servedSocket, m_clientExpectingBytes, serverGarbled, queued,
                     parsed, strays, connectionVars>>
  BY DEF DataFromClient, Set
<1>2. /\ up[c] \in Seq(Units) /\ upBuffer[c] \in Seq(Units)
      /\ up \in [Connections -> Seq(Units)] /\ upBuffer \in [Connections -> Seq(Units)]
  BY DEF StreamInv, StreamTypes
<1>3. CASE ReadIntroduction(arrived)
  <2>1. /\ m_renderState = "WAITING_FOR_INTRODUCTION_REQUEST"
        /\ m_renderState' \in {"RENDERING", "ERROR_UNKNOWN"}
        /\ UNCHANGED <<reading, cutRequest>>
        /\ upBuffer' = [upBuffer EXCEPT ![c] = <<>>]
    BY <1>1, <1>3 DEF ReadIntroduction, Set
  <2>2. OtherTypes'
    BY <1>1, <2>1 DEF OtherTypes, windowVars, connectionVars
  <2>3. /\ parsed = 0 /\ queued = 0 /\ m_clientExpectingBytes = 0
        /\ up[c] \in {<<>>, Text("introduction")} /\ upBuffer[c] = <<>>
    BY <1>1, <2>1 DEF StreamInv, IntroductionInv
  <2>4. m_renderState' = "RENDERING" => up'[c] = <<>>
    <3> SUFFICES ASSUME m_renderState' = "RENDERING" PROVE up'[c] = <<>>
      OBVIOUS
    <3> DEFINE text == Text("introduction")
    <3>1. text \in Seq(Units) /\ Len(text) = 2 /\ up[c] = text
      <4>1. text \in Seq(Units) /\ Len(text) = 2
        BY TextUnits DEF Units
      <4>2. up[c] # <<>>
        BY <1>2
      <4>3. QED
        BY <2>3, <4>1, <4>2
    <3>2. IsPrefix(text, arrived) /\ upBuffer[c] = <<>>
      BY <1>3, <2>3 DEF ReadIntroduction
    <3>3. n \in 1 .. Len(text) /\ n \in 0 .. Len(text) /\ first = SubSeq(text, 1, n)
      BY <3>1
    <3>4. SubSeq(text, 1, n) \in Seq(Units)
      BY <3>1, <3>3, FirstPlaces
    <3>5. arrived = SubSeq(text, 1, n)
      BY <3>2, <3>3, <3>4, JoinWithNothing
    <3>6. Drop(text, n) = <<>>
      BY <3>2, <3>3, <3>5, PartOfText DEF Units
    <3>7. QED
      BY <1>1, <1>2, <3>1, <3>6
  <2>5. CountInv'
    <3>1. parsed' = 0 /\ queued' = 0 /\ SizeTaken' = 0 /\ servedSocket' = c
          /\ numRequests' = numRequests
      BY <1>1, <2>3 DEF SizeTaken, connectionVars
    <3>2. StreamTypes' /\ StreamTypes
      BY DEF StreamInv
    <3>3. numRequests'[c] * Len(Packet) \in Nat /\ Len(Packet) \in Nat /\ 0 * Len(Packet) = 0
      BY <3>1, <3>2, CountNumbers
    <3>4. m_renderState' = "RENDERING" => Unread(c)' = 0
      BY <1>2, <2>1, <2>4 DEF Unread
    <3> HIDE DEF arrived
    <3>5. m_renderState' = "RENDERING" =>
              parsed' * Len(Packet) + SizeTaken' + Unread(servedSocket)'
                  <= numRequests'[servedSocket'] * Len(Packet)
      BY <3>1, <3>3, <3>4
    <3>6. m_renderState' # "RENDERING" => parsed' = 0
      BY <3>1
    <3>7. QED
      BY <3>1, <3>5, <3>6 DEF CountInv
  <2>6. QED
    BY <2>2, <2>5
<1>4. CASE /\ m_renderState # "WAITING_FOR_INTRODUCTION_REQUEST"
           /\ upBuffer' = Set(upBuffer, c, arrived)
           /\ reading' = (m_renderState = "RENDERING" /\ ~serverGarbled)
           /\ cutRequest' = (cutRequest \/ ~IsWhole(arrived))
           /\ UNCHANGED <<m_renderState, down>>
  <2>1. reading' \in BOOLEAN /\ cutRequest' \in BOOLEAN
    BY <1>4 DEF OtherTypes
  <2>2. OtherTypes'
    BY <1>1, <1>4, <2>1 DEF OtherTypes, windowVars, connectionVars
  <2>3. n \in 0 .. Len(up[c]) /\ n \in Nat /\ Len(up[c]) \in Nat /\ Len(upBuffer[c]) \in Nat
    BY <1>2
  <2>4. first \in Seq(Units) /\ Len(first) = n /\ Len(rest) = Len(up[c]) - n
    BY <1>2, <2>3, FirstPlaces, DropPlaces
  <2> HIDE DEF first, rest
  <2>5. Len(arrived) = Len(upBuffer[c]) + n
    BY <1>2, <2>4, JoinPlaces
  <2> HIDE DEF arrived
  <2>6. up'[c] = rest /\ upBuffer'[c] = arrived
    BY <1>1, <1>2, <1>4 DEF Set
  <2>7. Unread(c)' = Unread(c)
    <3> DEFINE i == Len(upBuffer[c])
               j == Len(up[c])
    <3>1. i \in Nat /\ j \in Nat /\ n \in Nat /\ Unread(c) = i + j
      BY <2>3 DEF Unread
    <3>2. Unread(c)' = Len(arrived) + Len(rest)
      BY <2>6 DEF Unread
    <3>3. Len(arrived) = i + n /\ Len(rest) = j - n
      BY <2>4, <2>5
    <3> HIDE DEF i, j
    <3>4. QED
      BY <3>1, <3>2, <3>3
  <2>8. SizeTaken' = SizeTaken /\ numRequests' = numRequests
    BY <1>1 DEF SizeTaken, connectionVars
  <2>9. QED
    BY <1>1, <1>4, <2>2, <2>7, <2>8 DEF CountInv
<1>5. QED
  BY <1>3, <1>4 DEF DataFromClient

\* A turn of the loop takes as many units from the buffer as it counts.
LEMMA ReadCount ==
    ASSUME StreamInv, StreamInv', OtherTypes, CountInv, ReadRequest
    PROVE  OtherTypes' /\ CountInv'
<1> DEFINE c == servedSocket
           buffer == upBuffer[servedSocket]
           readsSize == m_clientExpectingBytes = 0
           expecting == IF readsSize THEN Len(Packet) ELSE m_clientExpectingBytes
           rest == IF readsSize THEN Drop(buffer, Len(SizeField)) ELSE buffer
           left == Drop(rest, BodyUnits)
<1>1. /\ m_renderState = "RENDERING" /\ c \in Connections
      /\ UNCHANGED <<windowVars, servedSocket, m_renderState, cutRequest, up, strays,
                     connectionVars>>
  BY DEF StreamInv, StreamTypes, IntroductionInv, ReadRequest
<1>2. /\ upBuffer \in [Connections -> Seq(Units)] /\ buffer \in Seq(Units)
      /\ m_clientExpectingBytes \in {0, Len(Packet)} /\ queued \in Nat /\ parsed \in Nat
      /\ Len(buffer) \in Nat
  BY <1>1 DEF StreamInv, StreamTypes
<1>3. /\ BodyUnits \in Nat /\ Len(Packet) = BodyUnits + 2 /\ Len(SizeField) = 2
      /\ SizeField = <<"size", "size">> /\ Len(Packet) \in Nat /\ Len(Packet) # 0
  BY PacketUnits, SessionAssumption DEF SizeField
<1>4. expecting = Len(Packet)
  BY <1>2, <1>3
<1>5. reading' \in BOOLEAN /\ serverGarbled' \in BOOLEAN
  BY DEF ReadRequest, LoopGoesOn
<1>6. OtherTypes'
  BY <1>1, <1>5 DEF OtherTypes, windowVars, connectionVars
<1>7. /\ numRequests' = numRequests /\ queued <= parsed
      /\ \A d \in Connections : numRequests[d] <= MaxRequests
      /\ parsed * Len(Packet) + SizeTaken + Unread(c) <= numRequests[c] * Len(Packet)
  BY <1>1 DEF CountInv, connectionVars
<1>8. CASE readsSize /\ ~IsPrefix(SizeField, buffer)
  <2>1. UNCHANGED <<m_clientExpectingBytes, upBuffer, queued, parsed>>
    BY <1>8 DEF ReadRequest
  <2>2. CountInv'
    BY <1>1, <1>7, <2>1, SameCount
  <2>3. QED
    BY <1>6, <2>2
<1>9. CASE ~(readsSize /\ ~IsPrefix(SizeField, buffer))
  <2>1. readsSize => Len(buffer) >= 2
    BY <1>2, <1>3, <1>9, PrefixOfTwo
  <2>2. rest \in Seq(Units) /\ Len(rest) = Len(buffer) - (2 - SizeTaken) /\ SizeTaken \in 0 .. 2
    <3>1. CASE readsSize
      <4>1. 2 \in 0 .. Len(buffer)
        BY <1>2, <2>1, <3>1
      <4>2. rest = Drop(buffer, 2) /\ SizeTaken = 0
        BY <1>3, <3>1 DEF SizeTaken
      <4>3. QED
        BY <1>2, <3>1, <4>1, <4>2, DropPlaces
    <3>2. CASE ~readsSize
      <4>1. rest = buffer /\ SizeTaken = 2
        BY <1>3, <3>2 DEF SizeTaken
      <4>2. QED
        BY <1>2, <4>1
    <3>3. QED
      BY <3>1, <3>2
  <2> HIDE DEF rest
  <2>3. Len(up[c]) \in Nat /\ parsed * Len(Packet) \in Nat /\ numRequests[c] * Len(Packet) \in Nat
    BY <1>1, CountNumbers DEF StreamInv
  <2>4. Unread(c) = Len(buffer) + Len(up[c])
    BY DEF Unread
  <2>5. CASE Len(buffer) >= Len(Packet)
    <3>1. /\ m_clientExpectingBytes' = 0 /\ queued' = queued + 1 /\ parsed' = parsed + 1
          /\ upBuffer' = [upBuffer EXCEPT ![servedSocket] = left]
      BY <1>4, <1>9, <2>5 DEF ReadRequest, Set, rest
    <3>2. Len(left) = Len(rest) - BodyUnits
      <4>1. BodyUnits \in 0 .. Len(rest)
        BY <1>2, <1>3, <2>2, <2>5
      <4>2. QED
        BY <2>2, <4>1, DropPlaces
    <3> HIDE DEF left
    <3>3. SizeTaken' = 0
      BY <3>1 DEF SizeTaken
    <3>4. Unread(c)' = Len(left) + Len(up[c])
      BY <1>1, <1>2, <3>1 DEF Unread
    <3>5. parsed' * Len(Packet) = parsed * Len(Packet) + Len(Packet)
      BY <1>2, <1>3, <3>1, PacketEnds
    <3> DEFINE x == parsed * Len(Packet)
               y == numRequests[c] * Len(Packet)
               z == parsed' * Len(Packet)
               i == Len(buffer)
               j == Len(up[c])
    <3>6. z + 0 + Unread(c)' <= y
      <4>1. /\ x \in Nat /\ y \in Nat /\ i \in Nat /\ j \in Nat /\ z = x + Len(Packet)
            /\ Unread(c)' = Len(left) + j /\ Unread(c) = i + j /\ x + SizeTaken + (i + j) <= y
        BY <1>2, <1>7, <2>3, <2>4, <3>4, <3>5
      <4>2. Len(left) = i - (2 - SizeTaken) - BodyUnits
        BY <2>2, <3>2
      <4> HIDE DEF x, y, z, i, j
      <4>3. QED
        BY <1>3, <2>2, <4>1, <4>2
    <3>7. queued' <= parsed'
      BY <1>2, <1>7, <3>1
    <3>8. CountInv'
      BY <1>1, <1>7, <3>3, <3>6, <3>7 DEF CountInv
    <3>9. QED
      BY <1>6, <3>8
  <2>6. CASE ~(Len(buffer) >= Len(Packet))
    <3>1. /\ m_clientExpectingBytes' = Len(Packet) /\ queued' = queued /\ parsed' = parsed
          /\ upBuffer' = [upBuffer EXCEPT ![servedSocket] = rest]
      BY <1>4, <1>9, <2>6 DEF ReadRequest, Set, rest
    <3>2. SizeTaken' = 2
      BY <1>3, <3>1 DEF SizeTaken
    <3>3. Unread(c)' = Len(rest) + Len(up[c])
      BY <1>1, <1>2, <3>1 DEF Unread
    <3> DEFINE i == Len(buffer)
               j == Len(up[c])
    <3>4. i \in Nat /\ j \in Nat /\ SizeTaken \in 0 .. 2 /\ Unread(c) = i + j
      BY <1>2, <2>2, <2>3, <2>4
    <3>5. Unread(c)' = (i - (2 - SizeTaken)) + j /\ i - (2 - SizeTaken) \in Nat
      <4>1. Len(rest) \in Nat
        BY <2>2
      <4>2. QED
        BY <2>2, <3>3, <4>1
    <3> HIDE DEF i, j
    <3> DEFINE x == parsed * Len(Packet)
               y == numRequests[c] * Len(Packet)
    <3>6. x + SizeTaken' + Unread(c)' <= y
      <4>1. x \in Nat /\ y \in Nat /\ x + SizeTaken + Unread(c) <= y
        BY <1>7, <2>3
      <4> HIDE DEF x, y
      <4>2. QED
        BY <3>2, <3>4, <3>5, <4>1
    <3>7. CountInv'
      BY <1>1, <1>7, <3>1, <3>6 DEF CountInv
    <3>8. QED
      BY <1>6, <3>7
  <2>7. QED
    BY <1>2, <1>3, <2>5, <2>6
<1>10. QED
  BY <1>8, <1>9

\* RenderServer
LEMMA ServerCount ==
    ASSUME StreamInv, StreamInv', OtherTypes, CountInv, Server
    PROVE  OtherTypes' /\ CountInv'
<1>1. CASE \E c \in Connections : \E n \in 1 .. Len(up[c]) : DataFromClient(c, n)
  BY <1>1, DataCount
<1>2. CASE ReadRequest
  BY <1>2, ReadCount
<1>3. CASE RendererAnswers
  <2>1. OtherTypes'
    BY <1>3 DEF RendererAnswers, OtherTypes, windowVars, connectionVars
  <2>2. queued \in Nat /\ parsed \in Nat /\ queued <= parsed
    BY DEF StreamInv, StreamTypes, CountInv
  <2>3. queued' <= parsed'
    BY <1>3, <2>2 DEF RendererAnswers
  <2>4. CountInv'
    BY <1>3, <2>3, SameCount DEF RendererAnswers, connectionVars
  <2>5. QED
    BY <2>1, <2>4
<1>4. CASE onNewRenderResultPacket
  <2>1. OtherTypes'
    BY <1>4 DEF onNewRenderResultPacket, OtherTypes, windowVars, serverVars, connectionVars
  <2>2. CountInv'
    BY <1>4, SameCount DEF onNewRenderResultPacket, serverVars, connectionVars, CountInv
  <2>3. QED
    BY <2>1, <2>2
<1>5. QED
  BY <1>1, <1>2, <1>3, <1>4 DEF Server

\* The dialog sends nothing.
LEMMA DialogCount ==
    ASSUME StreamInv, OtherTypes, CountInv, NEW c \in Connections, Dialog(c)
    PROVE  OtherTypes' /\ CountInv'
<1>1. UNCHANGED <<windowVars, serverVars, up, upBuffer, connectionVars, strays>>
  BY DEF Dialog, FormSubmit, ConnectedToHost, HostConnectionError, HostDataAvailable,
         WaitForGreetingError, ClosedWhileHanding, NewServerConnection
<1>2. OtherTypes'
  BY <1>1 DEF OtherTypes, windowVars, serverVars, connectionVars
<1>3. CountInv'
  BY <1>1, SameCount DEF serverVars, connectionVars, CountInv
<1>4. QED
  BY <1>2, <1>3

\* A request adds a packet to the stream, or nothing.
LEMMA SendCount ==
    ASSUME StreamInv, StreamInv', OtherTypes, CountInv, NEW c \in Connections, SendRequest(c)
    PROVE  OtherTypes' /\ CountInv'
<1> DEFINE L == Len(Packet)
<1>1. /\ UNCHANGED <<windowVars, serverVars, upBuffer, cutAnswer, coalesced, strays>>
      /\ numRequests[c] < MaxRequests
      /\ numRequests' = [numRequests EXCEPT ![c] = @ + 1]
      /\ up' = [up EXCEPT ![c] = @ \o Packet] \/ up' = up
  BY DEF SendRequest
<1>2. OtherTypes'
  BY <1>1 DEF OtherTypes, windowVars, serverVars
<1>3. /\ up \in [Connections -> Seq(Units)] /\ numRequests \in [Connections -> Nat]
      /\ Packet \in Seq(Units) /\ L \in Nat /\ MaxRequests \in Nat
      /\ parsed \in Nat /\ parsed * L \in Nat /\ SizeTaken \in Nat /\ Unread(c) \in Nat
      /\ Len(upBuffer[c]) \in Nat /\ Len(up[c]) \in Nat /\ numRequests[c] \in Nat
      /\ up[c] \in Seq(Units)
  BY CountNumbers, PacketUnits, SessionAssumption DEF StreamInv, StreamTypes
<1> HIDE DEF L
<1>4. /\ numRequests'[c] = numRequests[c] + 1
      /\ \A d \in Connections : d # c => numRequests'[d] = numRequests[d] /\ up'[d] = up[d]
  BY <1>1, <1>3
<1>5. \A d \in Connections : numRequests'[d] <= MaxRequests
  BY <1>1, <1>3, <1>4 DEF CountInv
<1>6. UNCHANGED <<queued, parsed, servedSocket, m_renderState, m_clientExpectingBytes>>
  BY <1>1 DEF serverVars
<1>7. SizeTaken' = SizeTaken
  BY <1>6 DEF SizeTaken
<1>8. Unread(c)' <= Unread(c) + L /\ Unread(c)' \in Nat
  <2>1. Len(up[c] \o Packet) = Len(up[c]) + L
    BY <1>3, JoinPlaces DEF L
  <2>2. up'[c] = up[c] \o Packet \/ up'[c] = up[c]
    BY <1>1, <1>3
  <2>3. Len(up'[c]) \in Nat /\ Len(up'[c]) <= Len(up[c]) + L
    BY <1>3, <2>1, <2>2
  <2> DEFINE i == Len(upBuffer[c])
             j == Len(up[c])
             k == Len(up'[c])
  <2>4. i \in Nat /\ j \in Nat /\ k \in Nat /\ k <= j + L
    BY <1>3, <2>3
  <2>5. Unread(c) = i + j /\ Unread(c)' = i + k
    BY <1>1 DEF Unread
  <2> HIDE DEF i, j, k
  <2>6. QED
    BY <1>3, <2>4, <2>5
<1>9. m_renderState = "RENDERING" =>
          parsed * L + SizeTaken + Unread(servedSocket)' <= numRequests'[servedSocket] * L
  <2> SUFFICES ASSUME m_renderState = "RENDERING"
               PROVE  parsed * L + SizeTaken + Unread(servedSocket)'
                          <= numRequests'[servedSocket] * L
    OBVIOUS
  <2>1. servedSocket \in Connections
        /\ parsed * L + SizeTaken + Unread(servedSocket) <= numRequests[servedSocket] * L
    BY DEF StreamInv, StreamTypes, IntroductionInv, CountInv, L
  <2>2. CASE servedSocket # c
    <3>1. Unread(servedSocket)' = Unread(servedSocket)
      BY <1>1, <1>4, <1>6, <2>1, <2>2 DEF Unread
    <3>2. QED
      BY <1>4, <2>1, <2>2, <3>1
  <2>3. CASE servedSocket = c
    <3> DEFINE x == parsed * L
               y == numRequests[c] * L
               z == (numRequests[c] + 1) * L
    <3>1. y \in Nat /\ z = y + L
      BY <1>3, PacketEnds
    <3>2. x + SizeTaken + Unread(c) <= y /\ x \in Nat
      BY <1>3, <2>1, <2>3
    <3> DEFINE u == Unread(c)
               v == Unread(c)'
    <3> HIDE DEF x, y, z
    <3>3. x + SizeTaken + v <= z
      <4>1. u \in Nat /\ v \in Nat /\ v <= u + L /\ x + SizeTaken + u <= y
        BY <1>3, <1>8, <3>2
      <4> HIDE DEF u, v
      <4>2. QED
        BY <1>3, <3>1, <3>2, <4>1
    <3>4. Unread(servedSocket)' = Unread(c)'
      BY <1>6, <2>3 DEF Unread
    <3>5. QED
      BY <1>4, <2>3, <3>3, <3>4 DEF x, z
  <2>4. QED
    BY <2>2, <2>3
<1>10. QED
  BY <1>2, <1>5, <1>6, <1>7, <1>9 DEF CountInv, L

\* The connection writes its introduction before the server renders, and its requests.
LEMMA ConnectionCount ==
    ASSUME StreamInv, StreamInv', OtherTypes, CountInv, NEW c \in Connections, Connection(c)
    PROVE  OtherTypes' /\ CountInv'
<1>1. CASE PushCommand(c)
  <2>1. UNCHANGED <<windowVars, serverVars, up, upBuffer, numRequests, cutAnswer, coalesced,
                    strays>>
    BY <1>1 DEF PushCommand
  <2>2. OtherTypes' /\ CountInv'
    BY <2>1, SameCount DEF OtherTypes, windowVars, serverVars, CountInv
  <2>3. QED
    BY <2>2
<1>2. CASE onNewServerCommand(c)
  <2>1. /\ UNCHANGED <<windowVars, serverVars, upBuffer, numRequests, cutAnswer, coalesced,
                       strays>>
        /\ newCommands[c] > 0
        /\ up' = up \/ up' = [up EXCEPT ![c] = @ \o Text("introduction")]
    BY <1>2 DEF onNewServerCommand
  <2>2. ~(c = servedSocket /\ m_renderState = "RENDERING")
    BY <2>1 DEF StreamInv, Command
  <2>3. \A d \in Connections : d # c => up'[d] = up[d]
    BY <2>1 DEF StreamInv, StreamTypes
  <2>4. OtherTypes'
    BY <2>1 DEF OtherTypes, windowVars, serverVars
  <2>5. CountInv'
    BY <2>1, <2>2, <2>3, SameCount DEF serverVars, CountInv
  <2>6. QED
    BY <2>4, <2>5
<1>3. CASE SendRequest(c)
  BY <1>3, SendCount
<1>4. CASE \E n \in 1 .. Len(down[c]) : onSocketReadyRead(c, n)
  <2>1. /\ UNCHANGED <<windowVars, serverVars, up, upBuffer, numRequests, strays>>
        /\ cutAnswer' = cutAnswer \/ cutAnswer' = cutAnswer \cup {c}
        /\ coalesced' = coalesced \/ coalesced' = coalesced \cup {c}
    BY <1>4 DEF onSocketReadyRead, CommandResponse, ResultArrives, NobodyReads
  <2>2. OtherTypes'
    BY <2>1 DEF OtherTypes, windowVars, serverVars
  <2>3. CountInv'
    BY <2>1, SameCount DEF serverVars, CountInv
  <2>4. QED
    BY <2>2, <2>3
<1>5. CASE SocketDisconnected(c)
  <2>1. UNCHANGED <<windowVars, serverVars, up, upBuffer, numRequests, cutAnswer, coalesced,
                    strays>>
    BY <1>5 DEF SocketDisconnected
  <2>2. OtherTypes' /\ CountInv'
    BY <2>1, SameCount DEF OtherTypes, windowVars, serverVars, CountInv
  <2>3. QED
    BY <2>2
<1>6. QED
  BY <1>1, <1>2, <1>3, <1>4, <1>5 DEF Connection

\* Every step keeps the types and the count.
LEMMA StepCount ==
    ASSUME IInv, StreamInv, StreamInv', OtherTypes, CountInv, [Next]_vars
    PROVE  OtherTypes' /\ CountInv'
<1>1. CASE Window
  BY <1>1, WindowCount
<1>2. CASE Server
  BY <1>2, ServerCount
<1>3. CASE \E c \in Connections : Dialog(c) \/ Connection(c)
  BY <1>3, DialogCount, ConnectionCount
<1>4. CASE UNCHANGED vars
  <2>1. UNCHANGED <<windowVars, serverVars, up, upBuffer, connectionVars, strays>>
    BY <1>4 DEF vars
  <2>2. OtherTypes' /\ CountInv'
    BY <2>1, SameCount DEF OtherTypes, windowVars, serverVars, connectionVars, CountInv
  <2>3. QED
    BY <2>2
<1>5. QED
  BY <1>1, <1>2, <1>3, <1>4 DEF Next

\* However the streams are cut, and whatever the server makes of what it has cut, it
\* never reads more requests than were sent to it over the connection it serves.
THEOREM CountInvariance == Spec => [](OtherTypes /\ CountInv)
<1>1. IInv /\ StreamInv /\ StreamInv' /\ (OtherTypes /\ CountInv) /\ [Next]_vars
          => (OtherTypes /\ CountInv)'
  BY StepCount
<1>2. QED
  BY <1>1, InitCount, Invariance, StreamInvariance, PTL DEF Spec

\* No more requests are read and queued than may be sent, and every variable keeps its
\* type.
THEOREM TypeOKHolds == Spec => []TypeOK
<1>1. IInv /\ StreamInv /\ OtherTypes /\ CountInv => TypeOK
  <2> SUFFICES ASSUME IInv, StreamInv, OtherTypes, CountInv PROVE TypeOK
    OBVIOUS
  <2>1. StreamTypes
    BY DEF StreamInv
  <2>2. parsed <= MaxRequests
    <3>1. CASE m_renderState # "RENDERING"
      BY <2>1, <3>1, CountNumbers DEF CountInv
    <3>2. CASE m_renderState = "RENDERING"
      <4> DEFINE k == numRequests[servedSocket]
      <4>1. servedSocket \in Connections
        BY <3>2 DEF StreamInv, StreamTypes, IntroductionInv
      <4>2. k \in Nat /\ k <= MaxRequests /\ MaxRequests \in Nat /\ parsed \in Nat
        BY <2>1, <4>1, CountNumbers DEF CountInv
      <4>3. parsed * Len(Packet) + SizeTaken + Unread(servedSocket) <= k * Len(Packet)
        BY <3>2 DEF CountInv
      <4>4. SizeTaken \in Nat /\ Unread(servedSocket) \in Nat /\ parsed * Len(Packet) \in Nat
            /\ k * Len(Packet) \in Nat /\ Len(Packet) \in Nat /\ Len(Packet) > 0
        <5>1. SizeTaken \in Nat /\ Unread(servedSocket) \in Nat
              /\ parsed * Len(Packet) \in Nat /\ k * Len(Packet) \in Nat
          BY <2>1, <4>1, CountNumbers
        <5>2. Len(Packet) = BodyUnits + 2 /\ BodyUnits \in Nat
          BY PacketUnits, SessionAssumption
        <5>3. QED
          BY <5>1, <5>2
      <4>5. parsed * Len(Packet) <= k * Len(Packet)
        <5> DEFINE x == parsed * Len(Packet)
                   y == k * Len(Packet)
        <5>1. x \in Nat /\ y \in Nat /\ x + SizeTaken + Unread(servedSocket) <= y
          BY <4>3, <4>4
        <5> HIDE DEF x, y
        <5>2. x <= y
          BY <4>4, <5>1
        <5>3. QED
          BY <5>2 DEF x, y
      <4>6. ~(k < parsed)
        <5> SUFFICES ASSUME k < parsed PROVE FALSE
          OBVIOUS
        <5> HIDE DEF k
        <5>1. k * Len(Packet) + Len(Packet) <= parsed * Len(Packet)
          BY <4>2, <4>4, PacketEnds
        <5> DEFINE x == parsed * Len(Packet)
                   y == k * Len(Packet)
        <5>2. x \in Nat /\ y \in Nat /\ y + Len(Packet) <= x /\ x <= y
          BY <4>2, <4>4, <4>5, <5>1, PacketEnds
        <5> HIDE DEF x, y
        <5>3. QED
          BY <4>4, <5>2
      <4> HIDE DEF k
      <4>7. QED
        BY <4>2, <4>6
    <3>3. QED
      BY <3>1, <3>2
  <2>3. queued \in 0 .. MaxRequests /\ parsed \in 0 .. MaxRequests
    <3>1. queued \in Nat /\ parsed \in Nat
      BY <2>1 DEF StreamTypes
    <3>2. queued <= parsed
      BY DEF CountInv
    <3>3. QED
      BY <2>2, <3>1, <3>2, SessionAssumption
  <2>4. numRequests \in [Connections -> 0 .. MaxRequests]
    <3>1. numRequests \in [Connections -> Nat]
      BY <2>1 DEF StreamTypes
    <3>2. \A c \in Connections : numRequests[c] <= MaxRequests
      BY DEF CountInv
    <3>3. QED
      BY <3>1, <3>2, SessionAssumption
  <2>5. {m_clientSocket, servedSocket} \subseteq Connections \cup {NoConnection}
    BY <2>1 DEF IInv, TypeInv, StreamTypes
  <2>6. QED
    BY <2>1, <2>3, <2>4, <2>5
       DEF TypeOK, OtherTypes, StreamTypes, ServerEnds, ServerStates, Dialogs
<1>2. QED
  BY <1>1, Invariance, StreamInvariance, CountInvariance, PTL
=============================================================================
