----------------------- MODULE DistributedApplication -----------------------
(***************************************************************************)
(* The client's side of distributed rendering: Client/                     *)
(* DistributedApplication and, one for each server and in a thread of its  *)
(* own, client/RenderServerConnection.  The connections take requests from *)
(* the application, which numbers the iterations of a sequence, and send   *)
(* them; the results go to the RenderResultPacketReceiver, in a third kind *)
(* of thread, which reports them to the application.                       *)
(*                                                                         *)
(* The application's slots run in the application's thread, and            *)
(* setRenderMethod in that of the user interface.  They increment          *)
(* m_sequenceNumber at once, while the slot that starts the numbering over *)
(* is queued.                                                              *)
(*                                                                         *)
(* The servers and the receiver are external here: a server answers its    *)
(* requests in order but ignores one that is overtaken by a newer sequence *)
(* (module RenderServerRenderer shows when it does), and of the receiver   *)
(* only the report is left (module RenderResultPacketReceiver has the      *)
(* rest).                                                                  *)
(***************************************************************************)
EXTENDS Integers, FiniteSets, SequencesExt

CONSTANTS
    Servers,
    RenderMethods,              \* among them, the methods the user chooses
    MaxSequenceNumber,          \* bound: the user restarts that often
    NumIterations,              \* bound: iterations of a sequence
    MaxIterationsPerPacket,     \* m_maxIterationsPerPacket, never changed: 4
    PendingIterationsLimit,     \* m_pendingIterationsLimit: 30
    TotalPacketsPendingLimit    \* m_totalPacketsPendingLimit: 80

ASSUME ApplicationAssumption ==
    /\ MaxSequenceNumber \in Nat \ {0, 1}
    /\ NumIterations \in Nat
    /\ MaxIterationsPerPacket \in Nat \ {0}
    /\ PendingIterationsLimit \in Nat \ {0}
    /\ TotalPacketsPendingLimit \in Nat \ {0}

PPM == "PROGRESSIVE_PHOTON_MAPPING"

SequenceNumbers == 0 .. MaxSequenceNumber
Iterations == 0 .. NumIterations - 1

\* The requests all have the same size, so the first iteration tells the others.
Requests == [sequenceNumber : SequenceNumbers, first : Iterations]
IterationsIn(request) == request.first .. request.first + MaxIterationsPerPacket - 1
NoRequest == [sequenceNumber |-> 0, first |-> 0]

Events == [slot : {"onSequenceNumberIncremented", "onPacketReceived"},
           sequenceNumber : SequenceNumbers]

VARIABLES
    (* Application *)
    m_sequenceNumber,
    m_runningStatus,
    m_renderMethod,
    chosenMethod,               \* the argument while setRenderMethod runs
    (* DistributedApplication *)
    m_nextRenderServerRenderRequestIteration,
    m_totalPacketsPending,
    appEvents,                  \* queued calls of the application's slots
    readPending,                \* what the decrement has read, or "nothing"
    (* RenderServerConnection, for each server *)
    m_renderServerState,
    m_numServerPendingIterations,
    m_lastRenderCommandSequenceNumber,
    tpc,                        \* where onTimeout is
    request,                    \* its request
    readTotal,                  \* what the increment has read
    inFlight,                   \* requests the server has not answered
    (* the receiver *)
    packets,                    \* queued calls of onRenderResultPacketReceived
    (* history *)
    requested,                  \* the iterations asked for in each sequence
    early                       \* sequences with requests before their reset

guiVars == <<m_sequenceNumber, m_runningStatus, m_renderMethod, chosenMethod>>
appVars == <<m_nextRenderServerRenderRequestIteration, m_totalPacketsPending, readPending>>
connectionVars == <<m_renderServerState, m_numServerPendingIterations,
                    m_lastRenderCommandSequenceNumber, tpc, request, readTotal, inFlight>>
history == <<requested, early>>
vars == <<guiVars, appVars, appEvents, connectionVars, packets, history>>

Nothing == -1

TypeOK ==
    /\ m_sequenceNumber \in SequenceNumbers
    /\ m_runningStatus \in {"STOPPED", "RUNNING", "PAUSE"}
    /\ m_renderMethod \in RenderMethods
    /\ chosenMethod \in RenderMethods \cup {"none"}
    /\ m_nextRenderServerRenderRequestIteration \in 0 .. NumIterations
    /\ m_totalPacketsPending \in Nat
    /\ appEvents \in Seq(Events)
    /\ readPending \in Nat \cup {Nothing}
    /\ m_renderServerState \in
           [Servers -> {"NO_DEVICE_INFORMATION", "WAITING_FOR_DEVICE_INFORMATION",
                        "RENDERING", "DISCONNECTED", "ERROR_INVALID_CONFIRMATION"}]
    /\ m_numServerPendingIterations \in [Servers -> Nat]
    /\ m_lastRenderCommandSequenceNumber \in [Servers -> SequenceNumbers]
    /\ tpc \in [Servers -> {"idle", "request", "send"}]
    /\ request \in [Servers -> Requests \cup {NoRequest}]
    /\ readTotal \in [Servers -> Nat]
    /\ inFlight \in [Servers -> Seq(Requests)]
    /\ packets \in Seq(Requests)
    /\ requested \in [SequenceNumbers -> SUBSET Iterations]
    /\ early \in SUBSET SequenceNumbers

-----------------------------------------------------------------------------
(***************************************************************************)
(* Application                                                             *)
(***************************************************************************)

incrementSequenceNumber ==
    /\ m_sequenceNumber < MaxSequenceNumber
    /\ m_sequenceNumber' = m_sequenceNumber + 1
    /\ appEvents' = Append(appEvents, [slot |-> "onSequenceNumberIncremented",
                                       sequenceNumber |-> m_sequenceNumber'])

\* The application's thread is not in the middle of onPacketReceived.
SlotIsDone == readPending = Nothing

\* onCameraUpdated, onOutputSettingsUpdated, onPPMSettingsUpdated
SettingsUpdated ==
    /\ SlotIsDone
    /\ incrementSequenceNumber
    /\ UNCHANGED <<m_runningStatus, m_renderMethod, chosenMethod, appVars,
                   connectionVars, packets, history>>

onRenderRestart ==
    /\ SlotIsDone
    /\ incrementSequenceNumber
    /\ m_runningStatus' = "RUNNING"
    /\ UNCHANGED <<m_renderMethod, chosenMethod, appVars, connectionVars, packets, history>>

\* onRenderStatusToggle, while the rendering is not stopped.  If it is, the slot
\* calls onRenderRestart.
TogglePause ==
    /\ SlotIsDone
    /\ m_runningStatus # "STOPPED"
    /\ m_runningStatus' = IF m_runningStatus = "RUNNING" THEN "PAUSE" ELSE "RUNNING"
    /\ UNCHANGED <<m_sequenceNumber, m_renderMethod, chosenMethod, appVars, appEvents,
                   connectionVars, packets, history>>

\* setRenderMethod starts a new sequence before it assigns the method.
setRenderMethod(method) ==
    /\ chosenMethod = "none"
    /\ incrementSequenceNumber
    /\ chosenMethod' = method
    /\ UNCHANGED <<m_runningStatus, m_renderMethod, appVars, connectionVars, packets, history>>

AssignRenderMethod ==
    /\ chosenMethod # "none"
    /\ m_renderMethod' = chosenMethod
    /\ chosenMethod' = "none"
    /\ UNCHANGED <<m_sequenceNumber, m_runningStatus, appVars, appEvents,
                   connectionVars, packets, history>>

Gui ==
    \/ SettingsUpdated
    \/ onRenderRestart
    \/ TogglePause
    \/ \E method \in RenderMethods : setRenderMethod(method)
    \/ AssignRenderMethod

-----------------------------------------------------------------------------
(***************************************************************************)
(* DistributedApplication                                                  *)
(***************************************************************************)

\* A connection holds m_mutex from the numbering of its request to its count.
MutexIsFree == \A s \in Servers : tpc[s] # "send"

\* Mutant: the numbering of the iterations goes on.
KeepNumbering ==
    /\ SlotIsDone
    /\ appEvents # <<>>
    /\ Head(appEvents).slot = "onSequenceNumberIncremented"
    /\ MutexIsFree
    /\ appEvents' = Tail(appEvents)
    /\ m_totalPacketsPending' = 0
    /\ UNCHANGED <<guiVars, m_nextRenderServerRenderRequestIteration, readPending,
                   connectionVars, packets, history>>

onSequenceNumberIncremented ==
    /\ SlotIsDone
    /\ appEvents # <<>>
    /\ Head(appEvents).slot = "onSequenceNumberIncremented"
    /\ MutexIsFree
    /\ appEvents' = Tail(appEvents)
    /\ m_nextRenderServerRenderRequestIteration' = 0
    /\ m_totalPacketsPending' = 0
    /\ UNCHANGED <<guiVars, readPending, connectionVars, packets, history>>

\* Mutant: without the test that some packet is pending.
DecrementZero ==
    /\ SlotIsDone
    /\ appEvents # <<>>
    /\ Head(appEvents).slot = "onPacketReceived"
    /\ appEvents' = Tail(appEvents)
    /\ readPending' = IF Head(appEvents).sequenceNumber = m_sequenceNumber
                      THEN m_totalPacketsPending ELSE Nothing
    /\ UNCHANGED <<guiVars, m_nextRenderServerRenderRequestIteration,
                   m_totalPacketsPending, connectionVars, packets, history>>

\* The decrement in onPacketReceived is not protected by m_mutex: it reads
onPacketReceived ==
    /\ SlotIsDone
    /\ appEvents # <<>>
    /\ Head(appEvents).slot = "onPacketReceived"
    /\ appEvents' = Tail(appEvents)
    /\ readPending' = IF /\ Head(appEvents).sequenceNumber = m_sequenceNumber
                         /\ m_totalPacketsPending > 0
                      THEN m_totalPacketsPending ELSE Nothing
    /\ UNCHANGED <<guiVars, m_nextRenderServerRenderRequestIteration,
                   m_totalPacketsPending, connectionVars, packets, history>>

\* and writes, and overwrites an increment in between.
WriteDecrement ==
    /\ readPending # Nothing
    /\ m_totalPacketsPending' = readPending - 1
    /\ readPending' = Nothing
    /\ UNCHANGED <<guiVars, m_nextRenderServerRenderRequestIteration, appEvents,
                   connectionVars, packets, history>>

-----------------------------------------------------------------------------
(***************************************************************************)
(* RenderServerConnection                                                  *)
(***************************************************************************)

Set(s, state) == m_renderServerState' = [m_renderServerState EXCEPT ![s] = state]

\* onTimeout, pushCommandAsync and onNewServerCommand
AskForDetails(s) ==
    /\ tpc[s] = "idle"
    /\ m_renderServerState[s] = "NO_DEVICE_INFORMATION"
    /\ Set(s, "WAITING_FOR_DEVICE_INFORMATION")
    /\ UNCHANGED <<guiVars, appVars, appEvents, m_numServerPendingIterations,
                   m_lastRenderCommandSequenceNumber, tpc, request, readTotal,
                   inFlight, packets, history>>

\* handleCommandResponse: a part of the answer is not a valid one.
DetailsArrive(s) ==
    /\ tpc[s] = "idle"
    /\ m_renderServerState[s] = "WAITING_FOR_DEVICE_INFORMATION"
    /\ \E state \in {"RENDERING", "ERROR_INVALID_CONFIRMATION"} : Set(s, state)
    /\ UNCHANGED <<guiVars, appVars, appEvents, m_numServerPendingIterations,
                   m_lastRenderCommandSequenceNumber, tpc, request, readTotal,
                   inFlight, packets, history>>

\* Mutant: resetInternalStatistics leaves the pending iterations.
CheckWithoutReset(s) ==
    /\ tpc[s] = "idle"
    /\ m_renderServerState[s] = "RENDERING"
    /\ m_runningStatus = "RUNNING"
    /\ m_totalPacketsPending < TotalPacketsPendingLimit
    /\ \/ m_numServerPendingIterations[s] < PendingIterationsLimit
       \/ m_sequenceNumber > m_lastRenderCommandSequenceNumber[s]
    /\ tpc' = [tpc EXCEPT ![s] = "request"]
    /\ UNCHANGED <<guiVars, appVars, appEvents, m_renderServerState,
                   m_numServerPendingIterations, m_lastRenderCommandSequenceNumber,
                   request, readTotal, inFlight, packets, history>>

\* onTimeout: what it checks, and resetInternalStatistics.  The back buffer, that
\* photon mapping may have filled, belongs to the receiver.
CheckTimeout(s) ==
    /\ tpc[s] = "idle"
    /\ m_renderServerState[s] = "RENDERING"
    /\ m_runningStatus = "RUNNING"
    /\ m_totalPacketsPending < TotalPacketsPendingLimit
    /\ \/ m_numServerPendingIterations[s] < PendingIterationsLimit
       \/ m_sequenceNumber > m_lastRenderCommandSequenceNumber[s]
    /\ m_numServerPendingIterations' =
           [m_numServerPendingIterations EXCEPT ![s] =
               IF m_sequenceNumber > m_lastRenderCommandSequenceNumber[s] THEN 0 ELSE @]
    /\ tpc' = [tpc EXCEPT ![s] = "request"]
    /\ UNCHANGED <<guiVars, appVars, appEvents, m_renderServerState,
                   m_lastRenderCommandSequenceNumber, request, readTotal, inFlight,
                   packets, history>>

ResetQueued ==
    \E i \in 1 .. Len(appEvents) : appEvents[i].slot = "onSequenceNumberIncremented"

\* getNextRenderServerRenderRequest up to the increment.  The sequence number is
\* read when the iterations are already numbered.
TakeRequest(s) ==
    /\ tpc[s] = "request"
    /\ MutexIsFree
    /\ m_nextRenderServerRenderRequestIteration + MaxIterationsPerPacket <= NumIterations
    /\ request' = [request EXCEPT ![s] =
                      [sequenceNumber |-> m_sequenceNumber,
                       first |-> m_nextRenderServerRenderRequestIteration]]
    /\ m_nextRenderServerRenderRequestIteration' =
           m_nextRenderServerRenderRequestIteration + MaxIterationsPerPacket
    /\ readTotal' = [readTotal EXCEPT ![s] = m_totalPacketsPending]
    /\ tpc' = [tpc EXCEPT ![s] = "send"]
    /\ requested' = [requested EXCEPT ![m_sequenceNumber] =
                        @ \cup IterationsIn(request'[s])]
    /\ early' = IF ResetQueued THEN early \cup {m_sequenceNumber} ELSE early
    /\ UNCHANGED <<guiVars, m_totalPacketsPending, readPending, appEvents,
                   m_renderServerState, m_numServerPendingIterations,
                   m_lastRenderCommandSequenceNumber, inFlight, packets>>

\* The increment, the unlock and the rest of onTimeout
SendRequest(s) ==
    /\ tpc[s] = "send"
    /\ m_totalPacketsPending' = readTotal[s] + 1
    /\ inFlight' = [inFlight EXCEPT ![s] = Append(@, request[s])]
    /\ m_lastRenderCommandSequenceNumber' =
           [m_lastRenderCommandSequenceNumber EXCEPT ![s] = request[s].sequenceNumber]
    /\ m_numServerPendingIterations' =
           [m_numServerPendingIterations EXCEPT ![s] = @ + MaxIterationsPerPacket]
    /\ tpc' = [tpc EXCEPT ![s] = "idle"]
    /\ request' = [request EXCEPT ![s] = NoRequest]
    /\ readTotal' = [readTotal EXCEPT ![s] = 0]
    /\ UNCHANGED <<guiVars, m_nextRenderServerRenderRequestIteration, readPending,
                   appEvents, m_renderServerState, packets, history>>

\* Mutant: a result of an old sequence is subtracted too.
SubtractAnyResult(s) ==
    /\ tpc[s] = "idle"
    /\ m_renderServerState[s] = "RENDERING"
    /\ inFlight[s] # <<>>
    /\ inFlight' = [inFlight EXCEPT ![s] = Tail(@)]
    /\ packets' = IF Head(inFlight[s]).sequenceNumber = m_sequenceNumber
                  THEN Append(packets, Head(inFlight[s])) ELSE packets
    /\ m_numServerPendingIterations' =
           [m_numServerPendingIterations EXCEPT ![s] = @ - MaxIterationsPerPacket]
    /\ UNCHANGED <<guiVars, appVars, appEvents, m_renderServerState,
                   m_lastRenderCommandSequenceNumber, tpc, request, readTotal, history>>

\* The server has answered its oldest request: onSocketReadyRead
ReceiveResult(s) ==
    /\ tpc[s] = "idle"
    /\ m_renderServerState[s] = "RENDERING"
    /\ inFlight[s] # <<>>
    /\ inFlight' = [inFlight EXCEPT ![s] = Tail(@)]
    /\ IF Head(inFlight[s]).sequenceNumber = m_sequenceNumber
       THEN /\ packets' = Append(packets, Head(inFlight[s]))
            /\ m_numServerPendingIterations' =
                   [m_numServerPendingIterations EXCEPT ![s] = @ - MaxIterationsPerPacket]
       ELSE UNCHANGED <<packets, m_numServerPendingIterations>>
    /\ UNCHANGED <<guiVars, appVars, appEvents, m_renderServerState,
                   m_lastRenderCommandSequenceNumber, tpc, request, readTotal, history>>

Disconnected(s) ==
    /\ tpc[s] = "idle"
    /\ m_renderServerState[s] # "DISCONNECTED"
    /\ Set(s, "DISCONNECTED")
    /\ inFlight' = [inFlight EXCEPT ![s] = <<>>]
    /\ UNCHANGED <<guiVars, appVars, appEvents, m_numServerPendingIterations,
                   m_lastRenderCommandSequenceNumber, tpc, request, readTotal,
                   packets, history>>

Connection(s) ==
    \/ AskForDetails(s)
    \/ DetailsArrive(s)
    \/ CheckTimeout(s)
    \/ TakeRequest(s)
    \/ SendRequest(s)
    \/ ReceiveResult(s)
    \/ Disconnected(s)

-----------------------------------------------------------------------------
(***************************************************************************)
(* The server and the receiver                                             *)
(***************************************************************************)

\* The server ignores a request once it has read one of a newer sequence.
ServerIgnores(s) ==
    /\ \E i \in 2 .. Len(inFlight[s]) :
           Head(inFlight[s]).sequenceNumber < inFlight[s][i].sequenceNumber
    /\ inFlight' = [inFlight EXCEPT ![s] = Tail(@)]
    /\ UNCHANGED <<guiVars, appVars, appEvents, m_renderServerState,
                   m_numServerPendingIterations, m_lastRenderCommandSequenceNumber,
                   tpc, request, readTotal, packets, history>>

\* onRenderResultPacketReceived.  Only the photon mapping branch emits
\* packetReceived.
MergePacket ==
    /\ packets # <<>>
    /\ packets' = Tail(packets)
    /\ appEvents' = IF /\ Head(packets).sequenceNumber = m_sequenceNumber
                       /\ m_renderMethod = PPM
                    THEN Append(appEvents, [slot |-> "onPacketReceived",
                                            sequenceNumber |-> m_sequenceNumber])
                    ELSE appEvents
    /\ UNCHANGED <<guiVars, appVars, connectionVars, history>>

-----------------------------------------------------------------------------

\* The constructor of Application has incremented the sequence number twice
\* before the constructor of DistributedApplication connects the signal.
Init ==
    /\ m_sequenceNumber = 2
    /\ m_runningStatus = "STOPPED"
    /\ m_renderMethod \in RenderMethods
    /\ chosenMethod = "none"
    /\ m_nextRenderServerRenderRequestIteration = 0
    /\ m_totalPacketsPending = 0
    /\ appEvents = <<>>
    /\ readPending = Nothing
    /\ m_renderServerState = [s \in Servers |-> "NO_DEVICE_INFORMATION"]
    /\ m_numServerPendingIterations = [s \in Servers |-> 0]
    /\ m_lastRenderCommandSequenceNumber = [s \in Servers |-> 0]
    /\ tpc = [s \in Servers |-> "idle"]
    /\ request = [s \in Servers |-> NoRequest]
    /\ readTotal = [s \in Servers |-> 0]
    /\ inFlight = [s \in Servers |-> <<>>]
    /\ packets = <<>>
    /\ requested = [q \in SequenceNumbers |-> {}]
    /\ early = {}

AppThread == onSequenceNumberIncremented \/ onPacketReceived \/ WriteDecrement

Next ==
    \/ Gui
    \/ AppThread
    \/ \E s \in Servers : Connection(s) \/ ServerIgnores(s)
    \/ MergePacket

Spec == Init /\ [][Next]_vars

\* Every thread is scheduled, the timer of a connection fires again and again, a
\* server answers, and setRenderMethod ends.  When photon mapping has filled the
\* back buffer, the timer may be without effect.
FairSpec ==
    /\ Spec
    /\ WF_vars(AssignRenderMethod)
    /\ WF_vars(AppThread)
    /\ WF_vars(MergePacket)
    /\ \A s \in Servers :
           /\ WF_vars(AskForDetails(s) \/ DetailsArrive(s))
           /\ WF_vars(m_renderMethod # PPM /\ CheckTimeout(s))
           /\ WF_vars(TakeRequest(s) \/ SendRequest(s))
           /\ WF_vars(ReceiveResult(s))

-----------------------------------------------------------------------------
(***************************************************************************)
(* Properties                                                              *)
(***************************************************************************)

InFlightOf(s, q) ==
    Cardinality({i \in 1 .. Len(inFlight[s]) : inFlight[s][i].sequenceNumber = q})

\* A connection's count covers all iterations of the current sequence that its
\* server has yet to render, so the unsigned count never wraps around, and it is
\* bounded: at most one packet more than the limit.  The count is reset where
\* onTimeout sees a newer sequence number, which another thread may increment
\* before the request is stamped with it.
PendingCoversInFlight ==
    \A s \in Servers :
        /\ InFlightOf(s, m_sequenceNumber) * MaxIterationsPerPacket
               <= m_numServerPendingIterations[s]
        /\ m_numServerPendingIterations[s]
               < PendingIterationsLimit + MaxIterationsPerPacket

\* Iterations of older sequences may be left in that count, but never so many
\* that they alone keep the server from being sent requests.
StalePendingDoesNotBlock ==
    \A s \in Servers :
        tpc[s] = "idle" /\ InFlightOf(s, m_lastRenderCommandSequenceNumber[s]) = 0
            => \/ m_numServerPendingIterations[s] < PendingIterationsLimit
               \/ m_sequenceNumber > m_lastRenderCommandSequenceNumber[s]
               \/ m_renderServerState[s] = "DISCONNECTED"

\* The iterations asked for in a sequence are 0, 1, 2, ... up to the next one,
\* over all servers and connections: no hole, for photon mapping shows nothing
\* after one.  That holds in a sequence of which no request was taken before the
\* queued reset of the numbering.
RequestedIsPrefix ==
    m_sequenceNumber \notin early =>
        requested[m_sequenceNumber] =
            IF ResetQueued THEN {} ELSE 0 .. m_nextRenderServerRenderRequestIteration - 1

\* In such a sequence no iteration is asked for twice: its result would be merged
\* twice.
AskedForFirst ==
    \A s \in Servers :
        tpc[s] = "request" /\ tpc'[s] = "send" /\ m_sequenceNumber \notin early' =>
            IterationsIn(request'[s]) \cap requested[m_sequenceNumber] = {}

NoIterationTwice == [][AskedForFirst]_vars

\* The connections number the iterations of a sequence once each: the count under
\* the mutex, which a queued slot sets to 0, leaves none out and gives none again.
IterationsAreNumberedOnce == [][RequestedIsPrefix' /\ AskedForFirst]_vars

\* The comment on onTimeout says that a connection keeps sending requests until
\* it has reached the number of pending iterations.  So a server with less gets
\* more, or reaches the bound of the model, unless the user pauses or restarts.
\* (It does not hold: path tracing and VCM never report a packet, and the total
\* of pending packets reaches its limit for ever.)
KeepsSending ==
    \A s \in Servers :
        m_runningStatus = "RUNNING" /\ m_renderServerState[s] = "RENDERING"
            ~> \/ m_runningStatus # "RUNNING"
               \/ m_renderServerState[s] # "RENDERING"
               \/ m_numServerPendingIterations[s] >= PendingIterationsLimit
               \/ m_nextRenderServerRenderRequestIteration + MaxIterationsPerPacket
                      > NumIterations
=============================================================================
