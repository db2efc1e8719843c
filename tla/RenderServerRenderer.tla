------------------------ MODULE RenderServerRenderer ------------------------
(***************************************************************************)
(* Server/server: a render server renders for one client at a time.  Its   *)
(* main thread (RenderServer, and ServerWindow for the connections) reads  *)
(* the client's requests and pushes them on a queue, from which the        *)
(* renderer's thread takes them.  The renderer's slot                      *)
(* onNewRenderCommandInQueue is a loop that never returns until the        *)
(* program quits, so signals to the renderer are only handled where it     *)
(* calls processEvents.                                                    *)
(*                                                                         *)
(* Every access to m_queue is one step.  The renderer reads it without     *)
(* m_queueMutex, so the steps of the main thread fall anywhere between the *)
(* renderer's; taking a request from an empty queue is undefined and ends  *)
(* the model ("crashed").  Frames are abstracted to the number of          *)
(* iterations rendered into them; a scene is loaded with the first one.    *)
(***************************************************************************)
EXTENDS Integers, SequencesExt

CONSTANTS
    MaxConnections,         \* bound: so many clients connect, one after another
    MaxRequests,            \* bound: so many requests are pushed in all
    MaxSequenceNumber,      \* bound on the sequence numbers of a client
    MaxIterations           \* the most iterations in a request

ASSUME RendererAssumption ==
    /\ MaxConnections \in Nat \ {0}
    /\ MaxRequests \in Nat \ {0}
    /\ MaxSequenceNumber \in Nat \ {0}
    /\ MaxIterations \in Nat \ {0}

SequenceNumbers == 1 .. MaxSequenceNumber

\* A request, with the number of the connection it came on and a serial number.
Requests == [id : 1 .. MaxRequests, client : 1 .. MaxConnections,
             sequenceNumber : SequenceNumbers, numIterations : 1 .. MaxIterations]

\* Outside the body of the loop there is no request.
NoRequest == [id |-> 1, client |-> 1, sequenceNumber |-> 1, numIterations |-> 1]

VARIABLES
    (* main thread *)
    connection,                 \* which client is, or was last, connected
    connected,                  \* ServerWindow is in READY_FOR_RENDERING
    m_renderState,              \* RenderServer::m_renderState
    clientSequenceNumber,       \* of the client's last request
    numRequests,                \* requests pushed so far
    mainPc,                     \* what the main thread does next
    resultEvents,               \* queued calls of onNewRenderResultPacket
    received,                   \* history: what was written to clients
    (* renderer *)
    m_currentSequenceNumber,
    m_queue,
    m_quit,
    rendererEvents,             \* queued calls of the renderer's slots
    rpc,                        \* where onNewRenderCommandInQueue is
    renderRequest,
    rendered                    \* the index of the for loop

mainVars == <<connection, connected, m_renderState, clientSequenceNumber,
              numRequests, mainPc>>
sharedVars == <<m_currentSequenceNumber, m_queue, rendererEvents>>
rendererVars == <<m_quit, rpc, renderRequest, rendered>>
resultVars == <<resultEvents, received>>
vars == <<mainVars, sharedVars, rendererVars, resultVars>>

Results == [request : Requests, rendered : 0 .. MaxIterations]

TypeOK ==
    /\ connection \in 0 .. MaxConnections
    /\ connected \in BOOLEAN
    /\ m_renderState \in {"NOT_VALID_RENDER_STATE", "RENDERING", "ERROR_UNKNOWN",
                          "WAITING_FOR_INTRODUCTION_REQUEST"}
    /\ clientSequenceNumber \in SequenceNumbers
    /\ numRequests \in 0 .. MaxRequests
    /\ mainPc \in {"events", "wake", "quitWake", "quitExit", "join"}
    /\ resultEvents \in Seq(Results)
    /\ received \in Seq([to : 1 .. MaxConnections, result : Results])
    /\ m_currentSequenceNumber \in 0 .. MaxSequenceNumber + 1
    /\ m_queue \in Seq(Requests)
    /\ m_quit \in BOOLEAN
    /\ rendererEvents \in Seq({"onClientDisconnected", "onAboutToQuit"})
    /\ rpc \in {"eventLoop", "events", "check", "wait", "waiting", "dequeue",
                "loop", "compare", "send", "finished", "crashed"}
    /\ renderRequest \in Requests
    /\ rendered \in 0 .. MaxIterations

-----------------------------------------------------------------------------
(***************************************************************************)
(* The main thread                                                         *)
(***************************************************************************)

\* onNewConnection, which only accepts a client when none is connected, and
\* initializeClient with initializeNewClient.  Neither the events that wait for
\* the renderer nor the results that wait for the main thread are discarded.
NewConnection ==
    /\ mainPc = "events"
    /\ ~connected
    /\ connection < MaxConnections
    /\ connected' = TRUE
    /\ connection' = connection + 1
    /\ m_renderState' = "WAITING_FOR_INTRODUCTION_REQUEST"
    /\ clientSequenceNumber' = 1
    /\ m_currentSequenceNumber' = 0
    /\ m_queue' = <<>>
    /\ UNCHANGED <<numRequests, mainPc, rendererEvents, rendererVars, resultVars>>

\* disconnected is a direct signal for ServerWindow and a queued one for the
\* renderer, which lives in another thread.
ClientDisconnected ==
    /\ mainPc = "events"
    /\ connected
    /\ connected' = FALSE
    /\ rendererEvents' = Append(rendererEvents, "onClientDisconnected")
    /\ UNCHANGED <<connection, m_renderState, clientSequenceNumber, numRequests,
                   mainPc, m_currentSequenceNumber, m_queue, rendererVars, resultVars>>

\* onDataFromClient before the introduction.  What has arrived may be only a
\* part of the introduction, which is taken for an unknown one.
Introduction ==
    /\ mainPc = "events"
    /\ connected
    /\ m_renderState = "WAITING_FOR_INTRODUCTION_REQUEST"
    /\ m_renderState' \in {"RENDERING", "ERROR_UNKNOWN"}
    /\ UNCHANGED <<connection, connected, clientSequenceNumber, numRequests, mainPc,
                   sharedVars, rendererVars, resultVars>>

\* Mutant: a request does not make its sequence the current one.
PushCommandOnly(s, n) ==
    /\ mainPc = "events"
    /\ connected
    /\ m_renderState = "RENDERING"
    /\ numRequests < MaxRequests
    /\ s >= clientSequenceNumber
    /\ clientSequenceNumber' = s
    /\ numRequests' = numRequests + 1
    /\ m_queue' = Append(m_queue, [id |-> numRequests', client |-> connection,
                                   sequenceNumber |-> s, numIterations |-> n])
    /\ mainPc' = "wake"
    /\ UNCHANGED <<connection, connected, m_renderState, rendererEvents,
                   m_currentSequenceNumber, rendererVars, resultVars>>

\* onDataFromClient and pushCommandToQueue, up to the unlock.  The sequence
\* numbers of a client never decrease.
PushCommand(s, n) ==
    /\ mainPc = "events"
    /\ connected
    /\ m_renderState = "RENDERING"
    /\ numRequests < MaxRequests
    /\ s >= clientSequenceNumber
    /\ clientSequenceNumber' = s
    /\ numRequests' = numRequests + 1
    /\ m_currentSequenceNumber' =
           IF s > m_currentSequenceNumber THEN s ELSE m_currentSequenceNumber
    /\ m_queue' = Append(m_queue, [id |-> numRequests', client |-> connection,
                                   sequenceNumber |-> s, numIterations |-> n])
    /\ mainPc' = "wake"
    /\ UNCHANGED <<connection, connected, m_renderState, rendererEvents,
                   rendererVars, resultVars>>

\* m_waitCondition.wakeAll(): nothing happens if the renderer does not wait yet.
Wake ==
    /\ mainPc \in {"wake", "quitWake"}
    /\ mainPc' = IF mainPc = "wake" THEN "events" ELSE "quitExit"
    /\ rpc' = IF rpc = "waiting" THEN "events" ELSE rpc
    /\ UNCHANGED <<connection, connected, m_renderState, clientSequenceNumber,
                   numRequests, sharedVars, m_quit, renderRequest, rendered, resultVars>>

\* onNewRenderResultPacket writes to the present client, whoever that is.
NewRenderResultPacket ==
    /\ mainPc = "events"
    /\ resultEvents # <<>>
    /\ resultEvents' = Tail(resultEvents)
    /\ received' = IF connected
                   THEN Append(received, [to |-> connection, result |-> Head(resultEvents)])
                   ELSE received
    /\ UNCHANGED <<mainVars, sharedVars, rendererVars>>

\* RenderServer::wait, called when the program ends
Wait ==
    /\ mainPc = "events"
    /\ rendererEvents' = Append(rendererEvents, "onAboutToQuit")
    /\ mainPc' = "quitWake"
    /\ UNCHANGED <<connection, connected, m_renderState, clientSequenceNumber,
                   numRequests, m_currentSequenceNumber, m_queue, rendererVars, resultVars>>

\* The increment in RenderServerRenderer::wait, outside the mutex, and exit
WaitExit ==
    /\ mainPc = "quitExit"
    /\ m_currentSequenceNumber' = m_currentSequenceNumber + 1
    /\ mainPc' = "join"
    /\ UNCHANGED <<connection, connected, m_renderState, clientSequenceNumber,
                   numRequests, m_queue, rendererEvents, rendererVars, resultVars>>

Main ==
    \/ NewConnection
    \/ ClientDisconnected
    \/ Introduction
    \/ \E s \in SequenceNumbers, n \in 1 .. MaxIterations : PushCommand(s, n)
    \/ Wake
    \/ NewRenderResultPacket
    \/ Wait
    \/ WaitExit

-----------------------------------------------------------------------------
(***************************************************************************)
(* The renderer's thread                                                   *)
(***************************************************************************)

\* onClientDisconnected and onAboutToQuit, from processEvents or, when the slot
\* is not running, from the event loop of the thread
ProcessEvent ==
    /\ rpc \in {"events", "eventLoop"}
    /\ rendererEvents # <<>>
    /\ rendererEvents' = Tail(rendererEvents)
    /\ IF Head(rendererEvents) = "onAboutToQuit"
       THEN m_quit' = TRUE /\ UNCHANGED m_currentSequenceNumber
       ELSE m_currentSequenceNumber' = 0 /\ UNCHANGED m_quit
    /\ UNCHANGED <<mainVars, m_queue, rpc, renderRequest, rendered, resultVars>>

\* Mutant: the slot does not look at m_quit.
EventsProcessedNoQuit ==
    /\ rpc = "events"
    /\ rendererEvents = <<>>
    /\ rpc' = "check"
    /\ UNCHANGED <<mainVars, sharedVars, m_quit, renderRequest, rendered, resultVars>>

\* processEvents returns, and the slot does if the program quits.
EventsProcessed ==
    /\ rpc = "events"
    /\ rendererEvents = <<>>
    /\ rpc' = IF m_quit THEN "eventLoop" ELSE "check"
    /\ UNCHANGED <<mainVars, sharedVars, m_quit, renderRequest, rendered, resultVars>>

\* Only the slot's own end lets the thread's event loop see the exit.
ThreadExits ==
    /\ rpc = "eventLoop"
    /\ mainPc = "join"
    /\ rpc' = "finished"
    /\ UNCHANGED <<mainVars, sharedVars, m_quit, renderRequest, rendered, resultVars>>

CheckQueue ==
    /\ rpc = "check"
    /\ rpc' = IF m_queue = <<>> THEN "wait" ELSE "dequeue"
    /\ UNCHANGED <<mainVars, sharedVars, m_quit, renderRequest, rendered, resultVars>>

\* The mutex of the wait condition is not held where the queue is filled.
WaitForCommand ==
    /\ rpc = "wait"
    /\ rpc' = "waiting"
    /\ UNCHANGED <<mainVars, sharedVars, m_quit, renderRequest, rendered, resultVars>>

Dequeue ==
    /\ rpc = "dequeue"
    /\ m_queue # <<>>
    /\ renderRequest' = Head(m_queue)
    /\ m_queue' = Tail(m_queue)
    /\ rendered' = 0
    /\ rpc' = "loop"
    /\ UNCHANGED <<mainVars, m_currentSequenceNumber, rendererEvents, m_quit, resultVars>>

\* Another client has cleared the queue since its size was read.
DequeueFromEmpty ==
    /\ rpc = "dequeue"
    /\ m_queue = <<>>
    /\ rpc' = "crashed"
    /\ UNCHANGED <<mainVars, sharedVars, m_quit, renderRequest, rendered, resultVars>>

RequestIsCurrent == m_currentSequenceNumber = renderRequest.sequenceNumber

\* Mutant: one iteration too many.
RenderIterationOffByOne ==
    /\ rpc = "loop"
    /\ rendered <= renderRequest.numIterations
    /\ RequestIsCurrent
    /\ rendered' = rendered + 1
    /\ UNCHANGED <<mainVars, sharedVars, m_quit, rpc, renderRequest, resultVars>>

RenderIteration ==
    /\ rpc = "loop"
    /\ rendered < renderRequest.numIterations
    /\ RequestIsCurrent
    /\ rendered' = rendered + 1
    /\ UNCHANGED <<mainVars, sharedVars, m_quit, rpc, renderRequest, resultVars>>

LeaveLoop ==
    /\ rpc = "loop"
    /\ rendered = renderRequest.numIterations \/ ~RequestIsCurrent
    /\ rpc' = "compare"
    /\ UNCHANGED <<mainVars, sharedVars, m_quit, renderRequest, rendered, resultVars>>

\* Mutant: the packet is sent whether it is old or not.
CompareNothing ==
    /\ rpc = "compare"
    /\ rpc' = "send"
    /\ UNCHANGED <<mainVars, sharedVars, m_quit, renderRequest, rendered, resultVars>>

\* The comparison after the loop reads m_currentSequenceNumber once more.
Compare ==
    /\ rpc = "compare"
    /\ RequestIsCurrent
    /\ rpc' = "send"
    /\ UNCHANGED <<mainVars, sharedVars, m_quit, renderRequest, rendered, resultVars>>

Ignore ==
    /\ rpc = "compare"
    /\ ~RequestIsCurrent
    /\ rpc' = "events"
    /\ renderRequest' = NoRequest
    /\ rendered' = 0
    /\ UNCHANGED <<mainVars, sharedVars, m_quit, resultVars>>

\* createRenderResultPacket and the queued signal to the main thread
SendResult ==
    /\ rpc = "send"
    /\ resultEvents' = Append(resultEvents, [request |-> renderRequest,
                                             rendered |-> rendered])
    /\ rpc' = "events"
    /\ renderRequest' = NoRequest
    /\ rendered' = 0
    /\ UNCHANGED <<mainVars, sharedVars, m_quit, received>>

Renderer ==
    \/ ProcessEvent
    \/ EventsProcessed
    \/ ThreadExits
    \/ CheckQueue
    \/ WaitForCommand
    \/ Dequeue
    \/ DequeueFromEmpty
    \/ RenderIteration
    \/ LeaveLoop
    \/ Compare
    \/ Ignore
    \/ SendResult

-----------------------------------------------------------------------------

\* The thread is started before its signal started is connected to the slot, so
\* the slot may never be called.
Init ==
    /\ connection = 0
    /\ connected = FALSE
    /\ m_renderState = "NOT_VALID_RENDER_STATE"
    /\ clientSequenceNumber = 1
    /\ numRequests = 0
    /\ mainPc = "events"
    /\ resultEvents = <<>>
    /\ received = <<>>
    /\ m_currentSequenceNumber = 0
    /\ m_queue = <<>>
    /\ m_quit = FALSE
    /\ rendererEvents = <<>>
    /\ rpc \in {"events", "eventLoop"}
    /\ renderRequest = NoRequest
    /\ rendered = 0

Next == rpc # "crashed" /\ (Main \/ Renderer)

Spec == Init /\ [][Next]_vars

\* Both threads are scheduled.  Nothing makes a client connect or send, or the
\* user quit, but a wakeAll or an exit that has begun is carried out.
FairSpec ==
    /\ Spec
    /\ WF_vars(Renderer)
    /\ WF_vars(rpc # "crashed" /\ (Wake \/ WaitExit))

-----------------------------------------------------------------------------
(***************************************************************************)
(* Properties                                                              *)
(***************************************************************************)

\* Results reach the client in the order of its requests and at most once each,
\* although the queue is read without the mutex it is filled under: the client's
\* receiver counts an iteration that comes twice twice.
AnswersInOrder ==
    \A i, j \in 1 .. Len(received) :
        i < j => received[i].result.request.id < received[j].result.request.id

IsComplete(result) == result.rendered = result.request.numIterations

\* The first client is never sent a frame in which iterations are missing.  The
\* loop leaves early when the sequence number has changed, and the packet is only
\* dropped because a second comparison, later, finds it changed still.
FirstClientGetsCompleteResults ==
    \A i \in 1 .. Len(received) :
        received[i].to = 1 => IsComplete(received[i].result)

\* Both: what the client's receiver, which checks neither, needs of the answers.
ResultsInOrderAndComplete == AnswersInOrder /\ FirstClientGetsCompleteResults

\* The comment on that comparison says that a packet is dropped if the loop was
\* left because of a new sequence.  (It does not hold: a late onClientDisconnected
\* of the previous client sets the number to 0, the loop is left before the first
\* iteration, and the client's next request sets the number again.)
OwnResultsAreComplete ==
    \A i \in 1 .. Len(received) :
        received[i].result.request.client = received[i].to =>
            IsComplete(received[i].result)

\* While the first client is connected, no request is ignored unless the client
\* itself has sent one of a newer sequence, or the program quits.
FirstClientLosesOldRequestsOnly ==
    [][ Ignore /\ connection = 1 /\ connected =>
            m_currentSequenceNumber > renderRequest.sequenceNumber ]_vars

\* A renderer at work when the program quits ends, rendering the rest of the
\* queue or not, and lets the main thread join it.
BusyRendererQuits ==
    mainPc = "join" /\ rpc \in {"events", "dequeue", "loop", "compare", "send"}
        ~> rpc \in {"finished", "crashed"}

\* The comment on the wait says that the renderer waits if the queue is empty.
\* So what is in the queue is taken, once the slot runs.  (It does not hold: a
\* request that comes between the look at the queue and the wait wakes nobody.)
QueueIsServed ==
    m_queue # <<>> /\ rpc \in {"check", "wait", "waiting"}
        ~> \/ m_queue = <<>>
           \/ mainPc \in {"quitWake", "quitExit", "join"}
           \/ rpc = "crashed"
=============================================================================
