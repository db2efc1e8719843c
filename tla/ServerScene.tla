----------------------------- MODULE ServerScene -----------------------------
(***************************************************************************)
(* Which scene a render server renders.  The scene goes from the thread of *)
(* SceneManager, which imports it, through slots of Application, which     *)
(* take its camera and start new sequences, into the requests a            *)
(* connection's timer takes, of which only its name is sent; the server    *)
(* imports the scene of that name again, and the client adds the results   *)
(* of one sequence up.  No lock covers scene and camera on that way.       *)
(*                                                                         *)
(* A scene of the client is known by its number in "loads", its address.   *)
(* One connection to one server is enough: servers share nothing.  Numbers *)
(* of iterations and the limit of all packets are DistributedApplication's,*)
(* the server's sockets ServerSession's, clients that come and go and the  *)
(* wait for the queue RenderServerRenderer's.                              *)
(***************************************************************************)
EXTENDS Integers, SequencesExt

CONSTANTS
    SceneChoices,       \* what a user may load: built-in scenes and files
    ReadableHere,       \* those the client can import
    ReadableThere,      \* those the server can
    WithLights,         \* those that initScene does not refuse
    NumIterations,      \* of a request
    PendingLimit,       \* m_pendingIterationsLimit, in requests
    MaxInputs           \* bound: scenes loaded and starts, pauses by the user

NoScene == "no scene"
SmallBoxes == {"CornellSmall", "CornellSmallNoBlocks", "CornellSmallLargeSphere",
               "CornellSmallSmallSpheres", "CornellSmallLightUpwards",
               "CornellSmallPointDistant", "CornellSmallPointTest"}

(* getSceneName: all small boxes answer with the name of the first.        *)
SceneName(choice) == IF choice \in SmallBoxes THEN "CornellSmall" ELSE choice

Names == {SceneName(choice) : choice \in SceneChoices}

ASSUME ServerSceneAssumption ==
    /\ NoScene \notin SceneChoices /\ "lost" \notin SceneChoices
    /\ ReadableHere \subseteq SceneChoices
    /\ ReadableThere \cup WithLights \subseteq Names
    /\ {NumIterations, PendingLimit} \subseteq Nat \ {0}
    /\ MaxInputs \in Nat

VARIABLES
    numInputs,
    loads,                  \* what was loaded, in order: the scenes by address
    m_scene,                \* SceneManager's, 0 is NULL
    deleted,                \* the addresses that were deleted
    manager,                \* [state, choice, old] of onLoadNewScene
    slots,                  \* queued calls of Application's slots
    application,            \* the slot being run: [calls left, pointer]
    m_camera,               \* the scene whose default camera it is
    m_sequenceNumber,
    m_runningStatus,
    timer,                  \* onTimeout: [state, pointer, camera, name]
    pending,                \* m_numServerPendingIterations, in requests
    lastSent,               \* m_lastRenderCommandSequenceNumber
    frame,                  \* the results of the last sequence, [sequence, parts]
    requests, results,      \* on their way
    m_queue,                \* of the server
    m_currentSequenceNumber,
    serverScene,            \* RenderServerRenderer::m_scene
    graph,                  \* what the server's OptixRenderer holds, or "lost"
    renderer,               \* its loop: [state, request, iteration, summed]
    crashed                 \* "client" or "server" used what is not there

clientVars == <<numInputs, loads, m_scene, deleted, manager, slots, application, m_camera,
                m_sequenceNumber, m_runningStatus>>
timerVars == <<timer, pending, lastSent, frame>>
serverVars == <<m_queue, m_currentSequenceNumber, serverScene, graph, renderer>>
vars == <<clientVars, timerVars, requests, results, serverVars, crashed>>

Idle == [state |-> "idle", pointer |-> 0, camera |-> 0, name |-> NoScene]
NoLoad == [state |-> "idle", choice |-> NoScene, old |-> 0]
NoRequest == [sequence |-> 0, choice |-> NoScene, camera |-> 0, name |-> NoScene, mixed |-> FALSE]
NoWork == [state |-> "idle", request |-> NoRequest, iteration |-> 0, summed |-> {}]

(* What the server has: nothing, or what its last client has left, which   *)
(* initializeNewClient keeps.  Its last scene may have failed to load.     *)
LeftScenes ==
    {<<NoScene, NoScene>>}
    \cup {<<left, held>> \in (Names \cup {NoScene}) \X (ReadableThere \cap WithLights) :
              \/ left \in {held, NoScene}
              \/ left \in ReadableThere \ WithLights}

Init ==
    /\ numInputs = 0
    /\ loads = <<>> /\ m_scene = 0 /\ deleted = {} /\ manager = NoLoad
    /\ slots = <<>> /\ application = [calls |-> <<>>, pointer |-> 0]
    /\ m_camera = 0 /\ m_sequenceNumber = 2 /\ m_runningStatus = "STOPPED"
    /\ timer = Idle /\ pending = 0 /\ lastSent = 0
    /\ frame = [sequence |-> 0, parts |-> {}]
    /\ requests = <<>> /\ results = <<>>
    /\ m_queue = <<>> /\ m_currentSequenceNumber = 0
    /\ \E left \in LeftScenes : serverScene = left[1] /\ graph = left[2]
    /\ renderer = NoWork
    /\ crashed = "no"

-----------------------------------------------------------------------------
(***************************************************************************)
(* SceneManager's thread: onLoadNewScene                                   *)
(***************************************************************************)
LoadStarts ==
    /\ manager.state = "idle"
    /\ numInputs < MaxInputs
    /\ numInputs' = numInputs + 1
    /\ \E choice \in SceneChoices : manager' = [NoLoad EXCEPT !.state = "importing", !.choice = choice]
    /\ slots' = Append(slots, "onSceneLoadingNew")
    /\ UNCHANGED <<loads, m_scene, deleted, application, m_camera, m_sequenceNumber, m_runningStatus,
                   timerVars, requests, results, serverVars, crashed>>

(* m_scene is assigned, sceneUpdated queued.  A file that cannot be read   *)
(* leaves the old scene; onSceneLoadError only shows a message.            *)
ImportScene ==
    /\ manager.state = "importing"
    /\ IF manager.choice \in ReadableHere
       THEN /\ loads' = Append(loads, manager.choice)
            /\ m_scene' = Len(loads')
            /\ manager' = [manager EXCEPT !.state = "deleting", !.old = m_scene]
            /\ slots' = Append(slots, "onSceneUpdated")
       ELSE /\ manager' = NoLoad
            /\ UNCHANGED <<loads, m_scene, slots>>
    /\ UNCHANGED <<numInputs, deleted, application, m_camera, m_sequenceNumber, m_runningStatus,
                   timerVars, requests, results, serverVars, crashed>>

(* Mutant: the pointer, which has changed, is deleted.                     *)
DeleteNewScene == {m_scene}

OldScene == {manager.old} \ {0}

DeleteOldScene ==
    /\ manager.state = "deleting"
    /\ deleted' = deleted \cup OldScene
    /\ manager' = NoLoad
    /\ UNCHANGED <<numInputs, loads, m_scene, slots, application, m_camera, m_sequenceNumber,
                   m_runningStatus, timerVars, requests, results, serverVars, crashed>>

-----------------------------------------------------------------------------
(***************************************************************************)
(* Application's thread: the calls its slots make, one by one              *)
(***************************************************************************)
Restart == <<"incrementSequenceNumber", "run">>

(* Mutant: the new sequences start before the camera is taken.             *)
CameraLast == Restart \o <<"getScene", "setRadius", "getScene", "setCamera">>

(* The camera, then the radius, onCameraUpdated and onRenderRestart.       *)
SceneUpdated ==
    <<"getScene", "setCamera", "getScene", "setRadius", "incrementSequenceNumber">> \o Restart

StatusToggled ==
    IF m_runningStatus = "STOPPED" THEN Restart
    ELSE IF m_runningStatus = "RUNNING" THEN <<"pause">> ELSE <<"run">>

(* The user's button; the slot is run later.                               *)
ToggleRenderStatus ==
    /\ numInputs < MaxInputs
    /\ numInputs' = numInputs + 1
    /\ slots' = Append(slots, "onRenderStatusToggle")
    /\ UNCHANGED <<loads, m_scene, deleted, manager, application, m_camera, m_sequenceNumber,
                   m_runningStatus, timerVars, requests, results, serverVars, crashed>>

NextSlot ==
    /\ application.calls = <<>>
    /\ slots # <<>>
    /\ slots' = Tail(slots)
    /\ application' = [application EXCEPT !.calls =
                          IF Head(slots) = "onSceneLoadingNew" THEN <<"pause">>
                          ELSE IF Head(slots) = "onSceneUpdated" THEN SceneUpdated
                          ELSE StatusToggled]
    /\ UNCHANGED <<numInputs, loads, m_scene, deleted, manager, m_camera, m_sequenceNumber,
                   m_runningStatus, timerVars, requests, results, serverVars, crashed>>

(* getScene and the use of what it returns are two steps: the scene may    *)
(* have been deleted in between.                                           *)
RunCall(call) ==
    /\ application.calls # <<>>
    /\ call = Head(application.calls)
    /\ application' = [calls |-> Tail(application.calls),
                       pointer |-> IF call = "getScene" THEN m_scene
                                   ELSE IF call \in {"setCamera", "setRadius"} THEN 0
                                   ELSE application.pointer]
    /\ UNCHANGED <<numInputs, loads, m_scene, deleted, manager, slots, timerVars, requests,
                   results, serverVars>>

UsesDeleted == application.pointer \in deleted

SlotStep ==
    \/ /\ RunCall("getScene")
       /\ UNCHANGED <<m_camera, m_sequenceNumber, m_runningStatus, crashed>>
    \/ /\ RunCall("setCamera")
       /\ m_camera' = application.pointer
       /\ crashed' = IF UsesDeleted THEN "client" ELSE "no"
       /\ UNCHANGED <<m_sequenceNumber, m_runningStatus>>
    \/ /\ RunCall("setRadius")
       /\ m_sequenceNumber' = m_sequenceNumber + 1
       /\ crashed' = IF UsesDeleted THEN "client" ELSE "no"
       /\ UNCHANGED <<m_camera, m_runningStatus>>
    \/ /\ RunCall("incrementSequenceNumber")
       /\ m_sequenceNumber' = m_sequenceNumber + 1
       /\ UNCHANGED <<m_camera, m_runningStatus, crashed>>
    \/ /\ RunCall("run")
       /\ m_runningStatus' = "RUNNING"
       /\ UNCHANGED <<m_camera, m_sequenceNumber, crashed>>
    \/ /\ RunCall("pause")
       /\ m_runningStatus' = "PAUSE"
       /\ UNCHANGED <<m_camera, m_sequenceNumber, crashed>>

-----------------------------------------------------------------------------
(***************************************************************************)
(* The connection's thread: its timer takes requests and sends them, and   *)
(* the results that come are handed on to be merged.                       *)
(***************************************************************************)
MaySend == pending < PendingLimit \/ m_sequenceNumber > lastSent

(* onTimeout and the call of getScene; there may be no scene.              *)
ReadScene ==
    /\ timer.state = "idle"
    /\ m_runningStatus = "RUNNING"
    /\ MaySend
    /\ pending' = IF m_sequenceNumber > lastSent THEN 0 ELSE pending
    /\ timer' = [Idle EXCEPT !.state = "name", !.pointer = m_scene]
    /\ crashed' = IF m_scene = 0 THEN "client" ELSE "no"
    /\ UNCHANGED <<clientVars, lastSent, frame, requests, results, serverVars>>

ReadName ==
    /\ timer.state = "name"
    /\ timer' = [timer EXCEPT !.state = "camera", !.name = SceneName(loads[timer.pointer])]
    /\ crashed' = IF timer.pointer \in deleted THEN "client" ELSE "no"
    /\ UNCHANGED <<clientVars, pending, lastSent, frame, requests, results, serverVars>>

ReadCamera ==
    /\ timer.state = "camera"
    /\ timer' = [timer EXCEPT !.state = "send", !.camera = m_camera]
    /\ UNCHANGED <<clientVars, pending, lastSent, frame, requests, results, serverVars, crashed>>

(* The sequence number comes last.  "mixed" is a history of what has       *)
(* changed since the scene was read; "choice" of what it was.              *)
SendRequest ==
    /\ timer.state = "send"
    /\ requests' = Append(requests,
                          [sequence |-> m_sequenceNumber, name |-> timer.name,
                           camera |-> timer.camera, choice |-> loads[timer.pointer],
                           mixed |-> <<timer.pointer, timer.camera>> # <<m_scene, m_camera>>])
    /\ lastSent' = m_sequenceNumber
    /\ pending' = pending + 1
    /\ timer' = Idle
    /\ UNCHANGED <<clientVars, frame, results, serverVars, crashed>>

(* Results of another sequence are thrown away; the first of a new one     *)
(* starts its frame.                                                       *)
ReceiveResult ==
    /\ results # <<>>
    /\ results' = Tail(results)
    /\ IF Head(results).request.sequence = m_sequenceNumber
       THEN /\ frame' = [sequence |-> m_sequenceNumber,
                         parts |-> {Head(results)} \cup
                                   (IF frame.sequence = m_sequenceNumber THEN frame.parts ELSE {})]
            /\ pending' = pending - 1
       ELSE UNCHANGED <<frame, pending>>
    /\ UNCHANGED <<clientVars, timer, lastSent, requests, serverVars, crashed>>

-----------------------------------------------------------------------------
(***************************************************************************)
(* The server: its main thread pushes requests, the other renders them.    *)
(***************************************************************************)
PushCommand ==
    /\ requests # <<>>
    /\ requests' = Tail(requests)
    /\ m_queue' = Append(m_queue, Head(requests))
    /\ m_currentSequenceNumber' = IF Head(requests).sequence > m_currentSequenceNumber
                                  THEN Head(requests).sequence ELSE m_currentSequenceNumber
    /\ UNCHANGED <<clientVars, timerVars, results, serverScene, graph, renderer, crashed>>

TakeRequest ==
    /\ renderer.state = "idle"
    /\ m_queue # <<>>
    /\ m_queue' = Tail(m_queue)
    /\ renderer' = [renderer EXCEPT !.state = "loop", !.request = Head(m_queue), !.iteration = 0]
    /\ UNCHANGED <<clientVars, timerVars, requests, results, m_currentSequenceNumber,
                   serverScene, graph, crashed>>

IsCurrent == renderer.request.sequence = m_currentSequenceNumber

(* Mutant: a scene is loaded once.                                         *)
MustLoadFirst(name) == serverScene = NoScene

MustLoad(name) == serverScene = NoScene \/ SceneName(serverScene) # name

(* The loop over the iterations, up to the scene.                          *)
Iterate ==
    /\ renderer.state = "loop"
    /\ renderer' = [renderer EXCEPT !.state =
                       IF renderer.iteration = NumIterations \/ ~IsCurrent THEN "compare"
                       ELSE IF MustLoad(renderer.request.name) THEN "load" ELSE "render"]
    /\ UNCHANGED <<clientVars, timerVars, requests, results, m_queue, m_currentSequenceNumber,
                   serverScene, graph, crashed>>

(* loadNewScene deletes the old scene; every exception is only logged.     *)
LoadNewScene ==
    /\ renderer.state = "load"
    /\ LET name == renderer.request.name
       IN \/ /\ name \notin ReadableThere
             /\ serverScene' = NoScene
             /\ UNCHANGED graph
          \/ /\ name \in ReadableThere \ WithLights
             /\ serverScene' = name
             /\ UNCHANGED graph
          \/ /\ name \in ReadableThere \cap WithLights /\ graph # "lost"
             /\ serverScene' = name
             /\ graph' \in {name, "lost"}
    /\ renderer' = [renderer EXCEPT !.state = "render"]
    /\ UNCHANGED <<clientVars, timerVars, requests, results, m_queue, m_currentSequenceNumber,
                   crashed>>

(* renderFrame: the first iteration of a request clears the output.        *)
(* renderNextIteration throws without a graph, and nobody catches it.      *)
RenderFrame ==
    /\ renderer.state = "render"
    /\ renderer' = [renderer EXCEPT !.state = "loop", !.iteration = @ + 1,
                                    !.summed = {graph} \cup (IF renderer.iteration = 0 THEN {} ELSE @)]
    /\ crashed' = IF graph \in {NoScene, "lost"} THEN "server" ELSE "no"
    /\ UNCHANGED <<clientVars, timerVars, requests, results, m_queue, m_currentSequenceNumber,
                   serverScene, graph>>

FinishRequest ==
    /\ renderer.state = "compare"
    /\ results' = IF IsCurrent
                  THEN Append(results, [request |-> renderer.request, summed |-> renderer.summed])
                  ELSE results
    /\ renderer' = [renderer EXCEPT !.state = "idle", !.request = NoRequest, !.iteration = 0]
    /\ UNCHANGED <<clientVars, timerVars, requests, m_queue, m_currentSequenceNumber,
                   serverScene, graph, crashed>>

-----------------------------------------------------------------------------
Client == LoadStarts \/ ImportScene \/ DeleteOldScene \/ ToggleRenderStatus \/ NextSlot \/ SlotStep
Timer == ReadScene \/ ReadName \/ ReadCamera \/ SendRequest \/ ReceiveResult
Server == PushCommand \/ TakeRequest \/ Iterate \/ LoadNewScene \/ RenderFrame \/ FinishRequest

(* What is undefined or has thrown ends the model.                         *)
Next == crashed = "no" /\ (Client \/ Timer \/ Server)

Spec == Init /\ [][Next]_vars

-----------------------------------------------------------------------------
(***************************************************************************)
(* Properties                                                              *)
(***************************************************************************)
Addresses == 0 .. Len(loads)
Parts == [request : [sequence : Nat, name : Names, camera : Addresses, choice : SceneChoices,
                     mixed : BOOLEAN],
          summed : SUBSET Names]

(* Types; and that the scene SceneManager has is none of the deleted.      *)
TypeOK ==
    /\ loads \in Seq(SceneChoices)
    /\ m_scene \in Addresses \ deleted /\ m_camera \in Addresses
    /\ deleted \subseteq Addresses
    /\ manager.state \in {"idle", "importing", "deleting"} /\ manager.old \in Addresses
    /\ slots \in Seq({"onSceneLoadingNew", "onSceneUpdated", "onRenderStatusToggle"})
    /\ application.pointer \in Addresses
    /\ m_runningStatus \in {"STOPPED", "RUNNING", "PAUSE"}
    /\ timer.state \in {"idle", "name", "camera", "send"}
    /\ {m_sequenceNumber, pending, lastSent, m_currentSequenceNumber} \subseteq Nat
    /\ frame.parts \subseteq Parts
    /\ results \in Seq(Parts)
    /\ serverScene \in Names \cup {NoScene} /\ graph \in Names \cup {NoScene, "lost"}
    /\ crashed \in {"no", "client", "server"}

(* The server can load what the request names, and it is what was chosen.  *)
IsFaithful(request) ==
    request.name = request.choice /\ request.name \in ReadableThere \cap WithLights

(* An iteration is rendered of the scene its request was taken from,       *)
(* whatever other scenes were asked for before it and could not be loaded. *)
(* Only scenes that can be loaded by their names are spoken of.            *)
LoadableSceneIsRendered ==
    renderer.state = "render" /\ IsFaithful(renderer.request) =>
        graph \in {renderer.request.choice, "lost"}

(* When no scene is being loaded and no slot has to run, what has been     *)
(* added to the frame of the current sequence shows the scene that was     *)
(* loaded last, from its own camera: no result of another scene gets into  *)
(* it, however late.  Not spoken of are requests whose parts were read     *)
(* before and after a change (mixed).                                      *)
FrameOfCurrentScene ==
    manager.state = "idle" /\ slots = <<>> /\ application.calls = <<>>
    /\ frame.sequence = m_sequenceNumber =>
        \A part \in frame.parts :
            part.request.mixed
            \/ /\ part.request.camera = m_scene
               /\ IsFaithful(part.request) => part.summed = {loads[m_scene]}

=============================================================================
