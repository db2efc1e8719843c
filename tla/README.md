# OppositeRenderer: specification and verification

OppositeRenderer is a GPU renderer (progressive photon mapping, path tracing and
VCM on OptiX). It renders in a local program (Standalone), or in a client that
sends requests to several render servers and merges their results. This directory
models how the work is coordinated (numbering, queues, threads, restarts, merging,
sockets), what the user's inputs do to the picture while it is rendered, and the
algorithms of the renderer that can be checked exactly: the order of its passes,
the photon maps, the weights of VCM, the import of scenes. The repository's own
README says that the Server "compiles, but is non functional"; the models describe
what its code does.

All paths below are relative to `src/`.

## 1. The system

### Components

| Component | State | Operations | Modelled in |
|---|---|---|---|
| `RenderResultPacketReceiver` (Client) | front and back buffer, next expected PPM iteration, iteration counter, last sequence number | `onRenderResultPacketReceived`, the two merges, `resetInternals` | `RenderResultPacketReceiver` |
| `DistributedApplication` (Client) | next iteration to request, total of pending packets | `getNextRenderServerRenderRequest`, `onSequenceNumberIncremented`, `onPacketReceived` | `DistributedApplication` |
| `RenderServerConnection` (Client, one per server) | connection state, pending command and iterations, sequence number of the last request, bytes not yet read | introduction, `onTimeout`, `onSocketReadyRead`, disconnection | `DistributedApplication` (requests), `ServerSession` (socket), `ServerScene` (scene of a request) |
| `AddNewServerConnectionDialog` (Client) | its socket, a timer of 7.5 seconds | submit, connected, greeting, error, timeout, handing over | `ServerSession` |
| `RenderServer`, `ServerWindow` (Server, main thread) | state of the window, device, port, the connected client, protocol state | choice of device and port, accept, reject, reset, disconnect, introduction, reading of requests, writing of results, quit | `RenderServerRenderer` (queue), `ServerSession` (the rest) |
| `RenderServerRenderer` (Server, a thread) | queue of requests, current sequence number, quit flag | `pushCommandToQueue`, `onNewRenderCommandInQueue`, `onClientConnected/Disconnected`, `onThreadFinished`, `loadNewScene` | `RenderServerRenderer`, `ServerScene` (scenes) |
| `StandaloneRenderManager` (a thread) | current scene, compile flag, next iteration, camera, radius, signal flag, output buffer and its mutex | `onContinueRayTracing`, `renderNextIteration`, `onSceneUpdated`, `onSequenceNumberIncremented`, `onRunningStatusChanged` | `StandaloneRenderManager` |
| `Application` (Gui, a thread) | sequence number, running status, render method, camera | setters and slots that start a sequence or fit the camera | each module, as far as it shares state with it |
| `SceneManager` (Gui, a thread), `SceneFactory` | current scene | load, failure, deletion of the old one | `StandaloneRenderManager`, `ServerScene`, `SceneImport` |
| `RenderWidget`, `Mouse`, `Camera`, docks, settings models (Gui, RenderEngine) | camera, resolution, radius, the frame and the number it is scaled with | mouse, typed fields, presets, `displayFrame` | `UserInterface`, `StandaloneRenderManager` |
| `OptixRenderer` (RenderEngine) | GPU context, scene, buffers and their size, light vertex buffer | `initialize`, `initScene`, `resizeBuffers`, `renderNextIteration`, `getOutputBuffer` | `OptixRenderer` |
| Photon maps (`OptixRenderer_SpatialHash.cu`, `OptixRenderer_CPUKdTree.cpp`, `select.h`, `IndirectRadianceEstimation.cu`) | the grid or the tree | build, gather | `PhotonMap`, `KdTree` |
| GPU programs of photon mapping and path tracing (`renderer/ppm`, `renderer/pt`, `material`) | ray and photon payloads, photons, pixels | generate, hit, miss | `OptixRenderer` |
| GPU programs of VCM (`renderer/vcm`, `BSDF.h`, `BxDF.h`) | the two walks' payloads, light vertices | light pass, camera pass, connections | `VcmPath` (weights), `OptixRenderer` (memory) |
| `Scene`, `Cornell`, `CornellSmall`, materials, `Light` | lights, materials, geometry instances | import of a file, built-in scenes | `SceneImport` |
| Geometry and math; windows and tables; device list | | | no (section 8) |

### Interaction

Client: the user changes the `Application`, which increments the sequence number
and emits signals. Each connection's timer asks `DistributedApplication` for a
request and sends it. Results go by a queued signal to the receiver, which merges
them and reports each to the application. Server: the main thread pushes requests
on a queue shared with the renderer's thread; results come back by a queued
signal. Standalone: the manager sends a signal to itself for every iteration, and
reads `Application` and `SceneManager` directly from its own thread. Both the
manager and the server's renderer drive an `OptixRenderer`, from one thread each.

A signal to an object of another thread is a queued call; queues are sequences in
the models, handled in order. Reading a field of an object of another thread is
immediate.

### What is hard

* **Interleavings.** Fields of `Application` are read without a lock while slots
  that react to their change are still queued; the camera is written by the user's
  thread and the application's. The renderer of the server reads the queue without
  the mutex under which it is filled. Photon walks and light paths share buffers.
* **Order and delivery.** Results of several servers come in any order; results of
  an old sequence come after the restart; slots of a thread that seldom processes
  events run late; a stream delivers a message in parts or two at once.
* **Restarts at any point** of an iteration, a request, a merge.
* **Limits** that stop requests, counters that must return below them, buffers
  sized from an estimate.
* **Failure**: a server disconnects or is busy, a scene fails to load or compile, an
  iteration throws between two passes or in the middle of a resize, a buffer cannot
  be mapped while a mutex is held.
* **Agreement of two computations** far apart in the code: a grid's build and its
  search, the weights of two independent walks, the light a surface emits and the
  light sampled for it.

`PROJECT.json` lists each hazard with its line and the properties that cover it.

### What makes each component correct

* *Receiver*: the frame is the mean of exactly the iterations it claims, nothing
  that could be shown is left in the back buffer.
* *Application and connections*: the iterations of a sequence are numbered
  without a hole or repetition, the count of pending iterations covers what is
  pending, and work goes on until a limit is really reached.
* *Render server*: answers in order, complete, only old requests ignored, what is
  queued is served, and it ends when told to.
* *Session*: whom the window accepts is served, one at a time; requests and
  results get through however the streams are cut; the dialog comes to an end.
* *Standalone*: one continuation at a time, a frame of one scene, method and
  resolution once restarts are done, the right scale, a picture that is not
  distorted, and rendering resumes after a pause.
* *Renderer*: every pixel is the sum of exactly the iterations since the restart,
  on buffers of the right size; every photon and light vertex is stored and found
  once; light is counted once on each path, and the techniques of VCM add up.
* *Scenes*: surfaces emit the light that is sampled for them, and every ray that is
  traced finds a program that answers it.
* *Scene of a request*: the server renders the scene that is named, and a frame shows
  one scene from its own camera.

## 2. Modules

`RenderResultPacketReceiver`, `RenderServerRenderer`, `DistributedApplication`,
`StandaloneRenderManager` (with `UserInterface`), `ServerSession`, `OptixRenderer`
(with `PhotonMap`, `KdTree`, `SceneImport`), `ServerScene` and `VcmPath` are specifications with
a run; each `..._proofs` module extends one of them (`OptixRenderer_proofs` also the lemmas of
`KdTree_proofs`; that of `StandaloneRenderManager` is about `UserInterface` too); each `MC...` module gives one
its constants. Operators such as `ContinueAlways` or `MergeIntoFrontWrongWeight`,
which no specification uses, are faulty variants of the definition they stand
before: with one of them in its place, the property it is paired with in
`PROJECT.json` fails.

### ProgressiveFrame (abstract)

What the client promises of a photon mapped frame: it is the mean of the longest
run of iterations, counted from 0, of which all results have arrived. Variables
`received`, `shown`; actions `Restart`, `Accept`.

### RenderResultPacketReceiver

`onRenderResultPacketReceived` is split at the reads of state of other threads:
`AcceptPacket`/`DropPacket` compare the sequence numbers and reset the buffers;
then the method is read (`MergePathTracing`, or `InsertIntoBackBuffer`, which
includes the sort); then the loop over the back buffer (`CombineAdjacent` once
for each pair, `FinishPhotonMapping` at its end), and the front buffer
(`MergeIntoFront`, `KeepInBackBuffer`). The user's side is
`incrementSequenceNumber` and `assignRenderMethod`, possible at any step.

A packet is its sequence number and an interval of iterations. A frame is the set
of iterations it is the mean of, and whether the weights were right (`isMean`).
A packet is taken for the mean of its iterations, as the client's code takes it;
the GPU sums them up (section 7). `IsNew` lets an iteration arrive once in each
sequence; run `distributed` shows when this holds (`IterationsAreNumberedOnce`).

### RenderServerRenderer

The main thread's actions are the disjuncts of `Main`: `NewConnection`,
`ClientDisconnected`, `Introduction`, `PushCommand` and its `Wake` (the push
holds the mutex, the wake-up comes after it), `NewRenderResultPacket`, and the
end of the program `Wait`, `Wake`, `WaitExit`. The renderer's loop is a program
counter `rpc`: `CheckQueue`, `WaitForCommand`, `EventsProcessed` (with
`ProcessEvent` for each queued slot), `Dequeue`, `RenderIteration`, `LeaveLoop`,
`Compare`, `Ignore`/`SendResult`. Every access to the queue is one step, so the
representation of `QQueue` is taken as never torn; taking from an empty one is
undefined and ends the model (`rpc = "crashed"`). `Init` has both outcomes of
starting the thread before its `started` signal is connected.

### DistributedApplication

`m_sequenceNumber` is incremented at once by the actions of the user, the slot
`onSequenceNumberIncremented` is queued in `appEvents`. Slots of the application
run in its thread, one at a time (`SlotIsDone`), `setRenderMethod` in the user
interface's. `onTimeout` of a connection is `CheckTimeout` (which resets the
count), `TakeRequest` (with the mutex of the application) and `SendRequest`.
`m_totalPacketsPending` is incremented and decremented by a read and a write
step each, because the decrement does not take the mutex: the lost update is in
the model. Changing camera or settings is `SettingsUpdated`; `onSceneUpdated`,
which does the same more than once, is not an action of its own. Servers are
external: requests are answered in order or ignored when overtaken.

### ServerSession

One connection is one attempt of a client, from `FormSubmit` of its dialog to the
end. The window's slots are the disjuncts of `Window`, `RenderServer`'s those of
`Server`, the dialog's those of `Dialog(c)` and the connection's of
`Connection(c)`. A stream is a sequence of units; an action that reads takes any
number of the units on their way (`DataFromClient(c, n)`, `HostDataAvailable(c, n)`,
`onSocketReadyRead(c, n)`), so messages arrive in parts or together. A text has two
units and a packet's size field two, so that each can be cut; only whole requests
or a cut one matter to the server's loop (`ReadRequest`), which spins when a part
of a request is left. Reading a wrong size is the end of what is followed
(`garbled`). The server's renderer is external here.

### StandaloneRenderManager and UserInterface

Four threads: user, application, scene manager, render manager. `slots` is the
queue of the manager, `appSlots` that of the application, `frames` that of the
widget. `onContinueRayTracing` is followed by a program counter: `CompileScene`
(or `CrashOnDeletedScene`), `Trace`, `Publish`, `Continue`, with the error paths
`Pause`, `RenderFails`, `PublishFails`. An iteration that fails is not counted.
Scenes are objects at addresses that may be used again after a deletion, since
the manager compares addresses.

`UserInterface` has the handlers of the mouse, the docks and the settings models.
A handler is an action that puts its calls into `guiCalls`, and each call (a write
to `Camera`, `setWidth`, a signal) is an action of its own, so that slots of the
application's thread come in between. `setAspectRatio` is two steps on both threads
(`OutputSettingsFit`, `onSceneUpdatedFit`, `DefaultCameraFit` against what
`fitting` has read). Angles of view are exact fractions of the tangents of their
halves, so "the camera fits the resolution" is an equation.

### OptixRenderer, PhotonMap, KdTree

`renderNextIteration` is a program counter `pc` through the passes of its method:
`FirstIteration`/`NextIteration`, `Resize` or `ResizeFails`, `ClearOutput`, then
rays (`LaunchRays`, one hit or segment at a time, `EndOfRay`), photons
(`LaunchPhotons`, one action for each material's program), the map
(`createUniformGridPhotonMap` or `createPhotonKdTreeOnCPU`), `EstimateRadiance`,
`OutputPass`; or `EstimateVertexCounts`, `LaunchLightPass`, `StoreLightVertex`,
`CameraPass`. `Throws` leaves any pass. A pixel is a bag of tokens, one for each
contribution, so that lost, repeated and stale contributions show. What a freed or
fresh buffer holds is `Garbage`.

`PhotonMap` computes the bounding box, the size and number of cells, the cell of
each photon, the sorted list and the offset table, and the rows of cells a search
reads, in integers and exact quotients; the photons of one cell may come in any order.
`KdTree` has `select.h` (partition and selection in place), the build with its choice of
the longest axis, and the nodes that a search with its stack visits; each loop is a
function of the number of its turns, so that it can be proved about. Both are compared
with the definition: within the radius or not.

### VcmPath

One path x_0 .. x_n+1 between a light and the camera, with its cosines, squared
lengths and densities chosen at the start. `LightHit`, `LightMiss`, `CameraHit`,
`CameraHitsEmitter`, `CameraMiss` are the programs; the operators above them are
the functions of `vcm.h`, `mis.h`, `BSDF.h` and `BxDF.h` they call. Numbers are
elements of a set `Numbers` of which the module assumes the laws by which sums and
products of rational numbers are rearranged and quotients reduced
(`NumbersAssumption`), and nothing else. The run takes a prime field, where identities
are checked without rounding and one that fails shows; the proofs take any such numbers.

### SceneImport

`CreateFromFile` and `SceneRootGroup` follow `Scene`'s import of what assimp has
read: lights, emitters, materials of each mesh, the values their instances get in
the order in which they are registered, the attributes a mesh has and its material
reads. Each loop is a recursive function of the number of turns it has taken. `IsFile`
is what is taken from assimp: every mesh has one of the file's materials, and those of
emitters have a face (`Scene.cpp:298` reads the first without a test). `CornellScene`
and `CornellSmallScene` build the built-in ones, with all walls, blocks, spheres and
lights of each configuration. `ProgramsOf` says for which types of ray a material has
a program, to be compared with the types that are traced in its scene.

### ServerScene

Which scene is rendered by a server, on the way from `SceneManager`'s import to the
frame of the client. `Client` has the import (`LoadStarts`, `ImportScene`,
`DeleteOldScene`) and the slots of `Application`, whose calls are made one by one
(`SlotStep`; `getScene` and the use of its pointer are two). `Timer` is one connection:
`ReadScene`, `ReadName`, `ReadCamera` and `SendRequest` are the reads of
`getNextRenderServerRenderRequest` in their order, `ReceiveResult` the comparison of
the sequence and the merge. `Server` has the queue, the loop over the iterations of a
request, `LoadNewScene` with each of its failures, and `RenderFrame`. Scenes are
numbered in the order in which they are loaded, so that a deleted one is told from the
next; what is undefined (a scene that is `NULL` or deleted) or throws out of a thread
ends the model (`crashed`). A server begins with what an earlier client may have left:
`initializeNewClient` keeps its scene (`LeftScenes`). A client that reconnects, several servers and
the limits of packets are in `RenderServerRenderer` and `DistributedApplication`.

In all modules `m_sequenceNumber++` is atomic, though the application's and the
user interface's threads may both run it.

## 3. Runs that pass

| Run | Instance | Distinct states | Properties |
|---|---|---|---|
| `receiver` | 2 sequences, 5 iterations, 3 methods | 79 thousand | `TypeOK`, `NothingStranded`, `BackBufferIsCoalesced`, `FrontIsMean`, `ImplementsFrame`, `EveryPacketIsMerged` |
| `renderer` | 2 clients, 3 requests, 2 sequences, 2 iterations | 1.0 million | `TypeOK`, `ResultsInOrderAndComplete`, `FirstClientLosesOldRequestsOnly`, `BusyRendererQuits` |
| `distributed` | 2 servers (symmetric), 2 methods, 2 restarts, 2 iterations, limits 2 and 2 | 2.0 million | `TypeOK`, `PendingCoversInFlight`, `StalePendingDoesNotBlock`, `IterationsAreNumberedOnce` |
| `session` | 2 connections, 2 requests, packets of 3 units | 347 thousand | `TypeOK`, `ReadyIsComplete`, `OneClientServed`, `RequestsArrive`, `ResultsAreRead`, `IntroductionSucceeds`, `DialogSettles` |
| `standalone` | 2 addresses, 2 methods (both symmetric), a frame every 2 iterations, 3 iterations, 3 inputs of 12 kinds | 2.4 million | `TypeOK`, `OneContinueQueued`, `DisplayedScaleIsClose`, `FrameOfOnePicture`, `ManagerFollowsApplication`, `PictureIsNotDistorted` |
| `optix` | frames of 1 and 2 pixels, 2 photon threads with 2 slots, 2 sequences, 2 iterations, 3 methods, both photon maps | 1.0 million | `TypeOK`, `BuffersFitLaunch`, `FrameIsSumOfIterations`, `DepositsStayInOwnSlots`, `GatherFindsEachPhotonOnce`, `LightCountedOnce`, `VerticesOfOwnPath`, `ScenesAreSound` |
| `server_scene` | 2 inputs, 6 scenes, 10 states of the server at the start, 2 iterations, a limit of 1 request | 2.0 million | `TypeOK`, `LoadableSceneIsRendered`, `FrameOfCurrentScene` |
| `vcm` | 3 lights, 5 surfaces, up to 3 surface points, 2 lengths | 401 thousand | `WeightsAreBalanced`, `EveryTechniqueOnce` |

What they show, and why the bounds are enough:

* **receiver** - for packets in any order, of any length, before and after a
  restart and with the method changed at any step, every packet is merged, none
  is stranded, and the frame is the mean of what it claims. It implements
  `ProgressiveFrame`. Five iterations make three separate runs in the back
  buffer and a packet that joins two; two sequences make a packet of the old one
  arrive after the restart. More of either repeats these cases, and the proofs
  cover all numbers.
* **renderer** - the queue's order survives two unlocked readers. For the *first*
  client results are complete and only old requests are ignored; for later ones
  they are not (section 4). Three requests in two sequences: one is being
  rendered, one is queued and one overtakes them; a second client follows.
* **distributed** - the numbering and the pending counts are right at every
  interleaving of two connections, the application and the receiver, outside the
  window between an increment and its queued reset. The properties name this
  window (`early`, `ResetQueued`): inside it a connection may take a request
  of the new sequence with the old numbering. With limits of 2
  iterations for a server and 2 packets for all, each limit is met while the other is
  not. The code's limits are 30 and 80.
* **session** - whatever the order of choosing a device, listening, accepting,
  turning away, resetting and disconnecting, who is told that the server is ready is
  the client it serves. Requests and results get through wherever the streams are
  cut, outside the cases the properties name because they do fail: a request cut
  in its middle (`cutRequest`), an answer or a size field in parts (`cutAnswer`),
  two results in one `readyRead` (`coalesced`), a result rendered for an earlier
  client (`strays`). Two connections are an accepted one and a rejected one, or one
  after the other; two requests are enough for one to follow another in a segment.
* **standalone** - restarts, pauses, method changes, scene loads and failures in
  any order neither multiply the continuations nor leave a frame of two methods
  or a stale scene, with two exceptions that the properties name and that were
  seen to be necessary: `notRestarted`, a method change while a scene is being
  imported, and `addressReused`, a new scene at the address of a deleted one that
  the manager still holds. The picture keeps its proportions however the two
  threads interleave, unless the angles were typed or both write to them at once
  (`anglesMayDiffer`). The code shows every fifth iteration; with 2 and 3
  iterations there is one shown and one not shown on each side. One run of all
  kinds of input together is too large, so `InputChoices` gives sets of kinds that
  interact, each with its bounds: the manager's with three inputs, or with three
  iterations; the inputs that change the picture while it is rendered; and those that
  set the camera, without iterations.
* **optix** - any sequence of requests, changes of size, scene and method, and
  exceptions between the passes. Two pixels tell own from foreign, two threads
  with two slots let one write into the other's if it could; two photons in three
  places make grids of 1 to 8 cells and trees of up to three levels, with equal
  coordinates, and photons at exactly the radius. Where nothing is rendered, every
  built-in scene and 30 thousand files of one or two meshes are imported.
* **server_scene** - a second scene, a start or a pause comes at any moment of a first
  one's import, of the restart it causes, and of the requests that are read, sent,
  rendered and merged meanwhile. Of the six scenes one cannot be read by the client,
  one not by the server (a path of the client's machine), one has no lights, which
  `initScene` refuses, and one goes by the name of another; two can be loaded everywhere. The frame is right although nothing
  is locked, because the camera is taken, and then new sequences begun, after the scene
  has been assigned. It is not where a request was put together across that change
  (`mixed`): its sequence number is read last, so it may carry the new number with the
  old scene. With three inputs the run is too large.
* **vcm** - every path of up to three surface points, of five kinds, between an
  area light at two orientations or a point light and the camera; four segments are
  `maxPathLen`, so the limits of both walks are met. The prime field of 101 elements
  replaces the rationals: an accidental equality is possible for one path but not for
  all.

State is bounded by `MaxSequenceNumber`, `NumIterations`, `MaxConnections`,
`MaxRequests`, `MaxIterations`, `MaxInputs`, `MaxSequence`, `MaxIteration`,
`MaxSurfaces` and `InputChoices`, in guards or in `Init`. Behaviours end at these
bounds, and servers end by quitting or crashing, so these runs do not check
deadlock; `receiver` does, but the user may always change the method there. That
nobody waits for ever is what the liveness properties say: `EveryPacketIsMerged`
of the handler, `BusyRendererQuits` of the two threads of a server,
`DialogSettles` of the dialog.

## 4. Runs that find a violation

Each checks one statement of a comment or text of the repository.

| Run | Property | Statement | What the code does |
|---|---|---|---|
| `renderer_lost_wakeup` | `QueueIsServed` | `Server/server/RenderServerRenderer.cpp:86` "If queue is empty, we wait until we get a new request" | A request pushed between the renderer's look at the queue and its wait wakes nobody: the two use different mutexes. |
| `renderer_incomplete` | `OwnResultsAreComplete` | same file, 121-123: the loop was left because the packet is old, and it is dropped | The loop is left because of the 0, the next request sets the number back before the second comparison, and the incomplete result is sent. |
| `keeps_sending` | `KeepsSending` | `Client/client/RenderServerConnection.cpp:109` "Keep sending RenderCommands ..." | Only the photon mapping branch reports packets. With path tracing or VCM the total of pending packets reaches its limit and no request is sent until a restart. |
| `pause_or_resume` | `ResumeRenders` | `Gui/gui/docks/ui/RenderInformationDock.ui:153` "Pause or resume rendering" | A pause between the signal and its slot, or a start before a scene is loaded, leaves `m_noEmittedSignals` false for ever. |

## 5. Fairness

* `RenderResultPacketReceiver`: weak fairness of the handler. Its thread is
  scheduled, and the handler waits for no other thread.
* `RenderServerRenderer`: weak fairness of the renderer's thread, and of the
  main thread once it is inside a function (`Wake`, `WaitExit`). Clients need
  not do anything.
* `DistributedApplication`: weak fairness of each thread's steps: the
  application's slots, the receiver, the rest of `setRenderMethod`, and each
  connection's timer, which repeats, its handshake and its results. The user
  need not do anything. For the timer only the case in question (a method other
  than photon mapping) is assumed, the weaker assumption.
* `ServerSession`: weak fairness of the end of an attempt to connect (the
  operating system reports success or failure), of the dialog's timer and of the
  handing over of the socket. The server and its data need not move.
* `StandaloneRenderManager`: weak fairness of the event loops of the application
  (`ApplicationThread`), the scene manager (`SceneThread`) and the render manager
  (`ManagerThread`), of what is left of a handler of the user's thread
  (`UserThread`) and of the frame slot (`displayFrame`). The user need not give
  any input.

No strong fairness is assumed. Servers need not answer except where
`FairSpec` of `DistributedApplication` lets results arrive. `OptixRenderer`,
`VcmPath` and `ServerScene` state safety only.

## 6. Proofs

TLC checks the instances above; TLAPS proves the following for every value of the
constants that the named assumption of the module allows. All proofs have one
shape: an inductive invariant `IInv`, a lemma for `Init`, one lemma for each action
(or for each group of actions that leave the same variables alone), and a theorem
for each property that follows from `IInv`. Where one component has properties of
different kinds, each has an invariant of its own, proved on top of those before it
(`StreamInv`; `VertexInv`, `RayInv`, `FrameInv`).

| Module | Assumes | Theorems (`Spec => []...`) |
|---|---|---|
| `RenderResultPacketReceiver_proofs` | `ReceiverAssumption`: both bounds positive, at least the two increments that precede the first packet | `Invariance`, `TypeCorrectness`, `NoPacketIsStranded`, `BackBufferStaysCoalesced`, `PhotonMappedFrameIsMean` and `PathTracedFrameIsMean`, hence `FrontIsMeanHolds`, `Refinement` (`Spec => ImplementsFrame`) |
| `DistributedApplication_proofs` | `ApplicationAssumption`: a packet has at least one iteration, limits are at least one; any set of servers | `Invariance`, `TypeCorrectness`, `PendingCoversInFlightHolds`, `StalePendingDoesNotBlockHolds`, `RequestedIsPrefixHolds` and `NoIterationTwiceHolds`, hence `IterationsAreNumberedOnceHolds` |
| `RenderServerRenderer_proofs` | `RendererAssumption`: the bounds are positive | `Invariance`, `TypeCorrectness`, `AnswersInOrderHolds` and `FirstClientGetsCompleteResultsHolds`, hence `ResultsInOrderAndCompleteHolds`, `FirstClientLosesOldRequestsOnlyHolds` |
| `StandaloneRenderManager_proofs` | `StandaloneAssumption`: a frame is shown every so many iterations, at least one; `InterfaceAssumption`: resolutions typed are positive; any scenes, addresses and number of inputs | `LoopInvariance`, `OneContinueQueuedHolds`, `DisplayedScaleIsCloseHolds`; `PictureInvariance`, `FrameOfOnePictureHolds`, `ManagerFollowsApplicationHolds`, `PictureIsNotDistortedHolds`; `RangeInvariance`, `TypeOKHolds` |
| `ServerSession_proofs` | `SessionAssumption`: a packet has a body, at least one request; any set of connections | `Invariance`, `ReadyIsCompleteHolds`, `OneClientServedHolds`; `StreamInvariance`, `RequestsArriveHolds`, `ResultsAreReadHolds`, `IntroductionSucceedsHolds`; `CountInvariance`, `TypeOKHolds` |
| `OptixRenderer_proofs` | `RendererAssumption` of `OptixRenderer`: launches, depths and slots of at least one, coordinates and radii are integers; `ScenesAssumption`: a name is that of a built-in scene or of a file whose meshes have one of its materials | `Invariance`, `BuffersFitLaunchHolds`, `DepositsStayInOwnSlotsHolds`; `VertexInvariance`, `VerticesOfOwnPathHolds`; `RayInvariance`, `LightCountedOnceHolds`; `FrameInvariance`, `FrameIsSumOfIterationsHolds`; `MapInvariance`, `TreeInvariance`, `GatherFindsEachPhotonOnceHolds`; `LimitInvariance`, `TypeOKHolds`; `EmittersShineAsSampledHolds` and `EveryRayIsAnsweredHolds`, hence `ScenesAreSoundHolds` |
| `KdTree_proofs` | nothing: any number of photons at any integer coordinates, from any point, within any radius | `SelectFindsMedian`, `TreeFindsOnce` (of operators) |
| `VcmPath_proofs` | `PathAssumption`, `NumbersAssumption`, `SceneAssumption`: lengths are positive, numbers obey the laws above, densities and cosines are not zero | `Invariance`, `WeightsAreBalancedHolds`, `EveryTechniqueOnceHolds`, `SharesAddUpHolds` |

**Receiver.** The safety properties speak of the buffers between two packets; a step
of the loop over the back buffer needs to know what they are in the middle of one.
`IInv` adds this: the packet in the handler belongs to the sequence of the
buffers and holds nothing already merged (`ResultInv`), the back buffer is
ordered and disjoint at every step (`OrderInv`), there are gaps between its
packets whenever the loop is not running (`GapInv`), each iteration received is
in the front, in the back or in the packet at hand (`CoverageInv`), and the
counter of the running average is 0 before the first packet (`CountInv`). It rests
on lemmas about `InsertAt`, `RemoveAt`, combining neighbours and splitting an
ordered insertion. `Refinement` follows step by step: a reset is `Restart`, the end
of a merge is `Accept`, everything else stutters.

**Client's requests.** `PendingCoversInFlight` is not inductive: a result that
arrives takes its iterations off the count, which is only right if no result can be
of a sequence newer than the connection's last request. `StampInv` says that sequence
numbers never run ahead of one another from the application over the connection and
its request to the server's queue; `StaleInv` bounds what older sequences have left
in a count by the limit; `FutureInv` says that nothing was asked for in a sequence yet
to come, which gives `RequestedIsPrefix` its base after an increment; `ReadInv` that
the unlocked decrement never begins at 0, so that the unsigned total does not wrap.
A count of in-flight requests is a `Cardinality` of positions in a sequence, so
there are lemmas on how it changes when a request is appended or the head is taken.

**Render server.** Both threads read and write the queue and the sequence number with
no common lock. `OrderInv` places every request in one of four places, the queue,
the renderer, the queued results, the client, and says that the numbers in each are
increasing and larger than those in the next (`QueueInv`, `RequestInv`, `ResultInv`,
`ReceivedInv`); `AnswersInOrder` is then the last place alone. What holds for the
first client only needs `FirstInv`: nothing exists before it connects (`NoClientInv`),
and until it disconnects no `onClientDisconnected` is queued and no request is ahead
of the current number (`UndisturbedInv`), so that the loop is left early only when
the comparison after it fails too. Once a client has disconnected this is lost, and
section 4 has what then happens.

**Local rendering.** `ContinueInv` is `OneContinueQueued` by positions of the queue.
`ShownInv` relates the renderer's frame, the next iteration, the last one and the
frame to be shown: the last iteration less those in the shown frame is the remainder
of the last iteration by the period, which `RemainderOfSuccessor` carries over one
iteration. After an exception has left the mutex locked it does not hold, but then
no frame is shown any more.

**Picture.** Camera, resolution, method and scene are written by the user's thread,
the application's and the scene manager's, and copied by the manager's, without a
lock. Two arguments carry the three properties. The first: whoever writes one of them
has made, or is about to make, a call that starts a sequence (`CallsInv` for the
handlers that write first and emit later, `CameraInv` for the copy: it may differ
from the camera only while such a call is in one of the two queues or in a handler).
The second is the order of the queues: Application's `onSceneUpdated` and the
manager's are queued together, and the manager must not have the new scene and the
old sequence at its next iteration unless a restart follows (`RestartFollows` in
`SceneOrderInv`); `FrameInv` is then `FrameOfOnePicture` with "no restart is pending"
replaced by "none follows". For the angles, `DistortionInv` says that they fit unless
a fit is on its way; that needs to know that what is being fitted was measured with
the resolution of now or will be measured again (`FitInv`), and that the resolution
which a preset writes in two calls fits the camera it has written in a third
(`PresetInv`). `RangeInv` carries the types: `Application` reads a scene only in slots
that were queued when it was there, a handler has at most five calls left, and a frame is
ahead of the count by the iteration between `Trace` and `Publish`, or by one more once
the mutex is left locked. What `anglesMayDiffer` excepts is angles that the user has
typed and two threads in `setAspectRatio` at once; the next preset ends it.

**Session.** The window has a client exactly when it is ready (`ClientInv`), and
who listens has a device (`DeviceInv`). What is left is a socket whose
disconnection arrives after a reset: it takes the window back to waiting for a
connection, from wherever it is. `ClosingInv` says why that lets nobody in: a
socket closes late only after a reset, and after one nothing listens again,
because `OptixRenderer` keeps its device and to choose a second one ends the server.

**Streams.** `StreamInv` is a second invariant on top. A size field and a body have
the same units in every packet, so `Packets(stream, taken, k)` says by place what a
stream of k packets is, of which some units were taken; lemmas say what appending a
packet, taking units and moving a segment into a buffer do to it. In transit to the
server are whole packets (`RequestInv`, as long as no segment has ended inside one) and
to the client the buffer followed by the stream is whole packets, less what the
client has taken (`Answers`, as long as no segment has ended inside a size field). What
makes the streams begin that way is the introduction: until it has arrived the server
has read nothing (`IntroductionInv`), a connection pushes its command exactly once
and writes requests only after the answer (`Command`), and only a client that has its
answer causes results (`AskedInv`), but for those that an earlier client has left
queued (`strays`). A connection that no one has accepted has empty streams
(`Fresh`, `BacklogInv`). `CountInv` does without "as long as": wherever a segment ends,
what the server has read, has begun to read and can still read was written by the
client it serves, so it never counts more requests than were sent, and `TypeOK` holds.

**GPU passes.** `SizeInv` follows `resizeBuffers` through the exceptions that leave
its buffers in different sizes (`torn`). `DepositsStayInOwnSlots` needs `WalkInv`: a
thread that still walks has a slot left. The programs of `Diffuse` and `Glossy` test
for a free slot before they store, that of `Texture` does not; it is safe because
each ends a thread that is full after it has stored. That no two threads share a
slot rests on lemmas about `PmIndex`: the number of a thread and the number of its
slot are the quotient and the remainder of the slot's index (`QuotientIsUnique`).

**Light vertices.** `VerticesOfOwnPath` looks up a vertex through the buffer of
indices. `PlaceInv` says that the counter is the number of vertices stored in this
pass, that each has a place below it, and that where the place is within the buffer
the vertex is still there: the next one is stored at the counter, above all of them.
`LaunchInv` gives the buffer of indices the size of the launch, whichever of the
resizes has thrown before. To this end `VerticesOf(counts)` is the set of vertices
stored, and the sum of the counts that the code computes is its cardinality.

**Rays.** `LightCountedOnce` speaks of a ray that is done. On its way (`Traced`,
`Returned`) it has sampled the light at exactly the matt surfaces behind it, its
specular flag is set only if glass came after the last of them, and the light
of an emitter it hits then takes the place of what was sampled; hence never both.

**Sums.** `Holds` says that a pixel's bag has every complete iteration of the sequence
once, and of the next one only parts that the pass at hand has added by now: the pixels
below the ray's, or the vertices of light paths stored (`PartsAdded`). A pass that
throws before it adds anything leaves the number of the iteration as it is; the pass
that resizes or clears starts from an empty bag because it starts a sequence. An
exception between VCM's light pass and the end of its camera pass leaves the parts
behind and repeats the number; `halfway` excepts it until the next restart.

**Photon grid.** A photon within the radius is searched for because it lies in the cube
around the point, and its cell in the cells that the cube's corners are in: floors of
quotients are monotone, and the box holds every photon. It is found once because the
cells are numbered row by row, so that the rows searched have no cell in common, and
because an entry of the offset table is the number of slots in the cells before
(`MapFits`); slots sorted by cells with equal ones in any order are all that is known of
them. `MapInv` also says that the product of the three sizes stays within
`PHOTON_GRID_MAX_SIZE`, so the exception `createUniformGridPhotonMap` could throw is
never thrown. Where one would count by induction over data, the proofs take the least of
the elements that differ.

**Photon tree.** `KdTree_proofs` is about operators alone. A scan of `partition` keeps
what `ScanInv` says of the places it has passed, and the list stays an arrangement of
the same photons (`Arranges`); a partitioned range stays apart from what lies before and
after it (`Apart`), so that the loop of `select`, whose range shrinks with every turn, ends
with the median in its place, equal coordinates or not (`SelectFindsMedian`). The loop
that drops photons without power keeps each of the others once (`ValidPhotonsOnce`). Of a
node, `NodeOK` says that its photon and its two lists are the photons it was given, each
once and on its side of the plane. Since a median halves a list, the array of
`pow2roundup(n + 1) - 1` nodes has room for both children of every inner node
(`HasRoom`). The nodes that have a photon at or below them (`Above`) form a line from the root to
the photon's own node, and no node below that has it again (`OwnNodeIsLast`); the search goes
down this line, because a plane that parts the photon from the point is no farther from
the point than the photon (`SearchComesTo`). A photon at exactly the radius may lie in
a plane at that distance, behind which the search does not look; hence "once or not at
all" there. In `OptixRenderer_proofs`, `TreeInv` ties this to a pass: no two slots hold the
same photon, as each photon tells the thread and place that stored it
(`DepositsStayInOwnSlots`, when all threads have ended) and every slot is some thread's
(`SlotOfThread`). With `MapInv` for the other build, `GatherFindsEachPhotonOnce` follows for
both.

**Limits.** `LimitInv` bounds the depths and counts that the programs test in
different places: a ray by its segments, a photon by its depth, the light vertices by the
sum over the pixels that have walked.

**Paths.** `dVCM` and `dVC` are sums over a path's densities divided by the density of
the walk so far; which sums shows only after both are brought to one denominator.
`Joint(s)` is the density of the path when technique s takes s of its points from the
light, `Flow(i)` the same without the density of the one point both walks could take
next. `Carries` says that `dVC` scaled by `Flow(i)` is the sum of the densities of all
techniques on the other side of point i (`Before`, `After`), and `dVCM` the one of the
neighbouring technique, zero behind a mirror. Each hit carries this over one point;
each contribution adds the two sides and its own, which is the denominator
of the balance heuristic. It is lost where section 7 says it is: `LobesEquallyLikely` and
`retried` are hypotheses of the property because the code fails without them.
`EveryTechniqueOnce` follows from where the two walks are (`Walks`): what is taken is what the steps
made so far can take, for every `VCM_MAX_PATH_LENGTH`. `SharesAddUp` ties the two:
the shares of all techniques of a path have the sum one.

**Scenes.** The import is three loops over lists of any length. Each is shown to be a
loop (`SourcesOneByOne`, `MeshesOneByOne`, `InstancesOneByOne`: the recursive function
exists), so that the invariants of its turns can be carried from one to the next, by the
least turn that would break them. `SceneInv` counts how often each light is in the list:
a mesh that is lit as often as it was loaded, a point or spot at most once. The second
load changes no value, because the instance of a mesh of its own material has the inverse
area from the first; that is why the order of the two calls matters (`InstancesInv`).
That every ray is answered (`EveryRayIsAnswered`) needs of a scene only that its
materials are of the six kinds (`KindsAreKnown`).

Only model-checked:

* `ServerScene`;
* all liveness (`EveryPacketIsMerged`, `BusyRendererQuits`, `DialogSettles`,
  `KeepsSending`, `ResumeRenders`, `QueueIsServed`) and everything that needs
  `ENABLED`, which are out of the prover's reach.

## 7. Where the code departs from what one would expect

Seen while modelling. The models follow the code; where a property would fail
because of one of these, it names the case in its comment. No text of the repository
states the contrary, so none of them is a run of its own.

*Client and server*

* A request of several iterations is rendered as their sum
  (`RenderEngine/renderer/ppm/Output.cu:36`), while the client merges packets as
  means.
* A request whose scene the server cannot load, or that has no lights, is rendered with
  the scene the `OptixRenderer` held before, or ends the server if it held none.
  `Camera`'s stream operator leaves out `aspectRatioMode`.
* `getSceneName` of every small Cornell box is "CornellSmall" (`CornellSmall.cpp:356`), so
  a server makes the default one of it, and does not load another when the user chooses
  another small box (`RenderServerRenderer.cpp:108`).
* A late `onClientDisconnected` sets the server's sequence number to 0 after the next
  client's first request, which is then ignored though nothing is newer
  (`RenderServerRenderer.cpp:199`); section 4 has what may follow from it.
* A scene, its camera and the sequence number are read one after the other for a request:
  it may mix two scenes, or read one that is not there or deleted
  (`DistributedApplication.cpp:116-118`).
* The server's read loop never ends on a part of a request, the client leaves the
  second of two results unread until the next one comes.

*Local rendering*

* `setCameraToSceneDefault` dereferences the scene, of which there may be none.
* `setAspectRatio` reads and writes the camera on two threads; a resolution with
  height 0 is accepted; `OutputDock` accepts sizes below 10000, while buffers have
  room for 2000 by 2000.
* `loadDefaultSceneCamera` takes 365 degrees for a full circle, and reads
  `mCameras[0]` of files that may have none.

*Photon maps*

* A photon exactly at the radius, behind a plane at that distance, counts when it is
  met but is not searched for: one comparison is strict, the other is not.
* The tree's stack has 21 places; 2^22 photons make 23 levels.
* The light vertex buffer has twice the room that one estimating pass has used, and
  the passes do not test it.

*Vertex connection and merging*

* `connectVertices` (`vcm.h:363-364`) converts each density with the cosine at its own
  vertex, where the density is of the other one (`ExactlyConverted`).
* `DiffuseEmitter.cu:95-119` weighs a hit on a light without updating the quantities
  on the hit (`ExactlyConverted`).
* `BSDF.h:539` reads the pick probability of the sampled component for all components
  (`LobesEquallyLikely`).
* `sampleScattering` (`vcm.h:188`) returns from a rejected sample without ending the
  walk, and the same ray is traced again (`retried`); a black mirror does so for ever.
* `pixelSizeFactor.x` is used for both directions (`vcm.h:126`,
  `VCMCameraPass.cu:138`).
* A camera hit connects before its length is compared, and a connection does not
  compare the total length.
* The light program of `Texture.cu` builds its BSDF with a normal that is not
  transformed.

*Scenes*

* The lights of an imported scene are registered when the file is read and again
  with its graph (`Scene.cpp:138-142`, `505-509`): every emitter has two.
* Meshes that share an emitter's material get the inverse area of the last one
  registered; only the first face of an emitter's mesh is a light.
* `colorHasAnyComponent` asks for all components.
* The box of a mesh takes `mIndices[0]` three times (`Scene.cpp:150-152`).
* Points and lines are to be removed, but `aiProcess_SortByPType`, which would, is not
  set: `createGeometryFromMesh` reads a third index they do not have.
* A normal map on a mesh without texture coordinates reads tangents that are not set.

## 8. Not modelled, and plan

Not modelled:

* floating-point values: radiances, directions, intersections, the reduction of the
  radius as a number, grazing angles. Integers, exact quotients and a prime field stand
  for the numbers of the photon maps and of VCM. So the padding of the photons' box by
  1e-7 (`OptixRenderer_SpatialHash.cu:138`), which rounding may swallow, is at least one
  unit here, and the test of a photon's direction when it is gathered is left out;
* in VCM, the spot light and the solid angle of a point light outside the scene's
  bounding sphere (`helpers/light.h:119-123`, `189-193`), and as actions of their own a
  sample that leaves the scene (the path ends there) and samples rejected by a black
  material (the run has the other rejection, `retried`);
* launches that fail after they have written something (`Throws` comes before), and the
  exceptions of `initialize`. Those of `getSceneRootGroup` are exceptions of `initScene`
  (`InitSceneFails`);
* torn reads: `StandaloneRenderManager` reads method, width and height of an iteration
  in one step, and the scene's pointer in the step that uses it (`ServerScene` has these
  as two); `RenderServerRenderer` takes each access to the queue for atomic, though the
  one at line 94 has no lock;
* an introduction cut right before its end of line, which `strncmp` accepts and
  `ServerSession` refuses;
* sizes of memory: widths and heights below 10000 are accepted (`OutputDock.cpp:38`),
  while the buffers the frame is copied to have fixed sizes (`RenderWidget.cpp:42`,
  `StandaloneRenderManager.cpp:120`, `RenderResultPacketReceiver.cpp:21`); the stack of
  the kd-tree's search;
* `RenderEngine/math`, `RenderEngine/geometry_instance`: pure functions without state;
* the stochastic hash and participating media, which `config.h` turns off, and merging,
  which VCM's programs never call;
* presentation (labels, tables, OpenGL, the log), statistics, the list of devices,
  saving images, the parser of files (assimp);
* the receiver's limit on the back buffer.

What remains:

1. A composition of receiver, application and server: a request as a sum of its
   iterations, the limit on the back buffer (`RenderResultPacketReceiver.cpp:208-227`)
   with a hole in front of it, the same iteration requested twice.
2. An inductive invariant of `ServerScene`: that the requests of a sequence which are
   not `mixed` have one scene and camera, for any number of scenes and inputs.
