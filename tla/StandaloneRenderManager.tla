----------------------- MODULE StandaloneRenderManager -----------------------
(***************************************************************************)
(* The renderer on the user's own machine: Standalone/                     *)
(* StandaloneRenderManager in a thread of its own, with the parts of       *)
(* Gui/Application, Gui/scene/SceneManager, Gui/gui/MainWindowBase and     *)
(* Gui/gui/RenderWidget that it shares state with.                         *)
(*                                                                         *)
(* There are four threads.  The user interface (UserInterface) changes the *)
(* camera, the resolution and the render method and shows frames; the      *)
(* application runs the slots for the inputs of the user; the scene        *)
(* manager loads and deletes scenes; the render manager renders one        *)
(* iteration for each continueRayTracing signal that it sends to itself.   *)
(* A signal to another thread is a queued call of the slot.                *)
(*                                                                         *)
(* A scene is an object at an address, which the allocator may use again   *)
(* once the object is deleted.  A frame is abstracted to how many          *)
(* iterations it is the sum of, and of which scenes, render methods and    *)
(* resolutions.                                                            *)
(***************************************************************************)
EXTENDS UserInterface, FiniteSets, SequencesExt

CONSTANTS
    Addresses,          \* of scene objects
    RenderMethods,
    OutputPeriod        \* every so many iterations a frame is shown: 5

ASSUME StandaloneAssumption == OutputPeriod \in Nat \ {0}

NULL == "NULL"

\* A scene's version is the number of inputs when it was loaded, at least 1, and
\* no two scenes have the same.  Version 0: there is no object.
Versions == 0 .. MaxInputs

VARIABLES
    (* Application *)
    m_runningStatus,
    m_renderMethod,
    chosenMethod,                   \* the argument while setRenderMethod runs
    fitting,                        \* what setAspectRatio has read of the camera
    restarting,                     \* onRenderRestart has yet to set the status
    (* SceneManager *)
    m_scene,
    sceneAt,                        \* the version of the object at each address
    loading,                        \* where onLoadNewScene is
    (* StandaloneRenderManager *)
    slots,                          \* queued calls of its slots
    m_noEmittedSignals,
    m_currentScene,
    m_compileScene,
    m_nextIterationNumber,
    m_lastRendererIterationNumber,
    m_outputBuffer,                 \* the number of iterations it is the sum of
    mutexIsLocked,                  \* m_outputBufferMutex was left locked
    pc,                             \* where onContinueRayTracing is
    managerCamera,                  \* m_camera
    startRadius,                    \* m_PPMRadius of the first iteration
    (* OptixRenderer *)
    compiledScene,                  \* its version
    frame,                          \* what the renderer has summed up
    (* RenderWidget *)
    frames,                         \* queued calls of onNewFrameReadyForDisplay
    displayed,                      \* the last frame shown, and its scale
    (* history *)
    notRestarted,                   \* the method was changed with no restart
    addressReused                   \* by a new scene while the manager held it

guiVars == <<interfaceVars, chosenMethod, frames, displayed>>
appVars == <<m_runningStatus, m_renderMethod, fitting, restarting>>
sceneVars == <<m_scene, sceneAt, loading>>
settings == <<managerCamera, startRadius>>
managerVars == <<m_noEmittedSignals, m_currentScene, m_compileScene,
                 m_nextIterationNumber, settings>>
outputVars == <<m_lastRendererIterationNumber, m_outputBuffer, mutexIsLocked>>
rendererVars == <<compiledScene, frame>>
history == <<notRestarted, addressReused>>
vars == <<guiVars, appVars, sceneVars, slots, managerVars, outputVars, pc, rendererVars,
          history>>

TypeOK ==
    /\ InterfaceTypeOK
    /\ m_runningStatus \in {"STOPPED", "RUNNING", "PAUSE"}
    /\ m_renderMethod \in RenderMethods
    /\ chosenMethod \in RenderMethods \cup {None}
    /\ appSlots \in Seq({"onCameraUpdated", "onOutputSettingsUpdated", "onPPMSettingsUpdated",
                         "onRenderRestart", "onSceneLoadingNew", "onSceneUpdated"})
    /\ fitting.slot \in {None, "onOutputSettingsUpdated", "onSceneUpdated"}
    /\ restarting \in BOOLEAN
    /\ m_scene \in Addresses \cup {NULL}
    /\ sceneAt \in [Addresses -> Versions]
    /\ loading \in {"idle", "importing", "delete"}
    /\ slots \in Seq({"onSequenceNumberIncremented", "onRunningStatusChanged",
                      "onSceneUpdated", "onContinueRayTracing"})
    /\ m_noEmittedSignals \in BOOLEAN
    /\ m_currentScene \in Addresses \cup {NULL}
    /\ m_compileScene \in BOOLEAN
    /\ m_nextIterationNumber \in 0 .. NumIterations
    /\ m_lastRendererIterationNumber \in 0 .. NumIterations
    /\ m_outputBuffer \in 0 .. NumIterations
    /\ mutexIsLocked \in BOOLEAN
    /\ pc \in {"idle", "render", "publish", "continue", "crashed"}
    /\ startRadius \in 0 .. MaxInputs
    /\ compiledScene \in Versions
    /\ frame.count \in 0 .. NumIterations + 1
    /\ \A picture \in frame.of : picture[1] \in Versions /\ picture[2] \in RenderMethods
    /\ frames \in Nat
    /\ displayed \in [count : 0 .. NumIterations, m_previewedIterations : 0 .. NumIterations]
    /\ notRestarted \in BOOLEAN
    /\ addressReused \in BOOLEAN

-----------------------------------------------------------------------------
(***************************************************************************)
(* Application and MainWindowBase                                          *)
(***************************************************************************)

\* incrementSequenceNumber: nothing here depends on the number itself.
incrementSequenceNumber ==
    /\ slots' = Append(slots, "onSequenceNumberIncremented")
    /\ notRestarted' = FALSE

\* setRunningStatus emits its signal when the status changes.
setRunningStatus(status) ==
    /\ m_runningStatus' = status
    /\ slots' = IF m_runningStatus # status
                THEN Append(slots, "onRunningStatusChanged") ELSE slots

NotFitting == [slot |-> None]

\* Application's thread is between two slots.
ApplicationIdle == ~restarting /\ fitting = NotFitting

\* An input that is handled by a slot of Application
ApplicationInput(kind) ==
    /\ ApplicationIdle
    /\ Input(kind)
    /\ UNCHANGED <<dragging, guiCalls, viewVars, m_PPMInitialRadius, appSlots>>

\* Application's thread calls the slot that is first in its queue.
ApplicationCalled(slot) ==
    /\ ApplicationIdle
    /\ appSlots # <<>>
    /\ Head(appSlots) = slot
    /\ appSlots' = Tail(appSlots)
    /\ UNCHANGED <<choice, inputs, dragging, guiCalls>>

\* onCameraUpdated and onPPMSettingsUpdated
SettingsUpdated ==
    /\ ApplicationCalled("onCameraUpdated") \/ ApplicationCalled("onPPMSettingsUpdated")
    /\ incrementSequenceNumber
    /\ UNCHANGED <<viewVars, m_PPMInitialRadius, chosenMethod, frames, displayed, appVars,
                   sceneVars, managerVars, outputVars, pc, rendererVars, addressReused>>

\* The user restarts the rendering: onRenderRestart as far as the increment.
RestartClicked ==
    /\ ApplicationInput("restart")
    /\ incrementSequenceNumber
    /\ restarting' = TRUE
    /\ UNCHANGED <<chosenMethod, frames, displayed, m_runningStatus, m_renderMethod, fitting,
                   sceneVars, managerVars, outputVars, pc, rendererVars, addressReused>>

\* The window asks for a restart after a change of the method.
onRenderRestart ==
    /\ ApplicationCalled("onRenderRestart")
    /\ incrementSequenceNumber
    /\ restarting' = TRUE
    /\ UNCHANGED <<viewVars, m_PPMInitialRadius, chosenMethod, frames, displayed,
                   m_runningStatus, m_renderMethod, fitting, sceneVars, managerVars,
                   outputVars, pc, rendererVars, addressReused>>

SetRunning ==
    /\ restarting
    /\ restarting' = FALSE
    /\ setRunningStatus("RUNNING")
    /\ UNCHANGED <<guiVars, m_renderMethod, fitting, sceneVars, managerVars, outputVars, pc,
                   rendererVars, history>>

onSceneLoadingNew ==
    /\ ApplicationCalled("onSceneLoadingNew")
    /\ setRunningStatus("PAUSE")
    /\ UNCHANGED <<viewVars, m_PPMInitialRadius, chosenMethod, frames, displayed,
                   m_renderMethod, fitting, restarting, sceneVars, managerVars, outputVars,
                   pc, rendererVars, history>>

\* Both slots set the camera's aspect ratio: the reading part.  onSceneUpdated has
\* taken the default camera of the scene of now before.
onOutputSettingsUpdated ==
    /\ ApplicationCalled("onOutputSettingsUpdated")
    /\ fitting' = [slot |-> "onOutputSettingsUpdated",
                   measured |-> Measured(m_camera, resolution)]
    /\ UNCHANGED <<viewVars, m_PPMInitialRadius, chosenMethod, frames, displayed,
                   m_runningStatus, m_renderMethod, restarting, sceneVars, slots,
                   managerVars, outputVars, pc, rendererVars, history>>

TakeDefaultCamera ==
    /\ ApplicationCalled("onSceneUpdated")
    /\ m_camera' = DefaultCamera(sceneAt[m_scene])
    /\ fitting' = [slot |-> "onSceneUpdated", measured |-> Measured(m_camera', resolution)]
    /\ UNCHANGED <<resolution, anglesMayDiffer, m_PPMInitialRadius, chosenMethod, frames,
                   displayed, m_runningStatus, m_renderMethod, restarting, sceneVars, slots,
                   managerVars, outputVars, pc, rendererVars, history>>

\* The angles may differ if the user's thread has written to the one that was kept.
FitCamera(measured) ==
    /\ m_camera' = setAspectRatio(m_camera, measured)
    /\ anglesMayDiffer' = (measured # Measured(m_camera, measured.ratio))
    /\ UNCHANGED resolution

\* The writing part and the rest of onOutputSettingsUpdated
OutputSettingsFit ==
    /\ fitting.slot = "onOutputSettingsUpdated"
    /\ FitCamera(fitting.measured)
    /\ fitting' = NotFitting
    /\ incrementSequenceNumber
    /\ UNCHANGED <<choice, inputs, dragging, guiCalls, m_PPMInitialRadius, appSlots,
                   chosenMethod, frames, displayed, m_runningStatus, m_renderMethod,
                   restarting, sceneVars, managerVars, outputVars, pc, rendererVars,
                   addressReused>>

\* The writing part of onSceneUpdated and the rest as far as the last increment:
\* the radius, onCameraUpdated and onRenderRestart each start a sequence.
onSceneUpdatedFit ==
    /\ fitting.slot = "onSceneUpdated"
    /\ FitCamera(fitting.measured)
    /\ fitting' = NotFitting
    /\ m_PPMInitialRadius' = sceneAt[m_scene]
    /\ slots' = slots \o [i \in 1 .. 3 |-> "onSequenceNumberIncremented"]
    /\ notRestarted' = FALSE
    /\ restarting' = TRUE
    /\ UNCHANGED <<choice, inputs, dragging, guiCalls, appSlots, chosenMethod, frames,
                   displayed, m_runningStatus, m_renderMethod, sceneVars, managerVars,
                   outputVars, pc, rendererVars, addressReused>>

\* onRenderStatusToggle, which calls onRenderRestart when the status is STOPPED
TogglePause ==
    /\ ApplicationInput("pause")
    /\ m_runningStatus # "STOPPED"
    /\ setRunningStatus(IF m_runningStatus = "RUNNING" THEN "PAUSE" ELSE "RUNNING")
    /\ UNCHANGED <<chosenMethod, frames, displayed, m_renderMethod, fitting, restarting,
                   sceneVars, managerVars, outputVars, pc, rendererVars, history>>

\* The user interface's thread calls setRenderMethod, which starts a new sequence
\* before it assigns the method.
setRenderMethod(method) ==
    /\ chosenMethod = None
    /\ guiCalls = <<>>
    /\ Input("method")
    /\ incrementSequenceNumber
    /\ chosenMethod' = method
    /\ UNCHANGED <<dragging, guiCalls, viewVars, m_PPMInitialRadius, appSlots, frames,
                   displayed, appVars, sceneVars, managerVars, outputVars, pc, rendererVars,
                   addressReused>>

HasScene == loading = "idle" /\ m_scene # NULL

\* Mutant: the user interface does not ask for a restart.
AssignWithoutRestart ==
    /\ chosenMethod # None
    /\ m_renderMethod' = chosenMethod
    /\ chosenMethod' = None
    /\ notRestarted' = ~HasScene
    /\ UNCHANGED <<interfaceVars, frames, displayed, m_runningStatus, fitting, restarting,
                   sceneVars, slots, managerVars, outputVars, pc, rendererVars,
                   addressReused>>

\* The rest of setRenderMethod, and of the slot that called it: the window asks
\* for a restart unless there is no scene or one is being imported.
AssignRenderMethod ==
    /\ chosenMethod # None
    /\ m_renderMethod' = chosenMethod
    /\ chosenMethod' = None
    /\ appSlots' = IF HasScene THEN Append(appSlots, "onRenderRestart") ELSE appSlots
    /\ notRestarted' = ~HasScene
    /\ UNCHANGED <<choice, inputs, dragging, guiCalls, viewVars, m_PPMInitialRadius, frames,
                   displayed, m_runningStatus, fitting, restarting, sceneVars, slots,
                   managerVars, outputVars, pc, rendererVars, addressReused>>

\* The inputs and calls of UserInterface, between those of setRenderMethod
InterfaceStep ==
    /\ chosenMethod = None
    /\ InterfaceNext
    /\ UNCHANGED <<chosenMethod, frames, displayed, appVars, sceneVars, slots, managerVars,
                   outputVars, pc, rendererVars, history>>

\* setCameraToSceneDefault runs in the user's thread: what it reads, and the rest.
\* Without a scene the program crashes.
SetCameraToDefault ==
    /\ chosenMethod = None
    /\ m_scene # NULL
    /\ guiCalls = <<>>
    /\ Input("default camera")
    /\ m_camera' = DefaultCamera(sceneAt[m_scene])
    /\ guiCalls' = <<<<"fit", Measured(m_camera', resolution)>>>>
    /\ UNCHANGED <<dragging, resolution, anglesMayDiffer, m_PPMInitialRadius, appSlots,
                   chosenMethod, frames, displayed, appVars, sceneVars, slots, managerVars,
                   outputVars, pc, rendererVars, history>>

DefaultCameraFit ==
    /\ Call("fit")
    /\ FitCamera(Head(guiCalls)[2])
    /\ incrementSequenceNumber
    /\ UNCHANGED <<m_PPMInitialRadius, appSlots, chosenMethod, frames, displayed, appVars,
                   sceneVars, managerVars, outputVars, pc, rendererVars, addressReused>>

-----------------------------------------------------------------------------
(***************************************************************************)
(* SceneManager                                                            *)
(***************************************************************************)

\* The user chooses a scene; the manager's onSceneLoadingNew is empty.
LoadScene ==
    /\ loading = "idle"
    /\ Input("scene")
    /\ appSlots' = Append(appSlots, "onSceneLoadingNew")
    /\ loading' = "importing"
    /\ UNCHANGED <<dragging, guiCalls, viewVars, m_PPMInitialRadius, chosenMethod, frames,
                   displayed, appVars, m_scene, sceneAt, slots, managerVars, outputVars, pc,
                   rendererVars, history>>

SceneLoaded ==
    /\ loading = "importing"
    /\ \E a \in Addresses :
           /\ sceneAt[a] = 0
           /\ m_scene' = a
           /\ sceneAt' = [sceneAt EXCEPT ![a] = inputs]
           /\ addressReused' = (addressReused \/ a = m_currentScene)
    /\ appSlots' = Append(appSlots, "onSceneUpdated")
    /\ slots' = Append(slots, "onSceneUpdated")
    /\ loading' = "delete"
    /\ UNCHANGED <<choice, inputs, dragging, guiCalls, viewVars, m_PPMInitialRadius,
                   chosenMethod, frames, displayed, appVars, managerVars, outputVars, pc,
                   rendererVars, notRestarted>>

LoadFails ==
    /\ loading = "importing"
    /\ loading' = "idle"
    /\ UNCHANGED <<guiVars, appVars, m_scene, sceneAt, slots, managerVars, outputVars, pc,
                   rendererVars, history>>

\* delete oldScene
DeleteOldScene ==
    /\ loading = "delete"
    /\ sceneAt' = [a \in Addresses |-> IF a = m_scene THEN sceneAt[a] ELSE 0]
    /\ loading' = "idle"
    /\ UNCHANGED <<guiVars, appVars, m_scene, slots, managerVars, outputVars, pc,
                   rendererVars, history>>

-----------------------------------------------------------------------------
(***************************************************************************)
(* StandaloneRenderManager                                                 *)
(***************************************************************************)

\* The manager calls the slot that is first in its queue.
Called(slot) ==
    /\ pc = "idle"
    /\ slots # <<>>
    /\ Head(slots) = slot

\* Mutant: without the test of m_noEmittedSignals.
ContinueAlways(rest) ==
    IF m_runningStatus = "RUNNING"
    THEN /\ m_noEmittedSignals' = FALSE
         /\ slots' = Append(rest, "onContinueRayTracing")
    ELSE /\ slots' = rest
         /\ UNCHANGED m_noEmittedSignals

\* rest is what is left in the queue.
continueRayTracingIfRunningAsync(rest) ==
    IF m_runningStatus = "RUNNING" /\ m_noEmittedSignals
    THEN /\ m_noEmittedSignals' = FALSE
         /\ slots' = Append(rest, "onContinueRayTracing")
    ELSE /\ slots' = rest
         /\ UNCHANGED m_noEmittedSignals

\* Mutant: the number shown with the frame is reset, though not the frame.
ResetShownIteration ==
    /\ Called("onSequenceNumberIncremented")
    /\ m_nextIterationNumber' = 0
    /\ m_lastRendererIterationNumber' = 0
    /\ startRadius' = m_PPMInitialRadius
    /\ managerCamera' = m_camera
    /\ continueRayTracingIfRunningAsync(Tail(slots))
    /\ UNCHANGED <<guiVars, appVars, sceneVars, m_currentScene, m_compileScene,
                   m_outputBuffer, mutexIsLocked, pc, rendererVars, history>>

onSequenceNumberIncremented ==
    /\ Called("onSequenceNumberIncremented")
    /\ m_nextIterationNumber' = 0
    /\ startRadius' = m_PPMInitialRadius
    /\ managerCamera' = m_camera
    /\ continueRayTracingIfRunningAsync(Tail(slots))
    /\ UNCHANGED <<guiVars, appVars, sceneVars, m_currentScene, m_compileScene,
                   outputVars, pc, rendererVars, history>>

onRunningStatusChanged ==
    /\ Called("onRunningStatusChanged")
    /\ continueRayTracingIfRunningAsync(Tail(slots))
    /\ UNCHANGED <<guiVars, settings, appVars, sceneVars, m_currentScene, m_compileScene,
                   m_nextIterationNumber, outputVars, pc, rendererVars, history>>

\* Mutant: the new scene is not compiled.
TakeSceneUncompiled ==
    /\ Called("onSceneUpdated")
    /\ slots' = Tail(slots)
    /\ m_currentScene' = m_scene
    /\ UNCHANGED <<guiVars, settings, appVars, sceneVars, m_compileScene,
                   m_noEmittedSignals, m_nextIterationNumber, outputVars, pc,
                   rendererVars, history>>

\* The slot takes the scene of now, not the one it is told of, and knows it by its
\* address.
onSceneUpdated ==
    /\ Called("onSceneUpdated")
    /\ slots' = Tail(slots)
    /\ m_compileScene' = (m_compileScene \/ m_scene # m_currentScene)
    /\ m_currentScene' = m_scene
    /\ UNCHANGED <<guiVars, settings, appVars, sceneVars, m_noEmittedSignals,
                   m_nextIterationNumber, outputVars, pc, rendererVars, history>>

\* onContinueRayTracing and the guard of renderNextIteration.  When the status is
\* not RUNNING, m_noEmittedSignals stays false.
onContinueRayTracing ==
    /\ Called("onContinueRayTracing")
    /\ slots' = Tail(slots)
    /\ IF m_runningStatus = "RUNNING" /\ m_currentScene # NULL
       THEN m_noEmittedSignals' = TRUE /\ pc' = "render"
       ELSE pc' = "continue" /\ UNCHANGED m_noEmittedSignals
    /\ UNCHANGED <<guiVars, settings, appVars, sceneVars, m_currentScene, m_compileScene,
                   m_nextIterationNumber, outputVars, rendererVars, history>>

\* The scene may be deleted already: version 0 is what that memory holds, and
\* CrashOnDeletedScene the other outcome.
CompileScene ==
    /\ pc = "render"
    /\ m_compileScene
    /\ compiledScene' = sceneAt[m_currentScene]
    /\ m_compileScene' = FALSE
    /\ UNCHANGED <<guiVars, settings, appVars, sceneVars, slots, m_noEmittedSignals,
                   m_currentScene, m_nextIterationNumber, outputVars, pc, frame, history>>

\* getSceneName is called in every iteration.
CrashOnDeletedScene ==
    /\ pc = "render"
    /\ sceneAt[m_currentScene] = 0
    /\ pc' = "crashed"
    /\ UNCHANGED <<guiVars, appVars, sceneVars, slots, managerVars, outputVars,
                   rendererVars, history>>

\* OptixRenderer::renderNextIteration: the first iteration clears the output.
Trace ==
    /\ pc = "render"
    /\ ~m_compileScene
    /\ m_nextIterationNumber < choice[3]
    /\ frame' = LET old == IF m_nextIterationNumber = 0
                           THEN [count |-> 0, of |-> {}] ELSE frame
                IN  [count |-> old.count + 1,
                     of    |-> old.of \cup {<<compiledScene, m_renderMethod, resolution>>}]
    /\ pc' = "publish"
    /\ UNCHANGED <<guiVars, appVars, sceneVars, slots, managerVars, outputVars,
                   compiledScene, history>>

\* The handler of the exception pauses the application.  The signal is emitted in
\* the manager's own thread, where onRunningStatusChanged then does nothing.
Pause ==
    /\ m_runningStatus' = "PAUSE"
    /\ pc' = "continue"
    /\ UNCHANGED <<guiVars, m_renderMethod, fitting, restarting, sceneVars,
                   slots, managerVars, m_lastRendererIterationNumber, m_outputBuffer,
                   compiledScene, history>>

\* initScene or renderNextIteration throws.  An iteration that fails is not
\* counted, though some of its light may be in the frame.
RenderFails ==
    /\ pc = "render"
    /\ Pause
    /\ frame' \in {frame} \cup
           (IF m_nextIterationNumber = 0 /\ ~m_compileScene
            THEN {[count |-> 0, of |-> {}]} ELSE {})
    /\ UNCHANGED mutexIsLocked

ShouldOutputIteration == m_nextIterationNumber % OutputPeriod = 0

\* Mutant: the number of the next iteration skips one.
PublishSkipsOne ==
    /\ pc = "publish"
    /\ ~mutexIsLocked
    /\ m_lastRendererIterationNumber' = m_nextIterationNumber
    /\ IF ShouldOutputIteration
       THEN m_outputBuffer' = frame.count /\ frames' = frames + 1
       ELSE UNCHANGED <<m_outputBuffer, frames>>
    /\ m_nextIterationNumber' = m_nextIterationNumber + 2
    /\ pc' = "continue"
    /\ UNCHANGED <<interfaceVars, settings, chosenMethod, displayed, appVars, sceneVars, slots,
                   m_noEmittedSignals, m_currentScene, m_compileScene, mutexIsLocked,
                   rendererVars, history>>

\* With m_outputBufferMutex locked.  The signal carries pointers only.
Publish ==
    /\ pc = "publish"
    /\ ~mutexIsLocked
    /\ m_lastRendererIterationNumber' = m_nextIterationNumber
    /\ IF ShouldOutputIteration
       THEN m_outputBuffer' = frame.count /\ frames' = frames + 1
       ELSE UNCHANGED <<m_outputBuffer, frames>>
    /\ m_nextIterationNumber' = m_nextIterationNumber + 1
    /\ pc' = "continue"
    /\ UNCHANGED <<interfaceVars, settings, chosenMethod, displayed, appVars, sceneVars, slots,
                   m_noEmittedSignals, m_currentScene, m_compileScene, mutexIsLocked,
                   rendererVars, history>>

\* getOutputBuffer throws, and nobody unlocks the mutex.
PublishFails ==
    /\ pc = "publish"
    /\ ~mutexIsLocked
    /\ ShouldOutputIteration
    /\ m_runningStatus' = "PAUSE"
    /\ m_lastRendererIterationNumber' = m_nextIterationNumber
    /\ mutexIsLocked' = TRUE
    /\ pc' = "continue"
    /\ UNCHANGED <<guiVars, m_renderMethod, fitting, restarting, sceneVars,
                   slots, managerVars, m_outputBuffer, rendererVars, history>>

\* The end of onContinueRayTracing
Continue ==
    /\ pc = "continue"
    /\ continueRayTracingIfRunningAsync(slots)
    /\ pc' = "idle"
    /\ UNCHANGED <<guiVars, settings, appVars, sceneVars, m_currentScene, m_compileScene,
                   m_nextIterationNumber, outputVars, rendererVars, history>>

-----------------------------------------------------------------------------
(***************************************************************************)
(* RenderWidget                                                            *)
(***************************************************************************)

\* displayFrame copies, with the mutex locked, the frame and the scale it is then
\* drawn with, and both may be newer than the signal.
displayFrame ==
    /\ frames > 0
    /\ ~mutexIsLocked
    /\ frames' = frames - 1
    /\ displayed' = [count |-> m_outputBuffer,
                     m_previewedIterations |-> m_lastRendererIterationNumber + 1]
    /\ UNCHANGED <<interfaceVars, chosenMethod, appVars, sceneVars, slots, managerVars,
                   outputVars, pc, rendererVars, history>>

-----------------------------------------------------------------------------

\* The constructors are done and the threads started.
Init ==
    /\ InterfaceInit
    /\ m_runningStatus = "STOPPED"
    /\ m_renderMethod \in RenderMethods
    /\ chosenMethod = None
    /\ fitting = NotFitting
    /\ restarting = FALSE
    /\ m_scene = NULL
    /\ sceneAt = [a \in Addresses |-> 0]
    /\ loading = "idle"
    /\ slots = <<>>
    /\ m_noEmittedSignals = TRUE
    /\ m_currentScene = NULL
    /\ m_compileScene = FALSE
    /\ m_nextIterationNumber = 0
    /\ m_lastRendererIterationNumber = 0
    /\ m_outputBuffer = 0
    /\ mutexIsLocked = FALSE
    /\ pc = "idle"
    /\ managerCamera = m_camera
    /\ startRadius = m_PPMInitialRadius
    /\ compiledScene = 0
    /\ frame = [count |-> 0, of |-> {}]
    /\ frames = 0
    /\ displayed = [count |-> 0, m_previewedIterations |-> 0]
    /\ notRestarted = FALSE
    /\ addressReused = FALSE

ApplicationThread ==
    \/ SettingsUpdated
    \/ onRenderRestart
    \/ SetRunning
    \/ onSceneLoadingNew
    \/ onOutputSettingsUpdated
    \/ OutputSettingsFit
    \/ TakeDefaultCamera
    \/ onSceneUpdatedFit

User ==
    \/ RestartClicked
    \/ TogglePause
    \/ \E method \in RenderMethods : setRenderMethod(method)
    \/ SetCameraToDefault
    \/ LoadScene

\* What is left of a handler of the user's thread
UserThread ==
    \/ AssignRenderMethod
    \/ guiCalls # <<>> /\ InterfaceStep
    \/ DefaultCameraFit

SceneThread == SceneLoaded \/ LoadFails \/ DeleteOldScene

ManagerThread ==
    \/ onSequenceNumberIncremented
    \/ onRunningStatusChanged
    \/ onSceneUpdated
    \/ onContinueRayTracing
    \/ CompileScene
    \/ CrashOnDeletedScene
    \/ Trace
    \/ RenderFails
    \/ Publish
    \/ PublishFails
    \/ Continue

Next ==
    \/ User
    \/ ApplicationThread
    \/ InterfaceStep
    \/ AssignRenderMethod
    \/ DefaultCameraFit
    \/ SceneThread
    \/ ManagerThread
    \/ displayFrame

Spec == Init /\ [][Next]_vars

\* Every thread is scheduled.  The user need not do anything.
FairSpec ==
    /\ Spec
    /\ WF_vars(ApplicationThread)
    /\ WF_vars(UserThread)
    /\ WF_vars(SceneThread)
    /\ WF_vars(ManagerThread)
    /\ WF_vars(displayFrame)

-----------------------------------------------------------------------------
(***************************************************************************)
(* Properties                                                              *)
(***************************************************************************)

Queued(slot, queue) == \E i \in 1 .. Len(queue) : queue[i] = slot

\* The manager never has two continueRayTracing signals queued, so that restarts,
\* pauses and resumptions in any order do not multiply its work, and
\* m_noEmittedSignals is true only when none is.
OneContinueQueued ==
    /\ Cardinality({i \in 1 .. Len(slots) : slots[i] = "onContinueRayTracing"}) <= 1
    /\ m_noEmittedSignals => ~Queued("onContinueRayTracing", slots)

\* The scale a frame is drawn with may be that of a later iteration of the same
\* sequence, as a FIXME in renderNextIteration says.  It is never too small, and too
\* large by less than the number of iterations between two frames, also when the
\* rendering is restarted or fails in between.
DisplayedScaleIsClose ==
    displayed.m_previewedIterations - displayed.count \in 0 .. OutputPeriod - 1

\* A change of the picture that has not reached the manager.
RestartPending ==
    \/ chosenMethod # None
    \/ guiCalls # <<>>
    \/ fitting # NotFitting
    \/ \E slot \in {"onRenderRestart", "onSceneUpdated", "onCameraUpdated",
                    "onOutputSettingsUpdated", "onPPMSettingsUpdated"} : Queued(slot, appSlots)
    \/ Queued("onSequenceNumberIncremented", slots)

\* A frame may sum up iterations of two render methods, scenes or resolutions, while
\* slots are on their way: setRenderMethod starts a sequence before it assigns the
\* method, the manager takes a scene before the application restarts, and reads the
\* resolution in every iteration.  Once no restart is pending, it does not: another
\* one always follows, unless the method is changed while a scene is being imported.
FrameOfOnePicture ==
    ~RestartPending /\ ~notRestarted /\ m_nextIterationNumber > 0
        => Cardinality(frame.of) <= 1

\* The manager holds a scene that is not the current one, and may be deleted, only
\* until the queued onSceneUpdated; after that the renderer has the current scene,
\* or will compile it.  The scene manager may load several in the meantime; one at
\* the address of the scene that the manager holds is taken for that scene.
\* The camera and the radius that the manager starts a sequence with are the
\* application's, whichever threads have written to them, when no restart is pending.
ManagerFollowsApplication ==
    /\ ~Queued("onSceneUpdated", slots)
        => /\ m_currentScene = m_scene
           /\ m_scene # NULL =>
                  \/ m_compileScene
                  \/ compiledScene = sceneAt[m_scene]
                  \/ addressReused
    /\ ~RestartPending => managerCamera = m_camera /\ startRadius = m_PPMInitialRadius

\* The camera is fitted to the resolution when the resolution is another one, and
\* when a scene's default camera is taken, by slots and handlers that two threads
\* run with no lock.  However they interleave with the presets of CameraDock, the
\* picture is not distorted in the end, unless the user has typed the angles of view
\* or the two threads write to them at once.
PictureIsNotDistorted ==
    ~RestartPending /\ ~anglesMayDiffer => Fits(m_camera, resolution)

\* The status tip of the button promises to "Pause or resume rendering".  So when
\* the status is RUNNING and there is a scene, the manager renders an iteration,
\* unless the bound of the model is reached, the scene was deleted under it or an
\* error has left the mutex locked.  (It does not: a pause between the signal and
\* its slot leaves m_noEmittedSignals false for ever.)
ResumeRenders ==
    m_runningStatus = "RUNNING" /\ m_currentScene # NULL
        ~> \/ m_runningStatus # "RUNNING"
           \/ pc \in {"render", "publish", "crashed"}
           \/ mutexIsLocked
           \/ m_nextIterationNumber >= choice[3]
=============================================================================
