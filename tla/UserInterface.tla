---------------------------- MODULE UserInterface ----------------------------
(***************************************************************************)
(* What the user's thread does to the picture: the mouse over the          *)
(* RenderWidget, CameraDock, OutputDock and PPMDock, and the objects of    *)
(* Application they write to without a lock, Camera, OutputSettingsModel   *)
(* and PPMSettingsModel.                                                   *)
(*                                                                         *)
(* A handler of the user's thread is a sequence of calls, each an action.  *)
(* A signal they emit is a queued call of a slot of Application, which     *)
(* runs in another thread and writes to the camera too.                    *)
(*                                                                         *)
(* A camera is abstracted to [pose, hfov, vfov, aspectRatioMode]: pose     *)
(* stands for eye, lookat, up and aperture, by the number of the input     *)
(* that set them; the angles of view are exact, each given by the tangent  *)
(* of its half, a fraction <<p, q>>.  setup() derives the rest.            *)
(***************************************************************************)
EXTENDS Integers, Sequences

CONSTANTS
    Kinds,              \* of inputs
    Resolutions,        \* that the user types: <<width, height>>
    MaxInputs,          \* bound: inputs of the user
    NumIterations,      \* bound: iterations of a frame
    InputChoices        \* <<kinds, inputs, iterations>>: only inputs of these kinds,
                        \* and lower bounds

ASSUME InterfaceAssumption ==
    /\ InputChoices \subseteq (SUBSET Kinds) \X (0 .. MaxInputs) \X (0 .. NumIterations)
    /\ Resolutions \subseteq (Nat \ {0}) \X (Nat \ {0})
    /\ MaxInputs \in Nat
    /\ NumIterations \in Nat

VARIABLES
    choice,                         \* which inputs this user gives
    inputs,                         \* the number of inputs so far
    dragging,                       \* Mouse::current_interaction
    guiCalls,                       \* calls the user's thread has still to make
    m_camera,
    resolution,                     \* <<m_width, m_height>>
    m_PPMInitialRadius,             \* the number of the input that set it
    appSlots,                       \* queued calls of Application's slots
    anglesMayDiffer                 \* history: typed in, or written by two
                                    \* threads at once

viewVars == <<m_camera, resolution, anglesMayDiffer>>
interfaceVars == <<choice, inputs, dragging, guiCalls, viewVars, m_PPMInitialRadius, appSlots>>

None == "none"

-----------------------------------------------------------------------------
(***************************************************************************)
(* Camera                                                                  *)
(***************************************************************************)

\* Also the mutant of Divided: the ratio is not inverted.
Multiplied(tangent, ratio) == <<tangent[1] * ratio[1], tangent[2] * ratio[2]>>

Divided(tangent, ratio) == <<tangent[1] * ratio[2], tangent[2] * ratio[1]>>

\* setAspectRatio keeps one angle and computes the other from it.  It is called
\* with what was read before: the mode, the angle it keeps, and the ratio.
Measured(camera, size) ==
    [mode  |-> camera.aspectRatioMode,
     kept  |-> IF camera.aspectRatioMode = "KeepHorizontal" THEN camera.hfov ELSE camera.vfov,
     ratio |-> size]

setAspectRatio(camera, measured) ==
    IF measured.mode = "KeepHorizontal"
    THEN [camera EXCEPT !.vfov = Divided(measured.kept, measured.ratio)]
    ELSE [camera EXCEPT !.hfov = Multiplied(measured.kept, measured.ratio)]

\* The picture is not distorted: the angles are in the proportion of the pixels.
Fits(camera, size) ==
    camera.hfov[1] * camera.vfov[2] * size[2] = camera.hfov[2] * camera.vfov[1] * size[1]

\* A built-in scene keeps the vertical angle.  The camera of an imported one has
\* the same angle twice.
BuiltInCamera(version) ==
    [pose |-> version, hfov |-> <<1, 1>>, vfov |-> <<1, 1>>, aspectRatioMode |-> "KeepVertical"]

ImportedCamera(version) ==
    [pose |-> version, hfov |-> <<1, 1>>, vfov |-> <<1, 1>>, aspectRatioMode |-> "KeepHorizontal"]

\* Scenes of an odd number stand for the built-in ones, the others for imported ones.
DefaultCamera(version) ==
    IF version % 2 = 1 THEN BuiltInCamera(version) ELSE ImportedCamera(version)

\* The tangents and pixels of onCornell, onSponza and onConference, rounded.
Cornell == [hfov |-> <<4, 9>>, vfov |-> <<3, 9>>, resolution |-> <<4, 3>>]
Sponza == [hfov |-> <<16, 31>>, vfov |-> <<9, 31>>, resolution |-> <<16, 9>>]
Conference == [hfov |-> <<16, 35>>, vfov |-> <<9, 35>>, resolution |-> <<16, 9>>]

-----------------------------------------------------------------------------
(***************************************************************************)
(* Inputs                                                                  *)
(***************************************************************************)

Input(kind) ==
    /\ kind \in choice[1]
    /\ inputs < choice[2]
    /\ inputs' = inputs + 1
    /\ UNCHANGED choice

\* The user's thread handles one event after the other.
Handles(kind, calls) ==
    /\ guiCalls = <<>>
    /\ Input(kind)
    /\ guiCalls' = calls
    /\ UNCHANGED <<viewVars, m_PPMInitialRadius, appSlots>>

Rotate == <<"rotate", inputs + 1>>
Dolly == <<"dolly", inputs + 1>>
TypedPose == <<"pose", inputs + 1>>
Camera(hfov, vfov) == <<"camera", inputs + 1, hfov, vfov>>
Typed == <<"typed">>
Radius == <<"radius", inputs + 1>>
Width(size) == <<"width", size[1]>>
Height(size) == <<"height", size[2]>>
Emit == <<"emit">>

\* handleMouseFunc: the left button rotates, the right one zooms, and for others,
\* or with a key held, moving does nothing.  There is no handler of the release.
MousePress ==
    \E movement \in {"rotate", "dolly", None} :
        /\ Handles("mouse", <<Emit>>)
        /\ dragging' = movement

\* The signal is emitted also when nothing has moved, as by resizeEvent.
MouseMove ==
    /\ \/ dragging = "rotate" /\ Handles("mouse", <<Rotate, Emit>>)
       \/ dragging = "dolly" /\ Handles("mouse", <<Dolly, Emit>>)
       \/ Handles("mouse", <<Emit>>)
    /\ UNCHANGED dragging

\* onUpdate of CameraDock, whose fields show the angles in a few digits.
CameraTyped ==
    /\ Handles("camera", <<TypedPose, Typed, Emit>>)
    /\ UNCHANGED dragging

onCornell ==
    /\ Handles("Cornell", <<Camera(Cornell.hfov, Cornell.vfov), Radius,
                           Width(Cornell.resolution), Height(Cornell.resolution), Emit>>)
    /\ UNCHANGED dragging

onSponza ==
    /\ Handles("Sponza", <<Camera(Sponza.hfov, Sponza.vfov), Emit, Radius,
                           Width(Sponza.resolution), Height(Sponza.resolution)>>)
    /\ UNCHANGED dragging

onConference ==
    /\ Handles("Conference", <<Camera(Conference.hfov, Conference.vfov), Radius, Emit,
                           Width(Conference.resolution), Height(Conference.resolution)>>)
    /\ UNCHANGED dragging

\* onFormSubmitted of OutputDock and of PPMDock
ResolutionTyped ==
    /\ \E size \in Resolutions : Handles("output", <<Width(size), Height(size)>>)
    /\ UNCHANGED dragging

RadiusTyped ==
    /\ Handles("radius", <<Radius>>)
    /\ UNCHANGED dragging

-----------------------------------------------------------------------------
(***************************************************************************)
(* Calls                                                                   *)
(***************************************************************************)

Call(name) ==
    /\ guiCalls # <<>>
    /\ Head(guiCalls)[1] = name
    /\ guiCalls' = Tail(guiCalls)
    /\ UNCHANGED <<choice, inputs, dragging>>

MoveCamera(pose) ==
    /\ m_camera' = [m_camera EXCEPT !.pose = pose]
    /\ UNCHANGED <<resolution, anglesMayDiffer, m_PPMInitialRadius, appSlots>>

transform == Call("rotate") /\ MoveCamera(Head(guiCalls)[2])

\* A scale of 1 would put the eye where the camera looks at.
dolly ==
    /\ Call("dolly")
    /\ \E scaleIsOne \in BOOLEAN :
           MoveCamera(IF scaleIsOne THEN m_camera.pose ELSE Head(guiCalls)[2])

WriteTypedPose == Call("pose") /\ MoveCamera(Head(guiCalls)[2])

WriteCamera ==
    /\ Call("camera")
    /\ m_camera' = [m_camera EXCEPT !.pose = Head(guiCalls)[2], !.hfov = Head(guiCalls)[3],
                                   !.vfov = Head(guiCalls)[4]]
    /\ anglesMayDiffer' = FALSE
    /\ UNCHANGED <<resolution, m_PPMInitialRadius, appSlots>>

\* What the user has typed for the angles is of no interest.
WriteTypedAngles ==
    /\ Call("typed")
    /\ anglesMayDiffer' = TRUE
    /\ UNCHANGED <<m_camera, resolution, m_PPMInitialRadius, appSlots>>

setPPMInitialRadius ==
    /\ Call("radius")
    /\ m_PPMInitialRadius' = Head(guiCalls)[2]
    /\ appSlots' = Append(appSlots, "onPPMSettingsUpdated")
    /\ UNCHANGED viewVars

\* The resolution that follows emits resolutionUpdated when it is another one.
SetResolution(new) ==
    /\ resolution' = new
    /\ appSlots' = IF new # resolution THEN Append(appSlots, "onOutputSettingsUpdated")
                   ELSE appSlots
    /\ UNCHANGED <<m_camera, anglesMayDiffer, m_PPMInitialRadius>>

setWidth == Call("width") /\ SetResolution(<<Head(guiCalls)[2], resolution[2]>>)

setHeight == Call("height") /\ SetResolution(<<resolution[1], Head(guiCalls)[2]>>)

EmitCameraUpdated ==
    /\ Call("emit")
    /\ appSlots' = Append(appSlots, "onCameraUpdated")
    /\ UNCHANGED <<viewVars, m_PPMInitialRadius>>

-----------------------------------------------------------------------------

InterfaceTypeOK ==
    /\ choice \in InputChoices
    /\ inputs \in 0 .. MaxInputs
    /\ dragging \in {"rotate", "dolly", None}
    /\ Len(guiCalls) <= 5
    /\ m_camera.pose \in 0 .. MaxInputs
    /\ m_camera.aspectRatioMode \in {"KeepVertical", "KeepHorizontal"}
    /\ {m_camera.hfov, m_camera.vfov, resolution} \subseteq (Nat \ {0}) \X (Nat \ {0})
    /\ m_PPMInitialRadius \in 0 .. MaxInputs
    /\ anglesMayDiffer \in BOOLEAN

InterfaceInit ==
    /\ choice \in InputChoices
    /\ inputs = 0
    /\ dragging = None
    /\ guiCalls = <<>>
    /\ m_camera = [pose |-> 0, hfov |-> <<1, 2>>, vfov |-> <<1, 2>>,
                   aspectRatioMode |-> "KeepVertical"]
    /\ resolution = <<2, 2>>
    /\ m_PPMInitialRadius = 0
    /\ appSlots = <<>>
    /\ anglesMayDiffer = FALSE

InterfaceNext ==
    \/ MousePress \/ MouseMove
    \/ CameraTyped \/ onCornell \/ onSponza \/ onConference
    \/ ResolutionTyped \/ RadiusTyped
    \/ transform \/ dolly \/ WriteTypedPose \/ WriteCamera \/ WriteTypedAngles
    \/ setPPMInitialRadius \/ setWidth \/ setHeight \/ EmitCameraUpdated
=============================================================================
