------------------- MODULE StandaloneRenderManager_proofs --------------------
(***************************************************************************)
(* Invariance proofs for StandaloneRenderManager and UserInterface, for    *)
(* any number of inputs, iterations, scenes and addresses, every period of *)
(* the frames and every order of the threads.                              *)
(*                                                                         *)
(* First how the manager calls itself, and the scale a frame is drawn      *)
(* with.  Then that the picture that is rendered follows what the user     *)
(* asked for: the camera, the resolution, the method and the scene are     *)
(* written by three threads without a lock and read by a fourth; what      *)
(* keeps them together is that whoever writes one of them queues a call    *)
(* that starts a new sequence.                                             *)
(***************************************************************************)
EXTENDS StandaloneRenderManager, FiniteSetTheorems, TLAPS

-----------------------------------------------------------------------------
(***************************************************************************)
(* The loop of the manager                                                 *)
(***************************************************************************)

\* Quotient and remainder are unique: the remainder.
LEMMA RemainderIsUnique ==
    ASSUME NEW P \in Nat \ {0}, NEW a \in Int, NEW b \in Int,
           NEW r \in 0 .. P - 1, NEW s \in 0 .. P - 1, P * a + r = P * b + s
    PROVE  r = s
<1>1. P * (a - b) = s - r /\ P * (b - a) = r - s
  OBVIOUS
<1>2. \A d \in Nat : d >= 1 => P * d >= P
  OBVIOUS
<1>3. ~(a > b)
  <2> SUFFICES ASSUME a > b PROVE FALSE
    OBVIOUS
  <2>1. a - b \in Nat /\ a - b >= 1
    OBVIOUS
  <2>2. QED
    BY <1>1, <1>2, <2>1
<1>4. ~(b > a)
  <2> SUFFICES ASSUME b > a PROVE FALSE
    OBVIOUS
  <2>1. b - a \in Nat /\ b - a >= 1
    OBVIOUS
  <2>2. QED
    BY <1>1, <1>2, <2>1
<1>5. QED
  BY <1>1, <1>3, <1>4

\* Counting one further, the remainder does too unless it starts over.
LEMMA RemainderOfSuccessor ==
    ASSUME NEW P \in Nat \ {0}, NEW x \in Nat, (x + 1) % P # 0
    PROVE  (x + 1) % P = (x % P) + 1
<1> DEFINE y == x + 1
           q == x \div P
           r == x % P
           a == y \div P
           s == y % P
<1>1. q \in Int /\ r \in 0 .. P - 1 /\ x = P * q + r
  OBVIOUS
<1>2. a \in Int /\ s \in 0 .. P - 1 /\ y = P * a + s
  OBVIOUS
<1>3. s # 0 /\ y = x + 1
  OBVIOUS
<1> HIDE DEF y, q, r, a, s
<1>4. r + 1 # P
  <2> SUFFICES ASSUME r + 1 = P PROVE FALSE
    OBVIOUS
  <2>1. q + 1 \in Int /\ 0 \in 0 .. P - 1
    BY <1>1
  <2>2. y = P * (q + 1) + 0
    BY <1>1, <1>3
  <2>3. s = 0
    BY <1>2, <2>1, <2>2, RemainderIsUnique
  <2>4. QED
    BY <1>3, <2>3
<1>5. r + 1 \in 0 .. P - 1
  BY <1>1, <1>4
<1>6. y = P * q + (r + 1)
  BY <1>1, <1>3
<1>7. s = r + 1
  BY <1>1, <1>2, <1>5, <1>6, RemainderIsUnique
<1>8. QED
  BY <1>7 DEF s, r, y

-----------------------------------------------------------------------------
(***************************************************************************)
(* The inductive invariant                                                 *)
(***************************************************************************)
SlotNames == {"onSequenceNumberIncremented", "onRunningStatusChanged", "onSceneUpdated",
              "onContinueRayTracing"}

\* What the two properties need to know of the types.
LoopTypeInv ==
    /\ slots \in Seq(SlotNames)
    /\ m_noEmittedSignals \in BOOLEAN
    /\ m_nextIterationNumber \in Nat
    /\ m_lastRendererIterationNumber \in Nat
    /\ m_outputBuffer \in Nat
    /\ frame.count \in Nat
    /\ frames \in Nat

\* OneContinueQueued, by places in the queue.
ContinueInv ==
    /\ \A i, j \in 1 .. Len(slots) :
           slots[i] = "onContinueRayTracing" /\ slots[j] = "onContinueRayTracing" => i = j
    /\ m_noEmittedSignals =>
           \A i \in 1 .. Len(slots) : slots[i] # "onContinueRayTracing"

\* As long as no exception has left the mutex locked, the renderer's frame has the
\* iterations the manager counts, and the frame to be shown is the last multiple of
\* the period before the last iteration.
ShownInv ==
    ~mutexIsLocked =>
        /\ pc = "publish" => frame.count = m_nextIterationNumber + 1
        /\ pc # "publish" /\ m_nextIterationNumber > 0 => frame.count = m_nextIterationNumber
        /\ m_nextIterationNumber > 0 =>
               /\ m_lastRendererIterationNumber = m_nextIterationNumber - 1
               /\ m_outputBuffer > 0
        /\ m_outputBuffer > 0 =>
               m_lastRendererIterationNumber + 1 - m_outputBuffer
                   = m_lastRendererIterationNumber % OutputPeriod
        /\ frames > 0 => m_outputBuffer > 0

LoopInv == LoopTypeInv /\ ContinueInv /\ ShownInv /\ DisplayedScaleIsClose

-----------------------------------------------------------------------------
(***************************************************************************)
(* The queue of the manager's slots                                        *)
(***************************************************************************)

\* Another thread queues calls of the other slots.
LEMMA AppendOther ==
    ASSUME LoopTypeInv, ContinueInv, NEW e \in SlotNames \ {"onContinueRayTracing"},
           slots' = Append(slots, e), m_noEmittedSignals' = m_noEmittedSignals
    PROVE  slots' \in Seq(SlotNames) /\ ContinueInv'
<1>1. /\ slots' \in Seq(SlotNames) /\ Len(slots) \in Nat
      /\ \A i \in 1 .. Len(slots') :
             \/ i \in 1 .. Len(slots) /\ slots'[i] = slots[i]
             \/ slots'[i] = e
  BY DEF LoopTypeInv
<1>2. QED
  BY <1>1 DEF ContinueInv

\* onSceneUpdated of Application queues three at once.
LEMMA ConcatOthers ==
    ASSUME LoopTypeInv, ContinueInv, m_noEmittedSignals' = m_noEmittedSignals,
           slots' = slots \o [i \in 1 .. 3 |-> "onSequenceNumberIncremented"]
    PROVE  slots' \in Seq(SlotNames) /\ ContinueInv'
<1> DEFINE three == [i \in 1 .. 3 |-> "onSequenceNumberIncremented"]
<1>1. /\ three \in Seq(SlotNames) /\ Len(three) = 3
      /\ \A i \in 1 .. 3 : three[i] = "onSequenceNumberIncremented"
  BY DEF SlotNames
<1> HIDE DEF three
<1>2. slots' = slots \o three /\ slots \in Seq(SlotNames)
  BY DEF three, LoopTypeInv
<1>3. /\ slots' \in Seq(SlotNames) /\ Len(slots) \in Nat /\ Len(slots') = Len(slots) + 3
      /\ \A i \in 1 .. Len(slots') :
             \/ i \in 1 .. Len(slots) /\ slots'[i] = slots[i]
             \/ i - Len(slots) \in 1 .. 3 /\ slots'[i] = three[i - Len(slots)]
  BY <1>1, <1>2
<1>4. \A i \in 1 .. Len(slots') :
          \/ i \in 1 .. Len(slots) /\ slots'[i] = slots[i]
          \/ slots'[i] = "onSequenceNumberIncremented"
  BY <1>1, <1>3
<1>5. QED
  BY <1>3, <1>4 DEF ContinueInv

\* The places of the queue after a call is taken.
LEMMA TailOfSlots ==
    ASSUME LoopTypeInv, ContinueInv, slots # <<>>
    PROVE  /\ Tail(slots) \in Seq(SlotNames) /\ Len(slots) \in Nat
           /\ Head(slots) = slots[1] /\ 1 \in 1 .. Len(slots)
           /\ \A i \in 1 .. Len(Tail(slots)) :
                  i \in Nat /\ i >= 1 /\ i + 1 \in 1 .. Len(slots) /\ Tail(slots)[i] = slots[i + 1]
BY DEF LoopTypeInv

\* continueRayTracingIfRunningAsync queues the call only when none is queued.
LEMMA ContinueAsync ==
    ASSUME LoopTypeInv, ContinueInv, NEW rest \in Seq(SlotNames),
           slots # <<>>, rest = Tail(slots),
           continueRayTracingIfRunningAsync(rest)
    PROVE  slots' \in Seq(SlotNames) /\ m_noEmittedSignals' \in BOOLEAN /\ ContinueInv'
<1> USE DEF continueRayTracingIfRunningAsync
<1>1. /\ Len(rest) \in Nat
      /\ \A i, j \in 1 .. Len(rest) :
             rest[i] = "onContinueRayTracing" /\ rest[j] = "onContinueRayTracing" => i = j
      /\ m_noEmittedSignals => \A i \in 1 .. Len(rest) : rest[i] # "onContinueRayTracing"
  <2>1. \A i \in 1 .. Len(rest) :
            i \in Nat /\ i + 1 \in 1 .. Len(slots) /\ rest[i] = slots[i + 1]
    BY TailOfSlots
  <2>2. \A i, j \in 1 .. Len(rest) : i + 1 = j + 1 => i = j
    OBVIOUS
  <2>3. QED
    BY <2>1, <2>2 DEF ContinueInv
<1>2. CASE m_runningStatus = "RUNNING" /\ m_noEmittedSignals
  <2>1. /\ slots' = Append(rest, "onContinueRayTracing") /\ m_noEmittedSignals' = FALSE
        /\ "onContinueRayTracing" \in SlotNames
    BY <1>2 DEF SlotNames
  <2>2. /\ slots' \in Seq(SlotNames)
        /\ \A i \in 1 .. Len(slots') :
               \/ i \in 1 .. Len(rest) /\ slots'[i] = rest[i]
               \/ i = Len(rest) + 1
    BY <2>1
  <2>3. \A i \in 1 .. Len(slots') : slots'[i] = "onContinueRayTracing" => i = Len(rest) + 1
    BY <1>1, <1>2, <2>2
  <2>4. QED
    BY <2>1, <2>2, <2>3 DEF ContinueInv
<1>3. CASE ~(m_runningStatus = "RUNNING" /\ m_noEmittedSignals)
  BY <1>1, <1>3 DEF ContinueInv, LoopTypeInv
<1>4. QED
  BY <1>2, <1>3

\* At the end of onContinueRayTracing the call it was made by is already taken.
LEMMA ContinueAsyncHere ==
    ASSUME LoopTypeInv, ContinueInv, continueRayTracingIfRunningAsync(slots)
    PROVE  slots' \in Seq(SlotNames) /\ m_noEmittedSignals' \in BOOLEAN /\ ContinueInv'
<1> USE DEF continueRayTracingIfRunningAsync
<1>1. CASE m_runningStatus = "RUNNING" /\ m_noEmittedSignals
  <2>1. /\ slots' = Append(slots, "onContinueRayTracing") /\ m_noEmittedSignals' = FALSE
        /\ "onContinueRayTracing" \in SlotNames
    BY <1>1 DEF SlotNames
  <2>2. /\ slots' \in Seq(SlotNames)
        /\ \A i \in 1 .. Len(slots') :
               \/ i \in 1 .. Len(slots) /\ slots'[i] = slots[i]
               \/ i = Len(slots) + 1
    BY <2>1 DEF LoopTypeInv
  <2>3. \A i \in 1 .. Len(slots') : slots'[i] = "onContinueRayTracing" => i = Len(slots) + 1
    BY <1>1, <2>2 DEF ContinueInv
  <2>4. QED
    BY <2>1, <2>2, <2>3 DEF ContinueInv
<1>2. CASE ~(m_runningStatus = "RUNNING" /\ m_noEmittedSignals)
  BY <1>2 DEF ContinueInv, LoopTypeInv
<1>3. QED
  BY <1>1, <1>2

-----------------------------------------------------------------------------
(***************************************************************************)
(* Initial states, and the other threads                                   *)
(***************************************************************************)

\* Nothing is queued, rendered or shown.
LEMMA InitLoopInv == Init => LoopInv
<1> SUFFICES ASSUME Init PROVE LoopInv
  OBVIOUS
<1> USE StandaloneAssumption DEF Init
<1>1. LoopTypeInv
  <2>1. slots \in Seq(SlotNames)
    OBVIOUS
  <2>2. frame.count = 0
    OBVIOUS
  <2>3. QED
    BY <2>1, <2>2 DEF LoopTypeInv
<1>2. ContinueInv
  BY DEF ContinueInv
<1>3. ShownInv
  BY DEF ShownInv
<1>4. DisplayedScaleIsClose
  BY DEF DisplayedScaleIsClose
<1>5. QED
  BY <1>1, <1>2, <1>3, <1>4 DEF LoopInv

\* What the other threads leave alone; to the manager's queue they only append.
managerFrame == <<m_noEmittedSignals, m_nextIterationNumber, m_lastRendererIterationNumber,
                  m_outputBuffer, mutexIsLocked, pc, frame, frames, displayed>>

\* Calls the other threads queue: none, one, or the three of onSceneUpdated.
OthersQueue ==
    \/ slots' = slots
    \/ \E e \in SlotNames \ {"onContinueRayTracing"} : slots' = Append(slots, e)
    \/ slots' = slots \o [i \in 1 .. 3 |-> "onSequenceNumberIncremented"]

\* The other threads disturb neither the queue's continueRayTracing nor the frame.
LEMMA OtherThreadLoopInv ==
    ASSUME LoopInv, UNCHANGED managerFrame, OthersQueue
    PROVE  LoopInv'
<1> USE DEF LoopInv, managerFrame
<1>1. slots' \in Seq(SlotNames) /\ ContinueInv'
  <2>1. CASE slots' = slots
    BY <2>1 DEF LoopTypeInv, ContinueInv
  <2>2. CASE \E e \in SlotNames \ {"onContinueRayTracing"} : slots' = Append(slots, e)
    BY <2>2, AppendOther
  <2>3. CASE slots' = slots \o [i \in 1 .. 3 |-> "onSequenceNumberIncremented"]
    BY <2>3, ConcatOthers
  <2>4. QED
    BY <2>1, <2>2, <2>3 DEF OthersQueue
<1>2. LoopTypeInv'
  BY <1>1 DEF LoopTypeInv
<1>3. ShownInv' /\ DisplayedScaleIsClose'
  BY DEF ShownInv, DisplayedScaleIsClose
<1>4. QED
  BY <1>1, <1>2, <1>3

\* The slots of Application write neither the manager's state nor its frames.
LEMMA ApplicationFrame ==
    ASSUME ApplicationThread
    PROVE  UNCHANGED managerFrame /\ OthersQueue
<1> USE DEF managerFrame, OthersQueue, SlotNames, managerVars, outputVars, rendererVars, guiVars
<1>1. CASE SettingsUpdated
  BY <1>1 DEF SettingsUpdated, incrementSequenceNumber
<1>2. CASE onRenderRestart
  BY <1>2 DEF onRenderRestart, incrementSequenceNumber
<1>3. CASE SetRunning
  BY <1>3 DEF SetRunning, setRunningStatus
<1>4. CASE onSceneLoadingNew
  BY <1>4 DEF onSceneLoadingNew, setRunningStatus
<1>5. CASE onOutputSettingsUpdated
  BY <1>5 DEF onOutputSettingsUpdated
<1>6. CASE OutputSettingsFit
  BY <1>6 DEF OutputSettingsFit, incrementSequenceNumber
<1>7. CASE TakeDefaultCamera
  BY <1>7 DEF TakeDefaultCamera
<1>8. CASE onSceneUpdatedFit
  BY <1>8 DEF onSceneUpdatedFit
<1>9. QED
  BY <1>1, <1>2, <1>3, <1>4, <1>5, <1>6, <1>7, <1>8 DEF ApplicationThread

\* The user's thread and the scene manager's write neither.
LEMMA UserFrame ==
    ASSUME User \/ InterfaceStep \/ AssignRenderMethod \/ DefaultCameraFit \/ SceneThread
    PROVE  UNCHANGED managerFrame /\ OthersQueue
<1> USE DEF managerFrame, OthersQueue, SlotNames, managerVars, outputVars, rendererVars, guiVars
<1>1. CASE RestartClicked
  BY <1>1 DEF RestartClicked, incrementSequenceNumber
<1>2. CASE TogglePause
  BY <1>2 DEF TogglePause, setRunningStatus
<1>3. ASSUME NEW method \in RenderMethods, setRenderMethod(method)
      PROVE  UNCHANGED managerFrame /\ OthersQueue
  BY <1>3 DEF setRenderMethod, incrementSequenceNumber
<1>4. CASE SetCameraToDefault
  BY <1>4 DEF SetCameraToDefault
<1>5. CASE LoadScene
  BY <1>5 DEF LoadScene
<1>6. CASE InterfaceStep
  BY <1>6 DEF InterfaceStep
<1>7. CASE AssignRenderMethod
  BY <1>7 DEF AssignRenderMethod
<1>8. CASE DefaultCameraFit
  BY <1>8 DEF DefaultCameraFit, incrementSequenceNumber
<1>9. CASE SceneThread
  BY <1>9 DEF SceneThread, SceneLoaded, LoadFails, DeleteOldScene
<1>10. QED
  BY <1>1, <1>2, <1>3, <1>4, <1>5, <1>6, <1>7, <1>8, <1>9 DEF User

-----------------------------------------------------------------------------
(***************************************************************************)
(* The manager's thread                                                    *)
(***************************************************************************)

\* A new sequence starts the count over; the frame follows with the next iteration.
LEMMA SequenceLoopInv ==
    ASSUME LoopInv, onSequenceNumberIncremented
    PROVE  LoopInv'
<1> USE DEF LoopInv, onSequenceNumberIncremented, Called, guiVars, outputVars, rendererVars
<1>1. slots' \in Seq(SlotNames) /\ m_noEmittedSignals' \in BOOLEAN /\ ContinueInv'
  BY TailOfSlots, ContinueAsync
<1>2. LoopTypeInv'
  BY <1>1 DEF LoopTypeInv
<1>3. ShownInv'
  BY DEF ShownInv
<1>4. QED
  BY <1>1, <1>2, <1>3 DEF DisplayedScaleIsClose

\* A changed status only queues continueRayTracing.
LEMMA StatusLoopInv ==
    ASSUME LoopInv, onRunningStatusChanged
    PROVE  LoopInv'
<1> USE DEF LoopInv, onRunningStatusChanged, Called, guiVars, outputVars, rendererVars
<1>1. slots' \in Seq(SlotNames) /\ m_noEmittedSignals' \in BOOLEAN /\ ContinueInv'
  BY TailOfSlots, ContinueAsync
<1>2. LoopTypeInv'
  BY <1>1 DEF LoopTypeInv
<1>3. QED
  BY <1>1, <1>2 DEF ShownInv, DisplayedScaleIsClose

\* The call that was queued is gone when m_noEmittedSignals becomes true.
LEMMA TakenLoopInv ==
    ASSUME LoopInv, onSceneUpdated \/ onContinueRayTracing
    PROVE  LoopInv'
<1> USE DEF LoopInv, Called, guiVars, outputVars, rendererVars
<1>1. /\ slots # <<>> /\ slots' = Tail(slots) /\ pc = "idle" /\ pc' # "publish"
      /\ UNCHANGED <<m_nextIterationNumber, m_lastRendererIterationNumber, m_outputBuffer,
                     mutexIsLocked, frame, frames, displayed>>
      /\ \/ m_noEmittedSignals' = m_noEmittedSignals
         \/ m_noEmittedSignals' = TRUE /\ slots[1] = "onContinueRayTracing"
  BY TailOfSlots DEF onSceneUpdated, onContinueRayTracing
<1>2. /\ slots' \in Seq(SlotNames)
      /\ \A i \in 1 .. Len(slots') :
             /\ i \in Nat /\ i >= 1 /\ i + 1 \in 1 .. Len(slots) /\ i + 1 # 1
             /\ slots'[i] = slots[i + 1]
      /\ 1 \in 1 .. Len(slots)
  <2>1. \A i \in 1 .. Len(slots') : i + 1 # 1
    OBVIOUS
  <2>2. QED
    BY <1>1, <2>1, TailOfSlots
<1>3. ContinueInv'
  <2>1. \A i, j \in 1 .. Len(slots') : i + 1 = j + 1 => i = j
    OBVIOUS
  <2>2. \A i, j \in 1 .. Len(slots') :
            slots'[i] = "onContinueRayTracing" /\ slots'[j] = "onContinueRayTracing" => i = j
    BY <1>2, <2>1 DEF ContinueInv
  <2>3. m_noEmittedSignals' =>
            \A i \in 1 .. Len(slots') : slots'[i] # "onContinueRayTracing"
    BY <1>1, <1>2 DEF ContinueInv
  <2>4. QED
    BY <2>2, <2>3 DEF ContinueInv
<1>4. LoopTypeInv'
  BY <1>1, <1>2 DEF LoopTypeInv
<1>5. QED
  BY <1>1, <1>3, <1>4 DEF ShownInv, DisplayedScaleIsClose

\* Rendering and its failures, before the frame is published.
LEMMA RenderLoopInv ==
    ASSUME LoopInv, CompileScene \/ CrashOnDeletedScene \/ Trace \/ RenderFails
    PROVE  LoopInv'
<1> USE DEF LoopInv, guiVars, managerVars, outputVars, rendererVars
<1>1. /\ UNCHANGED <<slots, m_noEmittedSignals, m_nextIterationNumber,
                     m_lastRendererIterationNumber, m_outputBuffer, mutexIsLocked, frames,
                     displayed>>
      /\ pc = "render"
      /\ \/ pc' = "publish" /\ frame'.count = 1 /\ m_nextIterationNumber = 0
         \/ pc' = "publish" /\ frame'.count = frame.count + 1 /\ m_nextIterationNumber # 0
         \/ pc' # "publish" /\ frame' = frame
         \/ pc' # "publish" /\ frame'.count = 0 /\ m_nextIterationNumber = 0
  <2>1. CASE CompileScene
    BY <2>1 DEF CompileScene
  <2>2. CASE CrashOnDeletedScene
    BY <2>2 DEF CrashOnDeletedScene
  <2>3. CASE Trace
    BY <2>3 DEF Trace
  <2>4. CASE RenderFails
    BY <2>4 DEF RenderFails, Pause
  <2>5. QED
    BY <2>1, <2>2, <2>3, <2>4
<1>2. LoopTypeInv'
  BY <1>1 DEF LoopTypeInv
<1>3. ContinueInv'
  BY <1>1 DEF ContinueInv
<1>4. ShownInv'
  BY <1>1 DEF ShownInv, LoopTypeInv
<1>5. DisplayedScaleIsClose'
  BY <1>1 DEF DisplayedScaleIsClose
<1>6. QED
  BY <1>2, <1>3, <1>4, <1>5

\* The frame is published with its number, or the number alone.
LEMMA PublishLoopInv ==
    ASSUME LoopInv, Publish
    PROVE  LoopInv'
<1> USE DEF LoopInv, Publish, rendererVars
<1> DEFINE next == m_nextIterationNumber
           last == m_lastRendererIterationNumber
<1>1. /\ next \in Nat /\ last \in Nat /\ m_outputBuffer \in Nat /\ frames \in Nat
      /\ last' = next /\ next' = next + 1 /\ frame.count = next + 1
      /\ UNCHANGED <<slots, m_noEmittedSignals, mutexIsLocked, frame, displayed>>
  BY DEF LoopTypeInv, ShownInv
<1>2. /\ m_outputBuffer' \in Nat /\ m_outputBuffer' > 0
      /\ next + 1 - m_outputBuffer' = next % OutputPeriod
  <2>1. CASE next % OutputPeriod = 0
    BY <1>1, <2>1 DEF ShouldOutputIteration
  <2>2. CASE next % OutputPeriod # 0
    <3>1. next # 0
      <4>1. 0 % OutputPeriod = 0
        BY StandaloneAssumption
      <4>2. QED
        BY <2>2, <4>1
    <3>2. /\ next = last + 1 /\ m_outputBuffer > 0
          /\ last + 1 - m_outputBuffer = last % OutputPeriod
      BY <1>1, <3>1 DEF ShownInv
    <3>3. (last + 1) % OutputPeriod = (last % OutputPeriod) + 1
      BY <1>1, <2>2, <3>2, RemainderOfSuccessor, StandaloneAssumption
    <3>4. last % OutputPeriod \in Nat
      BY <1>1, StandaloneAssumption
    <3>5. m_outputBuffer' = m_outputBuffer
      BY <2>2 DEF ShouldOutputIteration
    <3>6. QED
      BY <1>1, <3>2, <3>3, <3>4, <3>5
  <2>3. QED
    BY <2>1, <2>2
<1>3. frames' \in Nat /\ pc' # "publish"
  BY <1>1
<1>4. LoopTypeInv'
  BY <1>1, <1>2, <1>3 DEF LoopTypeInv
<1>5. ContinueInv'
  BY <1>1 DEF ContinueInv
<1>6. ShownInv'
  BY <1>1, <1>2, <1>3 DEF ShownInv
<1>7. DisplayedScaleIsClose'
  BY <1>1 DEF DisplayedScaleIsClose
<1>8. QED
  BY <1>4, <1>5, <1>6, <1>7

\* With the mutex left locked, no frame is shown any more.
LEMMA PublishFailsLoopInv ==
    ASSUME LoopInv, PublishFails
    PROVE  LoopInv'
<1> USE DEF LoopInv, PublishFails, guiVars, managerVars, rendererVars
<1>1. LoopTypeInv' /\ ContinueInv'
  BY DEF LoopTypeInv, ContinueInv
<1>2. ShownInv' /\ DisplayedScaleIsClose'
  BY DEF ShownInv, DisplayedScaleIsClose
<1>3. QED
  BY <1>1, <1>2

\* The manager's loop queues its next turn.
LEMMA ContinueLoopInv ==
    ASSUME LoopInv, Continue
    PROVE  LoopInv'
<1> USE DEF LoopInv, Continue, guiVars, outputVars, rendererVars
<1>1. slots' \in Seq(SlotNames) /\ m_noEmittedSignals' \in BOOLEAN /\ ContinueInv'
  BY ContinueAsyncHere
<1>2. LoopTypeInv'
  BY <1>1 DEF LoopTypeInv
<1>3. QED
  BY <1>1, <1>2 DEF ShownInv, DisplayedScaleIsClose

\* What is drawn is scaled by the last iteration's number.
LEMMA DisplayLoopInv ==
    ASSUME LoopInv, displayFrame
    PROVE  LoopInv'
<1> USE DEF LoopInv, displayFrame, managerVars, outputVars, rendererVars
<1>1. /\ m_outputBuffer > 0 /\ m_lastRendererIterationNumber \in Nat /\ m_outputBuffer \in Nat
      /\ frames \in Nat /\ frames' \in Nat
  BY DEF ShownInv, LoopTypeInv
<1>2. m_lastRendererIterationNumber % OutputPeriod \in 0 .. OutputPeriod - 1
  BY <1>1, StandaloneAssumption
<1>3. m_lastRendererIterationNumber + 1 - m_outputBuffer
          = m_lastRendererIterationNumber % OutputPeriod
  BY <1>1 DEF ShownInv
<1>4. DisplayedScaleIsClose'
  <2>1. /\ displayed'.count = m_outputBuffer
        /\ displayed'.m_previewedIterations = m_lastRendererIterationNumber + 1
    OBVIOUS
  <2>2. m_lastRendererIterationNumber + 1 - m_outputBuffer \in 0 .. OutputPeriod - 1
    BY <1>2, <1>3
  <2>3. QED
    BY <1>1, <2>1, <2>2 DEF DisplayedScaleIsClose
<1>5. LoopTypeInv' /\ ContinueInv'
  BY <1>1 DEF LoopTypeInv, ContinueInv
<1>6. ShownInv'
  BY <1>1 DEF ShownInv
<1>7. QED
  BY <1>4, <1>5, <1>6

-----------------------------------------------------------------------------
(***************************************************************************)
(* Every step                                                              *)
(***************************************************************************)

\* The invariant is inductive.
LEMMA StepLoopInv == LoopInv /\ [Next]_vars => LoopInv'
<1> SUFFICES ASSUME LoopInv, [Next]_vars PROVE LoopInv'
  OBVIOUS
<1>1. CASE ApplicationThread
  BY <1>1, ApplicationFrame, OtherThreadLoopInv
<1>2. CASE User \/ InterfaceStep \/ AssignRenderMethod \/ DefaultCameraFit \/ SceneThread
  BY <1>2, UserFrame, OtherThreadLoopInv
<1>3. CASE ManagerThread
  BY <1>3, SequenceLoopInv, StatusLoopInv, TakenLoopInv, RenderLoopInv,
     PublishLoopInv, PublishFailsLoopInv, ContinueLoopInv DEF ManagerThread
<1>4. CASE displayFrame
  BY <1>4, DisplayLoopInv
<1>5. CASE UNCHANGED vars
  <2>1. UNCHANGED managerFrame /\ OthersQueue
    BY <1>5 DEF managerFrame, OthersQueue, vars, guiVars, managerVars, outputVars, rendererVars
  <2>2. QED
    BY <2>1, OtherThreadLoopInv
<1>6. QED
  BY <1>1, <1>2, <1>3, <1>4, <1>5 DEF Next

\* Every reachable state satisfies the invariant.
THEOREM LoopInvariance == Spec => []LoopInv
BY InitLoopInv, StepLoopInv, PTL DEF Spec

\* The manager never has two continueRayTracing signals queued, whatever the order
\* of restarts, pauses, scenes and errors.
THEOREM OneContinueQueuedHolds == Spec => []OneContinueQueued
<1>1. LoopInv => OneContinueQueued
  <2> SUFFICES ASSUME LoopInv PROVE OneContinueQueued
    OBVIOUS
  <2> DEFINE C == {i \in 1 .. Len(slots) : slots[i] = "onContinueRayTracing"}
  <2>1. \A i, j \in C : i = j
    BY DEF LoopInv, ContinueInv
  <2>2. C = {} \/ \E i : C = {i}
    BY <2>1
  <2>3. Cardinality(C) <= 1
    <3>1. CASE C = {}
      BY <3>1, FS_EmptySet
    <3>2. CASE \E i : C = {i}
      <4>1. PICK i : C = {i}
        BY <3>2
      <4>2. Cardinality({i}) = 1
        BY FS_Singleton
      <4>3. QED
        BY <4>1, <4>2
    <3>3. QED
      BY <2>2, <3>1, <3>2
  <2>4. m_noEmittedSignals => ~Queued("onContinueRayTracing", slots)
    BY DEF LoopInv, ContinueInv, Queued
  <2>5. QED
    BY <2>3, <2>4 DEF OneContinueQueued
<1>2. QED
  BY <1>1, LoopInvariance, PTL

\* The scale a frame is drawn with is right, or too large by less than the period,
\* for every period.
THEOREM DisplayedScaleIsCloseHolds == Spec => []DisplayedScaleIsClose
<1>1. LoopInv => DisplayedScaleIsClose
  BY DEF LoopInv
<1>2. QED
  BY <1>1, LoopInvariance, PTL

-----------------------------------------------------------------------------
(***************************************************************************)
(* The picture: the inductive invariant                                    *)
(***************************************************************************)
RestartSlots == {"onRenderRestart", "onSceneUpdated", "onCameraUpdated",
                 "onOutputSettingsUpdated", "onPPMSettingsUpdated"}
AppSlotNames == RestartSlots \cup {"onSceneLoadingNew"}
Pairs == Nat \X Nat
Modes == {"KeepVertical", "KeepHorizontal"}
Measures == [mode : Modes, kept : Pairs, ratio : Pairs]
CallNames == {"rotate", "dolly", "pose", "camera", "typed", "radius", "width", "height",
              "emit", "fit"}

\* What the calls of the user's thread carry.
CallOK(call) ==
    /\ call[1] \in CallNames
    /\ call[1] \in {"width", "height"} => call[2] \in Nat
    /\ call[1] = "camera" => (call[3] \in Pairs /\ call[4] \in Pairs)
    /\ call[1] = "fit" => call[2] \in Measures

\* A camera without regard to its pose
CameraOK(camera) ==
    /\ camera = [pose |-> camera.pose, hfov |-> camera.hfov, vfov |-> camera.vfov,
                 aspectRatioMode |-> camera.aspectRatioMode]
    /\ camera.hfov \in Pairs /\ camera.vfov \in Pairs
    /\ camera.aspectRatioMode \in Modes

TypeInv ==
    /\ slots \in Seq(SlotNames)
    /\ appSlots \in Seq(AppSlotNames)
    /\ \E S : guiCalls \in Seq(S)
    /\ \A k \in 1 .. Len(guiCalls) : CallOK(guiCalls[k])
    /\ CameraOK(m_camera)
    /\ resolution \in Pairs
    /\ anglesMayDiffer \in BOOLEAN
    /\ fitting # NotFitting =>
           /\ fitting.slot \in {"onOutputSettingsUpdated", "onSceneUpdated"}
           /\ fitting.measured \in Measures
    /\ m_scene \in Addresses \cup {NULL}
    /\ DOMAIN sceneAt = Addresses

Calls(names) == \E k \in 1 .. Len(guiCalls) : guiCalls[k][1] \in names

\* A new sequence is on its way to the manager: one of Application's slots that start
\* one is queued or half done, or its signal is queued with the manager.
SequencePending ==
    \/ fitting # NotFitting
    \/ \E slot \in RestartSlots : Queued(slot, appSlots)
    \/ Queued("onSequenceNumberIncremented", slots)

\* ... or the user's thread will start one before its handler ends.
ViewPending == SequencePending \/ Calls({"emit", "radius", "fit"})

\* A handler that moves the camera calls something later that starts a sequence.
CallsInv ==
    \A k \in 1 .. Len(guiCalls) :
        guiCalls[k][1] \in {"rotate", "dolly", "pose", "camera"} =>
            \E j \in k + 1 .. Len(guiCalls) : guiCalls[j][1] \in {"emit", "radius", "fit"}

CameraInv ==
    ~ViewPending =>
        /\ managerCamera = m_camera
        /\ startRadius = m_PPMInitialRadius

\* What the resolution will be at the end of the handler
SizeToCome(size) ==
    /\ \A k \in 1 .. Len(guiCalls) :
           /\ guiCalls[k][1] = "width" => guiCalls[k][2] = size[1]
           /\ guiCalls[k][1] = "height" => guiCalls[k][2] = size[2]
    /\ ~Calls({"width"}) => resolution[1] = size[1]
    /\ ~Calls({"height"}) => resolution[2] = size[2]

\* The resolution a preset brings with it fits its camera.
PresetInv ==
    \A k \in 1 .. Len(guiCalls) : guiCalls[k][1] = "camera" =>
        \E size \in Pairs :
            /\ SizeToCome(size)
            /\ Fits([hfov |-> guiCalls[k][3], vfov |-> guiCalls[k][4]], size)

\* What is being fitted was measured with the resolution of now, or will be again.
FitInv ==
    /\ fitting # NotFitting => \/ fitting.measured.ratio = resolution
                               \/ Queued("onOutputSettingsUpdated", appSlots)
    /\ \A k \in 1 .. Len(guiCalls) : guiCalls[k][1] = "fit" =>
           /\ Len(guiCalls) = 1
           /\ guiCalls[k][2].ratio = resolution

FitPending ==
    \/ fitting # NotFitting
    \/ Queued("onSceneUpdated", appSlots) \/ Queued("onOutputSettingsUpdated", appSlots)
    \/ Calls({"fit"})

DistortionInv ==
    \/ anglesMayDiffer
    \/ FitPending
    \/ Fits(m_camera, resolution)
    \/ \E size \in Pairs : SizeToCome(size) /\ Fits(m_camera, size)

\* When the manager takes a new scene, Application's slot for it has yet to start the
\* sequences, or they are queued behind.
RestartFollows(queue) ==
    \A i \in 1 .. Len(queue) : queue[i] = "onSceneUpdated" =>
        \E j \in i + 1 .. Len(queue) : queue[j] = "onSequenceNumberIncremented"

SceneOrderInv ==
    \/ Queued("onSceneUpdated", appSlots)
    \/ fitting.slot = "onSceneUpdated"
    \/ RestartFollows(slots)

SceneInv ==
    /\ m_currentScene # m_scene => Queued("onSceneUpdated", slots)
    /\ (m_scene # NULL /\ m_currentScene = m_scene) =>
           (m_compileScene \/ compiledScene = sceneAt[m_scene] \/ addressReused)

\* The frame is of the picture of now, or will be cleared before it is added to.
FrameInv ==
    \/ SequencePending \/ chosenMethod # None
    \/ notRestarted
    \/ (m_nextIterationNumber = 0 /\ pc # "publish")
    \/ /\ ~m_compileScene
       /\ frame.of \subseteq {<<compiledScene, m_renderMethod, resolution>>}

ViewInv == CallsInv /\ CameraInv /\ PresetInv /\ FitInv /\ DistortionInv
PictureInv == SceneOrderInv /\ SceneInv /\ FrameInv

IInv == TypeInv /\ ViewInv /\ PictureInv

-----------------------------------------------------------------------------
(***************************************************************************)
(* Queues of calls                                                         *)
(***************************************************************************)

\* A call is queued behind the others.
LEMMA QueuedAppend ==
    ASSUME NEW S, NEW queue \in Seq(S), NEW slot \in S
    PROVE  /\ Append(queue, slot) \in Seq(S)
           /\ \A s : Queued(s, Append(queue, slot)) <=> Queued(s, queue) \/ s = slot
<1> DEFINE longer == Append(queue, slot)
<1>1. /\ longer \in Seq(S) /\ Len(queue) \in Nat /\ Len(longer) = Len(queue) + 1
      /\ \A i \in 1 .. Len(queue) : i \in 1 .. Len(longer) /\ longer[i] = queue[i]
      /\ \A i \in 1 .. Len(longer) : i \in 1 .. Len(queue) \/ i = Len(longer)
      /\ Len(longer) \in 1 .. Len(longer) /\ longer[Len(longer)] = slot
  OBVIOUS
<1> HIDE DEF longer
<1>2. \A s : Queued(s, longer) <=> Queued(s, queue) \/ s = slot
  BY <1>1 DEF Queued
<1>3. QED
  BY <1>1, <1>2 DEF longer

\* The places of a queue whose first call is taken.
LEMMA TailOfQueue ==
    ASSUME NEW S, NEW queue \in Seq(S), queue # <<>>
    PROVE  /\ Tail(queue) \in Seq(S)
           /\ Len(queue) \in Nat /\ Len(Tail(queue)) = Len(queue) - 1
           /\ 1 \in 1 .. Len(queue) /\ Head(queue) = queue[1] /\ Head(queue) \in S
           /\ \A i \in 1 .. Len(Tail(queue)) :
                  /\ i \in Nat /\ i >= 1 /\ i <= Len(queue) - 1
                  /\ i + 1 \in 1 .. Len(queue) /\ Tail(queue)[i] = queue[i + 1]
           /\ \A i \in 1 .. Len(queue) :
                  \/ i = 1
                  \/ (i \in Nat /\ i - 1 \in 1 .. Len(Tail(queue)) /\ Tail(queue)[i - 1] = queue[i])
OBVIOUS

\* No other call is taken from it.
LEMMA QueuedTail ==
    ASSUME NEW S, NEW queue \in Seq(S), queue # <<>>
    PROVE  /\ Tail(queue) \in Seq(S) /\ Head(queue) \in S
           /\ \A s : Queued(s, Tail(queue)) => Queued(s, queue)
           /\ \A s : Queued(s, queue) => s = Head(queue) \/ Queued(s, Tail(queue))
           /\ Queued(Head(queue), queue)
<1> DEFINE rest == Tail(queue)
           n == Len(queue)
           m == Len(rest)
<1>1. /\ rest \in Seq(S) /\ 1 \in 1 .. n /\ Head(queue) = queue[1] /\ Head(queue) \in S
      /\ \A i \in 1 .. m : i + 1 \in 1 .. n /\ rest[i] = queue[i + 1]
      /\ \A i \in 1 .. n : i = 1 \/ (i - 1 \in 1 .. m /\ rest[i - 1] = queue[i])
  BY TailOfQueue
<1> HIDE DEF rest
<1>2. \A s : Queued(s, rest) => Queued(s, queue)
  BY <1>1 DEF Queued
<1>3. \A s : Queued(s, queue) => s = Head(queue) \/ Queued(s, rest)
  BY <1>1 DEF Queued
<1>4. Queued(Head(queue), queue)
  BY <1>1 DEF Queued
<1>5. QED
  BY <1>1, <1>2, <1>3, <1>4 DEF rest

\* The places of two queues behind one another.
LEMMA PlacesOfConcat ==
    ASSUME NEW S, NEW queue \in Seq(S), NEW more \in Seq(S)
    PROVE  /\ queue \o more \in Seq(S)
           /\ Len(queue) \in Nat /\ Len(queue \o more) = Len(queue) + Len(more)
           /\ \A i \in 1 .. Len(queue) : (queue \o more)[i] = queue[i]
           /\ \A i \in 1 .. Len(queue \o more) :
                  \/ i \in 1 .. Len(queue)
                  \/ (/\ i - Len(queue) \in 1 .. Len(more)
                      /\ (queue \o more)[i] = more[i - Len(queue)])
OBVIOUS

\* onSceneUpdated of Application queues three calls at once.
three == [i \in 1 .. 3 |-> "onSequenceNumberIncremented"]

LEMMA QueuedThree ==
    ASSUME NEW queue \in Seq(SlotNames)
    PROVE  /\ queue \o three \in Seq(SlotNames)
           /\ \A s : Queued(s, queue) => Queued(s, queue \o three)
           /\ \A s : Queued(s, queue \o three) =>
                         (Queued(s, queue) \/ s = "onSequenceNumberIncremented")
           /\ \A i \in 1 .. Len(queue) : /\ Len(queue \o three) \in i + 1 .. Len(queue \o three)
                                         /\ (queue \o three)[i] = queue[i]
           /\ \A i \in 1 .. Len(queue \o three) :
                  i \in 1 .. Len(queue) \/ (queue \o three)[i] = "onSequenceNumberIncremented"
           /\ (queue \o three)[Len(queue \o three)] = "onSequenceNumberIncremented"
           /\ Queued("onSequenceNumberIncremented", queue \o three)
<1> DEFINE longer == queue \o three
           n == Len(queue)
<1>1. /\ three \in Seq(SlotNames) /\ Len(three) = 3
      /\ \A i \in 1 .. 3 : three[i] = "onSequenceNumberIncremented"
  BY DEF SlotNames, three
<1>2. /\ longer \in Seq(SlotNames) /\ n \in Nat /\ Len(longer) = n + Len(three)
      /\ \A i \in 1 .. n : longer[i] = queue[i]
      /\ \A i \in 1 .. Len(longer) :
             \/ i \in 1 .. n
             \/ i - n \in 1 .. Len(three) /\ longer[i] = three[i - n]
  <2>1. three \in Seq(SlotNames)
    BY <1>1
  <2> HIDE DEF three
  <2>2. QED
    BY <2>1, PlacesOfConcat
<1> HIDE DEF longer
<1>3. /\ \A i \in 1 .. n : n + 3 \in i + 1 .. n + 3 /\ i \in 1 .. n + 3
      /\ n + 3 \in 1 .. n + 3 /\ ~(n + 3 \in 1 .. n)
  BY <1>2
<1>4. /\ \A i \in 1 .. Len(longer) : i \in 1 .. n \/ longer[i] = "onSequenceNumberIncremented"
      /\ longer[Len(longer)] = "onSequenceNumberIncremented"
  <2> HIDE DEF three
  <2>1. QED
    BY <1>1, <1>2, <1>3
<1>5. /\ Len(longer) = n + 3 /\ Len(longer) \in 1 .. Len(longer)
      /\ \A i \in 1 .. n : i \in 1 .. Len(longer) /\ Len(longer) \in i + 1 .. Len(longer)
  BY <1>1, <1>2, <1>3
<1>7. /\ \A s : Queued(s, queue) => Queued(s, longer)
      /\ Queued("onSequenceNumberIncremented", longer)
  BY <1>2, <1>4, <1>5 DEF Queued
<1>6. \A s : Queued(s, longer) => (Queued(s, queue) \/ s = "onSequenceNumberIncremented")
  BY <1>2, <1>4 DEF Queued
<1>8. QED
  BY <1>2, <1>4, <1>5, <1>6, <1>7 DEF longer

\* Three restarts queued last are behind every scene.
LEMMA ThreeFollow ==
    ASSUME NEW queue \in Seq(SlotNames)
    PROVE  RestartFollows(queue \o three)
<1> DEFINE longer == queue \o three
<1>1. /\ \A i \in 1 .. Len(queue) : Len(longer) \in i + 1 .. Len(longer)
      /\ \A i \in 1 .. Len(longer) :
             i \in 1 .. Len(queue) \/ longer[i] = "onSequenceNumberIncremented"
      /\ longer[Len(longer)] = "onSequenceNumberIncremented"
  BY QueuedThree
<1> HIDE DEF longer
<1>2. RestartFollows(longer)
  BY <1>1 DEF RestartFollows
<1>3. QED
  BY <1>2 DEF longer

\* The user's thread makes its next call: what holds of the calls still to be made.
LEMMA CallTaken ==
    ASSUME TypeInv, CallsInv, guiCalls # <<>>, guiCalls' = Tail(guiCalls)
    PROVE  /\ \E S : guiCalls' \in Seq(S)
           /\ \A k \in 1 .. Len(guiCalls') : CallOK(guiCalls'[k])
           /\ \A k \in 1 .. Len(guiCalls') :
                  k + 1 \in 1 .. Len(guiCalls) /\ guiCalls'[k] = guiCalls[k + 1]
           /\ CallsInv'
           /\ \A names : Calls(names) => guiCalls[1][1] \in names \/ Calls(names)'
           /\ \A names : Calls(names)' => Calls(names)
           /\ Len(guiCalls) = 1 => guiCalls' = <<>>
           /\ 1 \in 1 .. Len(guiCalls) /\ Head(guiCalls) = guiCalls[1] /\ CallOK(guiCalls[1])
<1> DEFINE rest == guiCalls'
           n == Len(guiCalls)
           m == Len(rest)
<1>1. PICK S : guiCalls \in Seq(S)
  BY DEF TypeInv
<1>2. /\ rest \in Seq(S) /\ n \in Nat /\ m = n - 1
      /\ 1 \in 1 .. n /\ Head(guiCalls) = guiCalls[1]
      /\ \A i \in 1 .. m : /\ i \in Nat /\ i >= 1 /\ i <= n - 1
                           /\ i + 1 \in 1 .. n /\ rest[i] = guiCalls[i + 1]
      /\ \A i \in 1 .. n : i = 1 \/ (i \in Nat /\ i - 1 \in 1 .. m /\ rest[i - 1] = guiCalls[i])
  BY <1>1, TailOfQueue
<1>3. /\ \A k \in 1 .. n : CallOK(guiCalls[k])
      /\ \A k \in 1 .. n : guiCalls[k][1] \in {"rotate", "dolly", "pose", "camera"} =>
             \E j \in k + 1 .. n : guiCalls[j][1] \in {"emit", "radius", "fit"}
  BY DEF TypeInv, CallsInv
<1>4. n = 1 => rest = <<>>
  BY <1>2
<1> HIDE DEF rest
<1>5. \A k \in 1 .. m : CallOK(rest[k])
  BY <1>2, <1>3
<1>6. \A k \in 1 .. m : rest[k][1] \in {"rotate", "dolly", "pose", "camera"} =>
          \E j \in k + 1 .. m : rest[j][1] \in {"emit", "radius", "fit"}
  <2> SUFFICES ASSUME NEW k \in 1 .. m,
                      rest[k][1] \in {"rotate", "dolly", "pose", "camera"}
               PROVE  \E j \in k + 1 .. m : rest[j][1] \in {"emit", "radius", "fit"}
    OBVIOUS
  <2>1. k \in Nat /\ k + 1 \in 1 .. n /\ rest[k] = guiCalls[k + 1]
    BY <1>2
  <2>2. PICK j \in (k + 1) + 1 .. n : guiCalls[j][1] \in {"emit", "radius", "fit"}
    BY <1>3, <2>1
  <2>3. j \in 1 .. n /\ j # 1 /\ j \in Nat
    BY <1>2, <2>1
  <2>4. j - 1 \in k + 1 .. m /\ rest[j - 1] = guiCalls[j]
    BY <1>2, <2>1, <2>3
  <2>5. QED
    BY <2>2, <2>4
<1>7. \A names : (\E k \in 1 .. n : guiCalls[k][1] \in names) =>
          (guiCalls[1][1] \in names \/ \E k \in 1 .. m : rest[k][1] \in names)
  BY <1>2
<1>8. \A names : (\E k \in 1 .. m : rest[k][1] \in names) =>
          (\E k \in 1 .. n : guiCalls[k][1] \in names)
  BY <1>2
<1>9. QED
  BY <1>2, <1>3, <1>4, <1>5, <1>6, <1>7, <1>8 DEF rest, CallsInv, Calls

-----------------------------------------------------------------------------
(***************************************************************************)
(* Cameras                                                                 *)
(***************************************************************************)

\* What was read of the camera can be written to it.
LEMMA AspectRatioSet ==
    ASSUME NEW camera, CameraOK(camera), NEW measured \in Measures
    PROVE  CameraOK(setAspectRatio(camera, measured))
<1> DEFINE new == setAspectRatio(camera, measured)
<1>1. /\ measured.kept[1] \in Nat /\ measured.kept[2] \in Nat
      /\ measured.ratio[1] \in Nat /\ measured.ratio[2] \in Nat
  BY DEF Measures, Pairs
<1>2. \A a, b \in Nat : a * b \in Nat
  OBVIOUS
<1>3. /\ Divided(measured.kept, measured.ratio) \in Pairs
      /\ Multiplied(measured.kept, measured.ratio) \in Pairs
  BY <1>1, <1>2 DEF Divided, Multiplied, Pairs
<1>4. QED
  BY <1>3 DEF CameraOK, setAspectRatio

\* A camera that was not written to since it was measured fits the ratio it is set to.
LEMMA AspectRatioFits ==
    ASSUME NEW camera, CameraOK(camera), NEW size \in Pairs
    PROVE  Fits(setAspectRatio(camera, Measured(camera, size)), size)
<1> DEFINE h1 == camera.hfov[1]
           h2 == camera.hfov[2]
           v1 == camera.vfov[1]
           v2 == camera.vfov[2]
<1>1. /\ h1 \in Nat /\ h2 \in Nat /\ v1 \in Nat /\ v2 \in Nat
      /\ size[1] \in Nat /\ size[2] \in Nat
  BY DEF CameraOK, Pairs
<1>2. \A a, b, c, d \in Nat : /\ a * (b * c) * d = b * (a * d) * c
                              /\ (a * c) * b * d = (b * d) * a * c
  OBVIOUS
<1>3. CASE camera.aspectRatioMode = "KeepHorizontal"
  <2> DEFINE new == setAspectRatio(camera, Measured(camera, size))
  <2>1. new.hfov = camera.hfov /\ new.vfov = <<h1 * size[2], h2 * size[1]>>
    BY <1>3 DEF setAspectRatio, Measured, Divided, CameraOK
  <2>2. h1 * (h2 * size[1]) * size[2] = h2 * (h1 * size[2]) * size[1]
    BY <1>1, <1>2
  <2>3. QED
    BY <2>1, <2>2 DEF Fits
<1>4. CASE camera.aspectRatioMode # "KeepHorizontal"
  <2> DEFINE new == setAspectRatio(camera, Measured(camera, size))
  <2>1. new.vfov = camera.vfov /\ new.hfov = <<v1 * size[1], v2 * size[2]>>
    BY <1>4 DEF setAspectRatio, Measured, Multiplied, CameraOK
  <2>2. (v1 * size[1]) * v2 * size[2] = (v2 * size[2]) * v1 * size[1]
    BY <1>1, <1>2
  <2>3. QED
    BY <2>1, <2>2 DEF Fits
<1>5. QED
  BY <1>3, <1>4

LEMMA MeasuredOK ==
    ASSUME NEW camera, CameraOK(camera), NEW size \in Pairs
    PROVE  Measured(camera, size) \in Measures /\ Measured(camera, size).ratio = size
BY DEF CameraOK, Measured, Measures

LEMMA DefaultCameraOK ==
    ASSUME NEW version
    PROVE  CameraOK(DefaultCamera(version))
<1>1. CameraOK(BuiltInCamera(version)) /\ CameraOK(ImportedCamera(version))
  BY DEF CameraOK, BuiltInCamera, ImportedCamera, Pairs, Modes
<1>2. QED
  BY <1>1 DEF DefaultCamera

-----------------------------------------------------------------------------
(***************************************************************************)
(* The calls of the user's thread                                          *)
(***************************************************************************)

\* What a call does to the resolution
ResolutionFollows ==
    /\ guiCalls[1][1] = "width" => resolution' = <<guiCalls[1][2], resolution[2]>>
    /\ guiCalls[1][1] = "height" => resolution' = <<resolution[1], guiCalls[1][2]>>
    /\ guiCalls[1][1] \notin {"width", "height"} => resolution' = resolution

\* Application is told of another resolution.
ResolutionTold == resolution' = resolution \/ Queued("onOutputSettingsUpdated", appSlots')

\* The size the handler will leave is the same after a call as before.
LEMMA SizeKept ==
    ASSUME TypeInv, CallsInv, guiCalls # <<>>, guiCalls' = Tail(guiCalls), ResolutionFollows,
           NEW size \in Pairs, SizeToCome(size)
    PROVE  SizeToCome(size)'
<1> DEFINE name == guiCalls[1][1]
<1>1. /\ \A k \in 1 .. Len(guiCalls') :
             k + 1 \in 1 .. Len(guiCalls) /\ guiCalls'[k] = guiCalls[k + 1]
      /\ 1 \in 1 .. Len(guiCalls)
      /\ Calls({"width"}) => name = "width" \/ Calls({"width"})'
      /\ Calls({"height"}) => name = "height" \/ Calls({"height"})'
  BY CallTaken
<1>2. /\ \A k \in 1 .. Len(guiCalls) :
             /\ guiCalls[k][1] = "width" => guiCalls[k][2] = size[1]
             /\ guiCalls[k][1] = "height" => guiCalls[k][2] = size[2]
      /\ ~Calls({"width"}) => resolution[1] = size[1]
      /\ ~Calls({"height"}) => resolution[2] = size[2]
  BY DEF SizeToCome
<1>3. \A k \in 1 .. Len(guiCalls') :
          /\ guiCalls'[k][1] = "width" => guiCalls'[k][2] = size[1]
          /\ guiCalls'[k][1] = "height" => guiCalls'[k][2] = size[2]
  BY <1>1, <1>2
<1>4. /\ name = "width" => resolution'[1] = size[1] /\ resolution'[2] = resolution[2]
      /\ name = "height" => resolution'[2] = size[2] /\ resolution'[1] = resolution[1]
      /\ name \notin {"width", "height"} => resolution' = resolution
  BY <1>1, <1>2 DEF ResolutionFollows
<1>5. /\ ~Calls({"width"})' => resolution'[1] = size[1]
      /\ ~Calls({"height"})' => resolution'[2] = size[2]
  BY <1>1, <1>2, <1>4
<1>6. QED
  BY <1>3, <1>5 DEF SizeToCome

\* A call leaves the other calls of its handler in order.
LEMMA CallOrder ==
    ASSUME TypeInv, CallsInv, PresetInv, FitInv, guiCalls # <<>>, guiCalls' = Tail(guiCalls),
           ResolutionFollows, ResolutionTold, fitting' = fitting,
           \A s : Queued(s, appSlots) => Queued(s, appSlots')
    PROVE  CallsInv' /\ PresetInv' /\ FitInv'
<1>1. /\ \A k \in 1 .. Len(guiCalls') :
             k + 1 \in 1 .. Len(guiCalls) /\ guiCalls'[k] = guiCalls[k + 1]
      /\ CallsInv'
      /\ Len(guiCalls) = 1 => guiCalls' = <<>>
  BY CallTaken
<1>2. PresetInv'
  <2> SUFFICES ASSUME NEW k \in 1 .. Len(guiCalls'), guiCalls'[k][1] = "camera"
               PROVE  \E size \in Pairs :
                          /\ SizeToCome(size)'
                          /\ Fits([hfov |-> guiCalls'[k][3], vfov |-> guiCalls'[k][4]], size)
    BY DEF PresetInv, Fits
  <2>1. k + 1 \in 1 .. Len(guiCalls) /\ guiCalls'[k] = guiCalls[k + 1]
    BY <1>1
  <2>2. PICK size \in Pairs :
            /\ SizeToCome(size)
            /\ Fits([hfov |-> guiCalls[k + 1][3], vfov |-> guiCalls[k + 1][4]], size)
    BY <2>1 DEF PresetInv
  <2>3. SizeToCome(size)'
    BY <2>2, SizeKept
  <2>4. QED
    BY <2>1, <2>2, <2>3
<1>3. fitting' # NotFitting => \/ fitting'.measured.ratio = resolution'
                               \/ Queued("onOutputSettingsUpdated", appSlots')
  BY DEF FitInv, ResolutionTold
<1>4. \A k \in 1 .. Len(guiCalls') : guiCalls'[k][1] # "fit"
  <2> SUFFICES ASSUME NEW k \in 1 .. Len(guiCalls'), guiCalls'[k][1] = "fit"
               PROVE  FALSE
    OBVIOUS
  <2>1. k + 1 \in 1 .. Len(guiCalls) /\ guiCalls[k + 1][1] = "fit"
    BY <1>1
  <2>2. Len(guiCalls) = 1
    BY <2>1 DEF FitInv
  <2>3. QED
    BY <1>1, <2>2
<1>5. FitInv'
  BY <1>3, <1>4 DEF FitInv
<1>6. QED
  BY <1>1, <1>2, <1>5

\* A call that leaves the angles of view alone does not distort the picture, unless
\* the camera is fitted to it later.
LEMMA AnglesKept ==
    ASSUME TypeInv, CallsInv, DistortionInv, guiCalls # <<>>, guiCalls' = Tail(guiCalls),
           ResolutionFollows, ResolutionTold, fitting' = fitting, guiCalls[1][1] # "fit",
           \A s : Queued(s, appSlots) => Queued(s, appSlots'),
           anglesMayDiffer => anglesMayDiffer',
           m_camera'.hfov = m_camera.hfov, m_camera'.vfov = m_camera.vfov
    PROVE  DistortionInv'
<1>1. FitPending => FitPending'
  <2>1. Calls({"fit"}) => Calls({"fit"})'
    BY CallTaken
  <2>2. QED
    BY <2>1 DEF FitPending
<1>2. \A size : Fits(m_camera, size) => Fits(m_camera', size)
  BY DEF Fits
<1>3. ASSUME NEW size \in Pairs, SizeToCome(size), Fits(m_camera, size)
      PROVE  DistortionInv'
  <2>1. SizeToCome(size)' /\ Fits(m_camera', size)
    BY <1>2, <1>3, SizeKept
  <2>2. QED
    BY <2>1 DEF DistortionInv, Fits
<1>4. CASE Fits(m_camera, resolution)
  <2>1. resolution' = resolution => Fits(m_camera', resolution')
    BY <1>2, <1>4
  <2>2. QED
    BY <2>1 DEF DistortionInv, FitPending, ResolutionTold
<1>5. QED
  BY <1>1, <1>3, <1>4 DEF DistortionInv

\* A call whose handler still has one to make that starts a sequence
LEMMA StillToStart ==
    ASSUME TypeInv, CallsInv, guiCalls # <<>>, guiCalls' = Tail(guiCalls),
           guiCalls[1][1] \in {"rotate", "dolly", "pose", "camera"}
    PROVE  ViewPending'
<1>1. 1 \in 1 .. Len(guiCalls)
  BY CallTaken
<1>2. Calls({"emit", "radius", "fit"})
  BY <1>1 DEF CallsInv, Calls
<1>3. Calls({"emit", "radius", "fit"})'
  BY <1>2, CallTaken
<1>4. QED
  BY <1>3 DEF ViewPending

\* A call that neither starts a sequence nor writes what the manager copies
LEMMA StillToFollow ==
    ASSUME TypeInv, CallsInv, CameraInv, guiCalls # <<>>, guiCalls' = Tail(guiCalls),
           guiCalls[1][1] \notin {"emit", "radius", "fit"},
           UNCHANGED <<m_camera, m_PPMInitialRadius, managerCamera, startRadius, fitting, slots>>,
           \A s : Queued(s, appSlots) => Queued(s, appSlots')
    PROVE  CameraInv'
<1>1. Calls({"emit", "radius", "fit"}) => Calls({"emit", "radius", "fit"})'
  BY CallTaken
<1>2. SequencePending => SequencePending'
  BY DEF SequencePending
<1>3. QED
  BY <1>1, <1>2 DEF CameraInv, ViewPending

\* The types after a call
LEMMA CallTypes ==
    ASSUME TypeInv, CallsInv, guiCalls # <<>>, guiCalls' = Tail(guiCalls),
           UNCHANGED <<fitting, m_scene, sceneAt>>, slots' \in Seq(SlotNames),
           appSlots' \in Seq(AppSlotNames), CameraOK(m_camera'), resolution' \in Pairs,
           anglesMayDiffer' \in BOOLEAN
    PROVE  TypeInv'
<1>1. /\ \E S : guiCalls' \in Seq(S)
      /\ \A k \in 1 .. Len(guiCalls') : CallOK(guiCalls'[k])
  BY CallTaken
<1>2. QED
  BY <1>1 DEF TypeInv, CallOK, CameraOK

\* What the handlers of the user's thread leave alone
viewFrame == <<fitting, m_scene, sceneAt, slots, managerCamera, startRadius>>

\* The mouse and the fields of CameraDock move the camera, and say so later.
LEMMA PoseCallInv ==
    ASSUME TypeInv, ViewInv, transform \/ dolly \/ WriteTypedPose, UNCHANGED viewFrame
    PROVE  TypeInv' /\ ViewInv'
<1>1. /\ guiCalls # <<>> /\ guiCalls' = Tail(guiCalls)
      /\ Head(guiCalls)[1] \in {"rotate", "dolly", "pose"}
      /\ \E pose : m_camera' = [m_camera EXCEPT !.pose = pose]
      /\ UNCHANGED <<resolution, anglesMayDiffer, m_PPMInitialRadius, appSlots>>
  BY DEF transform, dolly, WriteTypedPose, MoveCamera, Call
<1>2. guiCalls[1][1] \in {"rotate", "dolly", "pose"}
  BY <1>1, CallTaken DEF ViewInv
<1>3. /\ CameraOK(m_camera')
      /\ m_camera'.hfov = m_camera.hfov /\ m_camera'.vfov = m_camera.vfov
  BY <1>1 DEF TypeInv, CameraOK
<1>4. TypeInv'
  BY <1>1, <1>3, CallTypes DEF TypeInv, ViewInv, viewFrame
<1>5. ResolutionFollows /\ ResolutionTold
  BY <1>1, <1>2 DEF ResolutionFollows, ResolutionTold
<1>6. CallsInv' /\ PresetInv' /\ FitInv'
  BY <1>1, <1>5, CallOrder DEF ViewInv, viewFrame
<1>7. CameraInv'
  BY <1>1, <1>2, StillToStart DEF ViewInv, CameraInv
<1>8. DistortionInv'
  BY <1>1, <1>2, <1>3, <1>5, AnglesKept DEF ViewInv, viewFrame
<1>9. QED
  BY <1>4, <1>6, <1>7, <1>8 DEF ViewInv

\* A preset writes angles that fit the resolution it writes next.
LEMMA WriteCameraInv ==
    ASSUME TypeInv, ViewInv, WriteCamera, UNCHANGED viewFrame
    PROVE  TypeInv' /\ ViewInv'
<1> DEFINE call == guiCalls[1]
<1>1. /\ guiCalls # <<>> /\ guiCalls' = Tail(guiCalls) /\ Head(guiCalls)[1] = "camera"
      /\ m_camera' = [m_camera EXCEPT !.pose = Head(guiCalls)[2], !.hfov = Head(guiCalls)[3],
                                      !.vfov = Head(guiCalls)[4]]
      /\ anglesMayDiffer' = FALSE
      /\ UNCHANGED <<resolution, m_PPMInitialRadius, appSlots>>
  BY DEF WriteCamera, Call
<1>2. 1 \in 1 .. Len(guiCalls) /\ Head(guiCalls) = call /\ CallOK(call)
  BY <1>1, CallTaken DEF ViewInv
<1>3. /\ call[1] = "camera" /\ call[3] \in Pairs /\ call[4] \in Pairs
      /\ m_camera' = [m_camera EXCEPT !.pose = call[2], !.hfov = call[3], !.vfov = call[4]]
  BY <1>1, <1>2 DEF CallOK
<1> HIDE DEF call
<1>4. /\ CameraOK(m_camera') /\ m_camera'.hfov = call[3] /\ m_camera'.vfov = call[4]
  BY <1>3 DEF TypeInv, CameraOK
<1>5. TypeInv'
  BY <1>1, <1>4, CallTypes DEF TypeInv, ViewInv, viewFrame
<1>6. ResolutionFollows /\ ResolutionTold
  BY <1>1, <1>2, <1>3 DEF ResolutionFollows, ResolutionTold, call
<1>7. CallsInv' /\ PresetInv' /\ FitInv'
  BY <1>1, <1>6, CallOrder DEF ViewInv, viewFrame
<1>8. CameraInv'
  <2>1. call[1] \in {"rotate", "dolly", "pose", "camera"}
    BY <1>3
  <2>2. QED
    BY <1>1, <2>1, StillToStart DEF ViewInv, CameraInv, call
<1>9. DistortionInv'
  <2>1. PICK size \in Pairs :
            SizeToCome(size) /\ Fits([hfov |-> call[3], vfov |-> call[4]], size)
    BY <1>2, <1>3 DEF ViewInv, PresetInv, call
  <2>2. SizeToCome(size)'
    BY <1>1, <1>6, <2>1, SizeKept DEF ViewInv
  <2>3. Fits(m_camera', size)
    BY <1>4, <2>1 DEF Fits
  <2>4. QED
    BY <2>2, <2>3 DEF DistortionInv, Fits
<1>10. QED
  BY <1>5, <1>7, <1>8, <1>9 DEF ViewInv

\* Typed angles may be any.
LEMMA WriteTypedAnglesInv ==
    ASSUME TypeInv, ViewInv, WriteTypedAngles, UNCHANGED viewFrame
    PROVE  TypeInv' /\ ViewInv'
<1>1. /\ guiCalls # <<>> /\ guiCalls' = Tail(guiCalls) /\ Head(guiCalls)[1] = "typed"
      /\ anglesMayDiffer' = TRUE
      /\ UNCHANGED <<m_camera, resolution, m_PPMInitialRadius, appSlots>>
  BY DEF WriteTypedAngles, Call
<1>2. guiCalls[1][1] = "typed"
  BY <1>1, CallTaken DEF ViewInv
<1>3. TypeInv'
  BY <1>1, CallTypes DEF TypeInv, ViewInv, viewFrame
<1>4. ResolutionFollows /\ ResolutionTold
  BY <1>1, <1>2 DEF ResolutionFollows, ResolutionTold
<1>5. CallsInv' /\ PresetInv' /\ FitInv'
  BY <1>1, <1>4, CallOrder DEF ViewInv, viewFrame
<1>6. CameraInv'
  BY <1>1, <1>2, StillToFollow DEF ViewInv, viewFrame
<1>7. DistortionInv'
  BY <1>1 DEF DistortionInv
<1>8. QED
  BY <1>3, <1>5, <1>6, <1>7 DEF ViewInv

\* Application is told of a new radius or camera.
LEMMA SignalCallInv ==
    ASSUME TypeInv, ViewInv, setPPMInitialRadius \/ EmitCameraUpdated, UNCHANGED viewFrame
    PROVE  TypeInv' /\ ViewInv'
<1>1. PICK slot \in {"onPPMSettingsUpdated", "onCameraUpdated"} :
          /\ guiCalls # <<>> /\ guiCalls' = Tail(guiCalls)
          /\ Head(guiCalls)[1] \in {"radius", "emit"}
          /\ appSlots' = Append(appSlots, slot)
          /\ UNCHANGED viewVars
  BY DEF setPPMInitialRadius, EmitCameraUpdated, Call
<1>2. guiCalls[1][1] \in {"radius", "emit"}
  BY <1>1, CallTaken DEF ViewInv
<1>3. /\ appSlots' \in Seq(AppSlotNames)
      /\ \A s : Queued(s, appSlots') <=> Queued(s, appSlots) \/ s = slot
      /\ slot \in RestartSlots
  <2>1. slot \in AppSlotNames /\ slot \in RestartSlots
    BY DEF AppSlotNames, RestartSlots
  <2>2. QED
    BY <1>1, <2>1, QueuedAppend DEF TypeInv
<1>4. UNCHANGED <<m_camera, resolution, anglesMayDiffer>>
  BY <1>1 DEF viewVars
<1>5. TypeInv'
  BY <1>1, <1>3, <1>4, CallTypes DEF TypeInv, ViewInv, viewFrame
<1>6. ResolutionFollows /\ ResolutionTold
  BY <1>2, <1>4 DEF ResolutionFollows, ResolutionTold
<1>7. CallsInv' /\ PresetInv' /\ FitInv'
  BY <1>1, <1>3, <1>6, CallOrder DEF ViewInv, viewFrame
<1>8. CameraInv'
  BY <1>3 DEF CameraInv, ViewPending, SequencePending
<1>9. DistortionInv'
  BY <1>1, <1>2, <1>3, <1>4, <1>6, AnglesKept DEF ViewInv, viewFrame
<1>10. QED
  BY <1>5, <1>7, <1>8, <1>9 DEF ViewInv

\* Application is told of another resolution.
LEMMA ResolutionCallInv ==
    ASSUME TypeInv, ViewInv, setWidth \/ setHeight, UNCHANGED viewFrame
    PROVE  TypeInv' /\ ViewInv'
<1> DEFINE call == guiCalls[1]
<1>1. /\ guiCalls # <<>> /\ guiCalls' = Tail(guiCalls)
      /\ \/ Head(guiCalls)[1] = "width" /\ resolution' = <<Head(guiCalls)[2], resolution[2]>>
         \/ Head(guiCalls)[1] = "height" /\ resolution' = <<resolution[1], Head(guiCalls)[2]>>
      /\ SetResolution(resolution')
  BY DEF setWidth, setHeight, Call, SetResolution
<1>2. Head(guiCalls) = call /\ CallOK(call)
  BY <1>1, CallTaken DEF ViewInv
<1>3. /\ call[1] \in {"width", "height"} /\ call[2] \in Nat
      /\ ResolutionFollows
  BY <1>1, <1>2 DEF CallOK, ResolutionFollows
<1>4. resolution' \in Pairs
  <2>1. resolution[1] \in Nat /\ resolution[2] \in Nat
    BY DEF TypeInv, Pairs
  <2>2. QED
    BY <1>3, <2>1 DEF ResolutionFollows, Pairs
<1>5. /\ appSlots' \in Seq(AppSlotNames)
      /\ \A s : Queued(s, appSlots) => Queued(s, appSlots')
      /\ ResolutionTold
      /\ UNCHANGED <<m_camera, anglesMayDiffer, m_PPMInitialRadius>>
  <2>1. "onOutputSettingsUpdated" \in AppSlotNames
    BY DEF AppSlotNames, RestartSlots
  <2>2. CASE resolution' # resolution
    BY <1>1, <2>1, <2>2, QueuedAppend DEF SetResolution, ResolutionTold, TypeInv
  <2>3. CASE resolution' = resolution
    BY <1>1, <2>3 DEF SetResolution, ResolutionTold, TypeInv
  <2>4. QED
    BY <2>2, <2>3
<1>6. TypeInv'
  BY <1>1, <1>4, <1>5, CallTypes DEF TypeInv, ViewInv, viewFrame
<1>7. CallsInv' /\ PresetInv' /\ FitInv'
  BY <1>1, <1>3, <1>5, CallOrder DEF ViewInv, viewFrame
<1>8. CameraInv'
  BY <1>1, <1>3, <1>5, StillToFollow DEF ViewInv, viewFrame
<1>9. DistortionInv'
  BY <1>1, <1>3, <1>5, AnglesKept DEF ViewInv, viewFrame
<1>10. QED
  BY <1>6, <1>7, <1>8, <1>9 DEF ViewInv

-----------------------------------------------------------------------------
(***************************************************************************)
(* The inputs of the user's thread                                         *)
(***************************************************************************)

\* What a handler's calls are like when it starts: none fits the camera, a preset's
\* resolution follows its camera, and a moved camera is told of.
HandlerOK ==
    /\ \E S : guiCalls' \in Seq(S)
    /\ \A k \in 1 .. Len(guiCalls') : CallOK(guiCalls'[k]) /\ guiCalls'[k][1] # "fit"
    /\ CallsInv'
    /\ PresetInv'

LEMMA HandlerInv ==
    ASSUME TypeInv, ViewInv, guiCalls = <<>>, HandlerOK, UNCHANGED viewFrame,
           UNCHANGED <<viewVars, m_PPMInitialRadius, appSlots>>
    PROVE  TypeInv' /\ ViewInv'
<1>1. UNCHANGED <<m_camera, resolution, anglesMayDiffer>>
  BY DEF viewVars
<1>2. TypeInv'
  BY <1>1 DEF TypeInv, HandlerOK, CallOK, CameraOK, viewFrame
<1>3. \A names : ~Calls(names)
  BY DEF Calls
<1>4. CameraInv'
  <2>1. SequencePending => SequencePending'
    BY DEF SequencePending, viewFrame
  <2>2. ViewPending => SequencePending
    BY <1>3 DEF ViewPending
  <2>3. QED
    BY <1>1, <2>1, <2>2 DEF ViewInv, CameraInv, ViewPending, viewFrame
<1>5. FitInv'
  BY <1>1 DEF ViewInv, FitInv, HandlerOK, viewFrame
<1>6. DistortionInv'
  <2>1. anglesMayDiffer \/ FitPending \/ Fits(m_camera, resolution)
    BY <1>3 DEF ViewInv, DistortionInv, SizeToCome, Fits
  <2>2. FitPending => FitPending'
    BY <1>3 DEF FitPending, viewFrame
  <2>3. Fits(m_camera, resolution) => Fits(m_camera', resolution')
    BY <1>1
  <2>4. QED
    BY <1>1, <2>1, <2>2, <2>3 DEF DistortionInv
<1>7. QED
  BY <1>2, <1>4, <1>5, <1>6 DEF ViewInv, HandlerOK

\* What the calls carry
LEMMA CallsOK ==
    /\ \A c \in {Emit, Radius, Rotate, Dolly, TypedPose, Typed} : CallOK(c)
    /\ \A size \in Resolutions : CallOK(Width(size)) /\ CallOK(Height(size))
    /\ Emit[1] = "emit" /\ Radius[1] = "radius" /\ Rotate[1] = "rotate" /\ Dolly[1] = "dolly"
    /\ TypedPose[1] = "pose" /\ Typed[1] = "typed"
    /\ \A size : Width(size)[1] = "width" /\ Height(size)[1] = "height"
<1>1. /\ Emit[1] = "emit" /\ Radius[1] = "radius" /\ Rotate[1] = "rotate"
      /\ Dolly[1] = "dolly" /\ TypedPose[1] = "pose" /\ Typed[1] = "typed"
      /\ \A size : Width(size)[1] = "width" /\ Height(size)[1] = "height"
  BY DEF Emit, Radius, Rotate, Dolly, TypedPose, Typed, Width, Height
<1>2. \A c : c[1] \in {"emit", "radius", "rotate", "dolly", "pose", "typed"} => CallOK(c)
  BY DEF CallOK, CallNames
<1>3. \A c : c[1] \in {"width", "height"} /\ c[2] \in Nat => CallOK(c)
  BY DEF CallOK, CallNames
<1>4. \A size \in Resolutions : Width(size)[2] \in Nat /\ Height(size)[2] \in Nat
  BY InterfaceAssumption DEF Width, Height
<1>5. QED
  BY <1>1, <1>2, <1>3, <1>4

\* Handlers without a preset
LEMMA PlainHandlerOK ==
    ASSUME \/ \E movement \in {"rotate", "dolly", None} : Handles("mouse", <<Emit>>)
           \/ Handles("mouse", <<Rotate, Emit>>)
           \/ Handles("mouse", <<Dolly, Emit>>)
           \/ Handles("mouse", <<Emit>>)
           \/ Handles("camera", <<TypedPose, Typed, Emit>>)
           \/ \E size \in Resolutions : Handles("output", <<Width(size), Height(size)>>)
           \/ Handles("radius", <<Radius>>)
    PROVE  HandlerOK
<1>1. ASSUME NEW c, guiCalls' = <<c>>, CallOK(c), c[1] \in {"emit", "radius"}
      PROVE  HandlerOK
  <2>1. /\ guiCalls' \in Seq({c})
        /\ \A k \in 1 .. Len(guiCalls') : guiCalls'[k] = c
    BY <1>1
  <2>2. /\ \A k \in 1 .. Len(guiCalls') : CallOK(guiCalls'[k]) /\ guiCalls'[k][1] # "fit"
        /\ CallsInv' /\ PresetInv'
    BY <1>1, <2>1 DEF CallsInv, PresetInv
  <2>3. QED
    BY <2>1, <2>2 DEF HandlerOK
<1>2. ASSUME NEW c, NEW d, guiCalls' = <<c, d>>, CallOK(c), CallOK(d),
             \/ c[1] \in {"rotate", "dolly"} /\ d[1] = "emit"
             \/ c[1] = "width" /\ d[1] = "height"
      PROVE  HandlerOK
  <2>1. /\ guiCalls' \in Seq({c, d}) /\ Len(guiCalls') = 2
        /\ guiCalls'[1] = c /\ guiCalls'[2] = d
    BY <1>2
  <2>2. /\ \A k \in 1 .. Len(guiCalls') : CallOK(guiCalls'[k]) /\ guiCalls'[k][1] # "fit"
        /\ CallsInv' /\ PresetInv'
    BY <1>2, <2>1 DEF CallsInv, PresetInv
  <2>3. QED
    BY <2>1, <2>2 DEF HandlerOK
<1>3. ASSUME NEW c, NEW d, NEW e, guiCalls' = <<c, d, e>>, CallOK(c), CallOK(d), CallOK(e),
             c[1] = "pose" /\ d[1] = "typed" /\ e[1] = "emit"
      PROVE  HandlerOK
  <2>1. /\ guiCalls' \in Seq({c, d, e}) /\ Len(guiCalls') = 3
        /\ guiCalls'[1] = c /\ guiCalls'[2] = d /\ guiCalls'[3] = e
    BY <1>3
  <2>2. /\ \A k \in 1 .. Len(guiCalls') : CallOK(guiCalls'[k]) /\ guiCalls'[k][1] # "fit"
        /\ CallsInv' /\ PresetInv'
    BY <1>3, <2>1 DEF CallsInv, PresetInv
  <2>3. QED
    BY <2>1, <2>2 DEF HandlerOK
<1>4. CASE guiCalls' = <<Emit>> \/ guiCalls' = <<Radius>>
  BY <1>1, <1>4, CallsOK
<1>5. CASE guiCalls' = <<Rotate, Emit>> \/ guiCalls' = <<Dolly, Emit>>
  BY <1>2, <1>5, CallsOK
<1>6. CASE guiCalls' = <<TypedPose, Typed, Emit>>
  BY <1>3, <1>6, CallsOK
<1>7. CASE \E size \in Resolutions : guiCalls' = <<Width(size), Height(size)>>
  BY <1>2, <1>7, CallsOK
<1>8. QED
  BY <1>4, <1>5, <1>6, <1>7 DEF Handles

\* A preset: its camera first, then its radius and its resolution in some order.
LEMMA PresetHandlerOK ==
    ASSUME NEW size \in Pairs, NEW hfov \in Pairs, NEW vfov \in Pairs,
           Fits([hfov |-> hfov, vfov |-> vfov], size),
           NEW a, NEW b, NEW c, NEW d, guiCalls' = <<Camera(hfov, vfov), a, b, c, d>>,
           {a, b, c, d} = {Emit, Radius, Width(size), Height(size)}
    PROVE  HandlerOK
<1> DEFINE first == Camera(hfov, vfov)
           S == {first, a, b, c, d}
<1>1. first[1] = "camera" /\ first[3] = hfov /\ first[4] = vfov /\ CallOK(first)
  BY DEF Camera, CallOK, CallNames
<1>2. /\ Emit[1] = "emit" /\ Radius[1] = "radius"
      /\ Width(size)[1] = "width" /\ Width(size)[2] = size[1]
      /\ Height(size)[1] = "height" /\ Height(size)[2] = size[2]
  BY CallsOK DEF Width, Height
<1>3. \A call \in {a, b, c, d} :
          /\ CallOK(call) /\ call[1] \in {"emit", "radius", "width", "height"}
          /\ call[1] = "width" => call[2] = size[1]
          /\ call[1] = "height" => call[2] = size[2]
  <2>1. size[1] \in Nat /\ size[2] \in Nat
    BY DEF Pairs
  <2>2. QED
    BY <1>2, <2>1 DEF CallOK, CallNames
<1> HIDE DEF first
<1>4. /\ guiCalls' \in Seq(S) /\ Len(guiCalls') = 5
      /\ guiCalls'[1] = first /\ guiCalls'[2] = a /\ guiCalls'[3] = b
      /\ guiCalls'[4] = c /\ guiCalls'[5] = d
  BY DEF first
<1>5. \A k \in 1 .. 5 : (k = 1 /\ guiCalls'[k] = first) \/ guiCalls'[k] \in {a, b, c, d}
  BY <1>4
<1>6. \A call \in {a, b, c, d} : \E k \in 2 .. 5 : guiCalls'[k] = call
  BY <1>4
<1>7. \A k \in 1 .. Len(guiCalls') : CallOK(guiCalls'[k]) /\ guiCalls'[k][1] # "fit"
  BY <1>1, <1>3, <1>4, <1>5
<1>8. CallsInv'
  <2>1. \E k \in 2 .. 5 : guiCalls'[k] = Emit
    BY <1>6
  <2>2. QED
    BY <1>1, <1>2, <1>3, <1>4, <1>5, <2>1 DEF CallsInv
<1>9. SizeToCome(size)'
  <2>1. \A k \in 1 .. Len(guiCalls') :
            /\ guiCalls'[k][1] = "width" => guiCalls'[k][2] = size[1]
            /\ guiCalls'[k][1] = "height" => guiCalls'[k][2] = size[2]
    BY <1>1, <1>3, <1>4, <1>5
  <2>2. \E i \in 2 .. 5 : guiCalls'[i] = Width(size)
    BY <1>6
  <2>3. \E i \in 2 .. 5 : guiCalls'[i] = Height(size)
    BY <1>6
  <2>4. Calls({"width"})' /\ Calls({"height"})'
    BY <1>2, <1>4, <2>2, <2>3 DEF Calls
  <2>5. QED
    BY <2>1, <2>4 DEF SizeToCome
<1>10. PresetInv'
  <2>1. \A k \in 1 .. Len(guiCalls') : guiCalls'[k][1] = "camera" =>
            guiCalls'[k][3] = hfov /\ guiCalls'[k][4] = vfov
    BY <1>1, <1>3, <1>4, <1>5
  <2>2. QED
    BY <1>9, <2>1 DEF PresetInv
<1>11. QED
  BY <1>4, <1>7, <1>8, <1>10 DEF HandlerOK

\* The pixels of each preset are in the proportion of its angles.
LEMMA PresetsOK ==
    ASSUME onCornell \/ onSponza \/ onConference
    PROVE  HandlerOK
<1>1. \A preset \in {Cornell, Sponza, Conference} :
          /\ preset.hfov \in Pairs /\ preset.vfov \in Pairs /\ preset.resolution \in Pairs
          /\ Fits([hfov |-> preset.hfov, vfov |-> preset.vfov], preset.resolution)
  <2>1. \A a, b, c, d, e, f \in Nat : a * d * f = b * c * e =>
            Fits([hfov |-> <<a, b>>, vfov |-> <<c, d>>], <<e, f>>)
    BY DEF Fits
  <2>2. /\ Fits([hfov |-> <<4, 9>>, vfov |-> <<3, 9>>], <<4, 3>>)
        /\ Fits([hfov |-> <<16, 31>>, vfov |-> <<9, 31>>], <<16, 9>>)
        /\ Fits([hfov |-> <<16, 35>>, vfov |-> <<9, 35>>], <<16, 9>>)
    BY <2>1
  <2>3. QED
    BY <2>2 DEF Cornell, Sponza, Conference, Pairs
<1>2. CASE onCornell
  BY <1>1, <1>2, PresetHandlerOK DEF onCornell, Handles
<1>3. CASE onSponza
  BY <1>1, <1>3, PresetHandlerOK DEF onSponza, Handles
<1>4. CASE onConference
  BY <1>1, <1>4, PresetHandlerOK DEF onConference, Handles
<1>5. QED
  BY <1>2, <1>3, <1>4

\* Every input and call of UserInterface
LEMMA InterfaceInv ==
    ASSUME TypeInv, ViewInv, InterfaceNext, UNCHANGED viewFrame
    PROVE  TypeInv' /\ ViewInv'
<1>1. CASE MousePress \/ MouseMove \/ CameraTyped \/ ResolutionTyped \/ RadiusTyped
  <2>1. /\ guiCalls = <<>> /\ UNCHANGED <<viewVars, m_PPMInitialRadius, appSlots>>
        /\ HandlerOK
    BY <1>1, PlainHandlerOK
       DEF MousePress, MouseMove, CameraTyped, ResolutionTyped, RadiusTyped, Handles
  <2>2. QED
    BY <2>1, HandlerInv
<1>2. CASE onCornell \/ onSponza \/ onConference
  <2>1. guiCalls = <<>> /\ UNCHANGED <<viewVars, m_PPMInitialRadius, appSlots>>
    BY <1>2 DEF onCornell, onSponza, onConference, Handles
  <2>2. QED
    BY <1>2, <2>1, PresetsOK, HandlerInv
<1>3. CASE transform \/ dolly \/ WriteTypedPose
  BY <1>3, PoseCallInv
<1>4. CASE WriteCamera
  BY <1>4, WriteCameraInv
<1>5. CASE WriteTypedAngles
  BY <1>5, WriteTypedAnglesInv
<1>6. CASE setPPMInitialRadius \/ EmitCameraUpdated
  BY <1>6, SignalCallInv
<1>7. CASE setWidth \/ setHeight
  BY <1>7, ResolutionCallInv
<1>8. QED
  BY <1>1, <1>2, <1>3, <1>4, <1>5, <1>6, <1>7 DEF InterfaceNext

-----------------------------------------------------------------------------
(***************************************************************************)
(* The queue of the manager's slots                                        *)
(***************************************************************************)

\* What the other threads queue with the manager, but for onSceneUpdated
SlotsGrow ==
    \/ slots' = slots
    \/ \E e \in SlotNames \ {"onSceneUpdated"} : slots' = Append(slots, e)
    \/ slots' = slots \o three

\* Another call at the end does not come between a scene and its restart.
LEMMA AppendFollows ==
    ASSUME NEW queue \in Seq(SlotNames), NEW e \in SlotNames \ {"onSceneUpdated"},
           RestartFollows(queue)
    PROVE  RestartFollows(Append(queue, e))
<1> DEFINE longer == Append(queue, e)
<1>1. /\ Len(queue) \in Nat /\ Len(longer) = Len(queue) + 1
      /\ \A i \in 1 .. Len(queue) : longer[i] = queue[i]
      /\ \A i \in 1 .. Len(longer) : i \in 1 .. Len(queue) \/ longer[i] = e
  OBVIOUS
<1>2. \A i \in 1 .. Len(queue) : \A j \in i + 1 .. Len(queue) :
          j \in i + 1 .. Len(longer) /\ j \in 1 .. Len(queue)
  BY <1>1
<1> HIDE DEF longer
<1>3. RestartFollows(longer)
  BY <1>1, <1>2 DEF RestartFollows
<1>4. QED
  BY <1>3 DEF longer

LEMMA SlotsGrown ==
    ASSUME TypeInv, SlotsGrow
    PROVE  /\ slots' \in Seq(SlotNames)
           /\ \A s : Queued(s, slots) => Queued(s, slots')
           /\ RestartFollows(slots) => RestartFollows(slots')
<1>1. slots \in Seq(SlotNames)
  BY DEF TypeInv
<1>2. CASE slots' = slots
  BY <1>1, <1>2
<1>3. CASE \E e \in SlotNames \ {"onSceneUpdated"} : slots' = Append(slots, e)
  BY <1>1, <1>3, QueuedAppend, AppendFollows
<1>4. CASE slots' = slots \o three
  BY <1>1, <1>4, ThreeFollow, QueuedThree
<1>5. QED
  BY <1>2, <1>3, <1>4 DEF SlotsGrow

\* The manager takes a call, and may queue its next turn.
SlotTaken ==
    /\ slots # <<>>
    /\ slots' = Tail(slots) \/ slots' = Append(Tail(slots), "onContinueRayTracing")

LEMMA SlotIsTaken ==
    ASSUME TypeInv, SlotTaken
    PROVE  /\ slots' \in Seq(SlotNames)
           /\ \A s : Queued(s, slots) => (s = Head(slots) \/ Queued(s, slots'))
           /\ RestartFollows(slots) => RestartFollows(slots')
           /\ (RestartFollows(slots) /\ Head(slots) = "onSceneUpdated") =>
                  Queued("onSequenceNumberIncremented", slots')
<1> DEFINE rest == Tail(slots)
<1>1. slots \in Seq(SlotNames) /\ slots # <<>>
  BY DEF TypeInv, SlotTaken
<1>2. /\ rest \in Seq(SlotNames)
      /\ 1 \in 1 .. Len(slots) /\ Head(slots) = slots[1]
      /\ Len(slots) \in Nat /\ Len(rest) = Len(slots) - 1
      /\ \A i \in 1 .. Len(rest) : /\ i \in Nat /\ i + 1 \in 1 .. Len(slots)
                                   /\ rest[i] = slots[i + 1]
      /\ \A i \in 1 .. Len(slots) :
             \/ i = 1
             \/ (i \in Nat /\ i - 1 \in 1 .. Len(rest) /\ rest[i - 1] = slots[i])
  BY <1>1, TailOfQueue
<1>3. \A s : Queued(s, slots) => (s = Head(slots) \/ Queued(s, rest))
  BY <1>1, QueuedTail
<1> HIDE DEF rest
<1>4. RestartFollows(slots) => RestartFollows(rest)
  <2> SUFFICES ASSUME RestartFollows(slots), NEW i \in 1 .. Len(rest),
                      rest[i] = "onSceneUpdated"
               PROVE  \E j \in i + 1 .. Len(rest) : rest[j] = "onSequenceNumberIncremented"
    BY DEF RestartFollows
  <2>1. i \in Nat /\ i + 1 \in 1 .. Len(slots) /\ slots[i + 1] = "onSceneUpdated"
    BY <1>2
  <2>2. PICK j \in (i + 1) + 1 .. Len(slots) : slots[j] = "onSequenceNumberIncremented"
    BY <2>1 DEF RestartFollows
  <2>3. j \in 1 .. Len(slots) /\ j # 1 /\ j \in Nat /\ j - 1 \in i + 1 .. Len(rest)
    BY <1>2, <2>1
  <2>4. QED
    BY <1>2, <2>2, <2>3
<1>5. (RestartFollows(slots) /\ Head(slots) = "onSceneUpdated") =>
          Queued("onSequenceNumberIncremented", rest)
  <2> SUFFICES ASSUME RestartFollows(slots), Head(slots) = "onSceneUpdated"
               PROVE  Queued("onSequenceNumberIncremented", rest)
    OBVIOUS
  <2>1. PICK j \in 1 + 1 .. Len(slots) : slots[j] = "onSequenceNumberIncremented"
    BY <1>2 DEF RestartFollows
  <2>2. j \in 1 .. Len(slots) /\ j # 1
    BY <1>2
  <2>3. QED
    BY <1>2, <2>1, <2>2 DEF Queued
<1>6. CASE slots' = rest
  BY <1>2, <1>3, <1>4, <1>5, <1>6
<1>7. CASE slots' = Append(rest, "onContinueRayTracing")
  <2>1. "onContinueRayTracing" \in SlotNames \ {"onSceneUpdated"}
    BY DEF SlotNames
  <2>2. /\ slots' \in Seq(SlotNames)
        /\ \A s : Queued(s, slots') <=> Queued(s, rest) \/ s = "onContinueRayTracing"
    BY <1>2, <1>7, <2>1, QueuedAppend
  <2>3. RestartFollows(rest) => RestartFollows(slots')
    BY <1>2, <1>7, <2>1, AppendFollows
  <2>4. QED
    BY <1>3, <1>4, <1>5, <2>2, <2>3
<1>8. QED
  BY <1>6, <1>7 DEF SlotTaken, rest

-----------------------------------------------------------------------------
(***************************************************************************)
(* The view: Application's slots, and the other threads                    *)
(***************************************************************************)

\* Whoever writes neither to the view nor to what the manager has of it
quietVars == <<guiCalls, m_camera, resolution, anglesMayDiffer, m_PPMInitialRadius, fitting,
               managerCamera, startRadius>>

\* ... and takes no call that starts a sequence, or starts it.
LEMMA QuietInv ==
    ASSUME TypeInv, ViewInv, UNCHANGED quietVars, slots' \in Seq(SlotNames),
           appSlots' \in Seq(AppSlotNames), m_scene' \in Addresses \cup {NULL},
           DOMAIN sceneAt' = Addresses,
           \A s \in RestartSlots : Queued(s, appSlots) =>
               \/ Queued(s, appSlots')
               \/ /\ s \notin {"onSceneUpdated", "onOutputSettingsUpdated"}
                  /\ Queued("onSequenceNumberIncremented", slots'),
           Queued("onSequenceNumberIncremented", slots) =>
               Queued("onSequenceNumberIncremented", slots')
    PROVE  TypeInv' /\ ViewInv'
<1> USE DEF quietVars
<1>1. TypeInv'
  BY DEF TypeInv, CallOK, CameraOK
<1>2. \A names : Calls(names) <=> Calls(names)'
  BY DEF Calls
<1>3. \A size : SizeToCome(size) <=> SizeToCome(size)'
  BY <1>2 DEF SizeToCome
<1>4. CallsInv'
  BY DEF ViewInv, CallsInv
<1>5. PresetInv'
  BY <1>3 DEF ViewInv, PresetInv, Fits
<1>6. \A s \in {"onSceneUpdated", "onOutputSettingsUpdated"} :
          Queued(s, appSlots) => Queued(s, appSlots')
  BY DEF RestartSlots
<1>7. SequencePending => SequencePending'
  BY DEF SequencePending
<1>8. CameraInv'
  BY <1>2, <1>7 DEF ViewInv, CameraInv, ViewPending
<1>9. FitInv'
  BY <1>6 DEF ViewInv, FitInv
<1>10. DistortionInv'
  <2>1. FitPending => FitPending'
    BY <1>2, <1>6 DEF FitPending
  <2>2. QED
    BY <1>3, <2>1 DEF ViewInv, DistortionInv, Fits
<1>11. QED
  BY <1>1, <1>4, <1>5, <1>8, <1>9, <1>10 DEF ViewInv

\* Nothing is taken from Application's queue.
AppSlotsGrow ==
    appSlots' = appSlots \/ \E e \in AppSlotNames : appSlots' = Append(appSlots, e)

LEMMA AppSlotsGrown ==
    ASSUME TypeInv, AppSlotsGrow
    PROVE  /\ appSlots' \in Seq(AppSlotNames)
           /\ \A s : Queued(s, appSlots) => Queued(s, appSlots')
<1>1. appSlots \in Seq(AppSlotNames)
  BY DEF TypeInv
<1>2. CASE appSlots' = appSlots
  BY <1>1, <1>2
<1>3. CASE \E e \in AppSlotNames : appSlots' = Append(appSlots, e)
  BY <1>1, <1>3, QueuedAppend
<1>4. QED
  BY <1>2, <1>3 DEF AppSlotsGrow

LEMMA QuietGrowInv ==
    ASSUME TypeInv, ViewInv, UNCHANGED quietVars,
           SlotsGrow \/ slots' = Append(slots, "onSceneUpdated"), AppSlotsGrow,
           m_scene' \in Addresses \cup {NULL}, DOMAIN sceneAt' = Addresses
    PROVE  TypeInv' /\ ViewInv'
<1>1. /\ appSlots' \in Seq(AppSlotNames)
      /\ \A s : Queued(s, appSlots) => Queued(s, appSlots')
  BY AppSlotsGrown
<1>2. slots' \in Seq(SlotNames) /\ \A s : Queued(s, slots) => Queued(s, slots')
  <2>1. CASE SlotsGrow
    BY <2>1, SlotsGrown
  <2>2. CASE slots' = Append(slots, "onSceneUpdated")
    <3>1. slots \in Seq(SlotNames) /\ "onSceneUpdated" \in SlotNames
      BY DEF TypeInv, SlotNames
    <3>2. QED
      BY <2>2, <3>1, QueuedAppend
  <2>3. QED
    BY <2>1, <2>2
<1>3. QED
  BY <1>1, <1>2, QuietInv

\* Application takes a call from its queue.
LEMMA AppSlotTaken ==
    ASSUME TypeInv, NEW slot, ApplicationCalled(slot)
    PROVE  /\ appSlots' \in Seq(AppSlotNames)
           /\ \A s : Queued(s, appSlots) => s = slot \/ Queued(s, appSlots')
           /\ Queued(slot, appSlots) /\ fitting = NotFitting /\ UNCHANGED guiCalls
<1>1. /\ appSlots \in Seq(AppSlotNames) /\ appSlots # <<>>
      /\ Head(appSlots) = slot /\ appSlots' = Tail(appSlots)
      /\ fitting = NotFitting /\ UNCHANGED guiCalls
  BY DEF TypeInv, ApplicationCalled, ApplicationIdle
<1>2. QED
  BY <1>1, QueuedTail

\* A slot that starts a sequence without more
LEMMA StartSequenceInv ==
    ASSUME TypeInv, ViewInv, SettingsUpdated \/ onRenderRestart
    PROVE  TypeInv' /\ ViewInv'
<1>1. PICK slot \in {"onCameraUpdated", "onPPMSettingsUpdated", "onRenderRestart"} :
          ApplicationCalled(slot)
  BY DEF SettingsUpdated, onRenderRestart
<1>2. /\ UNCHANGED <<viewVars, m_PPMInitialRadius, fitting, m_scene, sceneAt, settings>>
      /\ slots' = Append(slots, "onSequenceNumberIncremented")
  BY DEF SettingsUpdated, onRenderRestart, incrementSequenceNumber, appVars, sceneVars,
         managerVars
<1>3. /\ slots' \in Seq(SlotNames)
      /\ \A s : Queued(s, slots') <=> Queued(s, slots) \/ s = "onSequenceNumberIncremented"
  <2>1. slots \in Seq(SlotNames) /\ "onSequenceNumberIncremented" \in SlotNames
    BY DEF TypeInv, SlotNames
  <2>2. QED
    BY <1>2, <2>1, QueuedAppend
<1>4. /\ appSlots' \in Seq(AppSlotNames)
      /\ \A s : Queued(s, appSlots) => s = slot \/ Queued(s, appSlots')
      /\ UNCHANGED guiCalls
  BY <1>1, AppSlotTaken
<1>5. UNCHANGED quietVars
  BY <1>2, <1>4 DEF quietVars, viewVars, settings
<1>6. m_scene' \in Addresses \cup {NULL} /\ DOMAIN sceneAt' = Addresses
  BY <1>2 DEF TypeInv
<1>7. QED
  BY <1>3, <1>4, <1>5, <1>6, QuietInv

\* A new scene only pauses the rendering.
LEMMA LoadingNewInv ==
    ASSUME TypeInv, ViewInv, onSceneLoadingNew
    PROVE  TypeInv' /\ ViewInv'
<1>1. /\ ApplicationCalled("onSceneLoadingNew") /\ SlotsGrow
      /\ UNCHANGED <<viewVars, m_PPMInitialRadius, fitting, m_scene, sceneAt, settings>>
  BY DEF onSceneLoadingNew, setRunningStatus, SlotsGrow, SlotNames, sceneVars, managerVars
<1>2. slots' \in Seq(SlotNames) /\ \A s : Queued(s, slots) => Queued(s, slots')
  BY <1>1, SlotsGrown
<1>3. /\ appSlots' \in Seq(AppSlotNames)
      /\ \A s : Queued(s, appSlots) => s = "onSceneLoadingNew" \/ Queued(s, appSlots')
      /\ UNCHANGED guiCalls
  BY <1>1, AppSlotTaken
<1>4. UNCHANGED quietVars
  BY <1>1, <1>3 DEF quietVars, viewVars, settings
<1>5. m_scene' \in Addresses \cup {NULL} /\ DOMAIN sceneAt' = Addresses
  BY <1>1 DEF TypeInv
<1>6. "onSceneLoadingNew" \notin RestartSlots
  BY DEF RestartSlots
<1>7. QED
  BY <1>2, <1>3, <1>4, <1>5, <1>6, QuietInv

\* The reading part of a fit: the camera is to be written again.
LEMMA StartFitInv ==
    ASSUME TypeInv, ViewInv, onOutputSettingsUpdated \/ TakeDefaultCamera
    PROVE  TypeInv' /\ ViewInv'
<1>1. PICK slot \in {"onOutputSettingsUpdated", "onSceneUpdated"} :
          /\ ApplicationCalled(slot)
          /\ fitting' = [slot |-> slot, measured |-> Measured(m_camera', resolution)]
          /\ m_camera' = m_camera \/ m_camera' = DefaultCamera(sceneAt[m_scene])
  BY DEF onOutputSettingsUpdated, TakeDefaultCamera, viewVars
<1>2. UNCHANGED <<resolution, anglesMayDiffer, slots, m_scene, sceneAt>>
  BY DEF onOutputSettingsUpdated, TakeDefaultCamera, viewVars, sceneVars
<1>3. /\ appSlots' \in Seq(AppSlotNames)
      /\ \A s : Queued(s, appSlots) => s = slot \/ Queued(s, appSlots')
      /\ UNCHANGED guiCalls
  BY <1>1, AppSlotTaken
<1>4. CameraOK(m_camera')
  BY <1>1, DefaultCameraOK DEF TypeInv
<1>5. /\ Measured(m_camera', resolution) \in Measures
      /\ Measured(m_camera', resolution).ratio = resolution
  BY <1>4, MeasuredOK DEF TypeInv
<1>6. /\ fitting'.slot = slot /\ fitting'.measured \in Measures
      /\ fitting'.measured.ratio = resolution /\ fitting' # NotFitting
  <2>1. slot # None
    BY DEF None
  <2>2. fitting'.slot = slot /\ fitting'.measured = Measured(m_camera', resolution)
    BY <1>1
  <2>3. NotFitting.slot = None
    BY DEF NotFitting
  <2>4. QED
    BY <1>5, <2>1, <2>2, <2>3
<1>7. TypeInv'
  BY <1>2, <1>3, <1>4, <1>6 DEF TypeInv, CallOK, CameraOK
<1>8. CallsInv'
  BY <1>3 DEF ViewInv, CallsInv
<1>9. PresetInv'
  <2>1. \A size : SizeToCome(size) => SizeToCome(size)'
    BY <1>2, <1>3 DEF SizeToCome, Calls
  <2>2. QED
    BY <1>3, <2>1 DEF ViewInv, PresetInv, Fits
<1>10. CameraInv'
  BY <1>6 DEF CameraInv, ViewPending, SequencePending
<1>11. FitInv'
  BY <1>2, <1>3, <1>6 DEF ViewInv, FitInv
<1>12. DistortionInv'
  BY <1>6 DEF DistortionInv, FitPending
<1>13. QED
  BY <1>7, <1>8, <1>9, <1>10, <1>11, <1>12 DEF ViewInv

\* The camera is fitted: to the resolution of now, or Application will be told of it.
LEMMA FitEnds ==
    ASSUME TypeInv, NEW measured \in Measures, FitCamera(measured),
           \/ measured.ratio = resolution
           \/ Queued("onOutputSettingsUpdated", appSlots')
    PROVE  CameraOK(m_camera') /\ anglesMayDiffer' \in BOOLEAN /\ DistortionInv'
<1>1. /\ m_camera' = setAspectRatio(m_camera, measured)
      /\ anglesMayDiffer' = (measured # Measured(m_camera, measured.ratio))
      /\ resolution' = resolution
  BY DEF FitCamera
<1>2. CameraOK(m_camera) /\ measured.ratio \in Pairs
  BY DEF TypeInv, Measures
<1>3. CameraOK(m_camera')
  BY <1>1, <1>2, AspectRatioSet
<1>4. ~anglesMayDiffer' => Fits(m_camera', measured.ratio)
  <2> SUFFICES ASSUME ~anglesMayDiffer' PROVE Fits(m_camera', measured.ratio)
    OBVIOUS
  <2>1. measured = Measured(m_camera, measured.ratio)
    BY <1>1
  <2>2. Fits(setAspectRatio(m_camera, Measured(m_camera, measured.ratio)), measured.ratio)
    BY <1>2, AspectRatioFits
  <2>3. m_camera' = setAspectRatio(m_camera, Measured(m_camera, measured.ratio))
    BY <1>1, <2>1
  <2>4. QED
    BY <2>2, <2>3
<1>5. DistortionInv'
  BY <1>1, <1>4 DEF DistortionInv, FitPending
<1>6. QED
  BY <1>1, <1>3, <1>5

\* The writing part of Application's two fits
LEMMA EndFitInv ==
    ASSUME TypeInv, ViewInv, OutputSettingsFit \/ onSceneUpdatedFit
    PROVE  TypeInv' /\ ViewInv'
<1>1. /\ fitting # NotFitting /\ FitCamera(fitting.measured) /\ fitting' = NotFitting
      /\ UNCHANGED <<resolution, guiCalls, appSlots, m_scene, sceneAt>>
  <2>1. /\ fitting.slot \in {"onOutputSettingsUpdated", "onSceneUpdated"}
        /\ FitCamera(fitting.measured) /\ fitting' = NotFitting
        /\ UNCHANGED <<resolution, guiCalls, appSlots, m_scene, sceneAt>>
    BY DEF OutputSettingsFit, onSceneUpdatedFit, FitCamera, sceneVars
  <2>2. NotFitting.slot = "none"
    BY DEF NotFitting, None
  <2>3. QED
    BY <2>1, <2>2
<1>2. /\ slots' \in Seq(SlotNames)
      /\ Queued("onSequenceNumberIncremented", slots')
  <2>1. slots \in Seq(SlotNames) /\ "onSequenceNumberIncremented" \in SlotNames
    BY DEF TypeInv, SlotNames
  <2>2. \/ slots' = Append(slots, "onSequenceNumberIncremented")
        \/ slots' = slots \o three
    BY DEF OutputSettingsFit, onSceneUpdatedFit, incrementSequenceNumber, three
  <2>3. CASE slots' = Append(slots, "onSequenceNumberIncremented")
    BY <2>1, <2>3, QueuedAppend
  <2>4. CASE slots' = slots \o three
    BY <2>1, <2>4, QueuedThree
  <2>5. QED
    BY <2>2, <2>3, <2>4
<1>3. /\ fitting.measured \in Measures
      /\ \/ fitting.measured.ratio = resolution
         \/ Queued("onOutputSettingsUpdated", appSlots')
  BY <1>1 DEF TypeInv, ViewInv, FitInv
<1>4. CameraOK(m_camera') /\ anglesMayDiffer' \in BOOLEAN /\ DistortionInv'
  BY <1>1, <1>3, FitEnds
<1>5. TypeInv'
  BY <1>1, <1>2, <1>4 DEF TypeInv, CallOK, CameraOK
<1>6. CallsInv'
  BY <1>1 DEF ViewInv, CallsInv
<1>7. PresetInv'
  <2>1. \A size : SizeToCome(size) => SizeToCome(size)'
    BY <1>1 DEF SizeToCome, Calls
  <2>2. QED
    BY <1>1, <2>1 DEF ViewInv, PresetInv, Fits
<1>8. CameraInv'
  BY <1>2 DEF CameraInv, ViewPending, SequencePending
<1>9. FitInv'
  BY <1>1 DEF ViewInv, FitInv
<1>10. QED
  BY <1>4, <1>5, <1>6, <1>7, <1>8, <1>9 DEF ViewInv

\* setCameraToSceneDefault in the user's thread: the reading part
LEMMA SetCameraToDefaultInv ==
    ASSUME TypeInv, ViewInv, SetCameraToDefault
    PROVE  TypeInv' /\ ViewInv'
<1> DEFINE call == <<"fit", Measured(m_camera', resolution)>>
<1>1. /\ guiCalls = <<>> /\ guiCalls' = <<call>>
      /\ m_camera' = DefaultCamera(sceneAt[m_scene])
      /\ UNCHANGED <<resolution, anglesMayDiffer, appSlots, fitting, m_scene, sceneAt, slots>>
  BY DEF SetCameraToDefault, appVars, sceneVars
<1>2. CameraOK(m_camera')
  BY <1>1, DefaultCameraOK
<1>3. /\ Measured(m_camera', resolution) \in Measures
      /\ Measured(m_camera', resolution).ratio = resolution
  BY <1>2, MeasuredOK DEF TypeInv
<1>4. call[1] = "fit" /\ call[2] \in Measures /\ call[2].ratio = resolution /\ CallOK(call)
  BY <1>3 DEF CallOK, CallNames
<1> HIDE DEF call
<1>5. /\ guiCalls' \in Seq({call}) /\ Len(guiCalls') = 1
      /\ \A k \in 1 .. Len(guiCalls') : k = 1 /\ guiCalls'[k] = call
      /\ 1 \in 1 .. Len(guiCalls')
  BY <1>1
<1>6. TypeInv'
  <2>1. \A k \in 1 .. Len(guiCalls') : CallOK(guiCalls'[k])
    BY <1>4, <1>5
  <2>2. QED
    BY <1>1, <1>2, <1>5, <2>1 DEF TypeInv, CallOK, CameraOK
<1>7. CallsInv' /\ PresetInv'
  BY <1>4, <1>5 DEF CallsInv, PresetInv
<1>8. Calls({"fit"})' /\ Calls({"emit", "radius", "fit"})'
  BY <1>4, <1>5 DEF Calls
<1>9. CameraInv' /\ DistortionInv'
  BY <1>8 DEF CameraInv, ViewPending, DistortionInv, FitPending
<1>10. FitInv'
  BY <1>1, <1>4, <1>5 DEF ViewInv, FitInv
<1>11. QED
  BY <1>6, <1>7, <1>9, <1>10 DEF ViewInv

\* ... and the writing part
LEMMA DefaultCameraFitInv ==
    ASSUME TypeInv, ViewInv, DefaultCameraFit
    PROVE  TypeInv' /\ ViewInv'
<1> DEFINE measured == guiCalls[1][2]
<1>1. /\ guiCalls # <<>> /\ Head(guiCalls)[1] = "fit" /\ guiCalls' = Tail(guiCalls)
      /\ FitCamera(Head(guiCalls)[2])
      /\ slots' = Append(slots, "onSequenceNumberIncremented")
      /\ UNCHANGED <<resolution, appSlots, fitting, m_scene, sceneAt>>
  BY DEF DefaultCameraFit, Call, FitCamera, incrementSequenceNumber, appVars, sceneVars
<1>2. 1 \in 1 .. Len(guiCalls) /\ Head(guiCalls) = guiCalls[1] /\ CallOK(guiCalls[1])
  BY <1>1, CallTaken DEF ViewInv
<1>3. /\ guiCalls[1][1] = "fit" /\ measured \in Measures /\ measured.ratio = resolution
      /\ Len(guiCalls) = 1 /\ FitCamera(measured)
  BY <1>1, <1>2 DEF CallOK, ViewInv, FitInv
<1> HIDE DEF measured
<1>4. CameraOK(m_camera') /\ anglesMayDiffer' \in BOOLEAN /\ DistortionInv'
  BY <1>3, FitEnds
<1>5. /\ slots' \in Seq(SlotNames)
      /\ Queued("onSequenceNumberIncremented", slots')
  <2>1. slots \in Seq(SlotNames) /\ "onSequenceNumberIncremented" \in SlotNames
    BY DEF TypeInv, SlotNames
  <2>2. QED
    BY <1>1, <2>1, QueuedAppend
<1>6. TypeInv'
  BY <1>1, <1>4, <1>5, CallTypes DEF TypeInv, ViewInv
<1>7. ResolutionFollows /\ ResolutionTold
  BY <1>1, <1>3 DEF ResolutionFollows, ResolutionTold
<1>8. CallsInv' /\ PresetInv' /\ FitInv'
  BY <1>1, <1>7, CallOrder DEF ViewInv
<1>9. CameraInv'
  BY <1>5 DEF CameraInv, ViewPending, SequencePending
<1>10. QED
  BY <1>4, <1>6, <1>8, <1>9 DEF ViewInv

\* The manager copies the view.
LEMMA SequenceInv ==
    ASSUME TypeInv, ViewInv, onSequenceNumberIncremented
    PROVE  TypeInv' /\ ViewInv'
<1>1. /\ managerCamera' = m_camera /\ startRadius' = m_PPMInitialRadius /\ SlotTaken
      /\ UNCHANGED <<guiCalls, m_camera, resolution, anglesMayDiffer, m_PPMInitialRadius,
                     fitting, appSlots, m_scene, sceneAt>>
  BY DEF onSequenceNumberIncremented, Called, continueRayTracingIfRunningAsync, SlotTaken,
         guiVars, interfaceVars, viewVars, appVars, sceneVars
<1>2. slots' \in Seq(SlotNames)
  BY <1>1, SlotIsTaken
<1>3. TypeInv'
  BY <1>1, <1>2 DEF TypeInv, CallOK, CameraOK
<1>4. /\ \A names : Calls(names) <=> Calls(names)'
      /\ \A size : SizeToCome(size) => SizeToCome(size)'
  BY <1>1 DEF SizeToCome, Calls
<1>5. CallsInv'
  BY <1>1 DEF ViewInv, CallsInv
<1>6. PresetInv'
  BY <1>1, <1>4 DEF ViewInv, PresetInv, Fits
<1>7. CameraInv'
  BY <1>1 DEF CameraInv
<1>8. FitInv'
  BY <1>1 DEF ViewInv, FitInv
<1>9. DistortionInv'
  <2>1. FitPending => FitPending'
    BY <1>1, <1>4 DEF FitPending
  <2>2. QED
    BY <1>1, <1>4, <2>1 DEF ViewInv, DistortionInv, Fits
<1>10. QED
  BY <1>3, <1>5, <1>6, <1>7, <1>8, <1>9 DEF ViewInv

-----------------------------------------------------------------------------
(***************************************************************************)
(* The picture: the user's thread and Application                          *)
(***************************************************************************)

\* What only the scene manager and the render manager write
pictureVars == <<m_currentScene, m_scene, sceneAt, m_compileScene, compiledScene,
                 addressReused, m_nextIterationNumber, pc, frame>>

\* A thread that changes the picture starts a sequence for it, unless the method is
\* changed with no restart.
LEMMA OtherPictureInv ==
    ASSUME TypeInv, PictureInv, UNCHANGED pictureVars, SlotsGrow,
           Queued("onSceneUpdated", appSlots) =>
               Queued("onSceneUpdated", appSlots') \/ fitting'.slot = "onSceneUpdated",
           fitting.slot = "onSceneUpdated" =>
               fitting'.slot = "onSceneUpdated" \/ RestartFollows(slots'),
           SequencePending => SequencePending',
           \/ UNCHANGED <<resolution, m_renderMethod, chosenMethod, notRestarted>>
           \/ SequencePending' \/ chosenMethod' # None \/ notRestarted'
    PROVE  PictureInv'
<1> USE DEF PictureInv, pictureVars
<1>1. /\ \A s : Queued(s, slots) => Queued(s, slots')
      /\ RestartFollows(slots) => RestartFollows(slots')
  BY SlotsGrown
<1>2. SceneOrderInv'
  BY <1>1 DEF SceneOrderInv
<1>3. SceneInv'
  BY <1>1 DEF SceneInv
<1>4. FrameInv'
  BY DEF FrameInv
<1>5. QED
  BY <1>2, <1>3, <1>4

\* The slots are not those of NotFitting.
LEMMA NotFittingSlot == NotFitting.slot \notin AppSlotNames
BY DEF NotFitting, None, AppSlotNames, RestartSlots

\* Whatever increments the sequence number
LEMMA IncrementPending ==
    ASSUME TypeInv, incrementSequenceNumber
    PROVE  SlotsGrow /\ SequencePending' /\ Queued("onSequenceNumberIncremented", slots')
<1>1. slots \in Seq(SlotNames) /\ "onSequenceNumberIncremented" \in SlotNames \ {"onSceneUpdated"}
  BY DEF TypeInv, SlotNames
<1>2. slots' = Append(slots, "onSequenceNumberIncremented")
  BY DEF incrementSequenceNumber
<1>3. Queued("onSequenceNumberIncremented", slots')
  BY <1>1, <1>2, QueuedAppend
<1>4. QED
  BY <1>1, <1>2, <1>3 DEF SlotsGrow, SequencePending

\* A pause, a restart, the choice of a scene or of a method, and what is shown
LEMMA PlainStepInv ==
    ASSUME IInv, \/ SetRunning \/ TogglePause \/ LoadScene \/ RestartClicked \/ displayFrame
                 \/ \E method \in RenderMethods : setRenderMethod(method)
                 \/ AssignRenderMethod \/ UNCHANGED vars
    PROVE  IInv'
<1> USE DEF IInv
<1>1. /\ UNCHANGED <<guiCalls, viewVars, m_PPMInitialRadius, fitting, settings>>
      /\ UNCHANGED pictureVars
  BY DEF SetRunning, TogglePause, LoadScene, RestartClicked, displayFrame, setRenderMethod,
         AssignRenderMethod, vars, ApplicationInput, guiVars, interfaceVars, appVars, sceneVars,
         managerVars, rendererVars, history, pictureVars
<1>2. SlotsGrow /\ AppSlotsGrow
  <2>1. CASE SetRunning
    BY <2>1 DEF SetRunning, setRunningStatus, SlotsGrow, AppSlotsGrow, SlotNames, guiVars,
                interfaceVars
  <2>2. CASE TogglePause
    BY <2>2 DEF TogglePause, setRunningStatus, SlotsGrow, AppSlotsGrow, SlotNames,
                ApplicationInput
  <2>3. CASE LoadScene
    BY <2>3 DEF LoadScene, SlotsGrow, AppSlotsGrow, AppSlotNames
  <2>4. CASE RestartClicked
    BY <2>4, IncrementPending DEF RestartClicked, AppSlotsGrow, ApplicationInput
  <2>5. CASE \E method \in RenderMethods : setRenderMethod(method)
    BY <2>5, IncrementPending DEF setRenderMethod, AppSlotsGrow
  <2>6. CASE AssignRenderMethod
    BY <2>6 DEF AssignRenderMethod, SlotsGrow, AppSlotsGrow, AppSlotNames, RestartSlots
  <2>7. CASE displayFrame \/ UNCHANGED vars
    BY <2>7 DEF displayFrame, vars, guiVars, interfaceVars, SlotsGrow, AppSlotsGrow
  <2>8. QED
    BY <2>1, <2>2, <2>3, <2>4, <2>5, <2>6, <2>7
<1>3. UNCHANGED quietVars
  BY <1>1 DEF quietVars, viewVars, settings
<1>4. m_scene' \in Addresses \cup {NULL} /\ DOMAIN sceneAt' = Addresses
  BY <1>1 DEF TypeInv, pictureVars
<1>5. TypeInv' /\ ViewInv'
  BY <1>2, <1>3, <1>4, QuietGrowInv
<1>6. /\ \A s : Queued(s, appSlots) => Queued(s, appSlots')
      /\ \A s : Queued(s, slots) => Queued(s, slots')
      /\ RestartFollows(slots) => RestartFollows(slots')
  BY <1>2, AppSlotsGrown, SlotsGrown
<1>7. SequencePending => SequencePending'
  BY <1>1, <1>6 DEF SequencePending
<1>8. \/ UNCHANGED <<resolution, m_renderMethod, chosenMethod, notRestarted>>
      \/ SequencePending' \/ chosenMethod' # None \/ notRestarted'
  <2>1. CASE RestartClicked \/ \E method \in RenderMethods : setRenderMethod(method)
    BY <2>1, IncrementPending DEF RestartClicked, setRenderMethod
  <2>2. CASE AssignRenderMethod
    <3>1. CASE HasScene
      <4>1. appSlots \in Seq(AppSlotNames) /\ "onRenderRestart" \in AppSlotNames
        BY DEF TypeInv, AppSlotNames, RestartSlots
      <4>2. appSlots' = Append(appSlots, "onRenderRestart")
        BY <2>2, <3>1 DEF AssignRenderMethod
      <4>3. Queued("onRenderRestart", appSlots')
        BY <4>1, <4>2, QueuedAppend
      <4>4. QED
        BY <4>3 DEF SequencePending, RestartSlots
    <3>2. CASE ~HasScene
      BY <2>2, <3>2 DEF AssignRenderMethod
    <3>3. QED
      BY <3>1, <3>2
  <2>3. CASE SetRunning \/ TogglePause \/ LoadScene \/ displayFrame \/ UNCHANGED vars
    BY <1>1, <2>3 DEF SetRunning, TogglePause, LoadScene, displayFrame, vars, viewVars, guiVars,
            appVars, history
  <2>4. QED
    BY <2>1, <2>2, <2>3
<1>9. PictureInv'
  BY <1>1, <1>2, <1>6, <1>7, <1>8, OtherPictureInv
<1>10. QED
  BY <1>5, <1>9

\* Application's slots
LEMMA ApplicationInv ==
    ASSUME IInv, ApplicationThread
    PROVE  IInv'
<1> USE DEF IInv
<1>1. CASE SetRunning
  BY <1>1, PlainStepInv
<1>2. CASE SettingsUpdated \/ onRenderRestart
  <2>1. TypeInv' /\ ViewInv'
    BY <1>2, StartSequenceInv
  <2>2. UNCHANGED pictureVars /\ UNCHANGED fitting /\ incrementSequenceNumber
    BY <1>2 DEF SettingsUpdated, onRenderRestart, pictureVars, appVars, sceneVars, managerVars,
            rendererVars
  <2>3. PICK slot \in RestartSlots \ {"onSceneUpdated"} : ApplicationCalled(slot)
    BY <1>2 DEF SettingsUpdated, onRenderRestart, RestartSlots
  <2>4. Queued("onSceneUpdated", appSlots) => Queued("onSceneUpdated", appSlots')
    BY <2>3, AppSlotTaken
  <2>5. PictureInv'
    BY <2>2, <2>4, IncrementPending, OtherPictureInv
  <2>6. QED
    BY <2>1, <2>5
<1>3. CASE onSceneLoadingNew
  <2>1. TypeInv' /\ ViewInv'
    BY <1>3, LoadingNewInv
  <2>2. /\ UNCHANGED pictureVars /\ UNCHANGED fitting /\ ApplicationCalled("onSceneLoadingNew")
        /\ UNCHANGED <<resolution, m_renderMethod, chosenMethod, notRestarted>>
    BY <1>3 DEF onSceneLoadingNew, pictureVars, viewVars, sceneVars, managerVars, rendererVars,
            history
  <2>3. SlotsGrow
    BY <1>3 DEF onSceneLoadingNew, setRunningStatus, SlotsGrow, SlotNames
  <2>4. /\ \A s : Queued(s, appSlots) => s = "onSceneLoadingNew" \/ Queued(s, appSlots')
        /\ \A s : Queued(s, slots) => Queued(s, slots')
    BY <2>2, <2>3, AppSlotTaken, SlotsGrown
  <2>5. SequencePending => SequencePending'
    BY <2>2, <2>4 DEF SequencePending, RestartSlots
  <2>6. PictureInv'
    BY <2>2, <2>3, <2>4, <2>5, OtherPictureInv
  <2>7. QED
    BY <2>1, <2>6
<1>4. CASE onOutputSettingsUpdated \/ TakeDefaultCamera
  <2>1. TypeInv' /\ ViewInv'
    BY <1>4, StartFitInv
  <2>2. PICK slot \in {"onOutputSettingsUpdated", "onSceneUpdated"} :
            ApplicationCalled(slot) /\ fitting'.slot = slot
    BY <1>4 DEF onOutputSettingsUpdated, TakeDefaultCamera
  <2>3. UNCHANGED pictureVars /\ SlotsGrow
    BY <1>4 DEF onOutputSettingsUpdated, TakeDefaultCamera, pictureVars, sceneVars, managerVars,
            rendererVars, history, SlotsGrow
  <2>4. /\ \A s : Queued(s, appSlots) => s = slot \/ Queued(s, appSlots')
        /\ fitting = NotFitting
    BY <2>2, AppSlotTaken
  <2>5. NotFitting.slot \notin {"onOutputSettingsUpdated", "onSceneUpdated"}
    BY NotFittingSlot DEF AppSlotNames, RestartSlots
  <2>6. SequencePending'
    BY <2>2, <2>5 DEF SequencePending
  <2>7. PictureInv'
    BY <2>2, <2>3, <2>4, <2>5, <2>6, OtherPictureInv
  <2>8. QED
    BY <2>1, <2>7
<1>5. CASE OutputSettingsFit \/ onSceneUpdatedFit
  <2>1. TypeInv' /\ ViewInv'
    BY <1>5, EndFitInv
  <2>2. UNCHANGED pictureVars /\ appSlots' = appSlots
    BY <1>5 DEF OutputSettingsFit, onSceneUpdatedFit, pictureVars, sceneVars, managerVars,
            rendererVars
  <2>3. slots \in Seq(SlotNames)
    BY DEF TypeInv
  <2>4. SlotsGrow /\ SequencePending' /\ (fitting.slot = "onSceneUpdated" => RestartFollows(slots'))
    <3>1. CASE OutputSettingsFit
      BY <3>1, IncrementPending DEF OutputSettingsFit
    <3>2. CASE onSceneUpdatedFit
      <4>1. slots' = slots \o three
        BY <3>2 DEF onSceneUpdatedFit, three
      <4>2. Queued("onSequenceNumberIncremented", slots') /\ RestartFollows(slots')
        BY <2>3, <4>1, QueuedThree, ThreeFollow
      <4>3. QED
        BY <4>1, <4>2 DEF SlotsGrow, SequencePending
    <3>3. QED
      BY <1>5, <3>1, <3>2
  <2>5. PictureInv'
    BY <2>2, <2>4, OtherPictureInv
  <2>6. QED
    BY <2>1, <2>5
<1>6. QED
  BY <1>1, <1>2, <1>3, <1>4, <1>5 DEF ApplicationThread

\* The user's handlers
LEMMA UserInv ==
    ASSUME IInv, InterfaceStep \/ SetCameraToDefault \/ DefaultCameraFit
    PROVE  IInv'
<1> USE DEF IInv
<1>1. CASE InterfaceStep
  <2>1. /\ InterfaceNext
        /\ UNCHANGED <<chosenMethod, frames, displayed, appVars, sceneVars, slots, managerVars,
                       outputVars, pc, rendererVars, history>>
    BY <1>1 DEF InterfaceStep
  <2>2. UNCHANGED viewFrame /\ UNCHANGED pictureVars /\ UNCHANGED fitting
    BY <2>1 DEF viewFrame, pictureVars, appVars, sceneVars, managerVars, settings, rendererVars,
                history
  <2>3. TypeInv' /\ ViewInv'
    BY <2>1, <2>2, InterfaceInv
  <2>4. SlotsGrow /\ UNCHANGED slots
    BY <2>1 DEF SlotsGrow
  <2>5. /\ AppSlotsGrow
        /\ resolution' = resolution \/ appSlots' = Append(appSlots, "onOutputSettingsUpdated")
    <3>1. CASE transform \/ dolly \/ WriteTypedPose \/ WriteCamera \/ WriteTypedAngles
      BY <3>1 DEF transform, dolly, WriteTypedPose, MoveCamera, WriteCamera, WriteTypedAngles,
                  AppSlotsGrow
    <3>2. CASE setPPMInitialRadius \/ EmitCameraUpdated
      BY <3>2 DEF setPPMInitialRadius, EmitCameraUpdated, viewVars, AppSlotsGrow, AppSlotNames,
                  RestartSlots
    <3>3. CASE setWidth \/ setHeight
      BY <3>3 DEF setWidth, setHeight, SetResolution, AppSlotsGrow, AppSlotNames, RestartSlots
    <3>4. CASE MousePress \/ MouseMove \/ CameraTyped \/ ResolutionTyped \/ RadiusTyped
      BY <3>4 DEF MousePress, MouseMove, CameraTyped, ResolutionTyped, RadiusTyped, Handles,
                  viewVars, AppSlotsGrow
    <3>5. CASE onCornell \/ onSponza \/ onConference
      BY <3>5 DEF onCornell, onSponza, onConference, Handles, viewVars, AppSlotsGrow
    <3>6. QED
      BY <2>1, <3>1, <3>2, <3>3, <3>4, <3>5 DEF InterfaceNext
  <2>6. \A s : Queued(s, appSlots) => Queued(s, appSlots')
    BY <2>5, AppSlotsGrown
  <2>7. SequencePending => SequencePending'
    BY <2>2, <2>4, <2>6 DEF SequencePending
  <2>8. \/ UNCHANGED <<resolution, m_renderMethod, chosenMethod, notRestarted>>
        \/ SequencePending'
    <3>1. CASE appSlots' = Append(appSlots, "onOutputSettingsUpdated")
      <4>1. appSlots \in Seq(AppSlotNames) /\ "onOutputSettingsUpdated" \in AppSlotNames
        BY DEF TypeInv, AppSlotNames, RestartSlots
      <4>2. Queued("onOutputSettingsUpdated", appSlots')
        BY <3>1, <4>1, QueuedAppend
      <4>3. QED
        BY <4>2 DEF SequencePending, RestartSlots
    <3>2. CASE resolution' = resolution
      BY <2>1, <3>2 DEF appVars, history
    <3>3. QED
      BY <2>5, <3>1, <3>2
  <2>9. PictureInv'
    BY <2>2, <2>4, <2>6, <2>7, <2>8, OtherPictureInv
  <2>10. QED
    BY <2>3, <2>9
<1>2. CASE SetCameraToDefault
  <2>1. TypeInv' /\ ViewInv'
    BY <1>2, SetCameraToDefaultInv
  <2>2. /\ UNCHANGED <<slots, appSlots, fitting, resolution, m_renderMethod, chosenMethod,
                       notRestarted>>
        /\ UNCHANGED pictureVars
    BY <1>2 DEF SetCameraToDefault, pictureVars, appVars, sceneVars, managerVars, rendererVars,
                history
  <2>3. SlotsGrow /\ (SequencePending => SequencePending')
    BY <2>2 DEF SlotsGrow, SequencePending
  <2>4. PictureInv'
    BY <2>2, <2>3, OtherPictureInv
  <2>5. QED
    BY <2>1, <2>4
<1>3. CASE DefaultCameraFit
  <2>1. TypeInv' /\ ViewInv'
    BY <1>3, DefaultCameraFitInv
  <2>2. UNCHANGED <<appSlots, fitting>> /\ UNCHANGED pictureVars /\ incrementSequenceNumber
    BY <1>3 DEF DefaultCameraFit, pictureVars, appVars, sceneVars, managerVars, rendererVars
  <2>3. PictureInv'
    BY <2>2, IncrementPending, OtherPictureInv
  <2>4. QED
    BY <2>1, <2>3
<1>4. QED
  BY <1>1, <1>2, <1>3

-----------------------------------------------------------------------------
(***************************************************************************)
(* The picture: the scene manager                                          *)
(***************************************************************************)

\* A new scene is told of, unless it is at the address of the scene the manager holds.
LEMMA SceneThreadInv ==
    ASSUME IInv, SceneThread
    PROVE  IInv'
<1> USE DEF IInv
<1>1. /\ UNCHANGED quietVars /\ UNCHANGED <<m_renderMethod, chosenMethod, notRestarted>>
      /\ UNCHANGED <<m_currentScene, m_compileScene, compiledScene, m_nextIterationNumber, pc,
                     frame>>
  BY DEF SceneThread, SceneLoaded, LoadFails, DeleteOldScene, quietVars, guiVars, interfaceVars,
         viewVars, appVars, managerVars, settings, rendererVars, history
<1>2. CASE SceneLoaded
  <2>1. /\ appSlots' = Append(appSlots, "onSceneUpdated")
        /\ slots' = Append(slots, "onSceneUpdated")
        /\ "onSceneUpdated" \in AppSlotNames /\ "onSceneUpdated" \in SlotNames
    BY <1>2 DEF SceneLoaded, AppSlotNames, RestartSlots, SlotNames
  <2>2. PICK a \in Addresses :
            /\ m_scene' = a /\ sceneAt' = [sceneAt EXCEPT ![a] = inputs]
            /\ addressReused' = (addressReused \/ a = m_currentScene)
    BY <1>2 DEF SceneLoaded
  <2>3. m_scene' \in Addresses \cup {NULL} /\ DOMAIN sceneAt' = Addresses
    BY <2>2 DEF TypeInv
  <2>4. TypeInv' /\ ViewInv'
    BY <1>1, <2>1, <2>3, QuietGrowInv DEF AppSlotsGrow
  <2>5. /\ Queued("onSceneUpdated", appSlots') /\ Queued("onSceneUpdated", slots')
    BY <2>1, QueuedAppend DEF TypeInv
  <2>6. SceneOrderInv' /\ FrameInv'
    BY <2>5 DEF SceneOrderInv, FrameInv, SequencePending, RestartSlots
  <2>7. SceneInv'
    BY <1>1, <2>2, <2>5 DEF SceneInv
  <2>8. QED
    BY <2>4, <2>6, <2>7 DEF PictureInv
<1>3. CASE LoadFails \/ DeleteOldScene
  <2>1. /\ UNCHANGED <<appSlots, slots, m_scene, addressReused>>
        /\ \/ sceneAt' = sceneAt
           \/ sceneAt' = [a \in Addresses |-> IF a = m_scene THEN sceneAt[a] ELSE 0]
    BY <1>3 DEF LoadFails, DeleteOldScene, guiVars, interfaceVars, sceneVars, history
  <2>2. /\ DOMAIN sceneAt' = Addresses
        /\ m_scene # NULL => sceneAt'[m_scene] = sceneAt[m_scene]
    BY <2>1 DEF TypeInv
  <2>3. TypeInv' /\ ViewInv'
    <3>1. m_scene' \in Addresses \cup {NULL} /\ SlotsGrow /\ AppSlotsGrow
      BY <2>1 DEF TypeInv, SlotsGrow, AppSlotsGrow
    <3>2. QED
      BY <1>1, <2>2, <3>1, QuietGrowInv
  <2>4. SceneInv'
    BY <1>1, <2>1, <2>2 DEF PictureInv, SceneInv
  <2>5. SceneOrderInv' /\ FrameInv'
    BY <1>1, <2>1 DEF PictureInv, SceneOrderInv, FrameInv, SequencePending, quietVars
  <2>6. QED
    BY <2>3, <2>4, <2>5 DEF PictureInv
<1>4. QED
  BY <1>2, <1>3 DEF SceneThread

-----------------------------------------------------------------------------
(***************************************************************************)
(* The picture: the manager's thread                                       *)
(***************************************************************************)

\* What the manager's thread does not write
outerVars == <<guiCalls, viewVars, m_PPMInitialRadius, appSlots, fitting, m_scene, sceneAt,
               m_renderMethod, chosenMethod, notRestarted, addressReused>>

\* Unless it takes the call that starts a sequence, what is pending is.
LEMMA ManagerViewInv ==
    ASSUME TypeInv, ViewInv, UNCHANGED outerVars, UNCHANGED settings, slots' \in Seq(SlotNames),
           Queued("onSequenceNumberIncremented", slots) =>
               Queued("onSequenceNumberIncremented", slots')
    PROVE  TypeInv' /\ ViewInv' /\ (SequencePending => SequencePending')
<1>1. /\ UNCHANGED quietVars /\ UNCHANGED appSlots
      /\ m_scene' = m_scene /\ sceneAt' = sceneAt
  BY DEF outerVars, settings, quietVars, viewVars
<1>2. TypeInv' /\ ViewInv'
  BY <1>1, QuietInv DEF TypeInv
<1>3. SequencePending => SequencePending'
  BY <1>1 DEF SequencePending, quietVars
<1>4. QED
  BY <1>2, <1>3

\* A new sequence: the next iteration clears the frame.
LEMMA SequencePicture ==
    ASSUME IInv, onSequenceNumberIncremented
    PROVE  IInv'
<1> USE DEF IInv
<1>1. TypeInv' /\ ViewInv'
  BY SequenceInv
<1>2. /\ SlotTaken /\ Head(slots) = "onSequenceNumberIncremented"
      /\ m_nextIterationNumber' = 0 /\ pc' = "idle"
      /\ UNCHANGED outerVars
      /\ UNCHANGED <<m_currentScene, m_compileScene, compiledScene>>
  BY DEF onSequenceNumberIncremented, Called, continueRayTracingIfRunningAsync, SlotTaken,
         outerVars, guiVars, interfaceVars, appVars, sceneVars, rendererVars, history
<1>3. /\ Queued("onSceneUpdated", slots) => Queued("onSceneUpdated", slots')
      /\ RestartFollows(slots) => RestartFollows(slots')
  BY <1>2, SlotIsTaken
<1>4. SceneOrderInv' /\ SceneInv'
  BY <1>2, <1>3 DEF PictureInv, SceneOrderInv, SceneInv, outerVars
<1>5. FrameInv'
  BY <1>2 DEF FrameInv
<1>6. QED
  BY <1>1, <1>4, <1>5 DEF PictureInv

\* The other two slots queue the next turn or begin an iteration.
LEMMA TurnPicture ==
    ASSUME IInv, onRunningStatusChanged \/ onContinueRayTracing
    PROVE  IInv'
<1> USE DEF IInv
<1>1. /\ SlotTaken /\ Head(slots) \in {"onRunningStatusChanged", "onContinueRayTracing"}
      /\ pc = "idle" /\ pc' # "publish"
      /\ UNCHANGED outerVars /\ UNCHANGED settings
      /\ UNCHANGED <<m_currentScene, m_compileScene, compiledScene, m_nextIterationNumber, frame>>
  BY DEF onRunningStatusChanged, onContinueRayTracing, Called, SlotTaken,
         continueRayTracingIfRunningAsync, outerVars, guiVars, interfaceVars, appVars,
         sceneVars, rendererVars, history
<1>2. /\ slots' \in Seq(SlotNames)
      /\ \A s \in {"onSceneUpdated", "onSequenceNumberIncremented"} :
             Queued(s, slots) => Queued(s, slots')
      /\ RestartFollows(slots) => RestartFollows(slots')
  BY <1>1, SlotIsTaken
<1>3. TypeInv' /\ ViewInv' /\ (SequencePending => SequencePending')
  BY <1>1, <1>2, ManagerViewInv
<1>4. SceneOrderInv' /\ SceneInv'
  BY <1>1, <1>2 DEF PictureInv, SceneOrderInv, SceneInv, outerVars
<1>5. FrameInv'
  BY <1>1, <1>3 DEF PictureInv, FrameInv, outerVars, viewVars
<1>6. QED
  BY <1>3, <1>4, <1>5 DEF PictureInv

\* The manager takes a scene: a restart is still to come.
LEMMA ScenePicture ==
    ASSUME IInv, onSceneUpdated
    PROVE  IInv'
<1> USE DEF IInv
<1>1. /\ SlotTaken /\ Head(slots) = "onSceneUpdated"
      /\ m_currentScene' = m_scene
      /\ m_compileScene' = (m_compileScene \/ m_scene # m_currentScene)
      /\ UNCHANGED outerVars /\ UNCHANGED settings /\ UNCHANGED compiledScene
  BY DEF onSceneUpdated, Called, SlotTaken, outerVars, guiVars, interfaceVars, appVars,
         sceneVars, rendererVars, history
<1>2. /\ slots' \in Seq(SlotNames)
      /\ Queued("onSequenceNumberIncremented", slots) =>
             Queued("onSequenceNumberIncremented", slots')
      /\ RestartFollows(slots) => RestartFollows(slots')
      /\ RestartFollows(slots) => Queued("onSequenceNumberIncremented", slots')
  BY <1>1, SlotIsTaken
<1>3. TypeInv' /\ ViewInv' /\ (SequencePending => SequencePending')
  BY <1>1, <1>2, ManagerViewInv
<1>4. SceneOrderInv'
  BY <1>1, <1>2 DEF PictureInv, SceneOrderInv, outerVars
<1>5. SceneInv'
  BY <1>1 DEF PictureInv, SceneInv, outerVars
<1>6. SequencePending'
  <2>1. CASE RestartFollows(slots)
    BY <1>2, <2>1 DEF SequencePending
  <2>2. CASE Queued("onSceneUpdated", appSlots)
    BY <1>3, <2>2 DEF SequencePending, RestartSlots
  <2>3. CASE fitting.slot = "onSceneUpdated"
    <3>1. NotFitting.slot # "onSceneUpdated"
      BY NotFittingSlot DEF AppSlotNames, RestartSlots
    <3>2. QED
      BY <1>3, <2>3, <3>1 DEF SequencePending
  <2>4. QED
    BY <2>1, <2>2, <2>3 DEF PictureInv, SceneOrderInv
<1>7. FrameInv'
  BY <1>6 DEF FrameInv
<1>8. QED
  BY <1>3, <1>4, <1>5, <1>7 DEF PictureInv

\* An iteration: what it adds to the frame is of the picture of now.
LEMMA IterationPicture ==
    ASSUME IInv, \/ CompileScene \/ CrashOnDeletedScene \/ Trace \/ RenderFails
                 \/ Publish \/ PublishFails \/ Continue
    PROVE  IInv'
<1> USE DEF IInv
<1> DEFINE now == <<compiledScene, m_renderMethod, resolution>>
<1>1. /\ UNCHANGED outerVars /\ UNCHANGED settings /\ UNCHANGED m_currentScene
  BY DEF CompileScene, CrashOnDeletedScene, Trace, RenderFails, Pause, Publish, PublishFails,
         Continue, outerVars, guiVars, interfaceVars, appVars, sceneVars, managerVars, history
<1>2. SlotsGrow
  BY DEF CompileScene, CrashOnDeletedScene, Trace, RenderFails, Pause, Publish, PublishFails,
         Continue, continueRayTracingIfRunningAsync, SlotsGrow, SlotNames
<1>3. /\ slots' \in Seq(SlotNames)
      /\ \A s : Queued(s, slots) => Queued(s, slots')
      /\ RestartFollows(slots) => RestartFollows(slots')
  BY <1>2, SlotsGrown
<1>4. TypeInv' /\ ViewInv' /\ (SequencePending => SequencePending')
  BY <1>1, <1>3, ManagerViewInv
<1>5. SceneOrderInv'
  BY <1>1, <1>3 DEF PictureInv, SceneOrderInv, outerVars
<1>6. \/ m_compileScene' = m_compileScene /\ compiledScene' = compiledScene
      \/ /\ m_compileScene /\ compiledScene' = sceneAt[m_currentScene]
         /\ ~m_compileScene' /\ pc' = pc /\ frame' = frame
         /\ m_nextIterationNumber' = m_nextIterationNumber
  BY DEF CompileScene, CrashOnDeletedScene, Trace, RenderFails, Pause, Publish, PublishFails,
         Continue, managerVars, rendererVars
<1>7. SceneInv'
  BY <1>1, <1>3, <1>6 DEF PictureInv, SceneInv, outerVars
<1>8. UNCHANGED <<resolution, m_renderMethod, chosenMethod, notRestarted>>
  BY <1>1 DEF outerVars, viewVars
<1>9. FrameInv'
  <2>1. CASE SequencePending \/ chosenMethod # None \/ notRestarted
    BY <1>4, <1>8, <2>1 DEF FrameInv
  <2>2. CASE CompileScene
    BY <1>4, <1>8, <2>2 DEF PictureInv, FrameInv, CompileScene
  <2>3. CASE Trace
    <3>1. /\ frame'.of = (IF m_nextIterationNumber = 0 THEN {} ELSE frame.of) \cup {now}
          /\ ~m_compileScene' /\ compiledScene' = compiledScene /\ pc = "render"
          /\ ~m_compileScene
      BY <2>3 DEF Trace, managerVars
    <3>2. CASE m_nextIterationNumber = 0
      BY <1>8, <3>1, <3>2 DEF FrameInv
    <3>3. CASE m_nextIterationNumber # 0
      BY <1>4, <1>8, <3>1, <3>3 DEF PictureInv, FrameInv
    <3>4. QED
      BY <3>2, <3>3
  <2>4. CASE CrashOnDeletedScene \/ PublishFails \/ Continue
    <3>1. /\ UNCHANGED <<m_nextIterationNumber, m_compileScene, compiledScene, frame>>
          /\ pc' # "publish"
      BY <2>4 DEF CrashOnDeletedScene, PublishFails, Continue, managerVars, rendererVars
    <3>2. QED
      BY <1>4, <1>8, <3>1 DEF PictureInv, FrameInv
  <2>5. CASE RenderFails
    <3>1. /\ UNCHANGED <<m_nextIterationNumber, m_compileScene, compiledScene>>
          /\ pc' # "publish" /\ (frame' = frame \/ frame'.of = {})
      BY <2>5 DEF RenderFails, Pause, managerVars
    <3>2. QED
      BY <1>4, <1>8, <3>1 DEF PictureInv, FrameInv
  <2>6. CASE Publish
    <3>1. pc = "publish" /\ UNCHANGED <<m_compileScene, compiledScene, frame>>
      BY <2>6 DEF Publish, rendererVars
    <3>2. QED
      BY <1>4, <1>8, <3>1 DEF PictureInv, FrameInv
  <2>7. QED
    BY <2>2, <2>3, <2>4, <2>5, <2>6
<1>10. QED
  BY <1>4, <1>5, <1>7, <1>9 DEF PictureInv

-----------------------------------------------------------------------------
(***************************************************************************)
(* Every step                                                              *)
(***************************************************************************)

\* No thread has begun.
LEMMA InitIInv == Init => IInv
<1> SUFFICES ASSUME Init PROVE IInv
  OBVIOUS
<1>1. /\ guiCalls = <<>> /\ slots = <<>> /\ appSlots = <<>> /\ fitting = NotFitting
      /\ resolution = <<2, 2>> /\ anglesMayDiffer = FALSE
      /\ m_camera = [pose |-> 0, hfov |-> <<1, 2>>, vfov |-> <<1, 2>>,
                     aspectRatioMode |-> "KeepVertical"]
      /\ managerCamera = m_camera /\ startRadius = m_PPMInitialRadius
  BY DEF Init, InterfaceInit
<1>2. /\ m_scene = NULL /\ m_currentScene = NULL /\ DOMAIN sceneAt = Addresses
      /\ m_nextIterationNumber = 0 /\ pc = "idle"
  BY DEF Init
<1>3. TypeInv
  <2>1. CameraOK(m_camera) /\ resolution \in Pairs
    BY <1>1 DEF CameraOK, Pairs, Modes
  <2>2. <<>> \in Seq(SlotNames) /\ <<>> \in Seq(AppSlotNames) /\ <<>> \in Seq({}) /\ Len(<<>>) = 0
    OBVIOUS
  <2>3. slots \in Seq(SlotNames) /\ appSlots \in Seq(AppSlotNames) /\ guiCalls \in Seq({})
    BY <1>1, <2>2
  <2>4. \A k \in 1 .. Len(guiCalls) : CallOK(guiCalls[k])
    BY <1>1
  <2>5. anglesMayDiffer \in BOOLEAN /\ fitting = NotFitting
    BY <1>1
  <2>6. m_scene \in Addresses \cup {NULL} /\ DOMAIN sceneAt = Addresses
    BY <1>2
  <2>7. \E S : guiCalls \in Seq(S)
    BY <2>3
  <2>8. QED
    BY <2>1, <2>3, <2>4, <2>5, <2>6, <2>7 DEF TypeInv
<1>4. ViewInv
  <2>1. CallsInv /\ CameraInv /\ PresetInv /\ FitInv
    BY <1>1 DEF CallsInv, CameraInv, PresetInv, FitInv
  <2>2. Fits(m_camera, resolution)
    BY <1>1 DEF Fits
  <2>3. QED
    BY <2>1, <2>2 DEF ViewInv, DistortionInv
<1>5. PictureInv
  BY <1>1, <1>2 DEF PictureInv, SceneOrderInv, RestartFollows, SceneInv, FrameInv
<1>6. QED
  BY <1>3, <1>4, <1>5 DEF IInv

\* The invariant is inductive.
LEMMA StepIInv == IInv /\ [Next]_vars => IInv'
<1> SUFFICES ASSUME IInv, [Next]_vars PROVE IInv'
  OBVIOUS
<1>1. CASE User
  BY <1>1, PlainStepInv, UserInv DEF User
<1>2. CASE ApplicationThread
  BY <1>2, ApplicationInv
<1>3. CASE InterfaceStep \/ DefaultCameraFit
  BY <1>3, UserInv
<1>4. CASE AssignRenderMethod \/ displayFrame \/ UNCHANGED vars
  BY <1>4, PlainStepInv
<1>5. CASE SceneThread
  BY <1>5, SceneThreadInv
<1>6. CASE ManagerThread
  BY <1>6, SequencePicture, TurnPicture, ScenePicture, IterationPicture DEF ManagerThread
<1>7. QED
  BY <1>1, <1>2, <1>3, <1>4, <1>5, <1>6 DEF Next

\* Every reachable state satisfies the invariant.
THEOREM PictureInvariance == Spec => []IInv
BY InitIInv, StepIInv, PTL DEF Spec

\* What is on its way is a restart that is pending.
LEMMA PendingIsPending ==
    ASSUME ~RestartPending
    PROVE  ~SequencePending /\ chosenMethod = None /\ guiCalls = <<>>
BY DEF RestartPending, SequencePending, RestartSlots

\* A frame is never the sum of iterations of two scenes, methods or resolutions once
\* no restart is pending, unless the method was changed while a scene was imported.
THEOREM FrameOfOnePictureHolds == Spec => []FrameOfOnePicture
<1>1. IInv => FrameOfOnePicture
  <2> SUFFICES ASSUME IInv, ~RestartPending, ~notRestarted, m_nextIterationNumber > 0
               PROVE  Cardinality(frame.of) <= 1
    BY DEF FrameOfOnePicture
  <2> DEFINE now == <<compiledScene, m_renderMethod, resolution>>
  <2>1. frame.of \subseteq {now}
    BY PendingIsPending DEF IInv, PictureInv, FrameInv
  <2>2. frame.of = {} \/ frame.of = {now}
    BY <2>1
  <2>3. Cardinality({}) = 0 /\ Cardinality({now}) = 1
    BY FS_EmptySet, FS_Singleton
  <2>4. QED
    BY <2>2, <2>3
<1>2. QED
  BY <1>1, PictureInvariance, PTL

\* The manager has the application's scene once the signal for it is taken, and its
\* camera and radius once no restart is pending, whichever threads have written them.
THEOREM ManagerFollowsApplicationHolds == Spec => []ManagerFollowsApplication
<1>1. IInv => ManagerFollowsApplication
  <2> SUFFICES ASSUME IInv PROVE ManagerFollowsApplication
    OBVIOUS
  <2>1. ~RestartPending => ~ViewPending
    BY PendingIsPending DEF ViewPending, Calls
  <2>2. QED
    BY <2>1 DEF IInv, ViewInv, CameraInv, PictureInv, SceneInv, ManagerFollowsApplication
<1>2. QED
  BY <1>1, PictureInvariance, PTL

\* Whatever the order of the presets, of typed resolutions and of default cameras,
\* the picture is not distorted in the end, for all resolutions.
THEOREM PictureIsNotDistortedHolds == Spec => []PictureIsNotDistorted
<1>1. IInv => PictureIsNotDistorted
  <2> SUFFICES ASSUME IInv, ~RestartPending, ~anglesMayDiffer
               PROVE  Fits(m_camera, resolution)
    BY DEF PictureIsNotDistorted
  <2>1. ~SequencePending /\ \A names : ~Calls(names)
    BY PendingIsPending DEF Calls
  <2>2. ~FitPending
    BY <2>1 DEF FitPending, SequencePending, RestartSlots
  <2>3. QED
    BY <2>1, <2>2 DEF IInv, ViewInv, DistortionInv, SizeToCome, Fits
<1>2. QED
  BY <1>1, PictureInvariance, PTL

-----------------------------------------------------------------------------
(***************************************************************************)
(* The limits of what the threads write                                    *)
(***************************************************************************)
Positive == (Nat \ {0}) \X (Nat \ {0})
Poses == 0 .. MaxInputs

\* Poses and radii are numbers of inputs; angles and resolutions are never zero.
CameraInRange(camera) ==
    camera.pose \in Poses /\ camera.hfov \in Positive /\ camera.vfov \in Positive

MeasuredInRange(measured) == measured.kept \in Positive /\ measured.ratio \in Positive

CallInRange(call) ==
    /\ call[1] \in {"rotate", "dolly", "pose", "camera", "radius"} => call[2] \in Poses
    /\ call[1] \in {"width", "height"} => call[2] \in Nat \ {0}
    /\ call[1] = "camera" => call[3] \in Positive /\ call[4] \in Positive
    /\ call[1] = "fit" => MeasuredInRange(call[2])

\* What the user's thread and the application's write, and what they are still to write.
ViewRange ==
    /\ Len(guiCalls) <= 5
    /\ \A k \in 1 .. Len(guiCalls) : CallInRange(guiCalls[k])
    /\ CameraInRange(m_camera)
    /\ resolution \in Positive
    /\ m_PPMInitialRadius \in Poses
    /\ startRadius \in Poses
    /\ fitting # NotFitting => MeasuredInRange(fitting.measured)

\* Application's onSceneUpdated reads the scene, which was there when it was queued.
SceneRange ==
    /\ sceneAt \in [Addresses -> Versions]
    /\ (fitting.slot = "onSceneUpdated" \/ Queued("onSceneUpdated", appSlots)) =>
           m_scene \in Addresses
    /\ m_currentScene \in Addresses \cup {NULL}
    /\ pc = "render" => m_currentScene \in Addresses
    /\ compiledScene \in Versions
    /\ \A picture \in frame.of : picture[1] \in Versions /\ picture[2] \in RenderMethods

PlainRange ==
    /\ choice \in InputChoices
    /\ inputs \in Poses
    /\ dragging \in {"rotate", "dolly", None}
    /\ m_runningStatus \in {"STOPPED", "RUNNING", "PAUSE"}
    /\ m_renderMethod \in RenderMethods
    /\ chosenMethod \in RenderMethods \cup {None}
    /\ restarting \in BOOLEAN
    /\ loading \in {"idle", "importing", "delete"}
    /\ m_noEmittedSignals \in BOOLEAN
    /\ m_compileScene \in BOOLEAN
    /\ mutexIsLocked \in BOOLEAN
    /\ notRestarted \in BOOLEAN
    /\ addressReused \in BOOLEAN

\* An iteration that was added to the frame is counted when it is published, so that
\* the frame is ahead of the count by one in between.  The one that was left with the
\* mutex locked is never counted, and another one is never published.
CountRange ==
    /\ pc \in {"idle", "render", "publish", "continue", "crashed"}
    /\ m_nextIterationNumber \in 0 .. NumIterations
    /\ frame.count \in Nat
    /\ pc = "publish" =>
           /\ m_nextIterationNumber < NumIterations
           /\ frame.count <= m_nextIterationNumber + (IF mutexIsLocked THEN 2 ELSE 1)
    /\ pc # "publish" =>
           /\ frame.count <= NumIterations
           /\ m_nextIterationNumber > 0 =>
                  frame.count <= m_nextIterationNumber + (IF mutexIsLocked THEN 1 ELSE 0)
    /\ frames \in Nat
    /\ m_lastRendererIterationNumber \in 0 .. NumIterations
    /\ frames > 0 => m_lastRendererIterationNumber < NumIterations
    /\ m_outputBuffer \in 0 .. NumIterations
    /\ displayed \in [count : 0 .. NumIterations, m_previewedIterations : 0 .. NumIterations]

RangeInv == ViewRange /\ SceneRange /\ PlainRange /\ CountRange

\* The bounds of an input
LEMMA InputBounds ==
    ASSUME PlainRange
    PROVE  /\ choice[2] \in 0 .. MaxInputs /\ choice[3] \in 0 .. NumIterations
           /\ MaxInputs \in Nat /\ NumIterations \in Nat
BY InterfaceAssumption DEF PlainRange

\* An input is counted.
LEMMA InputCounted ==
    ASSUME PlainRange, NEW kind, Input(kind)
    PROVE  inputs + 1 \in Poses /\ inputs' \in Poses /\ choice' = choice
<1>1. choice[2] \in 0 .. MaxInputs /\ MaxInputs \in Nat /\ inputs \in 0 .. MaxInputs
  BY InputBounds DEF PlainRange, Poses
<1>2. inputs < choice[2] /\ inputs' = inputs + 1 /\ choice' = choice
  BY DEF Input
<1>3. QED
  BY <1>1, <1>2 DEF Poses

-----------------------------------------------------------------------------
(***************************************************************************)
(* Numbers of iterations                                                   *)
(***************************************************************************)
countVars == <<m_nextIterationNumber, frame, m_lastRendererIterationNumber, m_outputBuffer,
               mutexIsLocked, frames, displayed>>

\* A step that neither counts nor begins or ends an iteration
LEMMA CountKept ==
    ASSUME CountRange, UNCHANGED countVars,
           pc' = pc \/ (pc # "publish" /\ pc' \in {"idle", "render", "continue", "crashed"})
    PROVE  CountRange'
BY DEF CountRange, countVars

\* No other thread counts.
LEMMA OthersCountKept ==
    ASSUME \/ ApplicationThread \/ User \/ InterfaceStep \/ AssignRenderMethod
           \/ DefaultCameraFit \/ SceneThread \/ UNCHANGED vars
    PROVE  UNCHANGED countVars /\ pc' = pc
<1> USE DEF countVars, managerVars, outputVars, rendererVars, guiVars
<1>1. CASE ApplicationThread
  <2>1. CASE SettingsUpdated \/ onRenderRestart
    BY <2>1 DEF SettingsUpdated, onRenderRestart
  <2>2. CASE SetRunning \/ onSceneLoadingNew
    BY <2>2 DEF SetRunning, onSceneLoadingNew
  <2>3. CASE onOutputSettingsUpdated \/ OutputSettingsFit
    BY <2>3 DEF onOutputSettingsUpdated, OutputSettingsFit
  <2>4. CASE TakeDefaultCamera \/ onSceneUpdatedFit
    BY <2>4 DEF TakeDefaultCamera, onSceneUpdatedFit
  <2>5. QED
    BY <1>1, <2>1, <2>2, <2>3, <2>4 DEF ApplicationThread
<1>2. CASE User
  <2>1. CASE RestartClicked \/ TogglePause
    BY <2>1 DEF RestartClicked, TogglePause
  <2>2. CASE \E method \in RenderMethods : setRenderMethod(method)
    BY <2>2 DEF setRenderMethod
  <2>3. CASE SetCameraToDefault \/ LoadScene
    BY <2>3 DEF SetCameraToDefault, LoadScene
  <2>4. QED
    BY <1>2, <2>1, <2>2, <2>3 DEF User
<1>3. CASE InterfaceStep \/ AssignRenderMethod
  BY <1>3 DEF InterfaceStep, AssignRenderMethod
<1>4. CASE DefaultCameraFit
  BY <1>4 DEF DefaultCameraFit
<1>5. CASE SceneThread
  BY <1>5 DEF SceneThread, SceneLoaded, LoadFails, DeleteOldScene
<1>6. CASE UNCHANGED vars
  BY <1>6 DEF vars
<1>7. QED
  BY <1>1, <1>2, <1>3, <1>4, <1>5, <1>6

\* An iteration is added to the frame.
LEMMA TraceCounts ==
    ASSUME PlainRange, CountRange, Trace
    PROVE  CountRange'
<1>1. /\ choice[3] \in 0 .. NumIterations /\ NumIterations \in Nat
      /\ m_nextIterationNumber \in Nat /\ m_nextIterationNumber < choice[3]
      /\ frame.count \in Nat /\ mutexIsLocked \in BOOLEAN
  BY InputBounds DEF Trace, CountRange, PlainRange
<1>2. /\ pc = "render" /\ pc' = "publish"
      /\ frame'.count = (IF m_nextIterationNumber = 0 THEN 0 ELSE frame.count) + 1
  BY DEF Trace
<1>3. UNCHANGED <<m_nextIterationNumber, m_lastRendererIterationNumber, m_outputBuffer,
                  mutexIsLocked, frames, displayed>>
  BY DEF Trace, managerVars, outputVars, guiVars
<1>4. m_nextIterationNumber > 0 =>
          frame.count <= m_nextIterationNumber + (IF mutexIsLocked THEN 1 ELSE 0)
  BY <1>2 DEF CountRange
<1>5. /\ frame'.count \in Nat
      /\ frame'.count <= m_nextIterationNumber + (IF mutexIsLocked THEN 2 ELSE 1)
  BY <1>1, <1>2, <1>4
<1>6. m_nextIterationNumber < NumIterations
  BY <1>1
<1>7. QED
  BY <1>2, <1>3, <1>5, <1>6 DEF CountRange

\* ... and published, or not.
LEMMA PublishCounts ==
    ASSUME PlainRange, CountRange, Publish \/ PublishFails
    PROVE  CountRange'
<1>1. /\ NumIterations \in Nat /\ m_nextIterationNumber \in Nat /\ frame.count \in Nat
      /\ pc = "publish" /\ ~mutexIsLocked /\ frames \in Nat
      /\ m_nextIterationNumber < NumIterations /\ frame.count <= m_nextIterationNumber + 1
  BY InputBounds DEF CountRange, Publish, PublishFails
<1>2. /\ pc' = "continue" /\ UNCHANGED <<frame, displayed>>
      /\ m_lastRendererIterationNumber' = m_nextIterationNumber
  BY DEF Publish, PublishFails, rendererVars, guiVars
<1>3. /\ m_nextIterationNumber + 1 \in 0 .. NumIterations
      /\ frame.count \in 0 .. NumIterations /\ m_nextIterationNumber \in 0 .. NumIterations
      /\ frames + 1 \in Nat
  BY <1>1
<1>4. CASE Publish
  <2>1. /\ m_nextIterationNumber' = m_nextIterationNumber + 1 /\ mutexIsLocked' = mutexIsLocked
        /\ \/ m_outputBuffer' = frame.count /\ frames' = frames + 1
           \/ UNCHANGED <<m_outputBuffer, frames>>
    BY <1>4 DEF Publish
  <2>2. m_outputBuffer' \in 0 .. NumIterations /\ frames' \in Nat
    BY <1>3, <2>1 DEF CountRange
  <2>3. QED
    BY <1>1, <1>2, <1>3, <2>1, <2>2 DEF CountRange
<1>5. CASE PublishFails
  <2>1. /\ UNCHANGED <<m_nextIterationNumber, m_outputBuffer, frames>>
        /\ mutexIsLocked' = TRUE
    BY <1>5 DEF PublishFails, managerVars, guiVars
  <2>2. QED
    BY <1>1, <1>2, <1>3, <2>1 DEF CountRange
<1>6. QED
  BY <1>4, <1>5

\* The other steps of the manager, and a frame that is shown.
LEMMA ManagerCounts ==
    ASSUME PlainRange, CountRange, ManagerThread \/ displayFrame
    PROVE  CountRange'
<1> USE DEF countVars
<1>1. CASE onSequenceNumberIncremented
  <2>1. /\ m_nextIterationNumber' = 0 /\ pc = "idle" /\ pc' = pc
        /\ UNCHANGED <<frame, m_lastRendererIterationNumber, m_outputBuffer, mutexIsLocked,
                       frames, displayed>>
    BY <1>1 DEF onSequenceNumberIncremented, Called, outputVars, rendererVars, guiVars
  <2>2. 0 \in 0 .. NumIterations
    BY InputBounds
  <2>3. QED
    BY <2>1, <2>2 DEF CountRange
<1>2. CASE onRunningStatusChanged \/ onSceneUpdated \/ onContinueRayTracing \/ Continue
  <2>1. UNCHANGED countVars
    BY <1>2 DEF onRunningStatusChanged, onSceneUpdated, onContinueRayTracing, Continue,
                outputVars, rendererVars, guiVars
  <2>2. pc # "publish" /\ pc' \in {"idle", "render", "continue"}
    BY <1>2 DEF onRunningStatusChanged, onSceneUpdated, onContinueRayTracing, Continue, Called
  <2>3. QED
    BY <2>1, <2>2, CountKept
<1>3. CASE CompileScene \/ CrashOnDeletedScene
  <2>1. UNCHANGED countVars
    BY <1>3 DEF CompileScene, CrashOnDeletedScene, managerVars, outputVars, rendererVars, guiVars
  <2>2. pc = "render" /\ pc' \in {"render", "crashed"}
    BY <1>3 DEF CompileScene, CrashOnDeletedScene
  <2>3. QED
    BY <2>1, <2>2, CountKept
<1>4. CASE Trace
  BY <1>4, TraceCounts
<1>5. CASE RenderFails
  <2>1. /\ pc = "render" /\ pc' = "continue"
        /\ UNCHANGED <<m_nextIterationNumber, m_lastRendererIterationNumber, m_outputBuffer,
                       mutexIsLocked, frames, displayed>>
        /\ frame' = frame \/ (m_nextIterationNumber = 0 /\ frame' = [count |-> 0, of |-> {}])
    BY <1>5 DEF RenderFails, Pause, managerVars, guiVars
  <2>2. NumIterations \in Nat
    BY InputBounds
  <2>3. CASE frame' = frame
    BY <2>1, <2>3 DEF CountRange
  <2>4. CASE m_nextIterationNumber = 0 /\ frame' = [count |-> 0, of |-> {}]
    BY <2>1, <2>2, <2>4 DEF CountRange
  <2>5. QED
    BY <2>1, <2>3, <2>4
<1>6. CASE Publish \/ PublishFails
  BY <1>6, PublishCounts
<1>7. CASE displayFrame
  <2>1. /\ frames > 0 /\ frames' = frames - 1
        /\ displayed' = [count |-> m_outputBuffer,
                         m_previewedIterations |-> m_lastRendererIterationNumber + 1]
        /\ UNCHANGED <<m_nextIterationNumber, frame, m_lastRendererIterationNumber,
                       m_outputBuffer, mutexIsLocked, pc>>
    BY <1>7 DEF displayFrame, managerVars, outputVars, rendererVars
  <2>2. frames' \in Nat /\ m_lastRendererIterationNumber + 1 \in 0 .. NumIterations
    BY <2>1, InputBounds DEF CountRange
  <2>3. displayed' \in [count : 0 .. NumIterations, m_previewedIterations : 0 .. NumIterations]
    BY <2>1, <2>2 DEF CountRange
  <2>4. QED
    BY <2>1, <2>2, <2>3 DEF CountRange
<1>8. QED
  BY <1>1, <1>2, <1>3, <1>4, <1>5, <1>6, <1>7 DEF ManagerThread

\* Every step
LEMMA CountStep ==
    ASSUME PlainRange, CountRange, [Next]_vars
    PROVE  CountRange'
<1>1. CASE ManagerThread \/ displayFrame
  BY <1>1, ManagerCounts
<1>2. CASE ~(ManagerThread \/ displayFrame)
  <2>1. \/ ApplicationThread \/ User \/ InterfaceStep \/ AssignRenderMethod
        \/ DefaultCameraFit \/ SceneThread \/ UNCHANGED vars
    BY <1>2 DEF Next
  <2>2. UNCHANGED countVars /\ pc' = pc
    BY <2>1, OthersCountKept
  <2>3. QED
    BY <2>2, CountKept
<1>3. QED
  BY <1>1, <1>2

-----------------------------------------------------------------------------
(***************************************************************************)
(* States and choices                                                      *)
(***************************************************************************)

\* continueRayTracingIfRunningAsync sets a flag only.
LEMMA ContinueFlag ==
    ASSUME PlainRange, NEW rest, continueRayTracingIfRunningAsync(rest)
    PROVE  m_noEmittedSignals' \in BOOLEAN
BY DEF PlainRange, continueRayTracingIfRunningAsync

\* The inputs and calls of UserInterface
LEMMA InterfacePlain ==
    ASSUME PlainRange, InterfaceNext
    PROVE  choice' = choice /\ inputs' \in Poses /\ dragging' \in {"rotate", "dolly", None}
<1>1. CASE \/ MousePress \/ MouseMove
           \/ CameraTyped \/ onCornell \/ onSponza \/ onConference
           \/ ResolutionTyped \/ RadiusTyped
  <2>1. \E kind : Input(kind)
    BY <1>1 DEF MousePress, MouseMove, CameraTyped, onCornell, onSponza, onConference,
                ResolutionTyped, RadiusTyped, Handles
  <2>2. dragging' \in {"rotate", "dolly", None}
    BY <1>1 DEF MousePress, MouseMove, CameraTyped, onCornell, onSponza, onConference,
                ResolutionTyped, RadiusTyped, PlainRange
  <2>3. QED
    BY <2>1, <2>2, InputCounted
<1>2. CASE \/ transform \/ dolly \/ WriteTypedPose \/ WriteCamera \/ WriteTypedAngles
           \/ setPPMInitialRadius \/ setWidth \/ setHeight \/ EmitCameraUpdated
  BY <1>2 DEF transform, dolly, WriteTypedPose, WriteCamera, WriteTypedAngles,
              setPPMInitialRadius, setWidth, setHeight, EmitCameraUpdated, Call, PlainRange
<1>3. QED
  BY <1>1, <1>2 DEF InterfaceNext

\* The slots of Application
LEMMA ApplicationPlain ==
    ASSUME PlainRange, ApplicationThread
    PROVE  PlainRange'
<1> USE DEF PlainRange, guiVars, interfaceVars, appVars, sceneVars, managerVars, outputVars,
            rendererVars, history, ApplicationCalled, incrementSequenceNumber, setRunningStatus
<1>1. CASE SettingsUpdated
  BY <1>1 DEF SettingsUpdated
<1>2. CASE onRenderRestart
  BY <1>2 DEF onRenderRestart
<1>3. CASE SetRunning
  BY <1>3 DEF SetRunning
<1>4. CASE onSceneLoadingNew
  BY <1>4 DEF onSceneLoadingNew
<1>5. CASE onOutputSettingsUpdated
  BY <1>5 DEF onOutputSettingsUpdated
<1>6. CASE OutputSettingsFit
  BY <1>6 DEF OutputSettingsFit
<1>7. CASE TakeDefaultCamera
  BY <1>7 DEF TakeDefaultCamera
<1>8. CASE onSceneUpdatedFit
  BY <1>8 DEF onSceneUpdatedFit
<1>9. QED
  BY <1>1, <1>2, <1>3, <1>4, <1>5, <1>6, <1>7, <1>8 DEF ApplicationThread

\* The user's inputs and calls, and the scene manager
LEMMA UserPlain ==
    ASSUME PlainRange,
           User \/ InterfaceStep \/ AssignRenderMethod \/ DefaultCameraFit \/ SceneThread
    PROVE  PlainRange'
<1> USE DEF guiVars, interfaceVars, appVars, sceneVars, managerVars, outputVars,
            rendererVars, history
<1>1. CASE RestartClicked
  <2>1. inputs' \in Poses /\ choice' = choice
    BY <1>1, InputCounted DEF RestartClicked, ApplicationInput
  <2>2. QED
    BY <1>1, <2>1 DEF RestartClicked, ApplicationInput, incrementSequenceNumber, PlainRange
<1>2. CASE TogglePause
  <2>1. inputs' \in Poses /\ choice' = choice
    BY <1>2, InputCounted DEF TogglePause, ApplicationInput
  <2>2. QED
    BY <1>2, <2>1 DEF TogglePause, ApplicationInput, setRunningStatus, PlainRange
<1>3. ASSUME NEW method \in RenderMethods, setRenderMethod(method)
      PROVE  PlainRange'
  <2>1. inputs' \in Poses /\ choice' = choice
    BY <1>3, InputCounted DEF setRenderMethod
  <2>2. QED
    BY <1>3, <2>1 DEF setRenderMethod, incrementSequenceNumber, PlainRange
<1>4. CASE SetCameraToDefault
  <2>1. inputs' \in Poses /\ choice' = choice
    BY <1>4, InputCounted DEF SetCameraToDefault
  <2>2. QED
    BY <1>4, <2>1 DEF SetCameraToDefault, PlainRange
<1>5. CASE LoadScene
  <2>1. inputs' \in Poses /\ choice' = choice
    BY <1>5, InputCounted DEF LoadScene
  <2>2. QED
    BY <1>5, <2>1 DEF LoadScene, PlainRange
<1>6. CASE InterfaceStep
  <2>1. choice' = choice /\ inputs' \in Poses /\ dragging' \in {"rotate", "dolly", None}
    BY <1>6, InterfacePlain DEF InterfaceStep
  <2>2. QED
    BY <1>6, <2>1 DEF InterfaceStep, PlainRange
<1>7. CASE AssignRenderMethod
  BY <1>7 DEF AssignRenderMethod, HasScene, PlainRange
<1>8. CASE DefaultCameraFit
  BY <1>8 DEF DefaultCameraFit, Call, incrementSequenceNumber, PlainRange
<1>9. CASE SceneThread
  <2>1. CASE SceneLoaded
    BY <2>1 DEF SceneLoaded, PlainRange
  <2>2. CASE LoadFails
    BY <2>2 DEF LoadFails, PlainRange
  <2>3. CASE DeleteOldScene
    BY <2>3 DEF DeleteOldScene, PlainRange
  <2>4. QED
    BY <1>9, <2>1, <2>2, <2>3 DEF SceneThread
<1>10. QED
  BY <1>1, <1>2, <1>3, <1>4, <1>5, <1>6, <1>7, <1>8, <1>9 DEF User

\* The manager
LEMMA ManagerPlain ==
    ASSUME PlainRange, ManagerThread \/ displayFrame \/ UNCHANGED vars
    PROVE  PlainRange'
<1> USE DEF guiVars, interfaceVars, appVars, sceneVars, managerVars, outputVars, rendererVars,
            history, Pause
<1>1. CASE onSequenceNumberIncremented \/ onRunningStatusChanged \/ Continue
  <2>1. m_noEmittedSignals' \in BOOLEAN
    BY <1>1, ContinueFlag DEF onSequenceNumberIncremented, onRunningStatusChanged, Continue
  <2>2. QED
    BY <1>1, <2>1 DEF onSequenceNumberIncremented, onRunningStatusChanged, Continue, PlainRange
<1>2. CASE onSceneUpdated \/ onContinueRayTracing
  <2>1. CASE onSceneUpdated
    BY <2>1 DEF onSceneUpdated, PlainRange
  <2>2. CASE onContinueRayTracing
    BY <2>2 DEF onContinueRayTracing, PlainRange
  <2>3. QED
    BY <1>2, <2>1, <2>2
<1>3. CASE CompileScene \/ CrashOnDeletedScene \/ Trace
  <2>1. CASE CompileScene
    BY <2>1 DEF CompileScene, PlainRange
  <2>2. CASE CrashOnDeletedScene
    BY <2>2 DEF CrashOnDeletedScene, PlainRange
  <2>3. CASE Trace
    BY <2>3 DEF Trace, PlainRange
  <2>4. QED
    BY <1>3, <2>1, <2>2, <2>3
<1>4. CASE RenderFails
  BY <1>4 DEF RenderFails, PlainRange
<1>5. CASE Publish
  BY <1>5 DEF Publish, PlainRange
<1>6. CASE PublishFails
  BY <1>6 DEF PublishFails, PlainRange
<1>7. CASE displayFrame
  BY <1>7 DEF displayFrame, PlainRange
<1>8. CASE UNCHANGED vars
  BY <1>8 DEF vars, PlainRange
<1>9. QED
  BY <1>1, <1>2, <1>3, <1>4, <1>5, <1>6, <1>7, <1>8 DEF ManagerThread

\* Every step
LEMMA PlainStep ==
    ASSUME PlainRange, [Next]_vars
    PROVE  PlainRange'
BY ApplicationPlain, UserPlain, ManagerPlain DEF Next

-----------------------------------------------------------------------------
(***************************************************************************)
(* Scenes                                                                  *)
(***************************************************************************)
scenePictures == <<m_currentScene, pc, compiledScene, frame>>

\* A slot of Application other than onSceneUpdated is queued or taken.
LEMMA SceneKept ==
    ASSUME SceneRange, UNCHANGED <<sceneAt, m_scene, scenePictures>>,
           fitting'.slot = "onSceneUpdated" => m_scene \in Addresses,
           Queued("onSceneUpdated", appSlots') => Queued("onSceneUpdated", appSlots)
    PROVE  SceneRange'
BY DEF SceneRange, scenePictures

\* The slots of Application
LEMMA ApplicationScene ==
    ASSUME TypeInv, SceneRange, ApplicationThread
    PROVE  SceneRange'
<1> USE DEF scenePictures, managerVars, outputVars, rendererVars, guiVars, appVars, sceneVars
<1>1. UNCHANGED <<sceneAt, m_scene, scenePictures>>
  <2>1. CASE SettingsUpdated \/ onRenderRestart
    BY <2>1 DEF SettingsUpdated, onRenderRestart
  <2>2. CASE SetRunning \/ onSceneLoadingNew
    BY <2>2 DEF SetRunning, onSceneLoadingNew
  <2>3. CASE onOutputSettingsUpdated \/ OutputSettingsFit
    BY <2>3 DEF onOutputSettingsUpdated, OutputSettingsFit
  <2>4. CASE TakeDefaultCamera \/ onSceneUpdatedFit
    BY <2>4 DEF TakeDefaultCamera, onSceneUpdatedFit
  <2>5. QED
    BY <2>1, <2>2, <2>3, <2>4 DEF ApplicationThread
<1>2. Queued("onSceneUpdated", appSlots') => Queued("onSceneUpdated", appSlots)
  <2>1. CASE \E slot \in AppSlotNames : ApplicationCalled(slot)
    <3>1. appSlots \in Seq(AppSlotNames) /\ appSlots # <<>> /\ appSlots' = Tail(appSlots)
      BY <2>1 DEF TypeInv, ApplicationCalled
    <3>2. QED
      BY <3>1, QueuedTail
  <2>2. CASE SetRunning \/ OutputSettingsFit \/ onSceneUpdatedFit
    BY <2>2 DEF SetRunning, OutputSettingsFit, onSceneUpdatedFit, interfaceVars
  <2>3. QED
    BY <2>1, <2>2 DEF ApplicationThread, SettingsUpdated, onRenderRestart, onSceneLoadingNew,
       onOutputSettingsUpdated, TakeDefaultCamera, AppSlotNames, RestartSlots
<1>3. fitting'.slot = "onSceneUpdated" => m_scene \in Addresses
  <2>1. NotFitting.slot # "onSceneUpdated"
    BY NotFittingSlot DEF AppSlotNames, RestartSlots
  <2>2. CASE TakeDefaultCamera
    <3>1. Queued("onSceneUpdated", appSlots)
      BY <2>2, AppSlotTaken DEF TakeDefaultCamera, AppSlotNames, RestartSlots
    <3>2. QED
      BY <3>1 DEF SceneRange
  <2>3. CASE ~TakeDefaultCamera
    <3>1. fitting' = fitting \/ fitting' = NotFitting \/ fitting'.slot = "onOutputSettingsUpdated"
      BY <2>3 DEF ApplicationThread, SettingsUpdated, onRenderRestart, SetRunning,
         onSceneLoadingNew, onOutputSettingsUpdated, OutputSettingsFit, onSceneUpdatedFit
    <3>2. QED
      BY <2>1, <3>1 DEF SceneRange
  <2>4. QED
    BY <2>2, <2>3
<1>4. QED
  BY <1>1, <1>2, <1>3, SceneKept

\* The user's inputs and calls
LEMMA UserScene ==
    ASSUME TypeInv, SceneRange,
           User \/ InterfaceStep \/ AssignRenderMethod \/ DefaultCameraFit \/ UNCHANGED vars
    PROVE  SceneRange'
<1> USE DEF scenePictures, managerVars, outputVars, rendererVars, guiVars, appVars, sceneVars
<1>1. UNCHANGED <<sceneAt, m_scene, scenePictures>> /\ fitting' = fitting
  <2>1. CASE RestartClicked \/ TogglePause
    BY <2>1 DEF RestartClicked, TogglePause
  <2>2. CASE \E method \in RenderMethods : setRenderMethod(method)
    BY <2>2 DEF setRenderMethod
  <2>3. CASE SetCameraToDefault \/ LoadScene
    BY <2>3 DEF SetCameraToDefault, LoadScene
  <2>4. CASE InterfaceStep \/ AssignRenderMethod
    BY <2>4 DEF InterfaceStep, AssignRenderMethod
  <2>5. CASE DefaultCameraFit \/ UNCHANGED vars
    BY <2>5 DEF DefaultCameraFit, vars
  <2>6. QED
    BY <2>1, <2>2, <2>3, <2>4, <2>5 DEF User
<1>2. appSlots' = appSlots \/ \E slot \in AppSlotNames \ {"onSceneUpdated"} :
                                  appSlots' = Append(appSlots, slot)
  <2> USE DEF AppSlotNames, RestartSlots
  <2>1. CASE User
    BY <2>1 DEF User, RestartClicked, TogglePause, ApplicationInput, setRenderMethod,
                SetCameraToDefault, LoadScene
  <2>2. CASE InterfaceStep
    <3>1. CASE transform \/ dolly \/ WriteTypedPose \/ WriteCamera \/ WriteTypedAngles
      BY <3>1 DEF transform, dolly, WriteTypedPose, MoveCamera, WriteCamera, WriteTypedAngles
    <3>2. CASE setPPMInitialRadius \/ EmitCameraUpdated \/ setWidth \/ setHeight
      BY <3>2 DEF setPPMInitialRadius, EmitCameraUpdated, setWidth, setHeight, SetResolution
    <3>3. CASE \/ MousePress \/ MouseMove
               \/ CameraTyped \/ onCornell \/ onSponza \/ onConference
               \/ ResolutionTyped \/ RadiusTyped
      BY <3>3 DEF MousePress, MouseMove, CameraTyped, onCornell, onSponza, onConference,
                  ResolutionTyped, RadiusTyped, Handles
    <3>4. QED
      BY <2>2, <3>1, <3>2, <3>3 DEF InterfaceStep, InterfaceNext
  <2>3. CASE AssignRenderMethod
    BY <2>3 DEF AssignRenderMethod
  <2>4. CASE DefaultCameraFit \/ UNCHANGED vars
    BY <2>4 DEF DefaultCameraFit, vars, interfaceVars
  <2>5. QED
    BY <2>1, <2>2, <2>3, <2>4
<1>3. Queued("onSceneUpdated", appSlots') => Queued("onSceneUpdated", appSlots)
  <2>1. CASE appSlots' = appSlots
    BY <2>1
  <2>2. ASSUME NEW slot \in AppSlotNames \ {"onSceneUpdated"}, appSlots' = Append(appSlots, slot)
        PROVE  Queued("onSceneUpdated", appSlots') => Queued("onSceneUpdated", appSlots)
    <3>1. appSlots \in Seq(AppSlotNames)
      BY DEF TypeInv
    <3>2. \A s : Queued(s, Append(appSlots, slot)) <=> Queued(s, appSlots) \/ s = slot
      BY <3>1, QueuedAppend
    <3>3. QED
      BY <2>2, <3>2
  <2>3. QED
    BY <1>2, <2>1, <2>2
<1>4. QED
  BY <1>1, <1>3, SceneKept DEF SceneRange

\* The scene manager: the version of a scene is the number of inputs.
LEMMA SceneManagerScene ==
    ASSUME PlainRange, SceneRange, SceneThread
    PROVE  SceneRange'
<1> USE DEF scenePictures, managerVars, outputVars, rendererVars, guiVars, appVars
<1>1. CASE SceneLoaded
  <2>1. PICK a \in Addresses : m_scene' = a /\ sceneAt' = [sceneAt EXCEPT ![a] = inputs]
    BY <1>1 DEF SceneLoaded
  <2>2. sceneAt' \in [Addresses -> Versions]
    BY <2>1 DEF SceneRange, PlainRange, Poses, Versions
  <2>3. UNCHANGED scenePictures
    BY <1>1 DEF SceneLoaded
  <2>4. QED
    BY <2>1, <2>2, <2>3 DEF SceneRange
<1>2. CASE LoadFails
  BY <1>2, SceneKept DEF LoadFails, interfaceVars, SceneRange
<1>3. CASE DeleteOldScene
  <2>1. 0 \in Versions
    BY InterfaceAssumption DEF Versions
  <2>2. sceneAt' \in [Addresses -> Versions]
    BY <1>3, <2>1 DEF DeleteOldScene, SceneRange
  <2>3. UNCHANGED <<m_scene, scenePictures, fitting, appSlots>>
    BY <1>3 DEF DeleteOldScene, interfaceVars
  <2>4. QED
    BY <2>2, <2>3 DEF SceneRange
<1>4. QED
  BY <1>1, <1>2, <1>3 DEF SceneThread

\* The manager takes the scene of now and compiles it; what it renders is of that scene.
LEMMA ManagerScene ==
    ASSUME TypeInv, PlainRange, SceneRange, ManagerThread \/ displayFrame
    PROVE  SceneRange'
<1> USE DEF guiVars, interfaceVars, appVars, sceneVars, managerVars, outputVars, rendererVars
<1>1. UNCHANGED <<sceneAt, m_scene, fitting, appSlots>>
  <2>1. CASE \/ onSequenceNumberIncremented \/ onRunningStatusChanged \/ onSceneUpdated
             \/ onContinueRayTracing
    BY <2>1 DEF onSequenceNumberIncremented, onRunningStatusChanged, onSceneUpdated,
                onContinueRayTracing
  <2>2. CASE CompileScene \/ CrashOnDeletedScene \/ Trace
    BY <2>2 DEF CompileScene, CrashOnDeletedScene, Trace
  <2>3. CASE RenderFails \/ Publish \/ PublishFails \/ Continue \/ displayFrame
    BY <2>3 DEF RenderFails, Pause, Publish, PublishFails, Continue, displayFrame
  <2>4. QED
    BY <2>1, <2>2, <2>3 DEF ManagerThread
<1>2. CASE onSceneUpdated
  <2>1. m_currentScene' \in Addresses \cup {NULL} /\ pc' = "idle"
    BY <1>2 DEF onSceneUpdated, Called, TypeInv
  <2>2. UNCHANGED <<compiledScene, frame>>
    BY <1>2 DEF onSceneUpdated
  <2>3. QED
    BY <1>1, <2>1, <2>2 DEF SceneRange
<1>3. CASE onContinueRayTracing
  <2>1. UNCHANGED <<m_currentScene, compiledScene, frame>>
    BY <1>3 DEF onContinueRayTracing
  <2>2. pc' = "render" => m_currentScene # NULL
    BY <1>3 DEF onContinueRayTracing
  <2>3. QED
    BY <1>1, <2>1, <2>2 DEF SceneRange
<1>4. CASE CompileScene
  <2>1. /\ pc = "render" /\ compiledScene' = sceneAt[m_currentScene]
        /\ UNCHANGED <<m_currentScene, pc, frame>>
    BY <1>4 DEF CompileScene
  <2>2. compiledScene' \in Versions
    BY <2>1 DEF SceneRange
  <2>3. QED
    BY <1>1, <2>1, <2>2 DEF SceneRange
<1>5. CASE Trace
  <2> DEFINE old == IF m_nextIterationNumber = 0 THEN [count |-> 0, of |-> {}] ELSE frame
             picture == <<compiledScene, m_renderMethod, resolution>>
  <2>1. frame'.of = old.of \cup {picture} /\ pc' = "publish"
    BY <1>5 DEF Trace
  <2>2. UNCHANGED <<m_currentScene, compiledScene>>
    BY <1>5 DEF Trace
  <2>3. picture[1] \in Versions /\ picture[2] \in RenderMethods
    BY DEF SceneRange, PlainRange
  <2>4. \A p \in old.of : p[1] \in Versions /\ p[2] \in RenderMethods
    BY DEF SceneRange
  <2> HIDE DEF old, picture
  <2>5. \A p \in frame'.of : p[1] \in Versions /\ p[2] \in RenderMethods
    <3>1. \A p \in frame'.of : p \in old.of \/ p = picture
      BY <2>1
    <3>2. QED
      BY <2>3, <2>4, <3>1
  <2>6. (m_renderMethod \in RenderMethods)' => SceneRange'
    BY <1>1, <2>1, <2>2, <2>5 DEF SceneRange
  <2>7. m_renderMethod' \in RenderMethods
    BY <1>5 DEF Trace, PlainRange
  <2>8. QED
    BY <2>6, <2>7
<1>6. CASE RenderFails
  <2>1. /\ pc' = "continue" /\ UNCHANGED <<m_currentScene, compiledScene>>
        /\ frame' = frame \/ frame' = [count |-> 0, of |-> {}]
    BY <1>6 DEF RenderFails, Pause
  <2>2. \A p \in frame'.of : p[1] \in Versions /\ p[2] \in RenderMethods
    BY <2>1 DEF SceneRange
  <2>3. QED
    BY <1>1, <2>1, <2>2 DEF SceneRange
<1>7. CASE \/ onSequenceNumberIncremented \/ onRunningStatusChanged \/ CrashOnDeletedScene
           \/ Publish \/ PublishFails \/ Continue \/ displayFrame
  <2>1. UNCHANGED <<m_currentScene, compiledScene, frame>>
    BY <1>7 DEF onSequenceNumberIncremented, onRunningStatusChanged, CrashOnDeletedScene,
       Publish, PublishFails, Continue, displayFrame
  <2>2. pc' = pc \/ pc' # "render"
    BY <1>7 DEF onSequenceNumberIncremented, onRunningStatusChanged, CrashOnDeletedScene,
       Publish, PublishFails, Continue, displayFrame
  <2>3. QED
    BY <1>1, <2>1, <2>2 DEF SceneRange
<1>8. QED
  BY <1>2, <1>3, <1>4, <1>5, <1>6, <1>7 DEF ManagerThread

\* Every step
LEMMA SceneStep ==
    ASSUME TypeInv, PlainRange, SceneRange, [Next]_vars
    PROVE  SceneRange'
BY ApplicationScene, UserScene, SceneManagerScene, ManagerScene DEF Next

-----------------------------------------------------------------------------
(***************************************************************************)
(* Cameras, resolutions and calls                                          *)
(***************************************************************************)

\* Angles and resolutions are multiplied only.
LEMMA ProductsPositive ==
    ASSUME NEW tangent \in Positive, NEW ratio \in Positive
    PROVE  Divided(tangent, ratio) \in Positive /\ Multiplied(tangent, ratio) \in Positive
<1>1. \A a, b \in Nat \ {0} : a * b \in Nat \ {0}
  OBVIOUS
<1>2. /\ tangent[1] \in Nat \ {0} /\ tangent[2] \in Nat \ {0}
      /\ ratio[1] \in Nat \ {0} /\ ratio[2] \in Nat \ {0}
  BY DEF Positive
<1>3. QED
  BY <1>1, <1>2 DEF Divided, Multiplied, Positive

LEMMA FitInRange ==
    ASSUME NEW camera, CameraOK(camera), CameraInRange(camera),
           NEW measured, MeasuredInRange(measured)
    PROVE  CameraInRange(setAspectRatio(camera, measured))
<1>1. /\ Divided(measured.kept, measured.ratio) \in Positive
      /\ Multiplied(measured.kept, measured.ratio) \in Positive
  BY ProductsPositive DEF MeasuredInRange
<1>2. QED
  BY <1>1 DEF CameraOK, CameraInRange, setAspectRatio

LEMMA MeasuredOfRange ==
    ASSUME NEW camera, CameraInRange(camera), NEW size \in Positive
    PROVE  MeasuredInRange(Measured(camera, size))
BY DEF CameraInRange, MeasuredInRange, Measured

LEMMA DefaultCameraInRange ==
    ASSUME NEW version \in Versions
    PROVE  CameraInRange(DefaultCamera(version))
<1>1. <<1, 1>> \in Positive /\ version \in Poses
  BY DEF Positive, Versions, Poses
<1>2. CameraInRange(BuiltInCamera(version)) /\ CameraInRange(ImportedCamera(version))
  BY <1>1 DEF CameraInRange, BuiltInCamera, ImportedCamera
<1>3. QED
  BY <1>2 DEF DefaultCamera

\* A handler begins.
LEMMA HandlerRange ==
    ASSUME ViewRange, Len(guiCalls') <= 5,
           \A k \in 1 .. Len(guiCalls') : CallInRange(guiCalls'[k]),
           UNCHANGED <<m_camera, resolution, m_PPMInitialRadius, startRadius, fitting>>
    PROVE  ViewRange'
BY DEF ViewRange

\* The calls of the handlers of UserInterface
LEMMA HandlerCallsRange ==
    ASSUME PlainRange,
           \/ MousePress \/ MouseMove
           \/ CameraTyped \/ onCornell \/ onSponza \/ onConference
           \/ ResolutionTyped \/ RadiusTyped
    PROVE  Len(guiCalls') <= 5 /\ \A k \in 1 .. Len(guiCalls') : CallInRange(guiCalls'[k])
<1>1. inputs + 1 \in Poses
  BY InputCounted DEF MousePress, MouseMove, CameraTyped, onCornell, onSponza, onConference,
     ResolutionTyped, RadiusTyped, Handles
<1>2. \A c \in {Emit, Radius, Rotate, Dolly, TypedPose, Typed} : CallInRange(c)
  BY <1>1 DEF Emit, Radius, Rotate, Dolly, TypedPose, Typed, CallInRange
<1>3. \A size \in Positive : CallInRange(Width(size)) /\ CallInRange(Height(size))
  BY DEF Width, Height, CallInRange, Positive
<1>4. \A preset \in {Cornell, Sponza, Conference} :
          /\ preset.resolution \in Positive
          /\ CallInRange(Camera(preset.hfov, preset.vfov))
  <2>1. \A hfov, vfov \in Positive : CallInRange(Camera(hfov, vfov))
    BY <1>1 DEF Camera, CallInRange
  <2>2. \A preset \in {Cornell, Sponza, Conference} :
            preset.resolution \in Positive /\ preset.hfov \in Positive /\ preset.vfov \in Positive
    BY DEF Cornell, Sponza, Conference, Positive
  <2>3. QED
    BY <2>1, <2>2
<1> DEFINE Good(calls) ==
               Len(calls) <= 5 /\ \A k \in 1 .. Len(calls) : CallInRange(calls[k])
<1>5. ASSUME NEW a, NEW b, NEW c, NEW d, NEW e, CallInRange(a), CallInRange(b),
             CallInRange(c), CallInRange(d), CallInRange(e)
      PROVE  Good(<<a>>) /\ Good(<<a, b>>) /\ Good(<<a, b, c>>) /\ Good(<<a, b, c, d, e>>)
  <2>1. /\ \A k \in 1 .. 2 : k = 1 \/ k = 2
        /\ \A k \in 1 .. 3 : k = 1 \/ k = 2 \/ k = 3
        /\ \A k \in 1 .. 5 : k = 1 \/ k = 2 \/ k = 3 \/ k = 4 \/ k = 5
    OBVIOUS
  <2>2. Good(<<a>>)
    BY <1>5
  <2>3. Good(<<a, b>>)
    BY <1>5, <2>1
  <2>4. Good(<<a, b, c>>)
    BY <1>5, <2>1
  <2>5. Good(<<a, b, c, d, e>>)
    <3> DEFINE calls == <<a, b, c, d, e>>
    <3>1. /\ Len(calls) = 5 /\ calls[1] = a /\ calls[2] = b /\ calls[3] = c
          /\ calls[4] = d /\ calls[5] = e
      OBVIOUS
    <3> HIDE DEF calls
    <3>2. Good(calls)
      BY <1>5, <2>1, <3>1
    <3>3. QED
      BY <3>2 DEF calls
  <2>6. QED
    BY <2>2, <2>3, <2>4, <2>5
<1> SUFFICES Good(guiCalls')
  OBVIOUS
<1> HIDE DEF Good
<1>6. CASE MousePress \/ MouseMove \/ CameraTyped \/ RadiusTyped
  <2>1. guiCalls' \in {<<Emit>>, <<Rotate, Emit>>, <<Dolly, Emit>>, <<TypedPose, Typed, Emit>>,
                       <<Radius>>}
    BY <1>6 DEF MousePress, MouseMove, CameraTyped, RadiusTyped, Handles
  <2>2. Good(<<Emit>>) /\ Good(<<Radius>>) /\ Good(<<Rotate, Emit>>) /\ Good(<<Dolly, Emit>>)
    BY <1>2, <1>5
  <2>3. Good(<<TypedPose, Typed, Emit>>)
    BY <1>2, <1>5
  <2>4. QED
    BY <2>1, <2>2, <2>3
<1>7. CASE ResolutionTyped
  <2>1. PICK size \in Resolutions : guiCalls' = <<Width(size), Height(size)>>
    BY <1>7 DEF ResolutionTyped, Handles
  <2>2. size \in Positive
    BY InterfaceAssumption DEF Positive
  <2>3. QED
    BY <1>3, <1>5, <2>1, <2>2
<1>8. CASE onCornell
  BY <1>2, <1>3, <1>4, <1>5, <1>8 DEF onCornell, Handles
<1>9. CASE onSponza
  BY <1>2, <1>3, <1>4, <1>5, <1>9 DEF onSponza, Handles
<1>10. CASE onConference
  BY <1>2, <1>3, <1>4, <1>5, <1>10 DEF onConference, Handles
<1>11. QED
  BY <1>6, <1>7, <1>8, <1>9, <1>10

\* A call of the user's thread: what is left to be made, and what this one carries
LEMMA CallRange ==
    ASSUME TypeInv, CallsInv, ViewRange, guiCalls # <<>>, guiCalls' = Tail(guiCalls)
    PROVE  /\ CallInRange(Head(guiCalls))
           /\ Len(guiCalls') <= 5
           /\ \A k \in 1 .. Len(guiCalls') : CallInRange(guiCalls'[k])
<1>1. PICK S : guiCalls \in Seq(S)
  BY DEF TypeInv
<1>2. /\ Len(guiCalls) \in Nat /\ Len(guiCalls') = Len(guiCalls) - 1
      /\ 1 \in 1 .. Len(guiCalls) /\ Head(guiCalls) = guiCalls[1]
      /\ \A k \in 1 .. Len(guiCalls') :
             k + 1 \in 1 .. Len(guiCalls) /\ guiCalls'[k] = guiCalls[k + 1]
  BY <1>1, TailOfQueue
<1>3. Len(guiCalls) <= 5 /\ \A k \in 1 .. Len(guiCalls) : CallInRange(guiCalls[k])
  BY DEF ViewRange
<1>4. Len(guiCalls') <= 5
  BY <1>2, <1>3
<1>5. QED
  BY <1>2, <1>3, <1>4

\* The calls of UserInterface
LEMMA InterfaceCallRange ==
    ASSUME TypeInv, CallsInv, ViewRange, startRadius' = startRadius, fitting' = fitting,
           \/ transform \/ dolly \/ WriteTypedPose \/ WriteCamera \/ WriteTypedAngles
           \/ setPPMInitialRadius \/ setWidth \/ setHeight \/ EmitCameraUpdated
    PROVE  ViewRange'
<1> DEFINE call == Head(guiCalls)
<1>1. /\ CallInRange(call) /\ Len(guiCalls') <= 5
      /\ \A k \in 1 .. Len(guiCalls') : CallInRange(guiCalls'[k])
  BY CallRange DEF transform, dolly, WriteTypedPose, WriteCamera, WriteTypedAngles,
     setPPMInitialRadius, setWidth, setHeight, EmitCameraUpdated, Call
<1>2. CameraOK(m_camera) /\ CameraInRange(m_camera) /\ resolution \in Positive
  BY DEF TypeInv, ViewRange
<1>3. (CameraInRange(m_camera') /\ resolution' \in Positive /\ m_PPMInitialRadius' \in Poses)
          => ViewRange'
  BY <1>1 DEF ViewRange
<1>4. m_PPMInitialRadius \in Poses
  BY DEF ViewRange
<1> HIDE DEF call
<1>5. CASE transform \/ dolly \/ WriteTypedPose
  <2>1. PICK pose : MoveCamera(pose) /\ (pose = m_camera.pose \/ pose = call[2])
    BY <1>5 DEF transform, dolly, WriteTypedPose, call
  <2>2. call[2] \in Poses
    BY <1>1, <1>5 DEF transform, dolly, WriteTypedPose, Call, call, CallInRange
  <2>3. CameraInRange(m_camera')
    BY <1>2, <2>1, <2>2 DEF MoveCamera, CameraOK, CameraInRange
  <2>4. QED
    BY <1>2, <1>3, <1>4, <2>1, <2>3 DEF MoveCamera
<1>6. CASE WriteCamera
  <2>1. call[1] = "camera" /\ UNCHANGED <<resolution, m_PPMInitialRadius>>
    BY <1>6 DEF WriteCamera, Call, call
  <2>2. m_camera' = [m_camera EXCEPT !.pose = call[2], !.hfov = call[3], !.vfov = call[4]]
    BY <1>6 DEF WriteCamera, call
  <2>3. call[2] \in Poses /\ call[3] \in Positive /\ call[4] \in Positive
    BY <1>1, <2>1 DEF CallInRange
  <2>4. CameraInRange(m_camera')
    BY <1>2, <2>2, <2>3 DEF CameraOK, CameraInRange
  <2>5. QED
    BY <1>2, <1>3, <1>4, <2>1, <2>4
<1>7. CASE WriteTypedAngles \/ EmitCameraUpdated
  BY <1>2, <1>3, <1>4, <1>7 DEF WriteTypedAngles, EmitCameraUpdated, viewVars
<1>8. CASE setPPMInitialRadius
  <2>1. call[1] = "radius" /\ m_PPMInitialRadius' = call[2] /\ UNCHANGED <<m_camera, resolution>>
    BY <1>8 DEF setPPMInitialRadius, Call, call, viewVars
  <2>2. QED
    BY <1>1, <1>2, <1>3, <2>1 DEF CallInRange
<1>9. CASE setWidth \/ setHeight
  <2>1. /\ call[1] \in {"width", "height"} /\ UNCHANGED <<m_camera, m_PPMInitialRadius>>
        /\ resolution' = <<call[2], resolution[2]>> \/ resolution' = <<resolution[1], call[2]>>
    BY <1>9 DEF setWidth, setHeight, SetResolution, Call, call
  <2>2. resolution' \in Positive
    BY <1>1, <1>2, <2>1 DEF CallInRange, Positive
  <2>3. QED
    BY <1>2, <1>3, <1>4, <2>1, <2>2
<1>10. QED
  BY <1>5, <1>6, <1>7, <1>8, <1>9

\* The camera is fitted to what was measured.
LEMMA FitRange ==
    ASSUME TypeInv, ViewRange, NEW measured, MeasuredInRange(measured), FitCamera(measured)
    PROVE  CameraInRange(m_camera') /\ resolution' \in Positive
BY FitInRange DEF TypeInv, ViewRange, FitCamera

\* The slots of Application
LEMMA ApplicationRange ==
    ASSUME TypeInv, ViewRange, SceneRange, ApplicationThread
    PROVE  ViewRange'
<1> USE DEF viewVars, managerVars, settings
<1>1. guiCalls' = guiCalls /\ startRadius' = startRadius
  <2>1. CASE SettingsUpdated \/ onRenderRestart \/ onSceneLoadingNew
    BY <2>1 DEF SettingsUpdated, onRenderRestart, onSceneLoadingNew, ApplicationCalled
  <2>2. CASE onOutputSettingsUpdated \/ TakeDefaultCamera
    BY <2>2 DEF onOutputSettingsUpdated, TakeDefaultCamera, ApplicationCalled
  <2>3. CASE SetRunning \/ OutputSettingsFit \/ onSceneUpdatedFit
    BY <2>3 DEF SetRunning, OutputSettingsFit, onSceneUpdatedFit, guiVars, interfaceVars
  <2>4. QED
    BY <2>1, <2>2, <2>3 DEF ApplicationThread
<1>2. /\ CameraInRange(m_camera) /\ resolution \in Positive /\ m_PPMInitialRadius \in Poses
      /\ fitting # NotFitting => MeasuredInRange(fitting.measured)
      /\ sceneAt \in [Addresses -> Versions]
      /\ (fitting.slot = "onSceneUpdated" \/ Queued("onSceneUpdated", appSlots)) =>
             m_scene \in Addresses
  BY DEF ViewRange, SceneRange
<1>3. (/\ CameraInRange(m_camera') /\ resolution' \in Positive /\ m_PPMInitialRadius' \in Poses
       /\ fitting' # NotFitting => MeasuredInRange(fitting'.measured))
          => ViewRange'
  BY <1>1 DEF ViewRange
<1>4. CASE SettingsUpdated \/ onRenderRestart \/ onSceneLoadingNew \/ SetRunning
  BY <1>2, <1>3, <1>4 DEF SettingsUpdated, onRenderRestart, onSceneLoadingNew, SetRunning,
     appVars, guiVars, interfaceVars
<1>5. CASE onOutputSettingsUpdated
  <2>1. /\ fitting'.measured = Measured(m_camera, resolution)
        /\ UNCHANGED <<m_camera, resolution, m_PPMInitialRadius>>
    BY <1>5 DEF onOutputSettingsUpdated
  <2>2. QED
    BY <1>2, <1>3, <2>1, MeasuredOfRange
<1>6. CASE TakeDefaultCamera
  <2>1. /\ ApplicationCalled("onSceneUpdated") /\ m_camera' = DefaultCamera(sceneAt[m_scene])
        /\ fitting'.measured = Measured(m_camera', resolution)
        /\ UNCHANGED <<resolution, m_PPMInitialRadius>>
    BY <1>6 DEF TakeDefaultCamera
  <2>2. sceneAt[m_scene] \in Versions
    BY <1>2, <2>1, AppSlotTaken
  <2>3. CameraInRange(m_camera')
    BY <2>1, <2>2, DefaultCameraInRange
  <2>4. QED
    BY <1>2, <1>3, <2>1, <2>3, MeasuredOfRange
<1>7. CASE OutputSettingsFit \/ onSceneUpdatedFit
  <2>1. /\ FitCamera(fitting.measured) /\ fitting' = NotFitting
        /\ fitting.slot \in {"onOutputSettingsUpdated", "onSceneUpdated"}
    BY <1>7 DEF OutputSettingsFit, onSceneUpdatedFit
  <2>2. fitting # NotFitting
    BY <2>1, NotFittingSlot DEF AppSlotNames, RestartSlots
  <2>3. m_PPMInitialRadius' \in Poses
    <3>1. CASE OutputSettingsFit
      BY <1>2, <3>1 DEF OutputSettingsFit
    <3>2. CASE onSceneUpdatedFit
      <4>1. m_PPMInitialRadius' = sceneAt[m_scene] /\ fitting.slot = "onSceneUpdated"
        BY <3>2 DEF onSceneUpdatedFit
      <4>2. QED
        BY <1>2, <4>1 DEF Versions, Poses
    <3>3. QED
      BY <1>7, <3>1, <3>2
  <2>4. QED
    BY <1>2, <1>3, <2>1, <2>2, <2>3, FitRange
<1>8. QED
  BY <1>4, <1>5, <1>6, <1>7 DEF ApplicationThread

\* The user's inputs and calls
LEMMA UserRange ==
    ASSUME TypeInv, CallsInv, PlainRange, ViewRange, SceneRange,
           InterfaceStep \/ SetCameraToDefault \/ DefaultCameraFit
    PROVE  ViewRange'
<1> USE DEF viewVars, managerVars, settings, appVars
<1>1. CASE InterfaceStep
  <2>1. InterfaceNext /\ startRadius' = startRadius /\ fitting' = fitting
    BY <1>1 DEF InterfaceStep
  <2>2. CASE \/ MousePress \/ MouseMove
             \/ CameraTyped \/ onCornell \/ onSponza \/ onConference
             \/ ResolutionTyped \/ RadiusTyped
    <3>1. UNCHANGED <<m_camera, resolution, m_PPMInitialRadius>>
      BY <2>2 DEF MousePress, MouseMove, CameraTyped, onCornell, onSponza, onConference,
                  ResolutionTyped, RadiusTyped, Handles
    <3>2. QED
      BY <2>1, <2>2, <3>1, HandlerCallsRange, HandlerRange
  <2>3. QED
    BY <2>1, <2>2, InterfaceCallRange DEF InterfaceNext
<1>2. CASE SetCameraToDefault
  <2> DEFINE measured == Measured(m_camera', resolution)
  <2>1. /\ m_camera' = DefaultCamera(sceneAt[m_scene]) /\ guiCalls' = <<<<"fit", measured>>>>
        /\ UNCHANGED <<resolution, m_PPMInitialRadius, startRadius, fitting>>
    BY <1>2 DEF SetCameraToDefault
  <2>2. sceneAt[m_scene] \in Versions
    BY <1>2 DEF SetCameraToDefault, TypeInv, SceneRange
  <2>3. CameraInRange(m_camera') /\ resolution \in Positive
    BY <2>1, <2>2, DefaultCameraInRange DEF ViewRange
  <2>4. MeasuredInRange(measured)
    BY <2>3, MeasuredOfRange
  <2> HIDE DEF measured
  <2>5. CallInRange(<<"fit", measured>>)
    BY <2>4 DEF CallInRange
  <2>6. Len(guiCalls') <= 5 /\ \A k \in 1 .. Len(guiCalls') : CallInRange(guiCalls'[k])
    BY <2>1, <2>5
  <2>7. QED
    BY <2>1, <2>3, <2>6 DEF ViewRange
<1>3. CASE DefaultCameraFit
  <2>1. /\ guiCalls # <<>> /\ guiCalls' = Tail(guiCalls) /\ Head(guiCalls)[1] = "fit"
        /\ FitCamera(Head(guiCalls)[2])
        /\ UNCHANGED <<m_PPMInitialRadius, startRadius, fitting>>
    BY <1>3 DEF DefaultCameraFit, Call
  <2>2. /\ CallInRange(Head(guiCalls)) /\ Len(guiCalls') <= 5
        /\ \A k \in 1 .. Len(guiCalls') : CallInRange(guiCalls'[k])
    BY <2>1, CallRange
  <2>3. MeasuredInRange(Head(guiCalls)[2])
    BY <2>1, <2>2 DEF CallInRange
  <2>4. CameraInRange(m_camera') /\ resolution' \in Positive
    BY <2>1, <2>3, FitRange
  <2>5. QED
    BY <2>1, <2>2, <2>4 DEF ViewRange
<1>4. QED
  BY <1>1, <1>2, <1>3

\* No other thread writes to the picture; the manager takes the radius with a sequence.
LEMMA OtherRange ==
    ASSUME ViewRange,
           \/ RestartClicked \/ TogglePause \/ LoadScene \/ AssignRenderMethod
           \/ \E method \in RenderMethods : setRenderMethod(method)
           \/ SceneThread \/ ManagerThread \/ displayFrame \/ UNCHANGED vars
    PROVE  ViewRange'
<1> USE DEF guiVars, interfaceVars, viewVars, managerVars, settings, appVars
<1>1. /\ UNCHANGED <<guiCalls, m_camera, resolution, m_PPMInitialRadius, fitting>>
      /\ startRadius' \in {startRadius, m_PPMInitialRadius}
  <2>1. CASE RestartClicked \/ TogglePause \/ LoadScene \/ AssignRenderMethod
    BY <2>1 DEF RestartClicked, TogglePause, LoadScene, AssignRenderMethod, ApplicationInput
  <2>2. CASE \E method \in RenderMethods : setRenderMethod(method)
    BY <2>2 DEF setRenderMethod
  <2>3. CASE SceneThread
    BY <2>3 DEF SceneThread, SceneLoaded, LoadFails, DeleteOldScene
  <2>4. CASE ManagerThread
    <3>1. CASE \/ onSequenceNumberIncremented \/ onRunningStatusChanged \/ onSceneUpdated
               \/ onContinueRayTracing
      BY <3>1 DEF onSequenceNumberIncremented, onRunningStatusChanged, onSceneUpdated,
                  onContinueRayTracing
    <3>2. CASE CompileScene \/ CrashOnDeletedScene \/ Trace \/ RenderFails
      BY <3>2 DEF CompileScene, CrashOnDeletedScene, Trace, RenderFails, Pause
    <3>3. CASE Publish \/ PublishFails \/ Continue
      BY <3>3 DEF Publish, PublishFails, Continue
    <3>4. QED
      BY <2>4, <3>1, <3>2, <3>3 DEF ManagerThread
  <2>5. CASE displayFrame \/ UNCHANGED vars
    BY <2>5 DEF displayFrame, vars
  <2>6. QED
    BY <2>1, <2>2, <2>3, <2>4, <2>5
<1>2. startRadius' \in Poses
  BY <1>1 DEF ViewRange
<1>3. QED
  BY <1>1, <1>2 DEF ViewRange

-----------------------------------------------------------------------------
(***************************************************************************)
(* The types                                                               *)
(***************************************************************************)
LEMMA InitRange == Init => RangeInv
<1> SUFFICES ASSUME Init PROVE RangeInv
  OBVIOUS
<1> USE DEF Init, InterfaceInit
<1>1. MaxInputs \in Nat /\ NumIterations \in Nat /\ 0 \in Poses /\ 0 \in Versions
      /\ 0 \in 0 .. NumIterations
  BY InterfaceAssumption DEF Poses, Versions
<1>2. ViewRange
  <2>1. <<1, 2>> \in Positive /\ <<2, 2>> \in Positive
    BY DEF Positive
  <2>2. guiCalls = <<>> /\ Len(<<>>) = 0
    OBVIOUS
  <2>3. QED
    BY <1>1, <2>1, <2>2 DEF ViewRange, CameraInRange
<1>3. SceneRange
  <2>1. fitting.slot # "onSceneUpdated"
    BY NotFittingSlot DEF AppSlotNames, RestartSlots
  <2>2. appSlots = <<>> /\ Len(<<>>) = 0
    OBVIOUS
  <2>3. ~Queued("onSceneUpdated", appSlots)
    BY <2>2 DEF Queued
  <2>4. sceneAt \in [Addresses -> Versions] /\ frame.of = {}
    BY <1>1
  <2>5. QED
    BY <1>1, <2>1, <2>3, <2>4 DEF SceneRange
<1>4. PlainRange
  BY <1>1 DEF PlainRange
<1>5. CountRange
  BY <1>1 DEF CountRange
<1>6. QED
  BY <1>2, <1>3, <1>4, <1>5 DEF RangeInv

LEMMA StepRange ==
    ASSUME IInv, RangeInv, [Next]_vars
    PROVE  RangeInv'
<1> USE DEF IInv, RangeInv
<1>1. ViewRange'
  <2>1. TypeInv /\ CallsInv
    BY DEF ViewInv
  <2>2. QED
    BY <2>1, ApplicationRange, UserRange, OtherRange DEF Next, User
<1>2. QED
  BY <1>1, SceneStep, PlainStep, CountStep

\* Every reachable state keeps to the limits: a camera's angles and a resolution are
\* never zero, Application never fits the camera of a scene that is not there, and
\* the counts stay within the number of iterations.
THEOREM RangeInvariance == Spec => []RangeInv
BY PictureInvariance, InitRange, StepRange, PTL DEF Spec

\* The type invariant, for all bounds of inputs and iterations.
THEOREM TypeOKHolds == Spec => []TypeOK
<1>1. IInv /\ RangeInv => TypeOK
  <2> SUFFICES ASSUME IInv, RangeInv PROVE TypeOK
    OBVIOUS
  <2> USE DEF IInv, RangeInv
  <2>1. InterfaceTypeOK
    BY DEF InterfaceTypeOK, TypeInv, ViewRange, PlainRange, CameraOK, Modes, CameraInRange,
           Poses, Positive
  <2>2. fitting.slot \in {None, "onOutputSettingsUpdated", "onSceneUpdated"}
    BY DEF TypeInv, NotFitting
  <2>3. frame.count \in 0 .. NumIterations + 1
    BY InterfaceAssumption DEF CountRange, PlainRange
  <2>4. startRadius \in 0 .. MaxInputs
    BY DEF ViewRange, Poses
  <2>5. QED
    BY <2>1, <2>2, <2>3, <2>4 DEF TypeOK, TypeInv, SceneRange, PlainRange, CountRange, SlotNames,
       AppSlotNames, RestartSlots
<1>2. QED
  BY <1>1, PictureInvariance, RangeInvariance, PTL
=============================================================================
