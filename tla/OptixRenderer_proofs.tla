------------------------ MODULE OptixRenderer_proofs ------------------------
(***************************************************************************)
(* Invariance proofs for OptixRenderer: the sizes of the buffers a launch  *)
(* runs over, whatever throws; the slots that photons are stored in and    *)
(* the places that light vertices are given, for launches of every width   *)
(* and height and every order of the threads; the light along a ray, over  *)
(* any number of segments; the sums of the pixels, over any number of      *)
(* sequences and iterations; the photons found in a grid, and in a tree    *)
(* with the lemmas of KdTree_proofs; the limits of depths and counts; and  *)
(* the lights of imported and built-in scenes.                             *)
(***************************************************************************)
EXTENDS OptixRenderer, KdTree_proofs

-----------------------------------------------------------------------------
(***************************************************************************)
(* Slots of threads                                                        *)
(***************************************************************************)

\* Two numbers with the same quotient and remainder by W are equal.
LEMMA QuotientIsUnique ==
    ASSUME NEW W \in Nat \ {0}, NEW a \in Int, NEW b \in Int,
           NEW r \in 0 .. W - 1, NEW s \in 0 .. W - 1, a * W + r = b * W + s
    PROVE  a = b /\ r = s
<1>1. (a - b) * W = s - r /\ (b - a) * W = r - s
  OBVIOUS
<1>2. \A d \in Nat : d >= 1 => d * W >= W
  OBVIOUS
<1>3. ~(a > b)
  <2> SUFFICES ASSUME a > b PROVE FALSE
    OBVIOUS
  <2>1. a - b \in Nat /\ a - b >= 1
    OBVIOUS
  <2>2. QED
    BY <1>1, <1>2, <2>1
<1>4. ~(b > a)
  <2> SUFFICES ASSUME b > a PROVE FALSE
    OBVIOUS
  <2>1. b - a \in Nat /\ b - a >= 1
    OBVIOUS
  <2>2. QED
    BY <1>1, <1>2, <2>1
<1>5. QED
  BY <1>3, <1>4

\* The launch as the assumption on it allows
LEMMA LaunchSize ==
    /\ PHOTON_LAUNCH_WIDTH \in Nat \ {0}
    /\ PHOTON_LAUNCH_HEIGHT \in Nat \ {0}
    /\ MaxPhotonDeposits \in Nat \ {0}
BY RendererAssumption

\* The number of a thread in the launch
Number(t) == t[2] * PHOTON_LAUNCH_WIDTH + t[1]

LEMMA NumberIsUnique ==
    ASSUME NEW t \in Threads, NEW u \in Threads, Number(t) = Number(u)
    PROVE  t = u
<1>1. /\ t[1] \in 0 .. PHOTON_LAUNCH_WIDTH - 1 /\ u[1] \in 0 .. PHOTON_LAUNCH_WIDTH - 1
      /\ t[2] \in Int /\ u[2] \in Int
      /\ t = <<t[1], t[2]>> /\ u = <<u[1], u[2]>>
  BY LaunchSize DEF Threads
<1>2. t[2] = u[2] /\ t[1] = u[1]
  BY <1>1, LaunchSize, QuotientIsUnique DEF Number
<1>3. QED
  BY <1>1, <1>2

LEMMA NumberIsBounded ==
    ASSUME NEW t \in Threads
    PROVE  Number(t) \in 0 .. PHOTON_LAUNCH_WIDTH * PHOTON_LAUNCH_HEIGHT - 1
<1> DEFINE W == PHOTON_LAUNCH_WIDTH
           H == PHOTON_LAUNCH_HEIGHT
           x == t[1]
           y == t[2]
<1>1. W \in Nat \ {0} /\ H \in Nat \ {0} /\ x \in 0 .. W - 1 /\ y \in 0 .. H - 1
  BY LaunchSize DEF Threads
<1> HIDE DEF W, H, x, y
<1>2. y * W \in Nat /\ y * W <= (H - 1) * W
  BY <1>1
<1>3. (H - 1) * W = W * H - W
  BY <1>1
<1>4. y * W + x \in Int /\ y * W + x >= 0 /\ y * W + x <= W * H - 1
  BY <1>1, <1>2, <1>3
<1>5. W * H \in Int
  BY <1>1
<1>6. QED
  BY <1>4, <1>5 DEF Number, W, H, x, y

\* The slots of a thread are slots of the buffer, and no other thread's.
LEMMA SlotIsInBuffer ==
    ASSUME NEW t \in Threads, NEW k \in 0 .. MaxPhotonDeposits - 1
    PROVE  PmIndex(t) + k \in Slots /\ PmIndex(t) \in Nat
<1> DEFINE N == PHOTON_LAUNCH_WIDTH * PHOTON_LAUNCH_HEIGHT
           M == MaxPhotonDeposits
           n == Number(t)
<1>1. N \in Nat /\ M \in Nat \ {0} /\ n \in 0 .. N - 1 /\ k \in 0 .. M - 1
  BY LaunchSize, NumberIsBounded
<1>2. PmIndex(t) = n * M /\ Slots = 0 .. N * M - 1
  BY DEF PmIndex, Slots, Number
<1> HIDE DEF N, M, n
<1>3. n * M \in Nat /\ n * M <= (N - 1) * M
  BY <1>1
<1>4. (N - 1) * M = N * M - M
  BY <1>1
<1>5. n * M + k \in Int /\ n * M + k >= 0 /\ n * M + k <= N * M - 1 /\ N * M \in Int
  BY <1>1, <1>3, <1>4
<1>6. QED
  BY <1>2, <1>3, <1>5

LEMMA SlotIsUnique ==
    ASSUME NEW t \in Threads, NEW u \in Threads,
           NEW k \in 0 .. MaxPhotonDeposits - 1, NEW l \in 0 .. MaxPhotonDeposits - 1,
           PmIndex(t) + k = PmIndex(u) + l
    PROVE  t = u /\ k = l
<1>1. Number(t) \in Int /\ Number(u) \in Int
  BY NumberIsBounded
<1>2. Number(t) * MaxPhotonDeposits + k = Number(u) * MaxPhotonDeposits + l
  BY DEF PmIndex, Number
<1>3. Number(t) = Number(u) /\ k = l
  BY <1>1, <1>2, LaunchSize, QuotientIsUnique
<1>4. QED
  BY <1>3, NumberIsUnique

\* A thread has at least one slot.
LEMMA DepositBounds ==
    ASSUME NEW k \in 0 .. MaxPhotonDeposits - 1
    PROVE  k \in Nat /\ k \in Int /\ ~(k < 0) /\ k < MaxPhotonDeposits
<1>1. MaxPhotonDeposits \in Int
  BY LaunchSize
<1>2. QED
  BY <1>1

LEMMA HasSlotLeft ==
    ASSUME NEW n \in 0 .. MaxPhotonDeposits, n < MaxPhotonDeposits
    PROVE  n \in 0 .. MaxPhotonDeposits - 1
<1>1. MaxPhotonDeposits \in Int
  BY LaunchSize
<1>2. QED
  BY <1>1

LEMMA SlotsOfThread ==
    ASSUME NEW t \in Threads, NEW u \in Threads, NEW k \in 0 .. MaxPhotonDeposits - 1
    PROVE  PmIndex(u) + k \in SlotsOf(t) <=> u = t
<1>1. PmIndex(u) \in Int /\ PmIndex(t) \in Int /\ k \in Int /\ 0 <= k /\ k <= MaxPhotonDeposits - 1
  <2>1. 0 \in 0 .. MaxPhotonDeposits - 1
    BY LaunchSize
  <2>2. QED
    BY <2>1, LaunchSize, SlotIsInBuffer
<1>2. ASSUME u = t PROVE PmIndex(u) + k \in SlotsOf(t)
  BY <1>1, <1>2, LaunchSize DEF SlotsOf
<1>3. ASSUME PmIndex(u) + k \in SlotsOf(t) PROVE u = t
  <2> DEFINE l == PmIndex(u) + k - PmIndex(t)
  <2>1. l \in 0 .. MaxPhotonDeposits - 1 /\ PmIndex(u) + k = PmIndex(t) + l
    BY <1>1, <1>3, LaunchSize DEF SlotsOf
  <2> HIDE DEF l
  <2>2. QED
    BY <2>1, SlotIsUnique
<1>4. QED
  BY <1>2, <1>3

LEMMA NextSlot ==
    ASSUME NEW n \in 0 .. MaxPhotonDeposits - 1, NEW k \in 0 .. MaxPhotonDeposits - 1
    PROVE  k < n + 1 <=> k < n \/ k = n
<1>1. n \in Int /\ k \in Int
  BY DepositBounds
<1>2. QED
  BY <1>1

-----------------------------------------------------------------------------
(***************************************************************************)
(* The inductive invariant                                                 *)
(***************************************************************************)
WalkStates == {"not started", "walking", "ended"}
Walk == [state : WalkStates, depth : Nat, stored : 0 .. MaxPhotonDeposits]
Request == [sequence : Nat, iteration : Nat, method : Methods \cup {"none"},
            size : Sizes \cup {InitialSize}, finished : BOOLEAN]

\* The types the two properties depend on.
TypeInv ==
    /\ methods \subseteq Methods
    /\ request \in Request
    /\ walks \in [Threads -> Walk]

\* All buffers have the size that the renderer takes them for once they are created,
\* unless a resize has failed half-way; past it, that is the size asked for.
SizeInv ==
    /\ initialized = "not yet" => pc = "idle" /\ width = InitialSize
    /\ initialized # "not yet" /\ ~torn => BuffersFit
    /\ pc = "undefined" => torn
    /\ pc \notin {"idle", "resize", "undefined"} => width = request.size

\* Threads start anew in every launch, and one that walks has a slot left.
WalkInv ==
    /\ pc # "photon walks" => walks = [t \in Threads |-> NotStarted]
    /\ \A t \in Threads :
           /\ walks[t].state = "not started" => walks[t].stored = 0
           /\ walks[t].state = "walking" => walks[t].stored < MaxPhotonDeposits
           /\ walks[t].state # "not started" => DOMAIN photons = Slots

IInv == TypeInv /\ SizeInv /\ WalkInv /\ DepositsStayInOwnSlots

-----------------------------------------------------------------------------
(***************************************************************************)
(* The host                                                                *)
(***************************************************************************)

\* A thread that has not started has stored nothing.
LEMMA NotStartedIsWalk ==
    NotStarted \in Walk /\ NotStarted.state = "not started" /\ NotStarted.stored = 0
<1>1. "not started" \in WalkStates /\ 0 \in Nat /\ 0 \in 0 .. MaxPhotonDeposits
  BY LaunchSize DEF WalkStates
<1>2. QED
  BY <1>1 DEF NotStarted, Walk

\* Nothing is launched.
LEMMA InitIInv == Init => IInv
<1> SUFFICES ASSUME Init PROVE IInv
  OBVIOUS
<1>1. /\ methods \in MethodChoices
      /\ request = [sequence |-> 0, iteration |-> 0, method |-> "none", size |-> InitialSize,
                    finished |-> FALSE]
      /\ pc = "idle"
      /\ initialized = "not yet" /\ width = InitialSize
      /\ walks = [t \in Threads |-> NotStarted]
  BY DEF Init
<1>2. TypeInv
  <2>1. methods \subseteq Methods
    BY <1>1, RendererAssumption
  <2>2. request \in Request
    BY <1>1 DEF Request
  <2>3. QED
    BY <1>1, NotStartedIsWalk, <2>1, <2>2 DEF TypeInv
<1>3. SizeInv
  BY <1>1 DEF SizeInv
<1>4. WalkInv
  BY <1>1, NotStartedIsWalk DEF WalkInv
<1>5. DepositsStayInOwnSlots
  BY <1>1 DEF DepositsStayInOwnSlots
<1>6. QED
  BY <1>2, <1>3, <1>4, <1>5 DEF IInv

\* Between the launches of photons, what is left of them does not matter.
LEMMA NoWalks ==
    ASSUME IInv, pc # "photon walks", pc' # "photon walks", walks' = walks
    PROVE  walks' \in [Threads -> Walk] /\ WalkInv' /\ DepositsStayInOwnSlots'
<1>1. /\ walks' = [t \in Threads |-> NotStarted]
      /\ \A t \in Threads : walks'[t] = NotStarted
  BY DEF IInv, WalkInv
<1>2. NotStarted.state = "not started" /\ NotStarted.stored = 0
  BY DEF NotStarted
<1>3. WalkInv'
  BY <1>1, <1>2 DEF WalkInv
<1>4. QED
  BY <1>3 DEF IInv, TypeInv, DepositsStayInOwnSlots

\* A pass that is not photons' leaves the sizes alone.
LEMMA PassIInv ==
    ASSUME IInv, UNCHANGED <<methods, initialized, width, buffers, torn>>,
           pc \notin {"idle", "resize", "clear", "undefined", "photon walks"},
           pc' \notin {"undefined", "photon walks"}, walks' = walks,
           request' = request \/ \E b \in BOOLEAN : request' = [request EXCEPT !.finished = b]
    PROVE  IInv'
<1>1. request' \in Request /\ request'.size = request.size
  BY DEF IInv, TypeInv, Request
<1>2. TypeInv' /\ WalkInv' /\ DepositsStayInOwnSlots'
  BY <1>1, NoWalks DEF IInv, TypeInv
<1>3. SizeInv'
  BY <1>1 DEF IInv, SizeInv, BuffersFit
<1>4. QED
  BY <1>2, <1>3 DEF IInv

\* Initialisation, scenes and the calls of the render manager
LEMMA CallIInv ==
    ASSUME IInv, Initialize \/ InitScene \/ InitSceneFails \/ FirstIteration \/ NextIteration
    PROVE  IInv'
<1> USE DEF IInv, frameVars
<1>1. CASE Initialize
  <2>1. /\ initialized = "not yet" /\ initialized' = "yes" /\ pc' = "idle" /\ width' = width
        /\ buffers' = NewBuffers(width)
    BY <1>1 DEF Initialize, SizeInv
  <2>2. \A b \in DOMAIN buffers' : buffers'[b] = width'
    <3> DEFINE names == {"output", "hits", "direct", "indirect", "index"}
    <3>1. DOMAIN NewBuffers(width) = names
      BY DEF NewBuffers
    <3>2. \A b \in names : NewBuffers(width)[b] = width
      BY DEF NewBuffers
    <3> HIDE DEF names
    <3>3. QED
      BY <2>1, <3>1, <3>2
  <2>3. SizeInv'
    BY <2>1, <2>2 DEF SizeInv, BuffersFit
  <2>4. TypeInv' /\ WalkInv' /\ DepositsStayInOwnSlots'
    BY <1>1 DEF Initialize, TypeInv, WalkInv, DepositsStayInOwnSlots
  <2>5. QED
    BY <2>3, <2>4
<1>2. ASSUME pc = "idle", pc' \in {"idle", "resize", "clear"},
             initialized # "not yet", initialized' # "not yet",
             UNCHANGED <<methods, width, buffers, walks, torn>>, request' \in Request,
             pc' = "clear" => width = request'.size
      PROVE  IInv'
  <2>1. TypeInv' /\ WalkInv' /\ DepositsStayInOwnSlots'
    BY <1>2, NoWalks DEF TypeInv
  <2>2. SizeInv'
    BY <1>2 DEF SizeInv, BuffersFit
  <2>3. QED
    BY <2>1, <2>2
<1>3. CASE InitScene
  BY <1>2, <1>3 DEF InitScene, MayInitScene, TypeInv, Request
<1>4. CASE InitSceneFails
  BY <1>2, <1>4 DEF InitSceneFails, MayInitScene, TypeInv, Request
<1>5. CASE FirstIteration
  <2>1. PICK m \in methods, s \in Sizes :
            /\ request' = [sequence |-> request.sequence + 1, iteration |-> 0, method |-> m,
                           size |-> s, finished |-> FALSE]
            /\ pc' = IF MustResize(s) THEN "resize" ELSE "clear"
    BY <1>5 DEF FirstIteration
  <2>2. request' \in Request /\ request'.size = s
    BY <2>1 DEF TypeInv, Request
  <2>3. pc' = "clear" => width = s
    BY <2>1 DEF MustResize
  <2>4. pc' \in {"idle", "resize", "clear"}
    BY <2>1
  <2>5. QED
    BY <1>2, <1>5, <2>2, <2>3, <2>4 DEF FirstIteration
<1>6. CASE NextIteration
  <2>1. /\ request' = [request EXCEPT !.iteration = IF request.finished THEN @ + 1 ELSE @,
                                      !.finished = FALSE]
        /\ pc' = IF MustResize(request.size) THEN "resize" ELSE "clear"
    BY <1>6 DEF NextIteration
  <2>2. request' \in Request /\ request'.size = request.size
    <3> DEFINE i == IF request.finished THEN request.iteration + 1 ELSE request.iteration
    <3>1. i \in Nat
      BY DEF TypeInv, Request
    <3>2. request' = [sequence |-> request.sequence, iteration |-> i,
                      method |-> request.method, size |-> request.size, finished |-> FALSE]
      BY <2>1, Zenon DEF TypeInv, Request
    <3> HIDE DEF i
    <3>3. QED
      BY <3>1, <3>2 DEF TypeInv, Request
  <2>3. pc' = "clear" => width = request.size
    BY <2>1 DEF MustResize
  <2>4. pc' \in {"idle", "resize", "clear"}
    BY <2>1
  <2>5. QED
    BY <1>2, <1>6, <2>2, <2>3, <2>4 DEF NextIteration
<1>7. QED
  BY <1>1, <1>3, <1>4, <1>5, <1>6

\* A resize that succeeds mends one that has failed; only after one of those can a
\* launch run over buffers of another size.
LEMMA ResizeIInv ==
    ASSUME IInv, Resize \/ ResizeFails \/ ClearOutput
    PROVE  IInv'
<1> USE DEF IInv
<1>1. pc # "photon walks" /\ pc' # "photon walks" /\ walks' = walks
      /\ UNCHANGED <<methods, request>>
  BY DEF Resize, ResizeFails, ClearOutput
<1>2. TypeInv' /\ WalkInv' /\ DepositsStayInOwnSlots'
  BY <1>1, NoWalks DEF TypeInv
<1>3. SizeInv'
  <2>1. CASE Resize
    BY <2>1 DEF Resize, SizeInv, BuffersFit
  <2>2. CASE ResizeFails
    BY <2>2 DEF ResizeFails, SizeInv
  <2>3. CASE ClearOutput
    BY <2>3 DEF ClearOutput, SizeInv, BuffersFit
  <2>4. QED
    BY <2>1, <2>2, <2>3
<1>4. QED
  BY <1>2, <1>3

\* An exception in a launch
LEMMA ThrowsIInv ==
    ASSUME IInv, Throws
    PROVE  IInv'
BY PassIInv DEF Throws

-----------------------------------------------------------------------------
(***************************************************************************)
(* The passes                                                              *)
(***************************************************************************)

\* Rays, and the vertices of light paths
LEMMA RaysIInv ==
    ASSUME IInv, Rays
    PROVE  IInv'
<1> USE PassIInv DEF frameVars
<1>1. CASE LaunchRays
  BY <1>1 DEF LaunchRays
<1>2. CASE RadianceHit
  BY <1>2 DEF RadianceHit
<1>3. CASE PathSegment
  BY <1>3 DEF PathSegment
<1>4. CASE DirectRadiance
  BY <1>4 DEF DirectRadiance
<1>5. CASE EndOfRay
  BY <1>5 DEF EndOfRay
<1>6. QED
  BY <1>1, <1>2, <1>3, <1>4, <1>5 DEF Rays

LEMMA ConnectionsIInv ==
    ASSUME IInv, Connections
    PROVE  IInv'
<1> USE PassIInv DEF frameVars
<1>1. CASE EstimateVertexCounts
  BY <1>1 DEF EstimateVertexCounts
<1>2. CASE LaunchLightPass
  BY <1>2 DEF LaunchLightPass
<1>3. CASE LightPassEnds
  BY <1>3 DEF LightPassEnds
<1>4. CASE CameraPass
  BY <1>4 DEF CameraPass
<1>5. CASE \E p \in Pixels(width) : StoreLightVertex(p)
  BY <1>5 DEF StoreLightVertex
<1>6. QED
  BY <1>1, <1>2, <1>3, <1>4, <1>5 DEF Connections

\* What becomes of a walk's depth and state leaves the number of its photons alone.
LEMMA WalkWith ==
    ASSUME NEW w \in Walk, NEW depth, NEW state, NEW walk,
           walk = [w EXCEPT !.depth = depth, !.state = state]
    PROVE  walk = [state |-> state, depth |-> depth, stored |-> w.stored]
BY DEF Walk

\* The photons' launch begins with no thread started, and a thread that starts clears
\* its own slots and nobody else's.
LEMMA LaunchPhotonsIInv ==
    ASSUME IInv, LaunchPhotons
    PROVE  IInv'
<1> USE DEF IInv, LaunchPhotons, frameVars
<1>1. TypeInv' /\ SizeInv'
  BY DEF TypeInv, SizeInv, BuffersFit
<1>2. \A t \in Threads : walks'[t] = NotStarted
  BY DEF WalkInv
<1>3. WalkInv'
  BY <1>2, NotStartedIsWalk DEF WalkInv
<1>4. DepositsStayInOwnSlots'
  BY <1>2, NotStartedIsWalk DEF DepositsStayInOwnSlots
<1>5. QED
  BY <1>1, <1>3, <1>4

LEMMA GenerateIInv ==
    ASSUME IInv, NEW t \in Threads, Generate(t)
    PROVE  IInv'
<1> USE DEF IInv, frameVars
<1>1. /\ pc = "photon walks" /\ pc' = pc
      /\ walks[t].state = "not started"
      /\ photons' = ClearedSlots(t)
      /\ UNCHANGED <<methods, initialized, request, width, buffers, torn>>
  BY DEF Generate
<1>2. walks \in [Threads -> Walk] /\ walks[t].depth \in Nat /\ walks[t].stored = 0
  BY <1>1 DEF TypeInv, WalkInv, Walk
<1>a. walks' = [walks EXCEPT ![t].state = "walking"]
  BY DEF Generate
<1>3. /\ walks'[t] = [state |-> "walking", depth |-> walks[t].depth, stored |-> 0]
      /\ \A u \in Threads \ {t} : walks'[u] = walks[u]
      /\ DOMAIN walks' = Threads
  BY <1>2, <1>a DEF Walk
<1>4. walks'[t] \in Walk /\ walks'[t].stored = 0 /\ walks'[t].state = "walking"
  <2>1. "walking" \in WalkStates /\ 0 \in 0 .. MaxPhotonDeposits
    BY LaunchSize DEF WalkStates
  <2>2. QED
    BY <1>2, <1>3, <2>1 DEF Walk
<1>5. walks' \in [Threads -> Walk]
  <2>1. walks' = [u \in Threads |-> walks'[u]]
    BY <1>2, <1>a
  <2>2. \A u \in Threads : walks'[u] \in Walk
    BY <1>2, <1>3, <1>4
  <2>3. QED
    BY <2>1, <2>2
<1>6. TypeInv' /\ SizeInv'
  BY <1>1, <1>5 DEF TypeInv, SizeInv, BuffersFit
<1>7. WalkInv'
  <2>1. DOMAIN photons' = Slots
    BY <1>1 DEF ClearedSlots
  <2>2. QED
    <3>1. 0 < MaxPhotonDeposits
      BY LaunchSize
    <3>2. \A u \in Threads : u # t => walks'[u] = walks[u]
      BY <1>3
    <3>3. QED
      BY <1>1, <1>4, <2>1, <3>1, <3>2 DEF WalkInv
<1>8. DepositsStayInOwnSlots'
  <2> SUFFICES ASSUME NEW u \in Threads, walks'[u].state # "not started",
                      NEW k \in 0 .. MaxPhotonDeposits - 1
               PROVE  photons'[PmIndex(u) + k].stored
                          = IF k < walks'[u].stored THEN <<u, k>> ELSE <<>>
    BY DEF DepositsStayInOwnSlots
  <2>1. PmIndex(u) + k \in Slots /\ (PmIndex(u) + k \in SlotsOf(t) <=> u = t)
    BY SlotIsInBuffer, SlotsOfThread
  <2>2. CASE u = t
    <3>1. photons'[PmIndex(u) + k] = NoPhoton
      BY <1>1, <2>1, <2>2 DEF ClearedSlots
    <3>2. ~(k < 0)
      BY DepositBounds
    <3>a. NoPhoton.stored = <<>>
      BY DEF NoPhoton
    <3>3. QED
      BY <1>4, <2>2, <3>1, <3>2, <3>a
  <2>3. CASE u # t
    <3>1. photons'[PmIndex(u) + k] = photons[PmIndex(u) + k]
      BY <1>1, <2>1, <2>3 DEF ClearedSlots
    <3>2. walks'[u] = walks[u]
      BY <1>3, <2>3
    <3>3. photons[PmIndex(u) + k].stored = IF k < walks[u].stored THEN <<u, k>> ELSE <<>>
      BY <1>1, <3>2 DEF DepositsStayInOwnSlots
    <3>4. QED
      BY <3>1, <3>2, <3>3
  <2>4. QED
    BY <2>2, <2>3
<1>9. QED
  BY <1>6, <1>7, <1>8

\* A thread that hits something may store one photon in its next slot; it goes on only
\* if there is another.
LEMMA WalkIInv ==
    ASSUME IInv, NEW t \in Threads, PhotonHit(t), NEW walk \in Walk, Walks(t, walk),
           walk.state # "not started",
           walk.state = "walking" => walk.stored < MaxPhotonDeposits,
           \/ UNCHANGED photons /\ walk.stored = walks[t].stored
           \/ /\ \E position \in PhotonPositions : photons' = StorePhoton(t, position)
              /\ walk.stored = walks[t].stored + 1
    PROVE  IInv'
<1> USE DEF IInv, frameVars
<1>1. /\ pc = "photon walks" /\ pc' = pc
      /\ walks[t].state = "walking"
      /\ UNCHANGED <<methods, initialized, request, width, buffers, torn>>
  BY DEF PhotonHit, Walks
<1>2. /\ walks \in [Threads -> Walk] /\ walks[t] \in Walk
      /\ walks[t].stored \in 0 .. MaxPhotonDeposits - 1
      /\ DOMAIN photons = Slots
  <2>1. walks \in [Threads -> Walk] /\ walks[t] \in Walk
    BY DEF TypeInv
  <2>2. walks[t].stored < MaxPhotonDeposits /\ DOMAIN photons = Slots
    BY <1>1 DEF WalkInv
  <2>3. walks[t].stored \in 0 .. MaxPhotonDeposits
    BY <2>1 DEF Walk
  <2>4. walks[t].stored \in 0 .. MaxPhotonDeposits - 1
    BY <2>2, <2>3, HasSlotLeft
  <2>5. QED
    BY <2>1, <2>2, <2>4
<1> DEFINE next == IF walk.state = "ended" THEN [walk EXCEPT !.depth = 0] ELSE walk
<1>3. next \in Walk /\ next.state = walk.state /\ next.stored = walk.stored
  BY DEF Walk
<1>4. walks' = [walks EXCEPT ![t] = next]
  BY DEF Walks
<1> HIDE DEF next
<1>5. walks' \in [Threads -> Walk] /\ walks'[t] = next
      /\ \A u \in Threads \ {t} : walks'[u] = walks[u]
  BY <1>2, <1>3, <1>4
<1>6. TypeInv' /\ SizeInv'
  BY <1>1, <1>5 DEF TypeInv, SizeInv, BuffersFit
<1>7. WalkInv'
  <2>1. DOMAIN photons' = Slots
    BY <1>2 DEF StorePhoton
  <2>2. QED
    BY <1>1, <1>3, <1>5, <2>1 DEF WalkInv
<1>8. DepositsStayInOwnSlots'
  <2> SUFFICES ASSUME NEW u \in Threads, walks'[u].state # "not started",
                      NEW k \in 0 .. MaxPhotonDeposits - 1
               PROVE  photons'[PmIndex(u) + k].stored
                          = IF k < walks'[u].stored THEN <<u, k>> ELSE <<>>
    BY DEF DepositsStayInOwnSlots
  <2>1. walks[u].state # "not started"
    BY <1>1, <1>5
  <2>2. photons[PmIndex(u) + k].stored = IF k < walks[u].stored THEN <<u, k>> ELSE <<>>
    BY <1>1, <2>1 DEF DepositsStayInOwnSlots
  <2>3. CASE UNCHANGED photons /\ walk.stored = walks[t].stored
    BY <1>3, <1>5, <2>2, <2>3
  <2>4. CASE /\ \E position \in PhotonPositions : photons' = StorePhoton(t, position)
             /\ walk.stored = walks[t].stored + 1
    <3> DEFINE n == walks[t].stored
    <3>1. n \in 0 .. MaxPhotonDeposits - 1
      BY <1>2
    <3>2. PICK position \in PhotonPositions :
              photons' = [photons EXCEPT ![PmIndex(t) + n] = [at |-> position, stored |-> <<t, n>>]]
      BY <2>4 DEF StorePhoton
    <3>3. walks'[t].stored = n + 1
      BY <1>3, <1>5, <2>4
    <3>4. /\ u = t /\ k = n => photons'[PmIndex(u) + k].stored = <<t, n>>
          /\ ~(u = t /\ k = n) => photons'[PmIndex(u) + k] = photons[PmIndex(u) + k]
      <4> DEFINE photon == [at |-> position, stored |-> <<t, n>>]
                 i == PmIndex(t) + n
                 j == PmIndex(u) + k
      <4>1. j \in DOMAIN photons
        BY <1>2, SlotIsInBuffer
      <4> HIDE DEF n
      <4>2. j = i <=> u = t /\ k = n
        BY <3>1, SlotIsUnique
      <4>3. photons' = [photons EXCEPT ![i] = photon]
        BY <3>2
      <4>4. photon.stored = <<t, n>>
        BY Zenon
      <4> HIDE DEF photon, i, j
      <4>5. photons'[j] = IF j = i THEN photon ELSE photons[j]
        BY <4>1, <4>3
      <4>6. QED
        BY <4>2, <4>4, <4>5, Zenon DEF i, j
    <3>5. k < n + 1 <=> k < n \/ k = n
      BY <3>1, NextSlot
    <3>6. CASE u = t
      <4>1. photons[PmIndex(u) + k].stored = IF k < n THEN <<u, k>> ELSE <<>>
        BY <2>2, <3>6
      <4> HIDE DEF n
      <4>2. CASE k = n
        <5>1. photons'[PmIndex(u) + k].stored = <<u, k>>
          BY <3>4, <3>6, <4>2, Zenon
        <5>2. QED
          BY <3>3, <3>5, <3>6, <4>2, <5>1, Zenon
      <4>3. CASE k # n
        BY <3>3, <3>4, <3>5, <3>6, <4>1, <4>3, Zenon
      <4>4. QED
        BY <4>2, <4>3
    <3>7. CASE u # t
      BY <1>5, <2>2, <3>4, <3>7
    <3>8. QED
      BY <3>6, <3>7
  <2>5. QED
    BY <2>3, <2>4
<1>9. QED
  BY <1>6, <1>7, <1>8

\* What becomes of a photon on a matt surface: a thread whose slots are full ends.
LEMMA ScatteredIsWalk ==
    ASSUME NEW w \in Walk, w.state = "walking", NEW walk \in Scattered(w)
    PROVE  /\ walk \in Walk /\ walk.state # "not started" /\ walk.stored = w.stored
           /\ walk.state = "walking" => walk.stored < MaxPhotonDeposits
<1>0. w.depth \in Nat /\ w.stored \in 0 .. MaxPhotonDeposits
  BY DEF Walk
<1>1. CASE walk = [w EXCEPT !.state = "ended"]
  BY <1>1 DEF Walk, WalkStates
<1>2. CASE \E weak \in BOOLEAN :
               walk = [w EXCEPT !.depth = @ + 1,
                                !.state = IF weak \/ w.depth + 1 >= MAX_PHOTON_TRACE_DEPTH
                                             \/ FullThreadStops(w.stored)
                                          THEN "ended" ELSE @]
  <2>1. PICK weak \in BOOLEAN :
            walk = [w EXCEPT !.depth = @ + 1,
                             !.state = IF weak \/ w.depth + 1 >= MAX_PHOTON_TRACE_DEPTH
                                          \/ FullThreadStops(w.stored)
                                       THEN "ended" ELSE @]
    BY <1>2
  <2> DEFINE ends == weak \/ w.depth + 1 >= MAX_PHOTON_TRACE_DEPTH \/ FullThreadStops(w.stored)
             state == IF ends THEN "ended" ELSE "walking"
  <2>2. walk = [w EXCEPT !.depth = w.depth + 1, !.state = state]
    BY <2>1
  <2>3. state \in {"walking", "ended"} /\ (state = "walking" => ~FullThreadStops(w.stored))
    OBVIOUS
  <2> HIDE DEF state
  <2>4. walk = [state |-> state, depth |-> w.depth + 1, stored |-> w.stored]
    BY <2>2 DEF Walk
  <2>5. w.depth + 1 \in Nat
    BY <1>0
  <2>6. state \in WalkStates
    BY <2>3 DEF WalkStates
  <2>7. walk \in Walk /\ walk.state = state /\ walk.stored = w.stored
    BY <1>0, <2>4, <2>5, <2>6 DEF Walk
  <2>8. state # "not started"
    BY <2>3
  <2>9. state = "walking" => w.stored < MaxPhotonDeposits
    <3>1. w.stored \in Int /\ MaxPhotonDeposits \in Int
      BY <1>0, LaunchSize
    <3>2. QED
      BY <2>3, <3>1 DEF FullThreadStops
  <2>10. QED
    BY <2>7, <2>8, <2>9
<1>3. QED
  BY <1>1, <1>2 DEF Scattered

LEMMA MattPhotonIInv ==
    ASSUME IInv, NEW t \in Threads, NEW stores \in BOOLEAN, MattPhotonHit(t, stores)
    PROVE  IInv'
<1> DEFINE stored == IF stores THEN walks[t].stored + 1 ELSE walks[t].stored
           w == [walks[t] EXCEPT !.stored = stored]
<1>1. /\ PhotonHit(t)
      /\ IF stores THEN \E position \in PhotonPositions : photons' = StorePhoton(t, position)
         ELSE UNCHANGED photons
      /\ \E walk \in Scattered(w) : Walks(t, walk)
  BY DEF MattPhotonHit
<1>2. /\ walks[t] \in Walk /\ walks[t].state = "walking"
      /\ walks[t].stored \in 0 .. MaxPhotonDeposits - 1
  <2>1. walks[t] \in Walk /\ walks[t].state = "walking"
    BY <1>1 DEF PhotonHit, IInv, TypeInv
  <2>2. walks[t].stored < MaxPhotonDeposits
    BY <2>1 DEF IInv, WalkInv
  <2>3. walks[t].stored \in 0 .. MaxPhotonDeposits
    BY <2>1 DEF Walk
  <2>4. walks[t].stored \in 0 .. MaxPhotonDeposits - 1
    BY <2>2, <2>3, HasSlotLeft
  <2>5. QED
    BY <2>1, <2>4
<1>3. stored \in 0 .. MaxPhotonDeposits
  BY <1>2, LaunchSize
<1>4. stored = IF stores THEN walks[t].stored + 1 ELSE walks[t].stored
  OBVIOUS
<1> HIDE DEF stored
<1>5. w \in Walk /\ w.state = "walking" /\ w.stored = stored
  BY <1>2, <1>3 DEF Walk
<1> HIDE DEF w
<1>6. PICK walk \in Scattered(w) : Walks(t, walk)
  BY <1>1
<1>7. /\ walk \in Walk /\ walk.state # "not started" /\ walk.stored = stored
      /\ walk.state = "walking" => walk.stored < MaxPhotonDeposits
  BY <1>5, ScatteredIsWalk
<1>8. QED
  BY <1>1, <1>4, <1>6, <1>7, WalkIInv

\* Glass and mirrors, emitters and misses store nothing.
LEMMA PassedPhotonIInv ==
    ASSUME IInv, NEW t \in Threads,
           GlassPhoton(t) \/ MirrorPhoton(t) \/ DiffuseEmitterPhoton(t) \/ PhotonMiss(t)
    PROVE  IInv'
<1>1. PhotonHit(t) /\ UNCHANGED photons
  BY DEF GlassPhoton, MirrorPhoton, DiffuseEmitterPhoton, PhotonMiss
<1>2. /\ walks[t] \in Walk /\ walks[t].state = "walking" /\ walks[t].depth \in Nat
      /\ walks[t].stored \in 0 .. MaxPhotonDeposits /\ walks[t].stored < MaxPhotonDeposits
  BY <1>1 DEF PhotonHit, IInv, TypeInv, WalkInv, Walk
<1>3. PICK depth \in Nat, state \in {"walking", "ended"} :
          Walks(t, [state |-> state, depth |-> depth, stored |-> walks[t].stored])
  <2>1. CASE GlassPhoton(t) \/ MirrorPhoton(t)
    <3> DEFINE state == IF SpecularGoesOn(walks[t].depth + 1) THEN "walking" ELSE "ended"
    <3>1. PassedOn(walks[t]) = [walks[t] EXCEPT !.depth = walks[t].depth + 1, !.state = state]
      BY <1>2 DEF PassedOn
    <3>2. state \in {"walking", "ended"} /\ walks[t].depth + 1 \in Nat
      BY <1>2
    <3> HIDE DEF state
    <3>3. PassedOn(walks[t])
              = [state |-> state, depth |-> walks[t].depth + 1, stored |-> walks[t].stored]
      BY <1>2, <3>1 DEF Walk
    <3>4. QED
      BY <2>1, <3>2, <3>3 DEF GlassPhoton, MirrorPhoton
  <2>2. CASE DiffuseEmitterPhoton(t)
    <3> DEFINE depth == walks[t].depth + 1
               state == "ended"
               walk == [walks[t] EXCEPT !.depth = @ + 1, !.state = "ended"]
    <3>1. walk = [walks[t] EXCEPT !.depth = depth, !.state = state]
      OBVIOUS
    <3>2. depth \in Nat /\ state \in {"walking", "ended"}
      BY <1>2
    <3>3. Walks(t, walk)
      BY <2>2 DEF DiffuseEmitterPhoton
    <3> HIDE DEF depth, state, walk
    <3>4. walk = [state |-> state, depth |-> depth, stored |-> walks[t].stored]
      BY <1>2, <3>1, WalkWith
    <3>5. QED
      BY <3>2, <3>3, <3>4
  <2>3. CASE PhotonMiss(t)
    <3>1. [walks[t] EXCEPT !.state = "ended"]
              = [state |-> "ended", depth |-> walks[t].depth, stored |-> walks[t].stored]
      BY <1>2 DEF Walk
    <3>2. QED
      BY <1>2, <2>3, <3>1 DEF PhotonMiss
  <2>4. QED
    BY <2>1, <2>2, <2>3
<1> DEFINE walk == [state |-> state, depth |-> depth, stored |-> walks[t].stored]
<1>4. walk \in Walk /\ walk.state # "not started" /\ walk.stored = walks[t].stored
  BY <1>2 DEF Walk, WalkStates
<1>5. Walks(t, walk)
  BY <1>3
<1> HIDE DEF walk
<1>6. QED
  BY <1>1, <1>2, <1>4, <1>5, WalkIInv

\* The map is built when all threads have ended, and they start anew.
LEMMA MapIInv ==
    ASSUME IInv, createUniformGridPhotonMap \/ createPhotonKdTreeOnCPU
    PROVE  IInv'
<1> USE DEF IInv, frameVars
<1>1. /\ pc = "photon walks" /\ pc' \in {"idle", "estimate"}
      /\ walks' = [t \in Threads |-> NotStarted]
      /\ UNCHANGED <<methods, initialized, request, width, buffers, torn>>
  BY DEF createUniformGridPhotonMap, createPhotonKdTreeOnCPU, CreatesMap
<1>2. \A t \in Threads : walks'[t] = NotStarted
  BY <1>1
<1>3. TypeInv' /\ SizeInv'
  BY <1>1, NotStartedIsWalk DEF TypeInv, SizeInv, BuffersFit
<1>4. WalkInv'
  BY <1>1, <1>2, NotStartedIsWalk DEF WalkInv
<1>5. QED
  BY <1>1, <1>3, <1>4 DEF DepositsStayInOwnSlots

LEMMA PhotonMappingIInv ==
    ASSUME IInv, PhotonMapping
    PROVE  IInv'
<1>1. CASE LaunchPhotons
  BY <1>1, LaunchPhotonsIInv
<1>2. CASE \E t \in Threads : Generate(t)
  BY <1>2, GenerateIInv
<1>3. CASE \E t \in Threads : DiffusePhoton(t) \/ GlossyPhoton(t) \/ TexturePhoton(t)
  <2>1. PICK t \in Threads : DiffusePhoton(t) \/ GlossyPhoton(t) \/ TexturePhoton(t)
    BY <1>3
  <2> DEFINE counted == walks[t].depth >= 1 /\ walks[t].stored < MaxPhotonDeposits
             uncounted == walks[t].depth >= 1
  <2>2. MattPhotonHit(t, counted) \/ MattPhotonHit(t, uncounted)
    BY <2>1 DEF DiffusePhoton, GlossyPhoton, TexturePhoton
  <2>a. counted \in BOOLEAN /\ uncounted \in BOOLEAN
    OBVIOUS
  <2> HIDE DEF counted, uncounted
  <2>3. QED
    BY <2>2, <2>a, MattPhotonIInv
<1>4. CASE \E t \in Threads : GlassPhoton(t) \/ MirrorPhoton(t) \/ DiffuseEmitterPhoton(t)
                                  \/ PhotonMiss(t)
  BY <1>4, PassedPhotonIInv
<1>5. CASE createUniformGridPhotonMap \/ createPhotonKdTreeOnCPU
  BY <1>5, MapIInv
<1>6. CASE EstimateRadiance
  BY <1>6, PassIInv DEF EstimateRadiance, frameVars
<1>7. CASE OutputPass
  BY <1>7, PassIInv DEF OutputPass
<1>8. QED
  BY <1>1, <1>2, <1>3, <1>4, <1>5, <1>6, <1>7 DEF PhotonMapping

-----------------------------------------------------------------------------
(***************************************************************************)
(* The theorems                                                            *)
(***************************************************************************)
LEMMA StepIInv ==
    ASSUME IInv, [Next]_vars
    PROVE  IInv'
<1>1. CASE Host
  BY <1>1, CallIInv, ResizeIInv, ThrowsIInv DEF Host
<1>2. CASE Rays
  BY <1>2, RaysIInv
<1>3. CASE PhotonMapping
  BY <1>3, PhotonMappingIInv
<1>4. CASE Connections
  BY <1>4, ConnectionsIInv
<1>5. CASE UNCHANGED vars
  <2>1. UNCHANGED <<methods, initialized, request, pc, width, buffers, photons, walks, torn>>
    BY <1>5 DEF vars, frameVars
  <2>2. QED
    BY <2>1 DEF IInv, TypeInv, SizeInv, BuffersFit, WalkInv, DepositsStayInOwnSlots
<1>6. QED
  BY <1>1, <1>2, <1>3, <1>4, <1>5 DEF Next

\* The sizes of the buffers and the slots of the threads, for every launch, every number
\* of slots, and every pass that may throw.
THEOREM Invariance == Spec => []IInv
<1>1. Init => IInv
  BY InitIInv
<1>2. IInv /\ [Next]_vars => IInv'
  BY StepIInv
<1>3. QED
  BY <1>1, <1>2, PTL DEF Spec

\* No launch runs over buffers of another size than was asked for, whatever throws and
\* whenever the size changes, unless resizeBuffers itself has failed half-way since the
\* last time it succeeded.
THEOREM BuffersFitLaunchHolds == Spec => []BuffersFitLaunch
<1>1. IInv => BuffersFitLaunch
  BY DEF IInv, SizeInv, BuffersFitLaunch
<1>2. QED
  BY <1>1, Invariance, PTL

\* The programs that trace photons write into the slots of their own thread alone, each
\* slot once in a pass, in every order of the threads: the stride of pm_index and the
\* check for full slots after a photon was stored are enough, also for Texture, which
\* does not check before.
THEOREM DepositsStayInOwnSlotsHolds == Spec => []DepositsStayInOwnSlots
<1>1. IInv => DepositsStayInOwnSlots
  BY DEF IInv
<1>2. QED
  BY <1>1, Invariance, PTL

-----------------------------------------------------------------------------
(***************************************************************************)
(* The vertices of light paths                                             *)
(***************************************************************************)
FrameSizes == Sizes \cup {InitialSize}
BufferSizes == FrameSizes \cup {NoSize}
BufferNames == {"output", "hits", "direct", "indirect", "index"}
LightFields == {"estimated", "capacity", "counter", "counts", "index", "cells"}

\* The paths that the buffers of the light vertices are made for
Paths == Pixels(buffers.index)

\* Once it is estimated, the memory of the light vertices has the size of the index that
\* resizeBuffers has made.
LightTypes ==
    /\ width \in FrameSizes
    /\ buffers \in [BufferNames -> BufferSizes]
    /\ light = [f \in LightFields |-> light[f]]
    /\ light.estimated =>
           /\ light.capacity \in Int
           /\ light.counts \in [Paths -> 0 .. MaxPathVertices]
           /\ light.index \in [VertexIndices(Paths) -> Int]
           /\ DOMAIN light.cells = 0 .. light.capacity - 1

\* The launches of VCM run over them.
LaunchInv ==
    /\ pc \in {"count", "light", "light paths", "camera"} => buffers.index = width
    /\ pc \in {"light", "light paths", "camera"} => light.estimated

\* The counter has passed every place that was given to a vertex, and a place within the
\* buffer still holds the vertex that it was given to.
PlaceInv ==
    pc \in {"light paths", "camera"} =>
        /\ light.counter = Cardinality(VerticesOf(light.counts))
        /\ \A v \in VerticesOf(light.counts) :
               /\ light.index[v] \in 0 .. light.counter - 1
               /\ light.index[v] < light.capacity => light.cells[light.index[v]] = v

VertexInv == LightTypes /\ LaunchInv /\ PlaceInv

LEMMA PathsAreBounded == MaxPathVertices \in Nat
<1>1. {MaxPathVertices, MaxSequence, MaxIteration} \subseteq Nat
  BY RendererAssumption
<1>2. QED
  BY <1>1

\* Frames of any size have finitely many paths, and these finitely many vertices.
LEMMA PixelsAreFinite ==
    ASSUME NEW size \in FrameSizes
    PROVE  NumPixels(size) \in Nat /\ IsFiniteSet(Pixels(size))
<1>1. size[1] \in Nat /\ size[2] \in Nat
  <2>1. CASE size \in Sizes
    <3>1. Sizes \subseteq (Nat \ {0}) \X (Nat \ {0})
      BY RendererAssumption
    <3>2. QED
      BY <2>1, <3>1
  <2>2. CASE size = <<10, 10>>
    BY <2>2
  <2>3. QED
    BY <2>1, <2>2 DEF FrameSizes, InitialSize
<1>2. NumPixels(size) \in Nat
  BY <1>1 DEF NumPixels
<1>3. NumPixels(size) - 1 \in Int
  BY <1>2
<1>4. IsFiniteSet(0 .. NumPixels(size) - 1)
  BY <1>3, FS_Interval
<1>5. QED
  BY <1>2, <1>4 DEF Pixels

LEMMA VerticesAreFinite ==
    ASSUME NEW size \in FrameSizes, NEW counts \in [Pixels(size) -> 0 .. MaxPathVertices]
    PROVE  IsFiniteSet(VerticesOf(counts)) /\ Cardinality(VerticesOf(counts)) \in Nat
<1>1. IsFiniteSet(Pixels(size)) /\ IsFiniteSet(0 .. MaxPathVertices - 1)
  <2>1. MaxPathVertices - 1 \in Int
    BY PathsAreBounded
  <2>2. QED
    BY <2>1, PixelsAreFinite, FS_Interval
<1>2. IsFiniteSet(VertexIndices(Pixels(size)))
  BY <1>1, FS_Product DEF VertexIndices
<1>3. VerticesOf(counts) \subseteq VertexIndices(Pixels(size))
  BY DEF VerticesOf
<1>4. IsFiniteSet(VerticesOf(counts))
  BY <1>2, <1>3, FS_Subset
<1>5. QED
  BY <1>4, FS_CardinalityType

\* One more vertex of a path
LEMMA OneMoreVertex ==
    ASSUME NEW paths, NEW counts \in [paths -> 0 .. MaxPathVertices],
           NEW p \in paths, counts[p] < MaxPathVertices,
           NEW more \in [paths -> Int], more[p] = counts[p] + 1,
           \A q \in paths \ {p} : more[q] = counts[q]
    PROVE  /\ more \in [paths -> 0 .. MaxPathVertices]
           /\ <<p, counts[p]>> \in VertexIndices(paths)
           /\ <<p, counts[p]>> \notin VerticesOf(counts)
           /\ VerticesOf(more) = VerticesOf(counts) \cup {<<p, counts[p]>>}
<1>1. MaxPathVertices \in Nat /\ counts[p] \in Int /\ 0 <= counts[p]
  BY PathsAreBounded
<1>2. counts[p] + 1 \in 0 .. MaxPathVertices /\ counts[p] \in 0 .. MaxPathVertices - 1
  BY <1>1
<1>3. more \in [paths -> 0 .. MaxPathVertices] /\ DOMAIN counts = paths /\ DOMAIN more = paths
  <2>1. \A q \in paths : more[q] \in 0 .. MaxPathVertices
    BY <1>2
  <2>2. QED
    BY <2>1
<1>4. <<p, counts[p]>> \in VertexIndices(paths)
  BY <1>2 DEF VertexIndices
<1>5. <<p, counts[p]>> \notin VerticesOf(counts)
  BY <1>1 DEF VerticesOf
<1>6. ASSUME NEW v \in VertexIndices(paths)
      PROVE  v[2] < more[v[1]] <=> v[2] < counts[v[1]] \/ v = <<p, counts[p]>>
  <2>1. v[1] \in paths /\ v[2] \in Int /\ v = <<v[1], v[2]>>
    BY DEF VertexIndices
  <2>2. CASE v[1] = p
    <3>1. more[v[1]] = counts[p] + 1
      BY <2>2
    <3>2. v[2] < counts[p] + 1 <=> v[2] < counts[p] \/ v[2] = counts[p]
      BY <1>1, <2>1
    <3>3. QED
      BY <2>1, <2>2, <3>1, <3>2
  <2>3. CASE v[1] # p
    BY <2>1, <2>3
  <2>4. QED
    BY <2>2, <2>3
<1>7. VerticesOf(more) = VerticesOf(counts) \cup {<<p, counts[p]>>}
  BY <1>3, <1>4, <1>6 DEF VerticesOf
<1>8. QED
  BY <1>3, <1>4, <1>5, <1>7

\* The capacity is a number, whatever the estimate.
LEMMA MinOfTwo ==
    ASSUME NEW a \in Int, NEW b \in Int
    PROVE  Min({a, b}) \in Int
<1>1. \E x \in {a, b} : \A y \in {a, b} : x <= y
  <2>1. a <= b \/ b <= a
    OBVIOUS
  <2>2. QED
    BY <2>1
<1>2. Min({a, b}) \in {a, b}
  BY <1>1 DEF Min
<1>3. QED
  BY <1>2

\* After a pass nothing is stored, and the buffers keep their sizes.
LEMMA Forgotten ==
    ASSUME VertexInv, NEW l, l = ForgottenVertices
    PROVE  /\ l = [f \in LightFields |-> l[f]]
           /\ l.estimated = light.estimated /\ l.capacity = light.capacity
           /\ light.estimated =>
                  /\ l.counts \in [Paths -> 0 .. MaxPathVertices]
                  /\ l.index \in [VertexIndices(Paths) -> Int]
                  /\ DOMAIN l.cells = 0 .. l.capacity - 1
                  /\ VerticesOf(l.counts) = {}
<1>1. /\ l = [f \in LightFields |-> l[f]]
      /\ l.estimated = light.estimated /\ l.capacity = light.capacity
      /\ l.counts = [p \in DOMAIN light.counts |-> 0]
      /\ l.index = [k \in DOMAIN light.index |-> 0]
      /\ l.cells = [c \in DOMAIN light.cells |-> <<>>]
  BY DEF ForgottenVertices, VertexInv, LightTypes, LightFields
<1>2. ASSUME light.estimated
      PROVE  /\ l.counts \in [Paths -> 0 .. MaxPathVertices]
             /\ l.index \in [VertexIndices(Paths) -> Int]
             /\ DOMAIN l.cells = 0 .. l.capacity - 1
             /\ VerticesOf(l.counts) = {}
  <2>1. 0 \in 0 .. MaxPathVertices
    BY PathsAreBounded
  <2>2. /\ DOMAIN light.counts = Paths /\ DOMAIN light.index = VertexIndices(Paths)
        /\ DOMAIN light.cells = 0 .. light.capacity - 1
    BY <1>2 DEF VertexInv, LightTypes
  <2>3. VerticesOf(l.counts) = {}
    <3>1. ASSUME NEW v \in VerticesOf(l.counts) PROVE FALSE
      <4>1. v[1] \in Paths /\ v[2] \in 0 .. MaxPathVertices - 1 /\ v[2] < l.counts[v[1]]
        BY <1>1, <2>2 DEF VerticesOf, VertexIndices
      <4>2. l.counts[v[1]] = 0
        BY <1>1, <2>2, <4>1
      <4>3. MaxPathVertices \in Int
        BY PathsAreBounded
      <4>4. QED
        BY <4>1, <4>2, <4>3
    <3>2. QED
      BY <3>1
  <2>4. l.counts \in [Paths -> 0 .. MaxPathVertices]
    <3>1. l.counts = [p \in Paths |-> 0]
      BY <1>1, <2>2
    <3>2. QED
      BY <2>1, <3>1
  <2>5. l.index \in [VertexIndices(Paths) -> Int]
    <3>1. l.index = [k \in VertexIndices(Paths) |-> 0]
      BY <1>1, <2>2
    <3>2. 0 \in Int
      OBVIOUS
    <3>3. QED
      BY <3>1, <3>2
  <2>6. DOMAIN l.cells = 0 .. l.capacity - 1
    <3>1. DOMAIN l.cells = DOMAIN light.cells
      BY <1>1
    <3>2. QED
      BY <1>1, <2>2, <3>1
  <2>7. QED
    BY <2>3, <2>4, <2>5, <2>6
<1>3. QED
  BY <1>1, <1>2

\* A step that leaves the light vertices alone
LEMMA LightKept ==
    ASSUME VertexInv, UNCHANGED <<light, width, buffers>>,
           pc' \notin {"count", "light", "light paths", "camera"}
    PROVE  VertexInv'
BY DEF VertexInv, LightTypes, LaunchInv, PlaceInv, Paths

\* One after which their number has to be estimated anew
LEMMA LightDropped ==
    ASSUME VertexInv, light' = [light EXCEPT !.estimated = FALSE],
           width' \in FrameSizes, buffers' \in [BufferNames -> BufferSizes],
           pc' \notin {"count", "light", "light paths", "camera"}
    PROVE  VertexInv'
<1>1. light' = [f \in LightFields |-> light'[f]] /\ ~light'.estimated
  BY DEF VertexInv, LightTypes, LightFields
<1>2. QED
  BY <1>1 DEF VertexInv, LightTypes, LaunchInv, PlaceInv

LEMMA ResizeFailsVertexInv ==
    ASSUME IInv, VertexInv, ResizeFails
    PROVE  VertexInv'
<1>1. request.size \in FrameSizes
  BY DEF IInv, TypeInv, Request, FrameSizes
<1>2. PICK k \in 0 .. 5 :
          /\ buffers' = [b \in DOMAIN buffers |->
                            IF \E j \in 1 .. Len(ResizeOrder) : j <= k /\ ResizeOrder[j] = b
                            THEN request.size ELSE buffers[b]]
          /\ width' = IF k = 5 THEN request.size ELSE width
  BY DEF ResizeFails
<1>3. ~ \E j \in 1 .. Len(ResizeOrder) : j <= k /\ ResizeOrder[j] = "index"
  BY DEF ResizeOrder
<1>4. buffers' \in [BufferNames -> BufferSizes] /\ buffers'.index = buffers.index
  <2>1. DOMAIN buffers = BufferNames /\ "index" \in BufferNames
        /\ \A b \in BufferNames : buffers[b] \in BufferSizes
    BY DEF VertexInv, LightTypes, BufferNames
  <2>0. request.size \in BufferSizes
    BY <1>1 DEF BufferSizes
  <2> HIDE DEF BufferNames, FrameSizes, BufferSizes
  <2>2. \A b \in BufferNames : buffers'[b] \in {request.size, buffers[b]}
    BY <1>2, <2>1
  <2>3. DOMAIN buffers' = BufferNames
    BY <1>2, <2>1
  <2>4. buffers' \in [BufferNames -> BufferSizes]
    BY <2>0, <1>2, <2>1, <2>2, <2>3
  <2>5. QED
    BY <1>2, <1>3, <2>1, <2>4
<1>5. width' \in FrameSizes
  BY <1>1, <1>2 DEF VertexInv, LightTypes
<1>6. light' = light /\ pc' = "idle"
  BY DEF ResizeFails
<1>7. QED
  BY <1>4, <1>5, <1>6 DEF VertexInv, LightTypes, LaunchInv, PlaceInv, Paths

LEMMA ClearVertexInv ==
    ASSUME IInv, VertexInv, ClearOutput
    PROVE  VertexInv'
<1>1. /\ UNCHANGED <<light, width, buffers>>
      /\ pc' = IF ~BuffersFit THEN "undefined"
               ELSE IF request.method # "VCM" THEN "rays"
               ELSE IF light.estimated THEN "light" ELSE "count"
  BY DEF ClearOutput
<1>2. BuffersFit => buffers.index = width
  BY DEF BuffersFit, VertexInv, LightTypes, BufferNames
<1>3. QED
  BY <1>1, <1>2 DEF VertexInv, LightTypes, LaunchInv, PlaceInv, Paths

LEMMA ForgetVertexInv ==
    ASSUME IInv, VertexInv, Throws \/ CameraPass
    PROVE  VertexInv'
<1>1. light' = ForgottenVertices /\ UNCHANGED <<width, buffers>> /\ pc' = "idle"
  BY DEF Throws, CameraPass
<1>2. QED
  BY <1>1, Forgotten DEF VertexInv, LightTypes, LaunchInv, PlaceInv, Paths

LEMMA HostVertexInv ==
    ASSUME IInv, VertexInv, Host
    PROVE  VertexInv'
<1>1. CASE Initialize
  <2>1. /\ buffers' = NewBuffers(width) /\ light' = NoLight /\ width' = width
        /\ pc' = "idle" /\ width \in FrameSizes
    BY <1>1 DEF Initialize, IInv, SizeInv, VertexInv, LightTypes
  <2>2. width \in BufferSizes
    BY <2>1 DEF BufferSizes
  <2> HIDE DEF BufferSizes, FrameSizes
  <2>3. buffers' \in [BufferNames -> BufferSizes]
    BY <2>1, <2>2 DEF BufferNames, NewBuffers
  <2>4. light' = [f \in LightFields |-> light'[f]] /\ ~light'.estimated
    BY <2>1 DEF NoLight, LightFields
  <2>5. QED
    BY <2>1, <2>3, <2>4 DEF VertexInv, LightTypes, LaunchInv, PlaceInv
<1>2. CASE InitScene \/ InitSceneFails
  <2>1. /\ light' = [light EXCEPT !.estimated = FALSE] /\ UNCHANGED <<width, buffers>>
        /\ pc' = "idle"
    BY <1>2 DEF InitScene, InitSceneFails, MayInitScene
  <2>2. QED
    BY <2>1, LightDropped DEF VertexInv, LightTypes
<1>3. CASE FirstIteration \/ NextIteration
  BY <1>3, LightKept DEF FirstIteration, NextIteration, frameVars
<1>4. CASE Resize
  <2>1. request.size \in FrameSizes
    BY DEF IInv, TypeInv, Request, FrameSizes
  <2>2. DOMAIN buffers = BufferNames
    BY DEF VertexInv, LightTypes
  <2>3. buffers' \in [BufferNames -> BufferSizes] /\ width' \in FrameSizes
    <3>1. request.size \in BufferSizes
      BY <2>1 DEF BufferSizes
    <3> HIDE DEF BufferNames, BufferSizes, FrameSizes
    <3>2. buffers' = [b \in BufferNames |-> request.size] /\ width' = request.size
      BY <1>4, <2>2 DEF Resize
    <3>3. QED
      BY <2>1, <3>1, <3>2
  <2>4. QED
    BY <1>4, <2>3, LightDropped DEF Resize
<1>5. QED
  BY <1>1, <1>2, <1>3, <1>4, ResizeFailsVertexInv, ClearVertexInv, ForgetVertexInv DEF Host

LEMMA EstimateVertexInv ==
    ASSUME IInv, VertexInv, EstimateVertexCounts
    PROVE  VertexInv'
<1>1. /\ pc = "count" /\ pc' = "light" /\ UNCHANGED <<width, buffers>>
      /\ width \in FrameSizes /\ Paths = Pixels(width) /\ Paths' = Pixels(width)
      /\ buffers.index = width
  BY DEF EstimateVertexCounts, frameVars, VertexInv, LightTypes, LaunchInv, Paths
<1>2. PICK counts, capacity :
          /\ counts \in [Pixels(width) -> 0 .. MaxPathVertices]
          /\ capacity = Min({2 * Cardinality(VerticesOf(counts)),
                             NumPixels(width) * MaxPathVertices})
          /\ light' = [light EXCEPT !.estimated = TRUE, !.capacity = capacity, !.counts = counts,
                                    !.index = [k \in VertexIndices(Pixels(width)) |-> 0],
                                    !.cells = [c \in 0 .. capacity - 1 |-> <<>>]]
  BY DEF EstimateVertexCounts
<1>3. capacity \in Int /\ counts \in [Pixels(width) -> 0 .. MaxPathVertices]
  <2> counts \in [Pixels(width) -> 0 .. MaxPathVertices]
    BY <1>2
  <2>1. /\ Cardinality(VerticesOf(counts)) \in Nat /\ NumPixels(width) \in Nat
        /\ MaxPathVertices \in Nat
    BY <1>1, VerticesAreFinite, PixelsAreFinite, PathsAreBounded
  <2>2. 2 * Cardinality(VerticesOf(counts)) \in Int /\ NumPixels(width) * MaxPathVertices \in Int
    BY <2>1
  <2>3. QED
    BY <1>2, <2>2, MinOfTwo
<1>4. /\ light' = [f \in LightFields |-> light'[f]] /\ light'.estimated
      /\ light'.capacity = capacity /\ light'.counts = counts
      /\ light'.index = [k \in VertexIndices(Pixels(width)) |-> 0]
      /\ light'.cells = [c \in 0 .. capacity - 1 |-> <<>>]
  <2>1. light = [f \in LightFields |-> light[f]]
    BY DEF VertexInv, LightTypes
  <2> HIDE DEF Pixels, VertexIndices
  <2>2. QED
    BY <1>2, <2>1 DEF LightFields
<1>5. LightTypes'
  BY <1>1, <1>3, <1>4 DEF VertexInv, LightTypes
<1>6. QED
  BY <1>1, <1>4, <1>5 DEF VertexInv, LaunchInv, PlaceInv

LEMMA LaunchLightVertexInv ==
    ASSUME IInv, VertexInv, LaunchLightPass
    PROVE  VertexInv'
<1> DEFINE l == ForgottenVertices
<1>1. /\ pc = "light" /\ pc' = "light paths" /\ UNCHANGED <<width, buffers>>
      /\ light' = [l EXCEPT !.counter = 0] /\ Paths' = Paths
      /\ light.estimated /\ buffers.index = width
  BY DEF LaunchLightPass, CounterAtLaunch, frameVars, VertexInv, LaunchInv, Paths
<1>2. /\ l = [f \in LightFields |-> l[f]]
      /\ l.estimated = light.estimated /\ l.capacity = light.capacity
      /\ l.counts \in [Paths -> 0 .. MaxPathVertices]
      /\ l.index \in [VertexIndices(Paths) -> Int]
      /\ DOMAIN l.cells = 0 .. l.capacity - 1
      /\ VerticesOf(l.counts) = {}
  BY <1>1, Forgotten
<1> HIDE DEF l
<1>3. /\ light' = [f \in LightFields |-> light'[f]]
      /\ light'.estimated = l.estimated /\ light'.capacity = l.capacity
      /\ light'.counts = l.counts /\ light'.index = l.index /\ light'.cells = l.cells
      /\ light'.counter = 0
  BY <1>1, <1>2 DEF LightFields
<1>4. LightTypes'
  BY <1>1, <1>2, <1>3 DEF VertexInv, LightTypes
<1>5. Cardinality(VerticesOf(light'.counts)) = 0
  BY <1>2, <1>3, FS_EmptySet
<1>6. QED
  BY <1>1, <1>2, <1>3, <1>4, <1>5 DEF VertexInv, LaunchInv, PlaceInv

\* A path has one vertex more.
LEMMA StoredVertex ==
    ASSUME VertexInv, NEW p \in Pixels(width), StoreLightVertex(p),
           NEW v, v = <<p, light.counts[p]>>
    PROVE  /\ light'.counts \in [Paths -> 0 .. MaxPathVertices]
           /\ v \in VertexIndices(Paths) /\ v \notin VerticesOf(light.counts)
           /\ VerticesOf(light'.counts) = VerticesOf(light.counts) \cup {v}
<1> DEFINE counts == light.counts
           next == light'.counts
<1>1. /\ counts \in [Paths -> 0 .. MaxPathVertices] /\ p \in Paths
      /\ light = [f \in LightFields |-> light[f]]
  BY DEF StoreLightVertex, VertexInv, LightTypes, LaunchInv, Paths
<1>2. next = [counts EXCEPT ![p] = counts[p] + 1]
  BY <1>1 DEF StoreLightVertex, LightFields
<1> counts[p] < MaxPathVertices
  BY DEF StoreLightVertex
<1> HIDE DEF Paths, counts, next
<1>3. /\ next \in [Paths -> Int] /\ next[p] = counts[p] + 1
      /\ \A q \in Paths \ {p} : next[q] = counts[q]
  <2>1. counts[p] + 1 \in Int /\ \A q \in Paths : counts[q] \in Int
    BY <1>1, PathsAreBounded
  <2>2. QED
    BY <1>1, <1>2, <2>1
<1>4. /\ next \in [Paths -> 0 .. MaxPathVertices]
      /\ <<p, counts[p]>> \in VertexIndices(Paths)
      /\ <<p, counts[p]>> \notin VerticesOf(counts)
      /\ VerticesOf(next) = VerticesOf(counts) \cup {<<p, counts[p]>>}
  BY <1>1, <1>3, OneMoreVertex
<1>5. QED
  BY <1>4 DEF counts, next

\* The vertex takes the place of the counter, which is past all places given before.
LEMMA StoreVertexInv ==
    ASSUME IInv, VertexInv, NEW p \in Pixels(width), StoreLightVertex(p)
    PROVE  VertexInv'
<1> DEFINE nth == light.counts[p]
           n == light.counter
           v == <<p, nth>>
           old == VerticesOf(light.counts)
           more == [light.counts EXCEPT ![p] = nth + 1]
<1>1. /\ pc = "light paths" /\ pc' = pc /\ UNCHANGED <<width, buffers>>
      /\ nth < MaxPathVertices /\ Paths' = Paths
      /\ light' = [light EXCEPT !.counter = n + 1,
                                !.counts[p] = nth + 1,
                                !.index[v] = n,
                                !.cells = [c \in DOMAIN @ |-> IF c = n THEN v ELSE light.cells[c]]]
  BY DEF StoreLightVertex, Paths
<1>2. /\ light = [f \in LightFields |-> light[f]] /\ light.estimated /\ light.capacity \in Int
      /\ buffers.index = width /\ width \in FrameSizes /\ Paths = Pixels(width)
      /\ light.counts \in [Paths -> 0 .. MaxPathVertices]
      /\ light.index \in [VertexIndices(Paths) -> Int]
      /\ DOMAIN light.cells = 0 .. light.capacity - 1
      /\ n = Cardinality(old)
      /\ \A u \in old : /\ light.index[u] \in 0 .. n - 1
                        /\ light.index[u] < light.capacity => light.cells[light.index[u]] = u
  BY <1>1 DEF VertexInv, LightTypes, LaunchInv, PlaceInv, Paths
<1>3. /\ more \in [Paths -> 0 .. MaxPathVertices] /\ v \in VertexIndices(Paths) /\ v \notin old
      /\ VerticesOf(more) = old \cup {v} /\ old \subseteq VertexIndices(Paths)
  <2>1. old \subseteq VertexIndices(Paths)
    BY <1>2 DEF VerticesOf
  <2>2. light'.counts = more
    BY <1>1, <1>2 DEF LightFields
  <2>3. /\ light'.counts \in [Paths -> 0 .. MaxPathVertices]
        /\ v \in VertexIndices(Paths) /\ v \notin old
        /\ VerticesOf(light'.counts) = old \cup {v}
    BY StoredVertex
  <2>4. QED
    BY <2>1, <2>2, <2>3
<1>4. IsFiniteSet(old) /\ n \in Nat /\ Cardinality(old \cup {v}) = n + 1
  <2>1. light.counts \in [Pixels(width) -> 0 .. MaxPathVertices]
    BY <1>2
  <2>2. IsFiniteSet(VerticesOf(light.counts)) /\ Cardinality(VerticesOf(light.counts)) \in Nat
    BY <1>2, <2>1, VerticesAreFinite
  <2> HIDE DEF old
  <2>3. IsFiniteSet(old) => Cardinality(old \cup {v}) = Cardinality(old) + 1
    BY <1>3, FS_AddElement
  <2>4. QED
    BY <1>2, <2>2, <2>3 DEF old
<1> HIDE DEF v, nth, n, old
<1>5. /\ light' = [f \in LightFields |-> light'[f]]
      /\ light'.estimated /\ light'.capacity = light.capacity /\ light'.counter = n + 1
      /\ light'.counts = more
      /\ light'.index = [light.index EXCEPT ![v] = n]
      /\ light'.cells = [c \in DOMAIN light.cells |-> IF c = n THEN v ELSE light.cells[c]]
  BY <1>1, <1>2 DEF LightFields
<1> HIDE DEF more
<1>6. /\ light'.index \in [VertexIndices(Paths) -> Int]
      /\ light'.index[v] = n /\ \A u \in old : light'.index[u] = light.index[u]
      /\ DOMAIN light'.cells = 0 .. light.capacity - 1
      /\ \A c \in 0 .. light.capacity - 1 : light'.cells[c] = IF c = n THEN v ELSE light.cells[c]
  BY <1>2, <1>3, <1>4, <1>5
<1>7. LightTypes'
  BY <1>1, <1>2, <1>3, <1>5, <1>6 DEF VertexInv, LightTypes
<1>8. ASSUME NEW u \in old \cup {v}
      PROVE  /\ light'.index[u] \in 0 .. light'.counter - 1
             /\ light'.index[u] < light.capacity => light'.cells[light'.index[u]] = u
  <2>1. CASE u = v
    <3>1. n \in 0 .. (n + 1) - 1 /\ (n < light.capacity => n \in 0 .. light.capacity - 1)
      BY <1>2, <1>4
    <3>2. QED
      BY <1>5, <1>6, <2>1, <3>1
  <2>2. CASE u # v
    <3> DEFINE i == light.index[u]
    <3>1. u \in old /\ light'.index[u] = i /\ i \in 0 .. n - 1
          /\ (i < light.capacity => light.cells[i] = u)
      BY <1>2, <1>6, <2>2
    <3> HIDE DEF i
    <3>2. i \in 0 .. (n + 1) - 1 /\ i # n /\ (i < light.capacity => i \in 0 .. light.capacity - 1)
      BY <1>2, <1>4, <3>1
    <3>3. QED
      BY <1>5, <1>6, <3>1, <3>2
  <2>3. QED
    BY <2>1, <2>2
<1>9. PlaceInv'
  BY <1>3, <1>4, <1>5, <1>8 DEF PlaceInv
<1>10. LaunchInv'
  BY <1>1, <1>2, <1>5 DEF LaunchInv
<1>11. QED
  BY <1>7, <1>9, <1>10 DEF VertexInv

LEMMA ConnectionsVertexInv ==
    ASSUME IInv, VertexInv, Connections
    PROVE  VertexInv'
<1>1. CASE LightPassEnds
  BY <1>1 DEF LightPassEnds, VertexInv, LightTypes, LaunchInv, PlaceInv, Paths, frameVars
<1>2. QED
  BY <1>1, EstimateVertexInv, LaunchLightVertexInv, StoreVertexInv, ForgetVertexInv DEF Connections

LEMMA RaysVertexInv ==
    ASSUME IInv, VertexInv, Rays
    PROVE  VertexInv'
<1>1. UNCHANGED <<light, width, buffers>> /\ pc' \notin {"count", "light", "light paths", "camera"}
  BY DEF Rays, LaunchRays, RadianceHit, PathSegment, DirectRadiance, EndOfRay, frameVars
<1>2. QED
  BY <1>1, LightKept

LEMMA PhotonVertexInv ==
    ASSUME IInv, VertexInv, PhotonMapping
    PROVE  VertexInv'
<1>1. UNCHANGED <<light, width, buffers>> /\ pc' \notin {"count", "light", "light paths", "camera"}
  <2>1. CASE LaunchPhotons \/ EstimateRadiance \/ OutputPass
    BY <2>1 DEF LaunchPhotons, EstimateRadiance, OutputPass, frameVars
  <2>2. CASE createUniformGridPhotonMap \/ createPhotonKdTreeOnCPU
    BY <2>2 DEF createUniformGridPhotonMap, createPhotonKdTreeOnCPU, CreatesMap, frameVars
  <2>3. ASSUME NEW t \in Threads,
               \/ Generate(t)
               \/ DiffusePhoton(t) \/ GlossyPhoton(t) \/ TexturePhoton(t)
               \/ GlassPhoton(t) \/ MirrorPhoton(t) \/ DiffuseEmitterPhoton(t) \/ PhotonMiss(t)
        PROVE  UNCHANGED <<light, width, buffers>> /\ pc' = "photon walks"
    BY <2>3 DEF Generate, DiffusePhoton, GlossyPhoton, TexturePhoton, GlassPhoton, MirrorPhoton,
                DiffuseEmitterPhoton, PhotonMiss, MattPhotonHit, PhotonHit, Walks, frameVars
  <2>4. QED
    BY <2>1, <2>2, <2>3 DEF PhotonMapping
<1>2. QED
  BY <1>1, LightKept

\* Nothing is estimated at first.
LEMMA InitVertexInv == Init => VertexInv
<1> SUFFICES ASSUME Init PROVE VertexInv
  OBVIOUS
<1>1. width = InitialSize /\ pc = "idle" /\ buffers = NewBuffers(NoSize)
      /\ light = [NoLight EXCEPT !.capacity = 0]
  BY DEF Init
<1>2. InitialSize \in FrameSizes /\ NoSize \in BufferSizes
  BY DEF FrameSizes, BufferSizes
<1> HIDE DEF InitialSize, FrameSizes, NoSize, BufferSizes
<1>3. buffers \in [BufferNames -> BufferSizes]
  BY <1>1, <1>2 DEF BufferNames, NewBuffers
<1>4. light = [f \in LightFields |-> light[f]] /\ ~light.estimated
  BY <1>1 DEF NoLight, LightFields
<1>5. QED
  BY <1>1, <1>2, <1>3, <1>4 DEF VertexInv, LightTypes, LaunchInv, PlaceInv

\* The places of the light vertices are those that the counter has given.
THEOREM VertexInvariance == Spec => []VertexInv
<1>1. IInv /\ VertexInv /\ [Next]_vars => VertexInv'
  <2>1. VertexInv /\ UNCHANGED vars => VertexInv'
    BY DEF vars, frameVars, VertexInv, LightTypes, LaunchInv, PlaceInv, Paths
  <2>2. QED
    BY <2>1, HostVertexInv, RaysVertexInv, PhotonVertexInv, ConnectionsVertexInv DEF Next
<1>2. QED
  BY <1>1, InitVertexInv, Invariance, PTL DEF Spec

\* The camera pass finds the vertices of a pixel's own light path, in the order of the path,
\* if there was room for all of the pass.
THEOREM VerticesOfOwnPathHolds == Spec => []VerticesOfOwnPath
<1>1. VertexInv => VerticesOfOwnPath
  <2> SUFFICES ASSUME VertexInv, pc = "camera",
                      Cardinality(VerticesOf(light.counts)) <= light.capacity,
                      NEW p \in Pixels(width), NEW k \in 0 .. light.counts[p] - 1
               PROVE  /\ light.index[<<p, k>>] < light.capacity
                      /\ light.cells[light.index[<<p, k>>]] = <<p, k>>
    BY DEF VerticesOfOwnPath
  <2> DEFINE v == <<p, k>>
  <2>1. /\ light.counts \in [Pixels(width) -> 0 .. MaxPathVertices] /\ light.capacity \in Int
        /\ width \in FrameSizes
    BY DEF VertexInv, LightTypes, LaunchInv, Paths
  <2>2. v \in VerticesOf(light.counts)
    <3>1. light.counts[p] \in 0 .. MaxPathVertices /\ MaxPathVertices \in Nat
      BY <2>1, PathsAreBounded
    <3>2. k \in 0 .. MaxPathVertices - 1 /\ k < light.counts[p]
      BY <3>1
    <3>3. QED
      BY <2>1, <3>2 DEF VerticesOf, VertexIndices
  <2>3. light.counter \in Nat
    BY <2>1, VerticesAreFinite DEF VertexInv, PlaceInv
  <2>4. /\ light.counter <= light.capacity
        /\ light.index[v] \in 0 .. light.counter - 1
        /\ light.index[v] < light.capacity => light.cells[light.index[v]] = v
    BY <2>2 DEF VertexInv, PlaceInv
  <2> HIDE DEF v
  <2>5. light.index[v] < light.capacity
    BY <2>1, <2>3, <2>4
  <2>6. QED
    BY <2>4, <2>5 DEF v
<1>2. QED
  BY <1>1, VertexInvariance, PTL

-----------------------------------------------------------------------------
(***************************************************************************)
(* The light of a path                                                     *)
(***************************************************************************)
Surfaces == {"matt", "glass", "mirror"}
Flags == {"specular", "non specular", "emitter", "miss"}

\* MattPrefixes of any path
Matt(t) == {SubSeq(t, 1, k) : k \in {j \in DOMAIN t : t[j] = "matt"}}

\* There is glass behind the last matt surface.
GlassBehind(t) == \A path \in Matt(t) : \E k \in Len(path) + 1 .. Len(t) : t[k] = "glass"

SampledAt(prefixes) == {<<"sampled", path>> : path \in prefixes}

RadianceRay ==
    [pixel : Nat, stage : {"tracing", "returned", "done"}, segment : Nat, depth : Nat,
     flags : SUBSET Flags, through : Seq(Surfaces), inside : BOOLEAN,
     sum : SUBSET ({"sampled", "seen"} \X Seq(Surfaces))]

\* While a ray is traced, light was sampled at every matt surface it went through, and
\* only glass behind them has set the flag of a specular surface.
Traced(r) ==
    /\ r.stage = "tracing"
    /\ r.flags \subseteq {"specular"}
    /\ r.sum = SampledAt(Matt(r.through))
    /\ "specular" \in r.flags => GlassBehind(r.through)
    /\ r.segment = 0 \/ request.method = "photon mapping" => r.sum = {}

\* When it is back, a matt surface at its end is the only one where light has still to
\* be sampled.
Returned(r) ==
    /\ r.stage = "returned"
    /\ r.segment = 0 \/ request.method = "photon mapping" => r.sum = {}
    /\ IF "non specular" \in r.flags
       THEN /\ "emitter" \notin r.flags
            /\ r.sum \cup {SampledLight(r)} = SampledAt(Matt(r.through))
       ELSE /\ r.sum = SampledAt(Matt(r.through))
            /\ "specular" \in r.flags => GlassBehind(r.through)

RayInv ==
    /\ ray \in RadianceRay
    /\ pc # "ray" => ray = NoRay
    /\ ray.stage = "tracing" => Traced(ray)
    /\ ray.stage = "returned" => Returned(ray)
    /\ LightCountedOnce

\* One place more at which light is sampled
LEMMA SampledAtOneMore ==
    ASSUME NEW prefixes, NEW path
    PROVE  SampledAt(prefixes \cup {path}) = SampledAt(prefixes) \cup {<<"sampled", path>>}
BY DEF SampledAt

\* A surface more leaves the places of the others as they are.
LEMMA PlacesBefore ==
    ASSUME NEW t \in Seq(Surfaces), NEW x \in Surfaces
    PROVE  /\ Append(t, x) \in Seq(Surfaces)
           /\ Len(Append(t, x)) = Len(t) + 1 /\ Len(t) \in Nat
           /\ DOMAIN t = 1 .. Len(t) /\ DOMAIN Append(t, x) = 1 .. Len(t) + 1
           /\ Append(t, x)[Len(t) + 1] = x
           /\ \A k \in 1 .. Len(t) : Append(t, x)[k] = t[k]
OBVIOUS

LEMMA FirstPlacesBefore ==
    ASSUME NEW t \in Seq(Surfaces), NEW x \in Surfaces, NEW k \in 1 .. Len(t)
    PROVE  SubSeq(Append(t, x), 1, k) = SubSeq(t, 1, k)
<1>1. Append(t, x) = t \o <<x>> /\ <<x>> \in Seq(Surfaces)
  OBVIOUS
<1>2. Len(t) \in Nat
  OBVIOUS
<1>3. 1 \in 1 .. Len(t) + 1 /\ k \in 1 - 1 .. Len(t)
  BY <1>2
<1>4. QED
  BY <1>1, <1>3, SubSeqOfConcat1

LEMMA MattOfLonger ==
    ASSUME NEW t \in Seq(Surfaces), NEW x \in Surfaces
    PROVE  /\ x = "matt" => Matt(Append(t, x)) = Matt(t) \cup {Append(t, x)}
           /\ x # "matt" => Matt(Append(t, x)) = Matt(t)
           /\ \A path \in Matt(t) : Len(path) \in Nat /\ Len(path) <= Len(t)
<1> DEFINE longer == Append(t, x)
           n == Len(t)
<1>1. /\ n \in Nat /\ DOMAIN t = 1 .. n /\ DOMAIN longer = 1 .. n + 1
      /\ longer[n + 1] = x /\ \A k \in 1 .. n : longer[k] = t[k]
  BY PlacesBefore
<1>2. \A k \in 1 .. n : SubSeq(longer, 1, k) = SubSeq(t, 1, k)
  BY FirstPlacesBefore
<1>3. SubSeq(longer, 1, n + 1) = longer
  BY PlacesBefore, SubSeqFull
<1>4. \A k \in 1 .. n : Len(SubSeq(t, 1, k)) = k
  BY SubSeqProperties
<1> HIDE DEF longer, n
<1>5. {j \in 1 .. n + 1 : longer[j] = "matt"}
          = {j \in 1 .. n : t[j] = "matt"} \cup (IF x = "matt" THEN {n + 1} ELSE {})
  BY <1>1
<1>6. Matt(longer) = {SubSeq(longer, 1, k) : k \in {j \in 1 .. n : t[j] = "matt"}}
                         \cup (IF x = "matt" THEN {longer} ELSE {})
  <2> DEFINE matt == {j \in 1 .. n : t[j] = "matt"}
             places == {j \in DOMAIN longer : longer[j] = "matt"}
  <2>1. Matt(longer) = {SubSeq(longer, 1, k) : k \in places}
    BY DEF Matt
  <2>2. places = matt \cup (IF x = "matt" THEN {n + 1} ELSE {})
    BY <1>1, <1>5
  <2> HIDE DEF matt, places
  <2>3. CASE x = "matt"
    <3>1. places = matt \cup {n + 1}
      BY <2>2, <2>3
    <3>2. {SubSeq(longer, 1, k) : k \in matt \cup {n + 1}}
              = {SubSeq(longer, 1, k) : k \in matt} \cup {longer}
      BY <1>3
    <3>3. QED
      BY <2>1, <2>3, <3>1, <3>2 DEF matt
  <2>4. CASE x # "matt"
    <3>1. places = matt
      BY <2>2, <2>4
    <3>2. QED
      BY <2>1, <2>4, <3>1 DEF matt
  <2>5. QED
    BY <2>3, <2>4
<1>7. {SubSeq(longer, 1, k) : k \in {j \in 1 .. n : t[j] = "matt"}} = Matt(t)
  BY <1>1, <1>2 DEF Matt
<1>8. \A path \in Matt(t) : Len(path) \in Nat /\ Len(path) <= n
  BY <1>1, <1>4 DEF Matt
<1>9. QED
  BY <1>6, <1>7, <1>8 DEF longer, n

\* Glass is behind all matt surfaces once it is met, until the next one.
LEMMA GlassBehindLonger ==
    ASSUME NEW t \in Seq(Surfaces)
    PROVE  /\ GlassBehind(Append(t, "glass"))
           /\ GlassBehind(t) => GlassBehind(Append(t, "mirror"))
<1>1. GlassBehind(Append(t, "glass"))
  <2> DEFINE longer == Append(t, "glass")
             n == Len(t)
  <2>1. "glass" \in Surfaces /\ "glass" # "matt"
    BY DEF Surfaces
  <2>2. /\ n \in Nat /\ Len(longer) = n + 1 /\ longer[n + 1] = "glass"
        /\ \A path \in Matt(longer) : Len(path) \in Nat /\ Len(path) <= n
    BY <2>1, PlacesBefore, MattOfLonger
  <2> HIDE DEF longer, n
  <2>3. \A path \in Matt(longer) : n + 1 \in Len(path) + 1 .. Len(longer)
    BY <2>2
  <2>4. GlassBehind(longer)
    BY <2>2, <2>3 DEF GlassBehind
  <2>5. QED
    BY <2>4 DEF longer
<1>2. ASSUME GlassBehind(t) PROVE GlassBehind(Append(t, "mirror"))
  <2> DEFINE longer == Append(t, "mirror")
             n == Len(t)
  <2>1. "mirror" \in Surfaces /\ "mirror" # "matt"
    BY DEF Surfaces
  <2>2. /\ n \in Nat /\ Len(longer) = n + 1 /\ \A k \in 1 .. n : longer[k] = t[k]
        /\ Matt(longer) = Matt(t)
        /\ \A path \in Matt(longer) : Len(path) \in Nat
    BY <2>1, PlacesBefore, MattOfLonger
  <2>3. \A path \in Matt(longer) : \E k \in Len(path) + 1 .. n : t[k] = "glass"
    BY <1>2, <2>2 DEF GlassBehind
  <2> HIDE DEF longer, n
  <2>4. ASSUME NEW path \in Matt(longer)
        PROVE  \E k \in Len(path) + 1 .. Len(longer) : longer[k] = "glass"
    <3>1. PICK k \in Len(path) + 1 .. n : t[k] = "glass"
      BY <2>3
    <3>2. k \in 1 .. n /\ k \in Len(path) + 1 .. Len(longer)
      BY <2>2, <3>1
    <3>3. QED
      BY <2>2, <3>1, <3>2
  <2>5. GlassBehind(longer)
    BY <2>4 DEF GlassBehind
  <2>6. QED
    BY <2>5 DEF longer
<1>3. QED
  BY <1>1, <1>2
-----------------------------------------------------------------------------
(***************************************************************************)
(* The steps of a ray                                                      *)
(***************************************************************************)

\* The camera ray has gone through nothing.
LEMMA NoRayIsTraced == NoRay \in RadianceRay /\ Traced(NoRay)
<1>1. NoRay \in RadianceRay
  BY DEF NoRay, RadianceRay
<1>2. Matt(<<>>) = {}
  BY DEF Matt
<1>3. SampledAt(Matt(<<>>)) = {}
  BY <1>2 DEF SampledAt
<1>4. QED
  BY <1>1, <1>3 DEF NoRay, Traced

LEMMA SurfaceMore ==
    ASSUME ray \in RadianceRay
    PROVE  \A x \in Surfaces : Append(ray.through, x) \in Seq(Surfaces)
<1>1. ray.through \in Seq(Surfaces)
  BY DEF RadianceRay
<1>2. QED
  BY <1>1, PlacesBefore

\* A matt surface ends the trace, and light is not yet sampled there.
LEMMA MattRadiance ==
    ASSUME ray \in RadianceRay, Traced(ray), NEW r,
           r \in {DiffuseRadiance(ray), GlossyRadiance(ray), TextureRadiance(ray)}
    PROVE  r \in RadianceRay /\ Returned(r)
<1> DEFINE t == ray.through
           longer == Append(t, "matt")
<1> "matt" \in Surfaces
  BY DEF Surfaces
<1>1. /\ r \in RadianceRay /\ r.stage = "returned" /\ r.through = longer
      /\ r.flags = ray.flags \cup {"non specular"}
      /\ r.segment = ray.segment /\ r.sum = ray.sum
  <2>1. ray.depth + 1 \in Nat /\ ray.flags \cup {"non specular"} \in SUBSET Flags
    <3>1. ray.depth \in Nat /\ ray.flags \in SUBSET Flags
      BY DEF RadianceRay
    <3>2. "non specular" \in Flags
      BY DEF Flags
    <3>3. ray.depth + 1 \in Nat
      BY <3>1
    <3>4. ray.flags \cup {"non specular"} \in SUBSET Flags
      BY <3>1, <3>2, Zenon
    <3>5. QED
      BY <3>3, <3>4
  <2> longer \in Seq(Surfaces)
    BY SurfaceMore
  <2>2. r \in RadianceRay
    BY <2>1 DEF RadianceRay, DiffuseRadiance, GlossyRadiance, TextureRadiance
  <2>3. QED
    BY <2>2 DEF RadianceRay, DiffuseRadiance, GlossyRadiance, TextureRadiance
<1>2. Matt(longer) = Matt(t) \cup {longer}
  BY MattOfLonger DEF RadianceRay, Surfaces
<1>3. r.sum \cup {SampledLight(r)} = SampledAt(Matt(longer))
  <2>1. SampledAt(Matt(longer)) = SampledAt(Matt(t)) \cup {<<"sampled", longer>>}
    BY <1>2, SampledAtOneMore
  <2>2. SampledLight(r) = <<"sampled", longer>> /\ r.sum = SampledAt(Matt(t))
    BY <1>1 DEF Traced, SampledLight
  <2>3. QED
    BY <2>1, <2>2
<1>4. QED
  BY <1>1, <1>3 DEF Traced, Returned

\* Glass and mirrors trace on, or end the trace with nothing to sample.
LEMMA SpecularRadiance ==
    ASSUME ray \in RadianceRay, Traced(ray), NEW r,
           r = MirrorRadiance(ray) \/ \E fromOutside, reflected \in BOOLEAN : r = GlassRadiance(ray, fromOutside, reflected)
    PROVE  r \in RadianceRay /\ (Traced(r) \/ Returned(r))
<1> DEFINE t == ray.through
<1>1. ASSUME NEW x \in {"glass", "mirror"}, NEW longer, longer = Append(t, x),
             r \in RadianceRay, r.through = longer, r.segment = ray.segment, r.sum = ray.sum,
             r.stage \in {"tracing", "returned"},
             r.flags = IF x = "glass" THEN {"specular"} ELSE ray.flags
      PROVE  Traced(r) \/ Returned(r)
  <2>1. Matt(longer) = Matt(t) /\ r.sum = SampledAt(Matt(longer))
    BY <1>1, MattOfLonger DEF RadianceRay, Surfaces, Traced
  <2>2. "specular" \in r.flags => GlassBehind(longer)
    BY <1>1, GlassBehindLonger DEF RadianceRay, Traced
  <2>3. r.flags \subseteq {"specular"}
    BY <1>1 DEF Traced
  <2>4. QED
    BY <1>1, <2>1, <2>2, <2>3 DEF Traced, Returned
<1> "glass" \in Surfaces /\ "mirror" \in Surfaces /\ "specular" \in Flags
  BY DEF Surfaces, Flags
<1>2. /\ ray.depth + 1 \in Nat /\ TracesOn(ray) \in {"tracing", "returned"}
      /\ Append(t, "glass") \in Seq(Surfaces) /\ Append(t, "mirror") \in Seq(Surfaces)
  <2>1. ray.depth \in Nat /\ ray.stage = "tracing"
    BY DEF RadianceRay, Traced
  <2>2. TracesOn(ray) \in {"tracing", "returned"}
    BY <2>1 DEF TracesOn
  <2>3. QED
    BY <2>1, <2>2, SurfaceMore
<1>3. CASE r = MirrorRadiance(ray)
  <2>1. r \in RadianceRay
    BY <1>2, <1>3 DEF RadianceRay, MirrorRadiance
  <2>2. /\ r.through = Append(t, "mirror") /\ r.segment = ray.segment /\ r.sum = ray.sum
        /\ r.stage \in {"tracing", "returned"} /\ r.flags = ray.flags
    BY <1>2, <1>3 DEF RadianceRay, MirrorRadiance
  <2>3. QED
    BY <1>1, <2>1, <2>2
<1>4. ASSUME NEW fromOutside \in BOOLEAN, NEW reflected \in BOOLEAN,
             r = GlassRadiance(ray, fromOutside, reflected)
      PROVE  r \in RadianceRay /\ (Traced(r) \/ Returned(r))
  <2>1. WillTravelInsideGlass(fromOutside, reflected) \in BOOLEAN
    BY DEF WillTravelInsideGlass
  <2>2. (ray.flags \cup {"specular"}) \ {"non specular"} = {"specular"}
    BY DEF Traced
  <2>3. r \in RadianceRay
    BY <1>2, <1>4, <2>1, <2>2 DEF RadianceRay, GlassRadiance
  <2>4. /\ r.through = Append(t, "glass") /\ r.segment = ray.segment /\ r.sum = ray.sum
        /\ r.stage \in {"tracing", "returned"} /\ r.flags = {"specular"}
    BY <1>2, <1>4, <2>2 DEF RadianceRay, GlassRadiance
  <2>5. QED
    BY <1>1, <2>3, <2>4
<1>5. QED
  BY <1>3, <1>4

\* An emitter or nothing: there is no light to sample.
LEMMA LastRadiance ==
    ASSUME ray \in RadianceRay, Traced(ray), NEW r,
           r \in {DiffuseEmitterRadiance(ray), Miss(ray)}
    PROVE  r \in RadianceRay /\ Returned(r)
<1>1. /\ r.through = ray.through /\ r.segment = ray.segment /\ r.sum = ray.sum
      /\ r.stage = "returned" /\ r.flags \in {ray.flags \cup {"emitter"}, {"miss"}}
  BY DEF RadianceRay, DiffuseEmitterRadiance, Miss
<1>2. r \in RadianceRay
  <2>1. ray.flags \cup {"emitter"} \in SUBSET Flags /\ {"miss"} \in SUBSET Flags
    BY DEF RadianceRay, Flags
  <2>2. QED
    BY <2>1 DEF RadianceRay, DiffuseEmitterRadiance, Miss
<1>3. "non specular" \notin r.flags /\ ("specular" \in r.flags => "specular" \in ray.flags)
  BY <1>1 DEF Traced
<1>4. QED
  BY <1>1, <1>2, <1>3 DEF Traced, Returned

LEMMA RayFields ==
    ASSUME ray \in RadianceRay
    PROVE  /\ ray.pixel \in Nat /\ ray.segment \in Nat /\ ray.through \in Seq(Surfaces)
           /\ ray.flags \in SUBSET Flags /\ ray.sum \subseteq {"sampled", "seen"} \X Seq(Surfaces)
BY DEF RadianceRay

\* The light a path may carry
LEMMA SumFields ==
    ASSUME ray \in RadianceRay
    PROVE  /\ {<<"seen", ray.through>>} \in SUBSET ({"sampled", "seen"} \X Seq(Surfaces))
           /\ ray.sum \cup {SampledLight(ray)} \in SUBSET ({"sampled", "seen"} \X Seq(Surfaces))
<1> DEFINE Routes == Seq(Surfaces)
<1>1. ray.through \in Routes /\ ray.sum \subseteq {"sampled", "seen"} \X Routes
  BY RayFields
<1> HIDE DEF Routes
<1>2. /\ <<"seen", ray.through>> \in {"sampled", "seen"} \X Routes
      /\ SampledLight(ray) \in {"sampled", "seen"} \X Routes
  BY <1>1 DEF SampledLight
<1>3. QED
  BY <1>1, <1>2 DEF Routes

\* A path that is done without another matt surface than the sampled ones
LEMMA DoneIsSampled ==
    ASSUME RayInv, ray.stage = "returned", pc = "ray", "non specular" \notin ray.flags,
           ray' = [ray EXCEPT !.stage = "done"], pc' = pc
    PROVE  RayInv'
<1>1. ray \in RadianceRay /\ Returned(ray)
  BY DEF RayInv, Traced, Returned
<1>2. /\ ray' \in RadianceRay /\ ray'.stage = "done"
      /\ ray'.sum = ray.sum /\ ray'.through = ray.through
  BY <1>1 DEF RadianceRay
<1>3. ray'.sum = SampledAt(Matt(ray'.through))
  BY <1>1, <1>2 DEF Returned
<1>4. LightCountedOnce'
  BY <1>3 DEF LightCountedOnce, MattPrefixes, SampledAt, Matt
<1>5. QED
  BY <1>2, <1>4 DEF RayInv, Traced, Returned

\* One whose light is that of an emitter
LEMMA DoneIsSeen ==
    ASSUME RayInv, ray.stage = "returned", pc = "ray", "non specular" \notin ray.flags,
           "specular" \in ray.flags \/ ray.segment = 0 \/ request.method = "photon mapping",
           ray' = [ray EXCEPT !.stage = "done", !.sum = {<<"seen", ray.through>>}], pc' = pc
    PROVE  RayInv'
<1>1. ray \in RadianceRay /\ Returned(ray)
  BY DEF RayInv, Traced, Returned
<1>2. /\ ray' \in RadianceRay /\ ray'.stage = "done"
      /\ ray'.sum = {<<"seen", ray.through>>} /\ ray'.through = ray.through
  <2>1. {<<"seen", ray.through>>} \in SUBSET ({"sampled", "seen"} \X Seq(Surfaces))
    BY <1>1, SumFields
  <2>2. QED
    BY <1>1, <2>1 DEF RadianceRay
<1>3. GlassBehind(ray.through)
  <2>1. CASE "specular" \in ray.flags
    BY <1>1, <2>1 DEF Returned
  <2>2. CASE ray.segment = 0 \/ request.method = "photon mapping"
    <3>1. SampledAt(Matt(ray.through)) = {}
      BY <1>1, <2>2 DEF Returned
    <3>2. Matt(ray.through) = {}
      BY <3>1 DEF SampledAt
    <3>3. QED
      BY <3>2 DEF GlassBehind
  <2>3. QED
    BY <2>1, <2>2
<1>4. LightCountedOnce'
  <2>1. MattPrefixes' = Matt(ray.through)
    BY <1>2 DEF MattPrefixes, Matt
  <2>2. \A path \in Matt(ray.through) :
            \E k \in Len(path) + 1 .. Len(ray'.through) : ray'.through[k] = "glass"
    BY <1>2, <1>3 DEF GlassBehind
  <2>3. QED
    BY <1>2, <2>1, <2>2 DEF LightCountedOnce
<1>5. QED
  BY <1>2, <1>4 DEF RayInv, Traced, Returned

\* One that ends on a matt surface, where light was sampled
LEMMA DoneIsMatt ==
    ASSUME RayInv, ray.stage = "returned", pc = "ray", "non specular" \in ray.flags,
           NEW sum, sum = ray.sum \cup {SampledLight(ray)},
           ray' = [ray EXCEPT !.stage = "done", !.sum = sum], pc' = pc
    PROVE  RayInv'
<1>1. ray \in RadianceRay /\ Returned(ray)
  BY DEF RayInv, Traced, Returned
<1>2. sum = SampledAt(Matt(ray.through))
  BY <1>1 DEF Returned
<1>3. sum \in SUBSET ({"sampled", "seen"} \X Seq(Surfaces))
  BY <1>1, SumFields
<1>4. /\ ray' \in RadianceRay /\ ray'.stage = "done"
      /\ ray'.sum = sum /\ ray'.through = ray.through
  BY <1>1, <1>3 DEF RadianceRay
<1>5. LightCountedOnce'
  <2>1. ray'.sum = SampledAt(Matt(ray'.through))
    BY <1>2, <1>4
  <2>2. QED
    BY <2>1 DEF LightCountedOnce, MattPrefixes, SampledAt, Matt
<1>6. QED
  BY <1>4, <1>5 DEF RayInv, Traced, Returned

LEMMA RadianceHitInv ==
    ASSUME RayInv, RadianceHit
    PROVE  RayInv'
<1>1. /\ pc = "ray" /\ pc' = "ray" /\ request' = request
      /\ ray \in RadianceRay /\ Traced(ray)
  BY DEF RayInv, Traced, Returned, RadianceHit
<1>2. PICK r : ray' = r /\ r \in RadianceRay /\ (Traced(r) \/ Returned(r))
  <2>1. CASE ray' \in {DiffuseRadiance(ray), GlossyRadiance(ray), TextureRadiance(ray)}
    BY <1>1, <2>1, MattRadiance
  <2>2. CASE \/ ray' = MirrorRadiance(ray)
             \/ \E fromOutside, reflected \in BOOLEAN : ray' = GlassRadiance(ray, fromOutside, reflected)
    BY <1>1, <2>2, SpecularRadiance
  <2>3. CASE ray' \in {DiffuseEmitterRadiance(ray), Miss(ray)}
    BY <1>1, <2>3, LastRadiance
  <2>4. QED
    BY <2>1, <2>2, <2>3 DEF RadianceHit
<1>3. QED
  BY <1>1, <1>2 DEF RayInv, Traced, Returned, LightCountedOnce

LEMMA PathSegmentInv ==
    ASSUME RayInv, PathSegment
    PROVE  RayInv'
<1>1. /\ pc = "ray" /\ pc' = pc /\ request' = request
      /\ ray.stage = "returned" /\ request.method = "path tracing"
      /\ ray \in RadianceRay /\ Returned(ray)
  BY DEF RayInv, Traced, Returned, PathSegment
<1>2. CASE /\ "emitter" \in ray.flags
           /\ ray' = [ray EXCEPT !.stage = "done",
                                 !.sum = IF "specular" \in ray.flags \/ ray.segment = 0
                                         THEN {<<"seen", ray.through>>} ELSE @]
  <2>1. "non specular" \notin ray.flags
    BY <1>1, <1>2 DEF Returned
  <2>2. CASE "specular" \in ray.flags \/ ray.segment = 0
    <3>1. ray' = [ray EXCEPT !.stage = "done", !.sum = {<<"seen", ray.through>>}]
      BY <1>2, <2>2
    <3>2. QED
      BY <1>1, <2>1, <2>2, <3>1, DoneIsSeen
  <2>3. CASE ~("specular" \in ray.flags \/ ray.segment = 0)
    <3>1. ray' = [ray EXCEPT !.stage = "done"]
      BY <1>1, <1>2, <2>3 DEF RadianceRay
    <3>2. QED
      BY <1>1, <2>1, <3>1, DoneIsSampled
  <2>4. QED
    BY <2>2, <2>3
<1>3. ASSUME "emitter" \notin ray.flags, "non specular" \in ray.flags, NEW goesOn \in BOOLEAN,
             ray' = IF goesOn /\ ray.segment + 1 < NumPaths
                    THEN [ray EXCEPT !.sum = @ \cup {SampledLight(ray)},
                                     !.segment = @ + 1, !.stage = "tracing",
                                     !.flags = FlagsOfNextSegment(@), !.inside = FALSE]
                    ELSE [ray EXCEPT !.sum = @ \cup {SampledLight(ray)}, !.stage = "done"]
      PROVE  RayInv'
  <2> DEFINE sum == ray.sum \cup {SampledLight(ray)}
  <2>1. /\ sum = SampledAt(Matt(ray.through))
        /\ sum \in SUBSET ({"sampled", "seen"} \X Seq(Surfaces))
    BY <1>1, <1>3, SumFields DEF Returned
  <2>2. CASE goesOn /\ ray.segment + 1 < NumPaths
    <3>1. ray' = [ray EXCEPT !.sum = sum, !.segment = ray.segment + 1, !.stage = "tracing",
                             !.flags = {}, !.inside = FALSE]
      BY <1>3, <2>2 DEF FlagsOfNextSegment
    <3>2. ray.segment + 1 \in Nat /\ ray.segment + 1 # 0 /\ {} \in SUBSET Flags
      <4>1. ray.segment \in Nat
        BY <1>1, RayFields
      <4>2. ray.segment + 1 \in Nat /\ ray.segment + 1 # 0
        BY <4>1
      <4>3. QED
        BY <4>2
    <3> HIDE DEF sum
    <3>3. /\ ray' \in RadianceRay /\ ray'.stage = "tracing" /\ ray'.flags = {}
          /\ ray'.sum = sum /\ ray'.through = ray.through /\ ray'.segment # 0
      BY <1>1, <2>1, <3>1, <3>2 DEF RadianceRay
    <3>4. QED
      BY <1>1, <2>1, <3>3 DEF RayInv, Traced, Returned, LightCountedOnce
  <2>3. CASE ~(goesOn /\ ray.segment + 1 < NumPaths)
    <3>1. ray' = [ray EXCEPT !.stage = "done", !.sum = sum]
      BY <1>3, <2>3
    <3> HIDE DEF sum
    <3>2. sum = ray.sum \cup {SampledLight(ray)}
      BY DEF sum
    <3>3. QED
      BY <1>1, <1>3, <3>1, <3>2, DoneIsMatt
  <2>4. QED
    BY <2>2, <2>3
<1>4. CASE /\ ray.flags \cap {"emitter", "non specular"} = {}
           /\ ray' = [ray EXCEPT !.stage = "done"]
  BY <1>1, <1>4, DoneIsSampled
<1>5. QED
  BY <1>2, <1>3, <1>4 DEF PathSegment

LEMMA DirectRadianceInv ==
    ASSUME RayInv, DirectRadiance
    PROVE  RayInv'
<1>1. /\ pc = "ray" /\ pc' = pc /\ request' = request
      /\ ray.stage = "returned" /\ request.method = "photon mapping"
      /\ ray \in RadianceRay /\ Returned(ray) /\ ray.sum = {}
      /\ ray' = [ray EXCEPT !.stage = "done",
                            !.sum = IF "non specular" \in ray.flags THEN {SampledLight(ray)}
                                    ELSE IF "emitter" \in ray.flags THEN {<<"seen", ray.through>>}
                                    ELSE {}]
  BY DEF RayInv, Traced, Returned, DirectRadiance
<1>2. CASE "non specular" \in ray.flags
  <2>1. ray' = [ray EXCEPT !.stage = "done", !.sum = {SampledLight(ray)}]
    BY <1>1, <1>2
  <2>2. {SampledLight(ray)} = ray.sum \cup {SampledLight(ray)}
    BY <1>1
  <2>3. QED
    BY <1>1, <1>2, <2>1, <2>2, DoneIsMatt
<1>3. CASE "non specular" \notin ray.flags /\ "emitter" \in ray.flags
  <2>1. ray' = [ray EXCEPT !.stage = "done", !.sum = {<<"seen", ray.through>>}]
    BY <1>1, <1>3
  <2>2. QED
    BY <1>1, <1>3, <2>1, DoneIsSeen
<1>4. CASE "non specular" \notin ray.flags /\ "emitter" \notin ray.flags
  <2>1. ray' = [ray EXCEPT !.stage = "done"]
    BY <1>1, <1>4 DEF RadianceRay
  <2>2. QED
    BY <1>1, <1>4, <2>1, DoneIsSampled
<1>5. QED
  BY <1>2, <1>3, <1>4

\* A new ray has seen nothing.
LEMMA NewRayInv ==
    ASSUME NEW pixel \in Nat, ray' = [NoRay EXCEPT !.pixel = pixel], pc' = "ray"
    PROVE  RayInv'
<1>1. ray' \in RadianceRay /\ ray'.stage = "tracing" /\ ray'.flags = {} /\ ray'.sum = {}
      /\ ray'.through = <<>>
  BY NoRayIsTraced DEF RadianceRay, NoRay
<1>2. SampledAt(Matt(<<>>)) = {}
  BY DEF SampledAt, Matt
<1>3. QED
  BY <1>1, <1>2 DEF RayInv, Traced, Returned, LightCountedOnce

LEMMA NoRayInv ==
    ASSUME ray' = NoRay
    PROVE  RayInv'
<1>1. /\ ray' \in RadianceRay /\ ray'.stage = "tracing" /\ ray'.flags = {} /\ ray'.sum = {}
      /\ ray'.through = <<>>
  BY NoRayIsTraced DEF NoRay
<1>2. SampledAt(Matt(<<>>)) = {}
  BY DEF SampledAt, Matt
<1>3. QED
  BY <1>1, <1>2 DEF RayInv, Traced, Returned, LightCountedOnce

LEMMA EndOfRayInv ==
    ASSUME RayInv, EndOfRay
    PROVE  RayInv'
<1>1. CASE ray' = [NoRay EXCEPT !.pixel = ray.pixel + 1] /\ pc' = pc
  <2>1. ray.pixel \in Nat /\ pc' = "ray"
    BY <1>1, RayFields DEF RayInv, Traced, Returned, EndOfRay
  <2> ray.pixel + 1 \in Nat
    BY <2>1
  <2>2. QED
    BY <1>1, <2>1, NewRayInv
<1>2. QED
  BY <1>1, NoRayInv DEF EndOfRay

\* Nothing else touches the ray, or the method while one is traced.
LEMMA NoOtherRay ==
    ASSUME RayInv, ray' = ray, pc # "ray"
    PROVE  RayInv'
BY NoRayInv DEF RayInv, Traced, Returned

\* A ray has sampled light where it has gone through a matt surface.
THEOREM RayInvariance == Spec => []RayInv
<1>1. Init => RayInv
  <2>1. Init => ray = NoRay
    BY DEF Init
  <2>2. ASSUME ray = NoRay PROVE RayInv
    <3>1. NoRay \in RadianceRay /\ Traced(NoRay) /\ NoRay.stage = "tracing"
      BY NoRayIsTraced DEF Traced
    <3>2. QED
      BY <2>2, <3>1 DEF RayInv, Traced, LightCountedOnce
  <2>3. QED
    BY <2>1, <2>2
<1>2. RayInv /\ [Next]_vars => RayInv'
  <2> SUFFICES ASSUME RayInv, [Next]_vars PROVE RayInv'
    OBVIOUS
  <2>1. CASE Host
    <3>1. (pc # "ray" /\ ray' = ray) \/ UNCHANGED <<ray, pc, request>>
      BY <2>1 DEF Host, Initialize, InitScene, MayInitScene, InitSceneFails, FirstIteration,
                  NextIteration, Resize, ResizeFails, ClearOutput, Throws, frameVars
    <3>2. CASE UNCHANGED <<ray, pc, request>>
      BY <3>2 DEF RayInv, Traced, Returned, LightCountedOnce, MattPrefixes, SampledLight
    <3>3. QED
      BY <3>1, <3>2, NoOtherRay
  <2>2. CASE Rays
    <3>1. CASE LaunchRays
      BY <3>1, NoRayInv DEF LaunchRays
    <3>2. QED
      BY <2>2, <3>1, RadianceHitInv, PathSegmentInv, DirectRadianceInv, EndOfRayInv DEF Rays
  <2>3. CASE PhotonMapping
    <3>1. ray' = ray /\ pc # "ray"
      <4>1. CASE LaunchPhotons \/ EstimateRadiance \/ OutputPass
        BY <4>1 DEF LaunchPhotons, EstimateRadiance, OutputPass
      <4>2. CASE createUniformGridPhotonMap \/ createPhotonKdTreeOnCPU
        BY <4>2 DEF createUniformGridPhotonMap, createPhotonKdTreeOnCPU, CreatesMap
      <4>3. ASSUME NEW t \in Threads,
                   \/ Generate(t)
                   \/ DiffusePhoton(t) \/ GlossyPhoton(t) \/ TexturePhoton(t)
                   \/ GlassPhoton(t) \/ MirrorPhoton(t) \/ DiffuseEmitterPhoton(t) \/ PhotonMiss(t)
            PROVE  ray' = ray /\ pc # "ray"
        BY <4>3 DEF Generate, DiffusePhoton, GlossyPhoton, TexturePhoton, GlassPhoton, MirrorPhoton,
                    DiffuseEmitterPhoton, PhotonMiss, MattPhotonHit, PhotonHit, Walks
      <4>4. QED
        BY <2>3, <4>1, <4>2, <4>3 DEF PhotonMapping
    <3>2. QED
      BY <3>1, NoOtherRay
  <2>4. CASE Connections
    <3>1. ray' = ray /\ pc # "ray"
      BY <2>4 DEF Connections, EstimateVertexCounts, LaunchLightPass, LightPassEnds, CameraPass,
                  StoreLightVertex
    <3>2. QED
      BY <3>1, NoOtherRay
  <2>5. CASE UNCHANGED vars
    BY <2>5 DEF vars, RayInv, Traced, Returned, LightCountedOnce, MattPrefixes, SampledLight
  <2>6. QED
    BY <2>1, <2>2, <2>3, <2>4, <2>5 DEF Next
<1>3. QED
  BY <1>1, <1>2, PTL DEF Spec

-----------------------------------------------------------------------------
(***************************************************************************)
(* The sums of the pixels                                                  *)
(***************************************************************************)
RayPasses == {"rays", "ray"}
PhotonPasses == {"photons", "photon walks", "estimate", "output"}
VertexPasses == {"count", "light", "light paths", "camera"}
Passes == RayPasses \cup PhotonPasses \cup VertexPasses

\* Which passes a method has
MethodInv ==
    /\ pc \in {"resize", "clear"} => request.method \in Methods
    /\ pc \in RayPasses => request.method \in {"path tracing", "photon mapping"}
    /\ pc \in PhotonPasses => request.method = "photon mapping"
    /\ pc \in VertexPasses => request.method = "VCM"
    /\ request.finished => pc = "idle" /\ request.method # "none"
    /\ pc = "resize" => width # request.size

\* What an iteration adds to every pixel in any case
WholeParts(method) ==
    IF method = "photon mapping" THEN {<<"frame">>}
    ELSE IF method = "VCM" THEN {<<"camera">>} ELSE {}

TokenOf(sequence, i, part) == [sequence |-> sequence, iteration |-> i, part |-> part]

\* A pixel holds n iterations of the sequence once, and of the next one some parts.
Holds(bag, sequence, method, n, parts) ==
    /\ \A token \in DOMAIN bag :
           /\ bag[token] = 1
           /\ token.sequence = sequence
           /\ token.iteration \in Nat
           /\ token.iteration < n \/ (token.iteration = n /\ token.part \in parts)
    /\ \A i \in 0 .. n - 1, part \in WholeParts(method) :
           TokenOf(sequence, i, part) \in DOMAIN bag

\* The iterations that are complete
Complete == IF request.finished THEN request.iteration + 1 ELSE request.iteration

\* What the one at hand may have added
PartsAdded(p) ==
    IF pc = "ray" /\ request.method = "path tracing" /\ p < ray.pixel THEN {<<"frame">>}
    ELSE IF pc \in {"light paths", "camera"} THEN VerticesOf(light.counts) ELSE {}

HasBegun == Complete > 0 \/ pc \in Passes

SumInv ==
    /\ HasBegun => width = request.size /\ DOMAIN output = Pixels(width)
    /\ ~halfway /\ request.method # "none" /\ HasBegun =>
           \A p \in Pixels(width) :
               Holds(output[p], request.sequence, request.method, Complete, PartsAdded(p))

FrameInv == MethodInv /\ SumInv

\* Memory that was cleared holds nothing of a new sequence.
LEMMA HoldsNothing ==
    ASSUME NEW sequence, NEW method
    PROVE  Holds(EmptyBag, sequence, method, 0, {})
<1>1. DOMAIN EmptyBag = {}
  BY DEF EmptyBag, SetToBag
<1>2. QED
  BY <1>1 DEF Holds

\* Parts that may have been added need not have been.
LEMMA HoldsOrMore ==
    ASSUME NEW bag, NEW sequence, NEW method, NEW n, NEW parts, NEW more,
           Holds(bag, sequence, method, n, parts), parts \subseteq more
    PROVE  Holds(bag, sequence, method, n, more)
BY DEF Holds

\* A part of the iteration at hand is added once.
LEMMA HoldsPart ==
    ASSUME NEW bag, NEW sequence, NEW method, NEW n \in Nat, NEW parts, NEW part,
           Holds(bag, sequence, method, n, parts), part \notin parts,
           NEW sum, sum = bag (+) SetToBag({TokenOf(sequence, n, part)})
    PROVE  /\ Holds(sum, sequence, method, n, parts \cup {part})
           /\ TokenOf(sequence, n, part) \in DOMAIN sum
<1> DEFINE new == TokenOf(sequence, n, part)
<1>1. new.sequence = sequence /\ new.iteration = n /\ new.part = part
  BY DEF TokenOf
<1>2. sum = bag (+) SetToBag({new})
  OBVIOUS
<1> HIDE DEF new
<1>3. new \notin DOMAIN bag
  BY <1>1 DEF Holds
<1>4. /\ DOMAIN sum = DOMAIN bag \cup {new}
      /\ \A token \in DOMAIN bag \cup {new} :
             sum[token] = (IF token \in DOMAIN bag THEN bag[token] ELSE 0)
                              + (IF token = new THEN 1 ELSE 0)
  <2>1. DOMAIN SetToBag({new}) = {new} /\ SetToBag({new})[new] = 1
    BY DEF SetToBag
  <2> DEFINE one == SetToBag({new})
  <2> HIDE DEF one
  <2>2. sum = [token \in DOMAIN bag \cup DOMAIN one |->
                  (IF token \in DOMAIN bag THEN bag[token] ELSE 0)
                      + (IF token \in DOMAIN one THEN one[token] ELSE 0)]
    BY <1>2 DEF (+), one
  <2>3. DOMAIN one = {new} /\ one[new] = 1
    BY <2>1 DEF one
  <2>4. QED
    BY <2>2, <2>3
<1>5. \A token \in DOMAIN bag : sum[token] = 1
  <2>1. ASSUME NEW token \in DOMAIN bag PROVE sum[token] = 1
    <3>1. token # new /\ bag[token] = 1
      BY <1>3 DEF Holds
    <3>2. sum[token] = bag[token] + 0
      BY <1>4, <3>1
    <3>3. QED
      BY <3>1, <3>2
  <2>2. QED
    BY <2>1
<1>6. sum[new] = 1
  <2>1. sum[new] = 0 + 1
    BY <1>3, <1>4
  <2>2. QED
    BY <2>1
<1>7. QED
  BY <1>1, <1>4, <1>5, <1>6 DEF Holds, new

\* The first part of a sequence replaces what was there.
LEMMA HoldsFirst ==
    ASSUME NEW sequence, NEW method, NEW part
    PROVE  LET sum == SetToBag({TokenOf(sequence, 0, part)})
           IN /\ Holds(sum, sequence, method, 0, {part})
              /\ TokenOf(sequence, 0, part) \in DOMAIN sum
<1> DEFINE new == TokenOf(sequence, 0, part)
           sum == SetToBag({new})
<1>1. new.sequence = sequence /\ new.iteration = 0 /\ new.part = part
  BY DEF TokenOf
<1> HIDE DEF new
<1>2. DOMAIN sum = {new} /\ sum[new] = 1
  BY DEF SetToBag
<1> HIDE DEF sum
<1>3. Holds(sum, sequence, method, 0, {part})
  BY <1>1, <1>2 DEF Holds
<1>4. QED
  BY <1>2, <1>3 DEF sum, new

\* An iteration is complete when nothing is missing of it.
LEMMA HoldsComplete ==
    ASSUME NEW bag, NEW sequence, NEW method, NEW n \in Nat, NEW parts,
           Holds(bag, sequence, method, n, parts),
           \A part \in WholeParts(method) : TokenOf(sequence, n, part) \in DOMAIN bag
    PROVE  Holds(bag, sequence, method, n + 1, {})
<1>1. ASSUME NEW token \in DOMAIN bag
      PROVE  /\ bag[token] = 1 /\ token.sequence = sequence
             /\ token.iteration \in Nat /\ token.iteration < n + 1
  <2>1. token.iteration \in Nat /\ (token.iteration < n \/ token.iteration = n)
    BY DEF Holds
  <2>2. token.iteration < n + 1
    BY <2>1
  <2>3. QED
    BY <2>1, <2>2 DEF Holds
<1>2. ASSUME NEW i \in 0 .. (n + 1) - 1, NEW part \in WholeParts(method)
      PROVE  TokenOf(sequence, i, part) \in DOMAIN bag
  <2>1. i \in 0 .. n - 1 \/ i = n
    OBVIOUS
  <2>2. CASE i \in 0 .. n - 1
    BY <2>2 DEF Holds
  <2>3. CASE i = n
    BY <2>3
  <2>4. QED
    BY <2>1, <2>2, <2>3
<1>3. QED
  BY <1>1, <1>2 DEF Holds

\* What Accumulate makes of a pixel
LEMMA AccumulateHolds ==
    ASSUME NEW pixels, NEW part, NEW p \in DOMAIN output, NEW parts,
           request.iteration \in Nat, part \notin parts,
           Holds(output[p], request.sequence, request.method, request.iteration, parts),
           request.iteration = 0 => parts = {}
    PROVE  LET sum == Accumulate(pixels, part)
               new == TokenOf(request.sequence, request.iteration, part)
           IN /\ DOMAIN sum = DOMAIN output
              /\ p \notin pixels => sum[p] = output[p]
              /\ p \in pixels =>
                     /\ Holds(sum[p], request.sequence, request.method, request.iteration,
                              parts \cup {part})
                     /\ new \in DOMAIN sum[p]
<1> DEFINE sum == Accumulate(pixels, part)
           new == TokenOf(request.sequence, request.iteration, part)
<1>1. Token(part) = new
  BY DEF Token, TokenOf
<1>2. /\ DOMAIN sum = DOMAIN output
      /\ sum[p] = IF p \notin pixels THEN output[p]
                  ELSE IF request.iteration = 0 THEN SetToBag({new})
                  ELSE output[p] (+) SetToBag({new})
  BY <1>1 DEF Accumulate
<1> HIDE DEF sum
<1>3. CASE p \notin pixels
  BY <1>2, <1>3 DEF sum
<1>4. CASE p \in pixels /\ request.iteration = 0
  <2>1. sum[p] = SetToBag({TokenOf(request.sequence, 0, part)}) /\ parts = {}
    BY <1>2, <1>4
  <2>2. /\ Holds(sum[p], request.sequence, request.method, 0, {part})
        /\ TokenOf(request.sequence, 0, part) \in DOMAIN sum[p]
    BY <2>1, HoldsFirst
  <2>3. parts \cup {part} = {part}
    BY <2>1
  <2>4. QED
    BY <1>2, <1>4, <2>2, <2>3 DEF sum
<1>5. CASE p \in pixels /\ request.iteration # 0
  <2>1. sum[p] = output[p] (+) SetToBag({new})
    BY <1>2, <1>5
  <2>2. /\ Holds(sum[p], request.sequence, request.method, request.iteration, parts \cup {part})
        /\ new \in DOMAIN sum[p]
    BY <2>1, HoldsPart
  <2>3. QED
    BY <1>2, <1>5, <2>2 DEF sum
<1>6. QED
  BY <1>3, <1>4, <1>5
AllInv == IInv /\ RayInv /\ VertexInv /\ FrameInv

\* What the methods are told apart by
LEMMA MethodFacts ==
    ASSUME AllInv
    PROVE  /\ request \in Request /\ request.iteration \in Nat
           /\ request.finished \in BOOLEAN /\ Complete \in Nat
           /\ pc \in Passes => ~request.finished /\ Complete = request.iteration
                                 /\ request.method # "none" /\ HasBegun
<1>1. request \in Request
  BY DEF AllInv, IInv, TypeInv
<1>2. request.iteration \in Nat /\ request.finished \in BOOLEAN
  BY <1>1 DEF Request
<1>3. Complete \in Nat
  BY <1>2 DEF Complete
<1>4. ASSUME pc \in Passes
      PROVE  /\ ~request.finished /\ Complete = request.iteration
             /\ request.method # "none" /\ HasBegun
  <2>1. pc # "idle"
    BY <1>4 DEF Passes, RayPasses, PhotonPasses, VertexPasses
  <2>2. ~request.finished
    BY <2>1 DEF AllInv, FrameInv, MethodInv
  <2>3. request.method # "none"
    BY <1>4 DEF AllInv, FrameInv, MethodInv, Passes
  <2>4. QED
    BY <1>4, <2>2, <2>3 DEF Complete, HasBegun
<1>5. QED
  BY <1>1, <1>2, <1>3, <1>4

\* A pass is over, or throws, and has added nothing that was not expected.
LEMMA PassGoesOn ==
    ASSUME AllInv, pc \in Passes, pc' \in Passes \cup {"idle"}, MethodInv',
           UNCHANGED <<request, output, width>>, ~halfway' => ~halfway,
           \A p \in Pixels(width) : PartsAdded(p) \subseteq PartsAdded(p)'
    PROVE  FrameInv'
<1>1. HasBegun /\ Complete' = Complete /\ request.method # "none"
  BY MethodFacts DEF Complete
<1>2. width = request.size /\ DOMAIN output = Pixels(width)
  BY <1>1 DEF AllInv, FrameInv, SumInv
<1>3. ASSUME ~halfway, NEW p \in Pixels(width)
      PROVE  Holds(output[p], request.sequence, request.method, Complete, PartsAdded(p)')
  <2>1. Holds(output[p], request.sequence, request.method, Complete, PartsAdded(p))
    BY <1>1, <1>3 DEF AllInv, FrameInv, SumInv
  <2>2. PartsAdded(p) \subseteq PartsAdded(p)'
    OBVIOUS
  <2>3. QED
    BY <2>1, <2>2, HoldsOrMore
<1>4. Pixels(width)' = Pixels(width)
  BY DEF Pixels, NumPixels
<1>5. SumInv'
  BY <1>1, <1>2, <1>3, <1>4 DEF SumInv
<1>6. QED
  BY <1>5 DEF FrameInv

\* Nothing that a pass other than these has added
LEMMA NothingAdded ==
    ASSUME pc \notin {"ray", "light paths", "camera"}, NEW p
    PROVE  PartsAdded(p) = {}
BY DEF PartsAdded

\* Where the method of a pass stays the same
LEMMA SameMethod ==
    ASSUME MethodInv, request' = request, ~request.finished,
           \/ pc \in RayPasses /\ pc' \in RayPasses
           \/ pc \in PhotonPasses /\ pc' \in PhotonPasses
           \/ pc \in VertexPasses /\ pc' \in VertexPasses
           \/ pc' = "idle"
    PROVE  MethodInv'
BY DEF MethodInv, RayPasses, PhotonPasses, VertexPasses

LEMMA RaysGoOn ==
    ASSUME AllInv, LaunchRays \/ RadianceHit \/ PathSegment \/ DirectRadiance
    PROVE  FrameInv'
<1>1. /\ pc \in RayPasses /\ pc' = "ray" /\ UNCHANGED <<request, output, width, halfway, light>>
      /\ pc = "ray" => ray'.pixel = ray.pixel
  <2>1. CASE LaunchRays
    BY <2>1 DEF LaunchRays, RayPasses, frameVars
  <2>2. CASE RadianceHit \/ PathSegment \/ DirectRadiance
    <3>1. pc = "ray" /\ pc' = "ray" /\ UNCHANGED <<request, output, width, halfway, light>>
      BY <2>2 DEF RadianceHit, PathSegment, DirectRadiance, frameVars
    <3>2. ray \in RadianceRay
      BY DEF AllInv, RayInv
    <3>3. ray'.pixel = ray.pixel
      <4>1. CASE RadianceHit
        BY <3>2, <4>1 DEF RadianceHit, DiffuseRadiance, GlossyRadiance, TextureRadiance,
              GlassRadiance, MirrorRadiance, DiffuseEmitterRadiance, Miss, RadianceRay
      <4>2. CASE PathSegment
        BY <3>2, <4>2 DEF PathSegment, RadianceRay
      <4>3. CASE DirectRadiance
        BY <3>2, <4>3 DEF DirectRadiance, RadianceRay
      <4>4. QED
        BY <2>2, <4>1, <4>2, <4>3
    <3>4. QED
      BY <3>1, <3>3 DEF RayPasses
  <2>3. QED
    BY <2>1, <2>2
<1>2. pc \in Passes /\ pc' \in Passes /\ pc' \in RayPasses
  BY <1>1 DEF Passes, RayPasses
<1>3. MethodInv'
  BY <1>1, <1>2, MethodFacts, SameMethod DEF AllInv, FrameInv
<1>4. ASSUME NEW p \in Pixels(width) PROVE PartsAdded(p) \subseteq PartsAdded(p)'
  BY <1>1 DEF PartsAdded, RayPasses
<1>5. QED
  BY <1>1, <1>2, <1>3, <1>4, PassGoesOn

LEMMA PixelsAreNumbers ==
    ASSUME NEW size \in FrameSizes
    PROVE  \A p \in Pixels(size) : p \in Int
<1>1. NumPixels(size) \in Nat
  BY PixelsAreFinite
<1>2. QED
  BY <1>1 DEF Pixels

\* The pixels before the next one
LEMMA NextPixel ==
    ASSUME NEW p \in Int, NEW q \in Nat
    PROVE  /\ p < q => p < q + 1
           /\ p = q => ~(p < q) /\ p < q + 1
OBVIOUS

\* Path tracing: the pixel of the ray has its part, or a path that is not a number.
LEMMA EndOfPath ==
    ASSUME AllInv, EndOfRay, request.method = "path tracing", NEW p \in Pixels(width),
           Holds(output[p], request.sequence, request.method, request.iteration, PartsAdded(p))
    PROVE  Holds(output'[p], request.sequence, request.method, request.iteration,
                 IF p < ray.pixel + 1 THEN {<<"frame">>} ELSE {})
<1>1. pc = "ray" /\ pc \in Passes
  BY DEF EndOfRay, Passes, RayPasses
<1>2. /\ Complete = request.iteration /\ HasBegun /\ request.method # "none"
      /\ request.iteration \in Nat
  BY <1>1, MethodFacts
<1>3. DOMAIN output = Pixels(width) /\ width \in FrameSizes
  BY <1>2 DEF AllInv, FrameInv, SumInv, VertexInv, LightTypes
<1>4. p \in Int /\ ray.pixel \in Nat
  <2>1. ray.pixel \in Nat
    BY DEF AllInv, RayInv, RadianceRay
  <2>2. QED
    BY <1>3, <2>1, PixelsAreNumbers
<1> /\ p < ray.pixel => p < ray.pixel + 1
    /\ p = ray.pixel => ~(p < ray.pixel) /\ p < ray.pixel + 1
  BY <1>4, NextPixel
<1> DEFINE parts == IF p < ray.pixel THEN {<<"frame">>} ELSE {}
           more == IF p < ray.pixel + 1 THEN {<<"frame">>} ELSE {}
<1>5. Holds(output[p], request.sequence, request.method, request.iteration, parts)
  <2>1. PartsAdded(p) = parts
    BY <1>1 DEF PartsAdded
  <2>2. QED
    BY <2>1
<1>6. parts \subseteq more
  OBVIOUS
<1>7. p = ray.pixel => parts = {} /\ more = {<<"frame">>}
  OBVIOUS
<1> HIDE DEF parts, more
<1>8. CASE output' = output
  BY <1>5, <1>6, <1>8, HoldsOrMore DEF more
<1>9. CASE output' = Accumulate({ray.pixel}, <<"frame">>)
  <2>1. CASE p # ray.pixel
    <3>1. output'[p] = output[p]
      BY <1>3, <1>9, <2>1 DEF Accumulate
    <3>2. QED
      BY <1>5, <1>6, <3>1, HoldsOrMore DEF more
  <2>2. CASE p = ray.pixel
    <3>1. /\ p \in DOMAIN output /\ p \in {ray.pixel} /\ <<"frame">> \notin {}
          /\ Holds(output[p], request.sequence, request.method, request.iteration, {})
      BY <1>3, <1>5, <1>7, <2>2
    <3>2. Holds(output'[p], request.sequence, request.method, request.iteration,
                {} \cup {<<"frame">>})
      BY <1>2, <1>9, <3>1, AccumulateHolds
    <3>3. {} \cup {<<"frame">>} = more
      BY <1>7, <2>2
    <3>4. QED
      BY <3>2, <3>3 DEF more
  <2>3. QED
    BY <2>1, <2>2
<1>10. QED
  BY <1>8, <1>9 DEF EndOfRay

LEMMA EndOfRaySum ==
    ASSUME AllInv, EndOfRay
    PROVE  FrameInv'
<1>1. /\ pc = "ray" /\ pc \in Passes /\ pc \in RayPasses
      /\ UNCHANGED <<width, halfway, light>>
  BY DEF EndOfRay, Passes, RayPasses
<1>2. /\ Complete = request.iteration /\ HasBegun /\ request.method # "none"
      /\ request \in Request /\ request.iteration \in Nat /\ ~request.finished
      /\ request.method \in {"path tracing", "photon mapping"}
  BY <1>1, MethodFacts DEF AllInv, FrameInv, MethodInv
<1>3. /\ width = request.size /\ DOMAIN output = Pixels(width)
      /\ Pixels(width)' = Pixels(width) /\ ray \in RadianceRay /\ ray.pixel \in Nat
  BY <1>1, <1>2, RayFields DEF AllInv, FrameInv, SumInv, Pixels, NumPixels, RayInv
<1>4. DOMAIN output' = DOMAIN output
  BY DEF EndOfRay, Accumulate
<1>5. CASE request.method = "photon mapping"
  <2>1. output' = output
    BY <1>5 DEF EndOfRay
  <2>2. request' = request /\ pc' \in {"ray", "photons"}
    <3>1. CASE UNCHANGED <<request, pc>>
      BY <1>1, <3>1
    <3>2. CASE /\ pc' = IF request.method = "path tracing" THEN "idle" ELSE "photons"
               /\ request' = [request EXCEPT !.finished = (request.method = "path tracing")]
      BY <1>2, <1>5, <3>2 DEF Request
    <3>3. QED
      BY <3>1, <3>2 DEF EndOfRay
  <2>3. pc' \in Passes
    BY <2>2 DEF Passes, RayPasses, PhotonPasses
  <2>4. MethodInv'
    BY <1>2, <1>5, <2>2 DEF MethodInv, RayPasses, PhotonPasses, VertexPasses
  <2>5. ASSUME NEW p \in Pixels(width) PROVE PartsAdded(p) \subseteq PartsAdded(p)'
    BY <1>1, <1>5 DEF PartsAdded
  <2>6. QED
    BY <1>1, <2>1, <2>2, <2>3, <2>4, <2>5, PassGoesOn
<1>6. CASE request.method = "path tracing" /\ UNCHANGED <<request, pc>>
  <2>1. ray' = [NoRay EXCEPT !.pixel = ray.pixel + 1]
    <3>1. ASSUME request' = [request EXCEPT !.finished = (request.method = "path tracing")]
          PROVE  FALSE
      BY <1>2, <1>6, <3>1 DEF Request
    <3>2. QED
      BY <3>1 DEF EndOfRay
  <2>2. ray'.pixel = ray.pixel + 1
    BY <2>1 DEF NoRay
  <2>3. MethodInv'
    BY <1>1, <1>2, <1>6, SameMethod DEF AllInv, FrameInv
  <2>4. ASSUME ~halfway, NEW p \in Pixels(width)
        PROVE  Holds(output'[p], request.sequence, request.method, request.iteration,
                     PartsAdded(p)')
    <3>1. Holds(output'[p], request.sequence, request.method, request.iteration,
                IF p < ray.pixel + 1 THEN {<<"frame">>} ELSE {})
      <4>1. Holds(output[p], request.sequence, request.method, request.iteration, PartsAdded(p))
        BY <1>2, <2>4 DEF AllInv, FrameInv, SumInv
      <4>2. QED
        BY <1>6, <4>1, EndOfPath
    <3>2. PartsAdded(p)' = IF p < ray.pixel + 1 THEN {<<"frame">>} ELSE {}
      BY <1>1, <1>6, <2>2 DEF PartsAdded
    <3>3. QED
      BY <3>1, <3>2
  <2>5. Complete' = request.iteration
    BY <1>2, <1>6 DEF Complete
  <2>6. SumInv'
    BY <1>1, <1>3, <1>4, <1>6, <2>4, <2>5 DEF SumInv
  <2>7. QED
    BY <2>3, <2>6 DEF FrameInv
<1>7. CASE /\ request.method = "path tracing" /\ pc' = "idle"
           /\ request' = [request EXCEPT !.finished = TRUE]
  <2>1. /\ request'.finished /\ request'.method = "path tracing" /\ request'.size = request.size
        /\ request'.sequence = request.sequence /\ request'.iteration = request.iteration
    BY <1>2, <1>7 DEF Request
  <2>2. MethodInv'
    BY <1>7, <2>1 DEF MethodInv, RayPasses, PhotonPasses, VertexPasses
  <2>3. ASSUME ~halfway, NEW p \in Pixels(width)
        PROVE  Holds(output'[p], request.sequence, request.method, request.iteration + 1, {})
    <3>1. Holds(output'[p], request.sequence, request.method, request.iteration,
                IF p < ray.pixel + 1 THEN {<<"frame">>} ELSE {})
      <4>1. Holds(output[p], request.sequence, request.method, request.iteration, PartsAdded(p))
        BY <1>2, <2>3 DEF AllInv, FrameInv, SumInv
      <4>2. QED
        BY <1>7, <4>1, EndOfPath
    <3>2. WholeParts(request.method) = {}
      BY <1>7 DEF WholeParts
    <3>3. QED
      BY <1>2, <3>1, <3>2, HoldsComplete
  <2>4. Complete' = request.iteration + 1
    BY <2>1 DEF Complete
  <2>5. \A p \in Pixels(width) : PartsAdded(p)' = {}
    BY <1>7 DEF PartsAdded
  <2>6. SumInv'
    BY <1>1, <1>3, <1>4, <1>7, <2>1, <2>3, <2>4, <2>5 DEF SumInv
  <2>7. QED
    BY <2>2, <2>6 DEF FrameInv
<1>8. QED
  BY <1>2, <1>5, <1>6, <1>7 DEF EndOfRay

LEMMA PhotonPassGoesOn ==
    ASSUME AllInv, PhotonMapping, ~OutputPass
    PROVE  FrameInv'
<1>1. /\ pc \in PhotonPasses /\ pc' \in PhotonPasses \cup {"idle"}
      /\ UNCHANGED <<request, output, width, halfway>>
  <2>1. CASE LaunchPhotons \/ EstimateRadiance
    BY <2>1 DEF LaunchPhotons, EstimateRadiance, frameVars, PhotonPasses
  <2>2. CASE createUniformGridPhotonMap \/ createPhotonKdTreeOnCPU
    BY <2>2 DEF createUniformGridPhotonMap, createPhotonKdTreeOnCPU, CreatesMap, frameVars,
                PhotonPasses
  <2>3. ASSUME NEW t \in Threads,
               \/ Generate(t)
               \/ DiffusePhoton(t) \/ GlossyPhoton(t) \/ TexturePhoton(t)
               \/ GlassPhoton(t) \/ MirrorPhoton(t) \/ DiffuseEmitterPhoton(t) \/ PhotonMiss(t)
        PROVE  /\ pc \in PhotonPasses /\ pc' = pc
               /\ UNCHANGED <<request, output, width, halfway>>
    BY <2>3 DEF Generate, DiffusePhoton, GlossyPhoton, TexturePhoton, GlassPhoton, MirrorPhoton,
                DiffuseEmitterPhoton, PhotonMiss, MattPhotonHit, PhotonHit, Walks, frameVars,
                PhotonPasses
  <2>4. QED
    BY <2>1, <2>2, <2>3 DEF PhotonMapping
<1>2. pc \in Passes /\ pc' \in Passes \cup {"idle"} /\ ~request.finished
  BY <1>1, MethodFacts DEF Passes
<1>3. MethodInv'
  BY <1>1, <1>2, SameMethod DEF AllInv, FrameInv
<1>4. ASSUME NEW p \in Pixels(width) PROVE PartsAdded(p) \subseteq PartsAdded(p)'
  BY <1>1, NothingAdded DEF PhotonPasses
<1>5. QED
  BY <1>1, <1>2, <1>3, <1>4, PassGoesOn

\* An iteration is over: it has added what it adds in any case.
LEMMA IterationIsComplete ==
    ASSUME AllInv, pc \in Passes, pc' = "idle", request' = [request EXCEPT !.finished = TRUE],
           width' = width, DOMAIN output' = DOMAIN output, ~halfway' => ~halfway,
           \A p \in Pixels(width) :
               Holds(output[p], request.sequence, request.method, request.iteration, PartsAdded(p))
               => \E parts :
                      /\ Holds(output'[p], request.sequence, request.method,
                               request.iteration, parts)
                      /\ \A part \in WholeParts(request.method) :
                             TokenOf(request.sequence, request.iteration, part)
                                 \in DOMAIN output'[p]
    PROVE  FrameInv'
<1>1. /\ Complete = request.iteration /\ HasBegun /\ request.method # "none"
      /\ request \in Request /\ request.iteration \in Nat
  BY MethodFacts
<1>2. /\ request'.finished /\ request'.method = request.method /\ request'.size = request.size
      /\ request'.sequence = request.sequence /\ request'.iteration = request.iteration
  BY <1>1 DEF Request
<1>3. MethodInv'
  BY <1>1, <1>2 DEF MethodInv, RayPasses, PhotonPasses, VertexPasses
<1>4. width = request.size /\ DOMAIN output = Pixels(width) /\ Pixels(width)' = Pixels(width)
  BY <1>1 DEF AllInv, FrameInv, SumInv, Pixels, NumPixels
<1>5. ASSUME ~halfway, NEW p \in Pixels(width)
      PROVE  Holds(output'[p], request.sequence, request.method, request.iteration + 1, {})
  <2>1. Holds(output[p], request.sequence, request.method, request.iteration, PartsAdded(p))
    BY <1>1, <1>5 DEF AllInv, FrameInv, SumInv
  <2>2. PICK parts :
            /\ Holds(output'[p], request.sequence, request.method, request.iteration, parts)
            /\ \A part \in WholeParts(request.method) :
                   TokenOf(request.sequence, request.iteration, part) \in DOMAIN output'[p]
    BY <2>1
  <2>3. QED
    BY <1>1, <2>2, HoldsComplete
<1>6. Complete' = request.iteration + 1
  BY <1>2 DEF Complete
<1>7. \A p \in Pixels(width) : PartsAdded(p)' = {}
  BY DEF PartsAdded
<1>8. SumInv'
  BY <1>2, <1>4, <1>5, <1>6, <1>7 DEF SumInv
<1>9. QED
  BY <1>3, <1>8 DEF FrameInv

LEMMA OutputSum ==
    ASSUME AllInv, OutputPass
    PROVE  FrameInv'
<1>1. /\ pc = "output" /\ pc \in Passes /\ pc' = "idle"
      /\ request' = [request EXCEPT !.finished = TRUE]
      /\ UNCHANGED <<width, halfway>> /\ output' = Accumulate(Pixels(width), <<"frame">>)
  BY DEF OutputPass, Passes, PhotonPasses
<1>2. /\ request.method = "photon mapping" /\ request.iteration \in Nat /\ HasBegun
  BY <1>1, MethodFacts DEF AllInv, FrameInv, MethodInv, PhotonPasses
<1>3. DOMAIN output = Pixels(width) /\ DOMAIN output' = DOMAIN output
  BY <1>1, <1>2 DEF AllInv, FrameInv, SumInv, Accumulate
<1>4. ASSUME NEW p \in Pixels(width),
             Holds(output[p], request.sequence, request.method, request.iteration, PartsAdded(p))
      PROVE  \E parts :
                 /\ Holds(output'[p], request.sequence, request.method, request.iteration, parts)
                 /\ \A part \in WholeParts(request.method) :
                        TokenOf(request.sequence, request.iteration, part) \in DOMAIN output'[p]
  <2>1. /\ p \in DOMAIN output /\ <<"frame">> \notin {}
        /\ Holds(output[p], request.sequence, request.method, request.iteration, {})
    BY <1>1, <1>3, <1>4, NothingAdded
  <2>2. /\ Holds(output'[p], request.sequence, request.method, request.iteration,
                 {} \cup {<<"frame">>})
        /\ TokenOf(request.sequence, request.iteration, <<"frame">>) \in DOMAIN output'[p]
    BY <1>1, <1>2, <2>1, AccumulateHolds
  <2>3. WholeParts(request.method) = {<<"frame">>}
    BY <1>2 DEF WholeParts
  <2>4. QED
    BY <2>2, <2>3
<1>5. QED
  BY <1>1, <1>3, <1>4, IterationIsComplete

\* A vertex of a light path is not the colour of the camera pass.
LEMMA VertexIsNoColour ==
    ASSUME NEW counts
    PROVE  <<"camera">> \notin VerticesOf(counts)
<1> SUFFICES ASSUME <<"camera">> \in VerticesOf(counts) PROVE FALSE
  OBVIOUS
<1>1. PICK p \in DOMAIN counts, k \in 0 .. MaxPathVertices - 1 : <<"camera">> = <<p, k>>
  BY DEF VerticesOf, VertexIndices
<1>2. Len(<<"camera">>) = 1 /\ Len(<<p, k>>) = 2
  OBVIOUS
<1>3. QED
  BY <1>1, <1>2

LEMMA CameraSum ==
    ASSUME AllInv, CameraPass
    PROVE  FrameInv'
<1>1. /\ pc = "camera" /\ pc \in Passes /\ pc' = "idle"
      /\ request' = [request EXCEPT !.finished = TRUE]
      /\ UNCHANGED <<width, halfway>>
      /\ output' = [p \in DOMAIN output |-> output[p] (+) SetToBag({Token(<<"camera">>)})]
  BY DEF CameraPass, Passes, VertexPasses
<1>2. /\ request.method = "VCM" /\ request.iteration \in Nat /\ HasBegun
  BY <1>1, MethodFacts DEF AllInv, FrameInv, MethodInv, VertexPasses
<1>3. DOMAIN output = Pixels(width) /\ DOMAIN output' = DOMAIN output
  BY <1>1, <1>2 DEF AllInv, FrameInv, SumInv
<1>4. ASSUME NEW p \in Pixels(width),
             Holds(output[p], request.sequence, request.method, request.iteration, PartsAdded(p))
      PROVE  \E parts :
                 /\ Holds(output'[p], request.sequence, request.method, request.iteration, parts)
                 /\ \A part \in WholeParts(request.method) :
                        TokenOf(request.sequence, request.iteration, part) \in DOMAIN output'[p]
  <2>1. PartsAdded(p) = VerticesOf(light.counts)
    BY <1>1 DEF PartsAdded
  <2>2. <<"camera">> \notin PartsAdded(p)
    BY <2>1, VertexIsNoColour
  <2>3. output'[p] = output[p] (+) SetToBag({TokenOf(request.sequence, request.iteration,
                                                     <<"camera">>)})
    BY <1>1, <1>3 DEF Token, TokenOf
  <2>4. /\ Holds(output'[p], request.sequence, request.method, request.iteration,
                 PartsAdded(p) \cup {<<"camera">>})
        /\ TokenOf(request.sequence, request.iteration, <<"camera">>) \in DOMAIN output'[p]
    BY <1>2, <1>4, <2>2, <2>3, HoldsPart
  <2>5. WholeParts(request.method) = {<<"camera">>}
    BY <1>2 DEF WholeParts
  <2>6. QED
    BY <2>4, <2>5
<1>5. QED
  BY <1>1, <1>3, <1>4, IterationIsComplete

LEMMA LightPassGoesOn ==
    ASSUME AllInv, EstimateVertexCounts \/ LaunchLightPass \/ LightPassEnds
    PROVE  FrameInv'
<1>1. /\ pc \in VertexPasses /\ pc' \in VertexPasses
      /\ UNCHANGED <<request, output, width, halfway>>
      /\ \/ pc \in {"count", "light"}
         \/ pc = "light paths" /\ pc' = "camera" /\ light' = light
  BY DEF EstimateVertexCounts, LaunchLightPass, LightPassEnds, frameVars, VertexPasses
<1>2. pc \in Passes /\ pc' \in Passes /\ ~request.finished
  BY <1>1, MethodFacts DEF Passes
<1>3. MethodInv'
  BY <1>1, <1>2, SameMethod DEF AllInv, FrameInv
<1>4. ASSUME NEW p \in Pixels(width) PROVE PartsAdded(p) \subseteq PartsAdded(p)'
  BY <1>1 DEF PartsAdded
<1>5. QED
  BY <1>1, <1>2, <1>3, <1>4, PassGoesOn

\* A vertex of a light path is added to one pixel at most.
LEMMA StoreSum ==
    ASSUME AllInv, NEW p \in Pixels(width), StoreLightVertex(p)
    PROVE  FrameInv'
<1> DEFINE v == <<p, light.counts[p]>>
           old == VerticesOf(light.counts)
<1>1. /\ pc = "light paths" /\ pc' = pc /\ pc \in Passes /\ pc \in VertexPasses
      /\ UNCHANGED <<request, width, halfway>>
      /\ \/ \E pixel \in Pixels(width) :
                output' = [output EXCEPT ![pixel] = @ (+) SetToBag({Token(v)})]
         \/ output' = output
  BY DEF StoreLightVertex, Passes, VertexPasses
<1>2. v \notin old /\ VerticesOf(light'.counts) = old \cup {v}
  BY StoredVertex DEF AllInv
<1>3. Token(v) = TokenOf(request.sequence, request.iteration, v)
  BY DEF Token, TokenOf
<1> HIDE DEF v, old
<1>4. /\ Complete = request.iteration /\ HasBegun /\ request.method # "none"
      /\ request.iteration \in Nat /\ ~request.finished
  BY <1>1, MethodFacts
<1>5. MethodInv'
  BY <1>1, <1>4, SameMethod DEF AllInv, FrameInv
<1>6. /\ width = request.size /\ DOMAIN output = Pixels(width)
      /\ Pixels(width)' = Pixels(width) /\ DOMAIN output' = DOMAIN output
  BY <1>1, <1>4 DEF AllInv, FrameInv, SumInv, Pixels, NumPixels
<1>7. \A q : PartsAdded(q) = old /\ PartsAdded(q)' = old \cup {v}
  BY <1>1, <1>2 DEF PartsAdded, old
<1>8. ASSUME ~halfway, NEW q \in Pixels(width)
      PROVE  Holds(output'[q], request.sequence, request.method, request.iteration, old \cup {v})
  <2>1. Holds(output[q], request.sequence, request.method, request.iteration, old)
    BY <1>4, <1>7, <1>8 DEF AllInv, FrameInv, SumInv
  <2>2. output'[q] = output[q] \/ output'[q] = output[q] (+) SetToBag({Token(v)})
    BY <1>1, <1>6
  <2>3. CASE output'[q] = output[q]
    BY <2>1, <2>3, HoldsOrMore
  <2>4. CASE output'[q] = output[q] (+) SetToBag({Token(v)})
    BY <1>2, <1>3, <1>4, <2>1, <2>4, HoldsPart
  <2>5. QED
    BY <2>2, <2>3, <2>4
<1>9. Complete' = request.iteration
  BY <1>1, <1>4 DEF Complete
<1>10. SumInv'
  BY <1>1, <1>6, <1>7, <1>8, <1>9 DEF SumInv
<1>11. QED
  BY <1>5, <1>10 DEF FrameInv

\* A launch that throws has added nothing, but for the light paths before the camera pass.
LEMMA ThrowsSum ==
    ASSUME AllInv, Throws
    PROVE  FrameInv'
<1>1. /\ pc \in {"rays", "photons", "estimate", "output", "count", "light", "camera"}
      /\ halfway' = (halfway \/ pc = "camera") /\ pc' = "idle"
      /\ output' = IF pc = "camera" THEN NewMemory(width) ELSE output
      /\ UNCHANGED <<request, width>>
  BY DEF Throws
<1>2. pc \in Passes
  BY <1>1 DEF Passes, RayPasses, PhotonPasses, VertexPasses
<1>3. HasBegun /\ ~request.finished
  BY <1>2, MethodFacts
<1>4. MethodInv'
  BY <1>1, <1>3, SameMethod DEF AllInv, FrameInv
<1>5. CASE pc = "camera"
  <2>1. halfway' /\ DOMAIN output' = Pixels(width)
    BY <1>1, <1>5 DEF NewMemory
  <2>2. width = request.size /\ Pixels(width)' = Pixels(width)
    BY <1>1, <1>3 DEF AllInv, FrameInv, SumInv, Pixels, NumPixels
  <2>3. SumInv'
    BY <1>1, <2>1, <2>2 DEF SumInv
  <2>4. QED
    BY <1>4, <2>3 DEF FrameInv
<1>6. CASE pc # "camera"
  <2>1. output' = output /\ (~halfway' => ~halfway)
    BY <1>1, <1>6
  <2>2. ASSUME NEW p \in Pixels(width) PROVE PartsAdded(p) \subseteq PartsAdded(p)'
    BY <1>1, <1>6, NothingAdded
  <2>3. QED
    BY <1>1, <1>2, <1>4, <2>1, <2>2, PassGoesOn
<1>7. QED
  BY <1>5, <1>6

\* Between the calls and their launches, nothing was added to the iteration at hand.
LEMMA HostGoesOn ==
    ASSUME AllInv, pc \notin Passes, pc' \notin Passes, MethodInv',
           UNCHANGED <<width, output>>, ~halfway' => ~halfway,
           request'.size = request.size, request'.sequence = request.sequence,
           Complete' = Complete, request'.method = request.method
    PROVE  FrameInv'
<1>1. HasBegun' => HasBegun
  BY DEF HasBegun
<1>2. Pixels(width)' = Pixels(width)
  BY DEF Pixels, NumPixels
<1>3. \A p : PartsAdded(p) = {} /\ PartsAdded(p)' = {}
  BY DEF PartsAdded, Passes, RayPasses, VertexPasses
<1>4. SumInv'
  BY <1>1, <1>2, <1>3 DEF AllInv, FrameInv, SumInv
<1>5. QED
  BY <1>4 DEF FrameInv

\* A sequence that has nothing complete is in none of its passes.
LEMMA NothingBegun ==
    ASSUME MethodInv', Complete' = 0, pc' \notin Passes
    PROVE  FrameInv'
<1>1. ~HasBegun'
  BY DEF HasBegun
<1>2. QED
  BY <1>1 DEF FrameInv, SumInv

LEMMA ClearSum ==
    ASSUME AllInv, ClearOutput
    PROVE  FrameInv'
<1>1. /\ pc = "clear" /\ UNCHANGED <<request, width>> /\ pc \notin Passes
      /\ output' = IF BuffersFit THEN Cleared ELSE output
      /\ halfway' = (halfway /\ request.iteration # 0)
      /\ pc' = IF ~BuffersFit THEN "undefined"
               ELSE IF request.method # "VCM" THEN "rays"
               ELSE IF light.estimated THEN "light" ELSE "count"
  BY DEF ClearOutput, Passes, RayPasses, PhotonPasses, VertexPasses
<1>2. /\ request \in Request /\ request.method \in Methods /\ request.iteration \in Nat
      /\ ~request.finished /\ Complete = request.iteration /\ Complete' = request.iteration
      /\ width = request.size
  <2>1. request \in Request /\ request.method \in Methods /\ ~request.finished
    BY <1>1, MethodFacts DEF AllInv, FrameInv, MethodInv
  <2>2. width = request.size
    BY <1>1 DEF AllInv, IInv, SizeInv
  <2>3. QED
    BY <1>1, <2>1, <2>2 DEF Complete, Request
<1>3. MethodInv'
  BY <1>1, <1>2 DEF MethodInv, RayPasses, PhotonPasses, VertexPasses, Methods
<1>4. Pixels(width)' = Pixels(width) /\ \A p : PartsAdded(p) = {} /\ PartsAdded(p)' = {}
  <2>1. pc \notin {"ray", "light paths", "camera"} /\ pc' \notin {"ray", "light paths", "camera"}
    BY <1>1
  <2>2. QED
    BY <1>1, <2>1 DEF PartsAdded, Pixels, NumPixels
<1>5. CASE request.iteration = 0 /\ BuffersFit
  <2>1. output' = [p \in Pixels(width) |-> EmptyBag]
    BY <1>1, <1>5 DEF Cleared
  <2>2. \A p \in Pixels(width) : Holds(output'[p], request.sequence, request.method, 0, {})
    BY <2>1, HoldsNothing
  <2>3. DOMAIN output' = Pixels(width)
    BY <2>1
  <2>4. SumInv'
    BY <1>1, <1>2, <1>4, <1>5, <2>2, <2>3 DEF SumInv
  <2>5. QED
    BY <1>3, <2>4 DEF FrameInv
<1>6. CASE request.iteration = 0 /\ ~BuffersFit
  <2>1. pc' \notin Passes
    BY <1>1, <1>6 DEF Passes, RayPasses, PhotonPasses, VertexPasses
  <2>2. QED
    BY <1>2, <1>3, <1>6, <2>1, NothingBegun
<1>7. CASE request.iteration # 0
  <2>1. output' = output /\ (~halfway' => ~halfway)
    BY <1>1, <1>7 DEF Cleared
  <2>2. HasBegun /\ request.method # "none"
    <3>1. request.iteration > 0
      BY <1>2, <1>7
    <3>2. QED
      BY <1>2, <3>1 DEF HasBegun, Methods
  <2>3. DOMAIN output = Pixels(width)
    BY <2>2 DEF AllInv, FrameInv, SumInv
  <2>4. ASSUME ~halfway, NEW p \in Pixels(width)
        PROVE  Holds(output[p], request.sequence, request.method, request.iteration, {})
    BY <1>2, <1>4, <2>2, <2>4 DEF AllInv, FrameInv, SumInv
  <2>5. SumInv'
    BY <1>1, <1>2, <1>4, <2>1, <2>3, <2>4 DEF SumInv
  <2>6. QED
    BY <1>3, <2>5 DEF FrameInv
<1>8. QED
  BY <1>5, <1>6, <1>7

LEMMA ResizeSum ==
    ASSUME AllInv, Resize \/ ResizeFails
    PROVE  FrameInv'
<1>1. pc = "resize" /\ pc' \in {"idle", "clear"} /\ request' = request
  BY DEF Resize, ResizeFails
<1>2. width # request.size /\ request.method \in Methods /\ ~request.finished
  BY <1>1 DEF AllInv, FrameInv, MethodInv
<1>3. MethodInv'
  BY <1>1, <1>2 DEF MethodInv, RayPasses, PhotonPasses, VertexPasses
<1>4. Complete = 0
  <2>1. ~HasBegun
    BY <1>2 DEF AllInv, FrameInv, SumInv
  <2>2. Complete \in Nat /\ ~(Complete > 0)
    BY <2>1, MethodFacts DEF HasBegun
  <2>3. QED
    BY <2>2
<1>5. Complete' = 0 /\ pc' \notin Passes
  BY <1>1, <1>4 DEF Complete, Passes, RayPasses, PhotonPasses, VertexPasses
<1>6. QED
  BY <1>3, <1>5, NothingBegun

LEMMA FirstIterationSum ==
    ASSUME AllInv, FirstIteration
    PROVE  FrameInv'
<1>1. PICK m \in methods, s \in Sizes :
          /\ request' = [sequence |-> request.sequence + 1, iteration |-> 0, method |-> m,
                         size |-> s, finished |-> FALSE]
          /\ pc' = IF MustResize(s) THEN "resize" ELSE "clear"
  BY DEF FirstIteration
<1>2. m \in Methods /\ request \in Request
  BY MethodFacts DEF AllInv, IInv, TypeInv
<1>3. /\ request'.method = m /\ request'.size = s /\ ~request'.finished /\ request'.iteration = 0
      /\ pc' \in {"resize", "clear"} /\ pc' \notin Passes /\ (pc' = "resize" => width # s)
      /\ width' = width
  BY <1>1, <1>2 DEF FirstIteration, Request, MustResize, Passes, RayPasses, PhotonPasses,
                    VertexPasses, frameVars
<1>4. MethodInv'
  BY <1>2, <1>3 DEF MethodInv, RayPasses, PhotonPasses, VertexPasses
<1>5. Complete' = 0
  BY <1>3 DEF Complete
<1>6. QED
  BY <1>3, <1>4, <1>5, NothingBegun

LEMMA NextIterationSum ==
    ASSUME AllInv, NextIteration
    PROVE  FrameInv'
<1>1. /\ pc = "idle" /\ request.method # "none"
      /\ request' = [request EXCEPT !.iteration = IF request.finished THEN request.iteration + 1
                                                  ELSE request.iteration,
                                    !.finished = FALSE]
      /\ pc' = IF MustResize(request.size) THEN "resize" ELSE "clear"
      /\ UNCHANGED <<width, output, halfway>>
  BY DEF NextIteration, frameVars
<1>2. request \in Request /\ request.method \in Methods
  <2>1. request \in Request
    BY MethodFacts
  <2>2. QED
    BY <1>1, <2>1 DEF Request
<1>3. /\ request'.method = request.method /\ request'.size = request.size
      /\ request'.sequence = request.sequence /\ ~request'.finished
      /\ request'.iteration = Complete
  BY <1>1, <1>2 DEF Complete, Request
<1>4. /\ pc' \in {"resize", "clear"} /\ pc' \notin Passes /\ pc \notin Passes
      /\ (pc' = "resize" => width # request.size)
  BY <1>1 DEF MustResize, Passes, RayPasses, PhotonPasses, VertexPasses
<1>5. MethodInv'
  BY <1>1, <1>2, <1>3, <1>4 DEF MethodInv, RayPasses, PhotonPasses, VertexPasses
<1>6. Complete' = Complete
  BY <1>3 DEF Complete
<1>7. QED
  BY <1>1, <1>3, <1>4, <1>5, <1>6, HostGoesOn

\* After a change of the scene no method is rendered until the next sequence.
LEMMA SceneSum ==
    ASSUME AllInv, InitScene \/ InitSceneFails
    PROVE  FrameInv'
<1>1. /\ pc = "idle" /\ pc' = "idle" /\ width' = width
      /\ request' = [request EXCEPT !.method = "none", !.finished = FALSE]
      /\ DOMAIN output' = DOMAIN output
  BY DEF InitScene, InitSceneFails, MayInitScene, OldSums
<1>2. request \in Request /\ request.iteration \in Nat
  BY MethodFacts
<1>3. /\ request'.method = "none" /\ ~request'.finished /\ request'.size = request.size
      /\ request'.iteration = request.iteration
  BY <1>1, <1>2 DEF Request
<1>4. MethodInv'
  BY <1>1, <1>3 DEF MethodInv, RayPasses, PhotonPasses, VertexPasses
<1>5. HasBegun' => HasBegun
  <2>1. Complete' = request.iteration /\ pc' \notin Passes
    BY <1>1, <1>3 DEF Complete, Passes, RayPasses, PhotonPasses, VertexPasses
  <2>2. request.iteration > 0 => Complete > 0
    <3>1. Complete = request.iteration \/ Complete = request.iteration + 1
      BY DEF Complete
    <3>2. request.iteration > 0 => request.iteration + 1 > 0
      BY <1>2
    <3>3. QED
      BY <3>1, <3>2
  <2>3. QED
    BY <2>1, <2>2 DEF HasBegun
<1>6. Pixels(width)' = Pixels(width)
  BY <1>1 DEF Pixels, NumPixels
<1>7. SumInv'
  BY <1>1, <1>3, <1>5, <1>6 DEF AllInv, FrameInv, SumInv
<1>8. QED
  BY <1>4, <1>7 DEF FrameInv

\* A step that changes nothing of a frame
LEMMA FrameKept ==
    ASSUME AllInv, UNCHANGED <<request, pc, width, output, ray, light, halfway>>
    PROVE  FrameInv'
<1>1. MethodInv'
  BY DEF AllInv, FrameInv, MethodInv
<1>2. Complete' = Complete /\ HasBegun' = HasBegun /\ Pixels(width)' = Pixels(width)
      /\ \A p : PartsAdded(p)' = PartsAdded(p)
  BY DEF Complete, HasBegun, Pixels, NumPixels, PartsAdded
<1>3. SumInv'
  BY <1>2 DEF AllInv, FrameInv, SumInv
<1>4. QED
  BY <1>1, <1>3 DEF FrameInv

\* Initialisation is between calls.
LEMMA InitializeSum ==
    ASSUME AllInv, Initialize
    PROVE  FrameInv'
<1>1. UNCHANGED <<request, pc, width, output, ray, halfway>> /\ pc = "idle"
  BY DEF Initialize, AllInv, IInv, SizeInv
<1>2. MethodInv'
  BY <1>1 DEF AllInv, FrameInv, MethodInv
<1>3. Complete' = Complete /\ HasBegun' = HasBegun /\ Pixels(width)' = Pixels(width)
  BY <1>1 DEF Complete, HasBegun, Pixels, NumPixels
<1>4. \A p : PartsAdded(p)' = {} /\ PartsAdded(p) = {}
  BY <1>1 DEF PartsAdded
<1>5. SumInv'
  BY <1>1, <1>3, <1>4 DEF AllInv, FrameInv, SumInv
<1>6. QED
  BY <1>2, <1>5 DEF FrameInv

LEMMA InitFrameInv == Init => FrameInv
<1> SUFFICES ASSUME Init PROVE FrameInv
  OBVIOUS
<1>1. /\ request.method = "none" /\ ~request.finished /\ request.iteration = 0 /\ pc = "idle"
  BY DEF Init
<1>2. MethodInv
  BY <1>1 DEF MethodInv, RayPasses, PhotonPasses, VertexPasses
<1>3. ~HasBegun
  <2>1. Complete = 0
    BY <1>1 DEF Complete
  <2>2. QED
    BY <1>1, <2>1 DEF HasBegun, Passes, RayPasses, PhotonPasses, VertexPasses
<1>4. QED
  BY <1>2, <1>3 DEF FrameInv, SumInv

\* A pixel holds the complete iterations of its sequence, and parts of the next.
THEOREM FrameInvariance == Spec => []FrameInv
<1>1. AllInv /\ [Next]_vars => FrameInv'
  <2> SUFFICES ASSUME AllInv, [Next]_vars PROVE FrameInv'
    OBVIOUS
  <2>1. CASE Host
    <3>1. CASE Initialize
      BY <3>1, InitializeSum
    <3>2. QED
      BY <2>1, <3>1, SceneSum, FirstIterationSum, NextIterationSum, ResizeSum,
         ClearSum, ThrowsSum DEF Host
  <2>2. CASE Rays
    BY <2>2, RaysGoOn, EndOfRaySum DEF Rays
  <2>3. CASE PhotonMapping
    BY <2>3, PhotonPassGoesOn, OutputSum
  <2>4. CASE Connections
    BY <2>4, LightPassGoesOn, StoreSum, CameraSum DEF Connections
  <2>5. CASE UNCHANGED vars
    BY <2>5, FrameKept DEF vars, frameVars
  <2>6. QED
    BY <2>1, <2>2, <2>3, <2>4, <2>5 DEF Next
<1>2. AllInv <=> IInv /\ RayInv /\ VertexInv /\ FrameInv
  BY DEF AllInv
<1>3. QED
  BY <1>1, <1>2, InitFrameInv, Invariance, RayInvariance, VertexInvariance, PTL DEF Spec

\* A complete frame is the sum of the iterations since the restart, whatever has thrown
\* before it, but for a camera pass.
THEOREM FrameIsSumOfIterationsHolds == Spec => []FrameIsSumOfIterations
<1>1. IInv /\ FrameInv => FrameIsSumOfIterations
  <2> SUFFICES ASSUME IInv, FrameInv, request.finished, ~halfway, NEW p \in Pixels(width)
               PROVE  /\ \A token \in DOMAIN output[p] :
                            /\ output[p][token] = 1
                            /\ token.sequence = request.sequence
                            /\ token.iteration <= request.iteration
                      /\ \A i \in 0 .. request.iteration, part \in {<<"frame">>, <<"camera">>} :
                            (part = <<"frame">> /\ request.method = "photon mapping")
                                \/ (part = <<"camera">> /\ request.method = "VCM")
                            => TokenOf(request.sequence, i, part) \in DOMAIN output[p]
    BY DEF FrameIsSumOfIterations, TokenOf
  <2> DEFINE n == request.iteration
  <2>1. pc = "idle" /\ request.method # "none" /\ Complete = n + 1 /\ n \in Nat
    BY DEF FrameInv, MethodInv, Complete, IInv, TypeInv, Request
  <2> HIDE DEF n
  <2>2. HasBegun
    <3>1. n + 1 > 0
      BY <2>1
    <3>2. QED
      BY <2>1, <3>1 DEF HasBegun
  <2>3. PartsAdded(p) = {}
    BY <2>1, NothingAdded
  <2>4. Holds(output[p], request.sequence, request.method, n + 1, {})
    BY <2>1, <2>2, <2>3 DEF FrameInv, SumInv
  <2>5. ASSUME NEW token \in DOMAIN output[p]
        PROVE  /\ output[p][token] = 1 /\ token.sequence = request.sequence
               /\ token.iteration <= n
    <3>1. token.iteration \in Nat /\ token.iteration < n + 1
      BY <2>4 DEF Holds
    <3>2. token.iteration <= n
      BY <2>1, <3>1
    <3>3. QED
      BY <2>4, <3>2 DEF Holds
  <2>6. ASSUME NEW i \in 0 .. n, NEW part \in WholeParts(request.method)
        PROVE  TokenOf(request.sequence, i, part) \in DOMAIN output[p]
    <3>1. i \in 0 .. (n + 1) - 1
      BY <2>1
    <3>2. QED
      BY <2>4, <3>1 DEF Holds
  <2>7. QED
    BY <2>5, <2>6 DEF n, WholeParts
<1>2. QED
  BY <1>1, Invariance, FrameInvariance, PTL

\* No light is counted twice along a path.
THEOREM LightCountedOnceHolds == Spec => []LightCountedOnce
<1>1. RayInv => LightCountedOnce
  BY DEF RayInv
<1>2. QED
  BY <1>1, RayInvariance, PTL

-----------------------------------------------------------------------------
(***************************************************************************)
(* Cells along an axis                                                     *)
(***************************************************************************)

\* A quotient rounded down
LEMMA Quotient ==
    ASSUME NEW a \in Int, NEW d \in Nat \ {0}
    PROVE  a \div d \in Int /\ (a \div d) * d <= a /\ a < (a \div d + 1) * d
OBVIOUS

\* It is the only number between which and the next the dividend lies.
LEMMA QuotientOrder ==
    ASSUME NEW p \in Int, NEW q \in Int, NEW d \in Nat \ {0}, p * d < (q + 1) * d
    PROVE  p <= q
<1> SUFFICES ASSUME p >= q + 1 PROVE FALSE
  OBVIOUS
<1>1. p * d >= (q + 1) * d
  OBVIOUS
<1>2. QED
  BY <1>1

\* What cells are measured in: no cell is empty, but one may be without an end.
CellOK(cell) == cell[1] \in Nat \ {0} /\ cell[2] \in Nat

LEMMA FloorIsMonotone ==
    ASSUME NEW cell, CellOK(cell), NEW a \in Int, NEW b \in Int, a <= b
    PROVE  Floor(a, cell) \in Int /\ Floor(b, cell) \in Int /\ Floor(a, cell) <= Floor(b, cell)
<1> DEFINE d == cell[1]
           x == a * cell[2]
           y == b * cell[2]
<1>1. d \in Nat \ {0} /\ x \in Int /\ y \in Int /\ x <= y
  BY DEF CellOK
<1> HIDE DEF d, x, y
<1> DEFINE p == x \div d
           q == y \div d
<1>2. p \in Int /\ p * d <= x
  BY <1>1, Quotient
<1>3. q \in Int /\ y < (q + 1) * d
  BY <1>1, Quotient
<1> HIDE DEF p, q
<1>4. p * d < (q + 1) * d
  <2>1. p * d \in Int /\ (q + 1) * d \in Int
    BY <1>1, <1>2, <1>3
  <2>2. QED
    BY <1>1, <1>2, <1>3, <2>1
<1>5. p <= q
  BY <1>1, <1>2, <1>3, <1>4, QuotientOrder
<1>6. QED
  BY <1>2, <1>3, <1>5 DEF p, q, x, y, d, Floor

LEMMA FloorIsNatural ==
    ASSUME NEW cell, CellOK(cell), NEW a \in Nat
    PROVE  Floor(a, cell) \in Nat
<1>1. Floor(0, cell) = 0
  <2>1. cell[1] \in Nat \ {0} /\ 0 * cell[2] = 0
    BY DEF CellOK
  <2>2. 0 \div cell[1] = 0
    BY <2>1
  <2>3. QED
    BY <2>1, <2>2 DEF Floor
<1>2. Floor(0, cell) <= Floor(a, cell) /\ Floor(a, cell) \in Int
  BY FloorIsMonotone
<1>3. QED
  BY <1>1, <1>2

\* What lies before the end of a length lies in a cell before its end.
LEMMA FloorBelowCeiling ==
    ASSUME NEW cell, CellOK(cell), NEW a \in Nat, NEW b \in Nat, a < b
    PROVE  /\ Ceiling(b, cell) \in Nat
           /\ Floor(a, cell) = 0 \/ Floor(a, cell) < Ceiling(b, cell)
<1> DEFINE d == cell[1]
           x == a * cell[2]
           y == b * cell[2]
<1>1. d \in Nat \ {0} /\ x \in Nat /\ y \in Nat
  BY DEF CellOK
<1>2. cell[2] = 0 => x = 0
  BY DEF CellOK
<1>3. cell[2] # 0 => x < y
  BY DEF CellOK
<1>4. cell[2] \in Nat
  BY DEF CellOK
<1> HIDE DEF d, x, y
<1> DEFINE p == x \div d
           q == (y + d - 1) \div d
<1>5. p \in Int /\ p * d <= x
  BY <1>1, Quotient
<1>6. q \in Int /\ y + d - 1 < (q + 1) * d
  <2>1. y + d - 1 \in Int
    BY <1>1
  <2>2. QED
    BY <1>1, <2>1, Quotient
<1>7. x = 0 => p = 0
  BY <1>1
<1>8. q \in Nat
  <2>1. 0 * d < (q + 1) * d
    <3>1. 0 * d = 0 /\ y + d - 1 >= 0 /\ (q + 1) * d \in Int /\ y + d - 1 \in Int
      BY <1>1, <1>6
    <3>2. QED
      BY <1>6, <3>1
  <2>2. 0 <= q
    BY <1>1, <1>6, <2>1, QuotientOrder
  <2>3. QED
    BY <1>6, <2>2
<1>9. x < y => p < q
  <2> SUFFICES ASSUME x < y PROVE p < q
    OBVIOUS
  <2>1. (p + 1) * d = p * d + d /\ p * d \in Int /\ (q + 1) * d \in Int
    BY <1>1, <1>5, <1>6
  <2>2. (p + 1) * d < (q + 1) * d
    BY <1>1, <1>5, <1>6, <2>1
  <2>3. p + 1 <= q
    BY <1>1, <1>5, <1>6, <2>2, QuotientOrder
  <2>4. QED
    BY <1>5, <1>6, <2>3
<1>10. p = 0 \/ p < q
  BY <1>2, <1>3, <1>4, <1>7, <1>9
<1>11. QED
  BY <1>8, <1>10 DEF p, q, x, y, d, Floor, Ceiling

-----------------------------------------------------------------------------
(***************************************************************************)
(* The grid                                                                *)
(***************************************************************************)

\* Every photon, stored or not, is somewhere.
Located(slots) ==
    /\ IsFiniteSet(DOMAIN slots)
    /\ \A s \in DOMAIN slots, i \in Axes : slots[s].at[i] \in Int

LEMMA CoordinatesAreFinite ==
    ASSUME NEW slots, Located(slots), NEW i \in Axes
    PROVE  /\ Coordinates(slots, i) \in SUBSET Int
           /\ IsFiniteSet(Coordinates(slots, i))
           /\ Coordinates(slots, i) # {}
<1> DEFINE T == {t \in DOMAIN slots : IsValid(slots[t])}
           C == {photon.at[i] : photon \in Valid(slots)}
           f == [t \in T |-> slots[t].at[i]]
<1>1. IsFiniteSet(T)
  <2>1. T \in SUBSET DOMAIN slots
    OBVIOUS
  <2>2. QED
    BY <2>1, FS_Subset DEF Located
<1>2. C \in SUBSET Int
  BY DEF Valid, Located
<1>3. f \in Surjection(T, C)
  BY DEF Valid, Surjection
<1>4. IsFiniteSet(C)
  <2> HIDE DEF T, C, f
  <2>1. QED
    BY <1>1, <1>3, FS_Surjection
<1>5. CASE Valid(slots) = {}
  <2>1. Coordinates(slots, i) = {0}
    BY <1>5 DEF Coordinates
  <2>2. IsFiniteSet({0}) /\ {0} # {} /\ {0} \in SUBSET Int
    BY FS_Singleton
  <2>3. QED
    BY <2>1, <2>2
<1>6. CASE Valid(slots) # {}
  BY <1>2, <1>4, <1>6 DEF Coordinates
<1>7. QED
  BY <1>5, <1>6

\* The padding, and the number of cells there is room for
LEMMA MapConstants ==
    /\ PHOTON_GRID_MAX_SIZE \in Nat \ {0}
    /\ CellSizeMargin[1] \in Nat /\ CellSizeMargin[2] \in Nat \ {0}
    /\ Padding \in Nat \ {0}
BY PhotonMapAssumption

\* The padded box has an extent along every axis, and every photon lies inside of it.
LEMMA BoxHoldsPhotons ==
    ASSUME NEW slots, Located(slots), NEW i \in Axes
    PROVE  LET box == BoundingBox(slots)
           IN /\ box.first[i] \in Int /\ Extent(box)[i] \in Nat \ {0}
              /\ \A s \in DOMAIN slots : IsValid(slots[s]) =>
                     /\ slots[s].at[i] - box.first[i] \in Nat
                     /\ slots[s].at[i] - box.first[i] < Extent(box)[i]
<1> DEFINE C == Coordinates(slots, i)
           low == Min(C)
           high == Max(C)
           box == BoundingBox(slots)
<1>1. /\ C \in SUBSET Int /\ low \in C /\ high \in C
      /\ \A x \in C : low <= x /\ high >= x
  BY CoordinatesAreFinite, MaxMin
<1>2. \A s \in DOMAIN slots : IsValid(slots[s]) => slots[s].at[i] \in C
  BY DEF Coordinates, Valid
<1>3. box.first[i] = low - Padding /\ box.second[i] = high + Padding
  BY DEF BoundingBox
<1>4. Extent(box)[i] = (high + Padding) - (low - Padding)
  BY <1>3 DEF Extent
<1> HIDE DEF C, low, high, box
<1>5. low \in Int /\ high \in Int /\ low <= high
  BY <1>1
<1>6. box.first[i] \in Int /\ Extent(box)[i] \in Nat \ {0}
  BY <1>3, <1>4, <1>5, MapConstants
<1>7. ASSUME NEW s \in DOMAIN slots, IsValid(slots[s])
      PROVE  /\ slots[s].at[i] - box.first[i] \in Nat
             /\ slots[s].at[i] - box.first[i] < Extent(box)[i]
  <2> DEFINE x == slots[s].at[i]
  <2>1. x \in Int /\ low <= x /\ high >= x
    BY <1>1, <1>2, <1>7
  <2> HIDE DEF x
  <2>2. x - box.first[i] \in Nat /\ x - box.first[i] < Extent(box)[i]
    BY <1>3, <1>4, <1>5, <2>1, MapConstants
  <2>3. QED
    BY <2>2 DEF x
<1>8. QED
  BY <1>6, <1>7 DEF box

\* Products of natural numbers
LEMMA Products ==
    ASSUME NEW a \in Nat, NEW b \in Nat
    PROVE  a * b \in Nat /\ (a # 0 /\ b # 0 => a * b # 0)
OBVIOUS

\* As many cells as fit along an axis; their cubes do not exceed what there is room for.
LEMMA CellsFitAlong ==
    ASSUME NEW extent, \A i \in Axes : extent[i] \in Nat \ {0}, NEW i \in Axes
    PROVE  LET n == CellsAlong(extent, i)
               volume == extent[1] * extent[2] * extent[3]
           IN /\ n \in 0 .. PHOTON_GRID_MAX_SIZE
              /\ n * n * n * volume <= extent[i] * extent[i] * extent[i] * PHOTON_GRID_MAX_SIZE
<1> DEFINE volume == extent[1] * extent[2] * extent[3]
           room == extent[i] * extent[i] * extent[i] * PHOTON_GRID_MAX_SIZE
           S == {n \in 0 .. PHOTON_GRID_MAX_SIZE : n * n * n * volume <= room}
<1>1. room \in Nat
  <2>1. extent[i] \in Nat /\ PHOTON_GRID_MAX_SIZE \in Nat
    BY MapConstants
  <2>2. extent[i] * extent[i] \in Nat
    BY <2>1, Products
  <2>3. extent[i] * extent[i] * extent[i] \in Nat
    BY <2>1, <2>2, Products
  <2>4. QED
    BY <2>1, <2>3, Products
<1>2. volume \in Nat
  <2>1. extent[1] \in Nat /\ extent[2] \in Nat /\ extent[3] \in Nat
    BY DEF Axes
  <2>2. extent[1] * extent[2] \in Nat
    BY <2>1, Products
  <2>3. QED
    BY <2>1, <2>2, Products
<1>3. 0 \in S
  <2> HIDE DEF volume, room
  <2>1. 0 * 0 * 0 * volume = 0
    BY <1>2
  <2>2. QED
    BY <1>1, <2>1, MapConstants
<1>4. S \in SUBSET Int /\ IsFiniteSet(S) /\ S # {}
  <2>1. S \in SUBSET (0 .. PHOTON_GRID_MAX_SIZE)
    OBVIOUS
  <2>2. IsFiniteSet(0 .. PHOTON_GRID_MAX_SIZE)
    BY FS_Interval, MapConstants
  <2>3. 0 .. PHOTON_GRID_MAX_SIZE \subseteq Int
    OBVIOUS
  <2> HIDE DEF S
  <2>4. IsFiniteSet(S)
    BY <2>1, <2>2, FS_Subset
  <2>5. QED
    BY <1>3, <2>1, <2>3, <2>4
<1>5. Max(S) \in S
  <2> HIDE DEF S
  <2>1. QED
    BY <1>4, MaxMin
<1>6. CellsAlong(extent, i) = Max(S)
  BY DEF CellsAlong
<1>7. QED
  BY <1>5, <1>6

\* The size of a cell is positive or without an end.
LEMMA CellSizeOK ==
    ASSUME NEW extent, \A i \in Axes : extent[i] \in Nat \ {0}
    PROVE  CellOK(CellSize(extent))
<1> DEFINE edge == [i \in Axes |-> LET n == CellsAlong(extent, i)
                                   IN IF n = 0 THEN <<1, 0>> ELSE <<extent[i], n>>]
<1>1. ASSUME NEW i \in Axes PROVE CellOK(edge[i])
  <2>1. CellsAlong(extent, i) \in Nat
    BY CellsFitAlong, MapConstants
  <2>2. QED
    BY <2>1 DEF CellOK
<1>2. ASSUME NEW p, NEW q, CellOK(p), CellOK(q) PROVE CellOK(Larger(p, q))
  BY <1>2 DEF Larger
<1> HIDE DEF edge
<1> DEFINE q == Larger(edge[1], Larger(edge[2], edge[3]))
<1>3. CellOK(q)
  BY <1>1, <1>2 DEF Axes
<1>4. SmallestPossibleCellSize(extent) = q
  BY DEF SmallestPossibleCellSize, edge
<1> HIDE DEF q
<1> DEFINE m == CellSizeMargin
           a == q[1] * m[2]
           b == m[1] * q[2]
           c == q[2] * m[2]
<1>5. q[1] \in Nat \ {0} /\ q[2] \in Nat /\ m[1] \in Nat /\ m[2] \in Nat \ {0}
  BY <1>3, MapConstants DEF CellOK
<1>6. a \in Nat \ {0} /\ b \in Nat /\ c \in Nat
  BY <1>5, Products
<1>7. CellSize(extent) = <<a + b, c>>
  BY <1>4 DEF CellSize
<1> HIDE DEF a, b, c
<1>8. QED
  BY <1>6, <1>7 DEF CellOK

\* A grid whose cells cover all photons.
Covers(grid, slots) ==
    /\ CellOK(grid.cell)
    /\ \A i \in Axes : grid.origin[i] \in Int /\ grid.size[i] \in Nat \ {0}
    /\ \A s \in DOMAIN slots, i \in Axes : IsValid(slots[s]) =>
           /\ slots[s].at[i] - grid.origin[i] \in Nat
           /\ Floor(slots[s].at[i] - grid.origin[i], grid.cell) \in 0 .. grid.size[i] - 1

LEMMA GridCovers ==
    ASSUME NEW slots, Located(slots)
    PROVE  Covers(Grid(slots), slots)
<1> DEFINE box == BoundingBox(slots)
           extent == Extent(box)
           cell == CellSize(extent)
           grid == Grid(slots)
<1>1. \A i \in Axes :
          /\ box.first[i] \in Int /\ extent[i] \in Nat \ {0}
          /\ \A s \in DOMAIN slots : IsValid(slots[s]) =>
                 /\ slots[s].at[i] - box.first[i] \in Nat
                 /\ slots[s].at[i] - box.first[i] < extent[i]
  BY BoxHoldsPhotons
<1>2. grid.origin = box.first /\ grid.cell = cell /\ grid.size = GridSize(extent, cell)
  BY DEF Grid
<1> HIDE DEF box, extent, grid, cell
<1>3. CellOK(cell)
  BY <1>1, CellSizeOK DEF cell
<1>4. ASSUME NEW i \in Axes
      PROVE  /\ grid.size[i] \in Nat \ {0}
             /\ \A x \in Nat : x < extent[i] => Floor(x, cell) \in 0 .. grid.size[i] - 1
  <2> DEFINE n == Ceiling(extent[i], cell)
  <2>1. n \in Nat
    <3>1. extent[i] \in Nat /\ 0 \in Nat /\ 0 < extent[i]
      BY <1>1
    <3>2. QED
      BY <1>3, <3>1, FloorBelowCeiling
  <2>2. grid.size[i] = Max({1, n})
    BY <1>2 DEF GridSize
  <2> HIDE DEF n
  <2>3. {1, n} \in SUBSET Int /\ IsFiniteSet({1, n}) /\ {1, n} # {}
    <3>1. IsFiniteSet({1} \cup {n})
      BY FS_Singleton, FS_AddElement
    <3>2. {1} \cup {n} = {1, n}
      OBVIOUS
    <3>3. QED
      BY <2>1, <3>1, <3>2
  <2>4. Max({1, n}) \in {1, n} /\ Max({1, n}) >= 1 /\ Max({1, n}) >= n
    <3>1. 1 \in {1, n} /\ n \in {1, n}
      OBVIOUS
    <3>2. QED
      BY <2>3, <3>1, MaxMin
  <2>5. ASSUME NEW x \in Nat, x < extent[i]
        PROVE  Floor(x, cell) \in 0 .. grid.size[i] - 1
    <3>1. extent[i] \in Nat
      BY <1>1
    <3>2. Floor(x, cell) = 0 \/ Floor(x, cell) < n
      BY <1>3, <2>5, <3>1, FloorBelowCeiling DEF n
    <3>3. Floor(x, cell) \in Nat
      BY <1>3, FloorIsNatural
    <3>4. QED
      BY <2>1, <2>2, <2>4, <3>2, <3>3
  <2>6. grid.size[i] \in Nat \ {0}
    BY <2>1, <2>2, <2>4
  <2>7. QED
    BY <2>5, <2>6
<1>5. QED
  BY <1>1, <1>2, <1>3, <1>4 DEF Covers, grid

-----------------------------------------------------------------------------
(***************************************************************************)
(* The sorted slots                                                        *)
(***************************************************************************)

\* A set of slots that holds all slots before each of its own is as large as its end.
LEMMA PrefixOfSlots ==
    ASSUME NEW n \in Nat, NEW A \in SUBSET (0 .. n - 1),
           \A s \in A : \A t \in 0 .. s : t \in A
    PROVE  /\ IsFiniteSet(A) /\ Cardinality(A) \in Nat
           /\ \A s \in 0 .. n - 1 : s < Cardinality(A) <=> s \in A
<1> DEFINE T == (0 .. n) \ A
           m == Min(T)
<1>1. T \in SUBSET Int /\ T # {} /\ IsFiniteSet(T)
  <2>1. n \in T
    OBVIOUS
  <2>2. IsFiniteSet(0 .. n)
    BY FS_Interval
  <2>3. T \in SUBSET (0 .. n)
    OBVIOUS
  <2> HIDE DEF T
  <2>4. IsFiniteSet(T)
    BY <2>2, <2>3, FS_Subset
  <2>5. QED
    BY <2>1, <2>3, <2>4
<1>2. m \in T /\ \A x \in T : m <= x
  <2> HIDE DEF T
  <2>1. QED
    BY <1>1, MaxMin
<1> HIDE DEF m
<1>3. m \in 0 .. n /\ m \notin A
  BY <1>2
<1>4. A = 0 .. m - 1
  <2>1. ASSUME NEW s \in A PROVE s \in 0 .. m - 1
    <3>1. m \notin 0 .. s
      BY <1>3
    <3>2. QED
      BY <1>3, <3>1
  <2>2. ASSUME NEW s \in 0 .. m - 1 PROVE s \in A
    <3>1. s \in 0 .. n /\ ~(m <= s)
      BY <1>3
    <3>2. QED
      BY <1>2, <3>1
  <2>3. QED
    BY <2>1, <2>2
<1>5. Cardinality(A) = m /\ IsFiniteSet(A)
  <2>1. IsFiniteSet(0 .. m - 1)
        /\ Cardinality(0 .. m - 1) = IF 0 > m - 1 THEN 0 ELSE m - 1 - 0 + 1
    BY <1>3, FS_Interval
  <2>2. QED
    BY <1>3, <1>4, <2>1
<1>6. QED
  BY <1>3, <1>4, <1>5

\* The order that the slots are sorted in
LEMMA SortedOrder ==
    ASSUME NEW slots, NEW grid, NEW sorted \in SortedByCell(slots, grid)
    PROVE  \E order \in Bijection(DOMAIN slots, DOMAIN slots) :
               /\ sorted = [s \in DOMAIN slots |-> slots[order[s]]]
               /\ \A s, t \in DOMAIN slots : s < t =>
                      HashCell(slots[order[s]], grid) <= HashCell(slots[order[t]], grid)
<1> DEFINE cells == [s \in DOMAIN slots |-> HashCell(slots[s], grid)]
<1>1. PICK order \in Bijection(DOMAIN slots, DOMAIN slots) :
          /\ sorted = [s \in DOMAIN slots |-> slots[order[s]]]
          /\ \A s, t \in DOMAIN slots : s < t => cells[order[s]] <= cells[order[t]]
  BY DEF SortedByCell
<1>2. \A s \in DOMAIN slots : order[s] \in DOMAIN slots
  BY DEF Bijection, Surjection
<1>3. QED
  BY <1>1, <1>2

\* Sorting keeps every photon somewhere inside of the grid.
LEMMA SortedIsCovered ==
    ASSUME NEW slots, Located(slots), NEW grid, Covers(grid, slots),
           NEW sorted \in SortedByCell(slots, grid)
    PROVE  DOMAIN sorted = DOMAIN slots /\ Located(sorted) /\ Covers(grid, sorted)
<1>1. PICK order \in Bijection(DOMAIN slots, DOMAIN slots) :
          sorted = [s \in DOMAIN slots |-> slots[order[s]]]
  BY SortedOrder
<1>2. \A s \in DOMAIN slots : order[s] \in DOMAIN slots
  BY DEF Bijection, Surjection
<1>3. DOMAIN sorted = DOMAIN slots /\ \A s \in DOMAIN slots : sorted[s] = slots[order[s]]
  BY <1>1
<1>4. Located(sorted)
  BY <1>2, <1>3 DEF Located
<1>5. Covers(grid, sorted)
  BY <1>2, <1>3 DEF Covers
<1>6. QED
  BY <1>3, <1>4, <1>5

\* The offset of a cell is the first slot that is not of a cell before it.
LEMMA OffsetsSplitSlots ==
    ASSUME NEW n \in Nat, NEW slots, DOMAIN slots = 0 .. n - 1, NEW grid,
           \A s \in DOMAIN slots : HashCell(slots[s], grid) \in Int,
           NEW sorted \in SortedByCell(slots, grid), NEW c \in 0 .. NumCells(grid.size)
    PROVE  /\ OffsetTable(slots, grid)[c] \in Nat
           /\ \A s \in 0 .. n - 1 :
                  s < OffsetTable(slots, grid)[c] <=> HashCell(sorted[s], grid) < c
<1>1. PICK order \in Bijection(DOMAIN slots, DOMAIN slots) :
          /\ sorted = [s \in DOMAIN slots |-> slots[order[s]]]
          /\ \A s, t \in DOMAIN slots : s < t =>
                 HashCell(slots[order[s]], grid) <= HashCell(slots[order[t]], grid)
  BY SortedOrder
<1> DEFINE A == {s \in DOMAIN slots : HashCell(sorted[s], grid) < c}
           B == {s \in DOMAIN slots : HashCell(slots[s], grid) < c}
           f == [s \in A |-> order[s]]
<1>2. /\ order \in [DOMAIN slots -> DOMAIN slots]
      /\ \A s, t \in DOMAIN slots : order[s] = order[t] => s = t
      /\ \A t \in DOMAIN slots : \E s \in DOMAIN slots : order[s] = t
  BY DEF Bijection, Injection, IsInjective, Surjection
<1>3. \A s \in DOMAIN slots : sorted[s] = slots[order[s]] /\ HashCell(sorted[s], grid) \in Int
  BY <1>1, <1>2
<1>4. f \in Bijection(A, B)
  <2>1. f \in [A -> B]
    BY <1>2, <1>3
  <2>2. \A s, t \in A : f[s] = f[t] => s = t
    BY <1>2
  <2>3. \A t \in B : \E s \in A : f[s] = t
    BY <1>2, <1>3
  <2> HIDE DEF A, B, f
  <2>4. QED
    BY <2>1, <2>2, <2>3 DEF Bijection, Injection, IsInjective, Surjection
<1>5. A \in SUBSET (0 .. n - 1) /\ \A s \in A : \A t \in 0 .. s : t \in A
  <2>1. ASSUME NEW s \in A, NEW t \in 0 .. s PROVE t \in A
    <3>1. s \in 0 .. n - 1 /\ t \in 0 .. n - 1 /\ (t < s \/ t = s)
      OBVIOUS
    <3>2. t < s => HashCell(sorted[t], grid) <= HashCell(sorted[s], grid)
      BY <1>1, <1>3, <3>1
    <3>3. HashCell(sorted[t], grid) \in Int /\ HashCell(sorted[s], grid) \in Int
          /\ HashCell(sorted[s], grid) < c /\ c \in Int
      BY <1>3, <3>1
    <3>4. t # s => HashCell(sorted[t], grid) < c
      BY <3>1, <3>2, <3>3
    <3>5. QED
      BY <3>1, <3>3, <3>4
  <2>2. QED
    BY <2>1
<1>6. /\ IsFiniteSet(A) /\ Cardinality(A) \in Nat
      /\ \A s \in 0 .. n - 1 : s < Cardinality(A) <=> s \in A
  <2> HIDE DEF A
  <2>1. QED
    BY <1>5, PrefixOfSlots
<1>7. Cardinality(B) = Cardinality(A)
  <2> HIDE DEF A, B, f
  <2>1. ExistsBijection(A, B)
    BY <1>4 DEF ExistsBijection
  <2>2. QED
    BY <1>6, <2>1, FS_Bijection
<1>8. OffsetTable(slots, grid)[c] = Cardinality(B)
  <2> DEFINE cells == [s \in DOMAIN slots |-> HashCell(slots[s], grid)]
  <2>1. {s \in DOMAIN slots : cells[s] < c} = B
    OBVIOUS
  <2>2. OffsetTable(slots, grid)[c] = Cardinality({s \in DOMAIN slots : cells[s] < c})
    BY DEF OffsetTable
  <2>3. QED
    BY <2>1, <2>2
<1>9. QED
  BY <1>6, <1>7, <1>8

-----------------------------------------------------------------------------
(***************************************************************************)
(* Rows of cells                                                           *)
(***************************************************************************)

\* The number of a cell that is x along its row
RowNumber(size, y, z) == z * size[2] + y

Positive(size) == \A i \in Axes : size[i] \in Nat \ {0}

LEMMA CellsOfRow ==
    ASSUME NEW size, Positive(size),
           NEW x \in 0 .. size[1] - 1, NEW y \in 0 .. size[2] - 1, NEW z \in 0 .. size[3] - 1
    PROVE  /\ RowNumber(size, y, z) \in Nat
           /\ GridIndex1D(<<x, y, z>>, size) = RowNumber(size, y, z) * size[1] + x
           /\ GridIndex1D(<<x, y, z>>, size) \in 0 .. NumCells(size) - 1
           /\ NumCells(size) \in Nat
<1> DEFINE a == size[1]
           b == size[2]
           c == size[3]
<1>1. a \in Nat \ {0} /\ b \in Nat \ {0} /\ c \in Nat \ {0}
  BY DEF Positive, Axes
<1>2. x \in 0 .. a - 1 /\ y \in 0 .. b - 1 /\ z \in 0 .. c - 1
  OBVIOUS
<1>3. /\ RowNumber(size, y, z) = z * b + y
      /\ GridIndex1D(<<x, y, z>>, size) = x + y * a + z * a * b
      /\ NumCells(size) = a * b * c
  BY DEF RowNumber, GridIndex1D, NumCells
<1> HIDE DEF a, b, c
<1>4. z * b \in Nat /\ z * b <= (c - 1) * b /\ (c - 1) * b = c * b - b /\ c * b \in Nat
  BY <1>1, <1>2
<1> DEFINE w == z * b + y
           v == c * b
<1>5. w \in Nat /\ w <= v - 1 /\ v \in Nat
  BY <1>1, <1>2, <1>4
<1>6. x + y * a + z * a * b = w * a + x
  BY <1>1, <1>2
<1>7. a * b * c = v * a
  BY <1>1
<1> HIDE DEF w, v
<1>8. w * a \in Nat /\ w * a <= (v - 1) * a /\ (v - 1) * a = v * a - a /\ v * a \in Nat
  BY <1>1, <1>5
<1>9. w * a + x \in 0 .. v * a - 1
  BY <1>1, <1>2, <1>8
<1>10. QED
  BY <1>3, <1>5, <1>6, <1>7, <1>8, <1>9 DEF w, a

\* Two cells of the same number are one.
LEMMA CellIsUnique ==
    ASSUME NEW size, Positive(size),
           NEW x \in 0 .. size[1] - 1, NEW y \in 0 .. size[2] - 1, NEW z \in 0 .. size[3] - 1,
           NEW u \in 0 .. size[1] - 1, NEW v \in 0 .. size[2] - 1, NEW w \in 0 .. size[3] - 1,
           RowNumber(size, y, z) * size[1] + x = RowNumber(size, v, w) * size[1] + u
    PROVE  x = u /\ y = v /\ z = w
<1>1. RowNumber(size, y, z) \in Int /\ RowNumber(size, v, w) \in Int
  <2>1. RowNumber(size, y, z) \in Nat
    BY CellsOfRow
  <2>2. RowNumber(size, v, w) \in Nat
    BY CellsOfRow
  <2>3. QED
    BY <2>1, <2>2
<1>2. size[1] \in Nat \ {0} /\ size[2] \in Nat \ {0}
  BY DEF Positive, Axes
<1>3. RowNumber(size, y, z) = RowNumber(size, v, w) /\ x = u
  BY <1>1, <1>2, QuotientIsUnique
<1>4. z * size[2] + y = w * size[2] + v
  BY <1>3 DEF RowNumber
<1>5. z \in Int /\ w \in Int
  OBVIOUS
<1> DEFINE b == size[2]
<1>6. b \in Nat \ {0} /\ y \in 0 .. b - 1 /\ v \in 0 .. b - 1 /\ z * b + y = w * b + v
  BY <1>2, <1>4
<1> HIDE DEF b
<1>7. z = w /\ y = v
  BY <1>5, <1>6, QuotientIsUnique
<1>8. QED
  BY <1>3, <1>7

-----------------------------------------------------------------------------
(***************************************************************************)
(* The search                                                              *)
(***************************************************************************)

\* A map fits its slots: its cells cover the photons, and the offset of a cell parts
\* the slots of cells before it from the others.
MapFits(m, slots) ==
    /\ Located(slots)
    /\ DOMAIN slots \subseteq Nat
    /\ Covers(m.grid, slots)
    /\ \A c \in 0 .. NumCells(m.grid.size) :
           /\ m.table[c] \in Nat
           /\ \A s \in DOMAIN slots :
                  s < m.table[c] <=> HashCell(slots[s], m.grid) < c

\* The cell of a photon along an axis
Along(grid, photon, i) == Floor(photon.at[i] - grid.origin[i], grid.cell)

\* A grid that covers its photons has a number of cells.
LEMMA CoveredNumCells ==
    ASSUME NEW grid, NEW slots, Covers(grid, slots)
    PROVE  Positive(grid.size) /\ NumCells(grid.size) \in Nat
<1> DEFINE size == grid.size
<1>1. Positive(size)
  BY DEF Covers, Positive
<1>2. 0 \in 0 .. size[1] - 1 /\ 0 \in 0 .. size[2] - 1 /\ 0 \in 0 .. size[3] - 1
  BY <1>1 DEF Positive, Axes
<1> HIDE DEF size
<1>3. NumCells(size) \in Nat
  BY <1>1, <1>2, CellsOfRow
<1>4. QED
  BY <1>1, <1>3 DEF size

\* A photon is in the cell of its three numbers, a slot without one behind all cells.
LEMMA HashOfPhoton ==
    ASSUME NEW grid, NEW slots, Covers(grid, slots), NEW s \in DOMAIN slots
    PROVE  LET size == grid.size
               photon == slots[s]
           IN /\ IsValid(photon) =>
                     /\ \A i \in Axes : Along(grid, photon, i) \in 0 .. size[i] - 1
                     /\ HashCell(photon, grid)
                        = RowNumber(size, Along(grid, photon, 2), Along(grid, photon, 3)) * size[1]
                          + Along(grid, photon, 1)
              /\ ~IsValid(photon) => HashCell(photon, grid) = NumCells(size) + 1
              /\ HashCell(photon, grid) \in Nat
<1> DEFINE size == grid.size
           photon == slots[s]
           x == Along(grid, photon, 1)
           y == Along(grid, photon, 2)
           z == Along(grid, photon, 3)
           index == GridIndex(photon.at, grid.origin, grid.cell)
<1>1. Positive(size) /\ NumCells(size) \in Nat
  BY CoveredNumCells
<1>2. ASSUME IsValid(photon)
      PROVE  /\ \A i \in Axes : Along(grid, photon, i) \in 0 .. size[i] - 1
             /\ HashCell(photon, grid) = RowNumber(size, y, z) * size[1] + x
             /\ HashCell(photon, grid) \in Nat
  <2>1. \A i \in Axes : Along(grid, photon, i) \in 0 .. size[i] - 1
    BY <1>2 DEF Covers, Along
  <2>2. x \in 0 .. size[1] - 1 /\ y \in 0 .. size[2] - 1 /\ z \in 0 .. size[3] - 1
    BY <2>1 DEF Axes
  <2>3. HashCell(photon, grid) = GridIndex1D(index, size)
    BY <1>2 DEF HashCell
  <2>4. index[1] = x /\ index[2] = y /\ index[3] = z
    BY DEF GridIndex, Along, Axes
  <2>5. GridIndex1D(index, size) = GridIndex1D(<<x, y, z>>, size)
    BY <2>4 DEF GridIndex1D
  <2> HIDE DEF x, y, z, index, size
  <2>6. /\ GridIndex1D(<<x, y, z>>, size) = RowNumber(size, y, z) * size[1] + x
        /\ GridIndex1D(<<x, y, z>>, size) \in 0 .. NumCells(size) - 1
    BY <1>1, <2>2, CellsOfRow
  <2>7. QED
    BY <2>1, <2>3, <2>5, <2>6
<1>3. ~IsValid(photon) => HashCell(photon, grid) = NumCells(size) + 1
  BY DEF HashCell
<1>4. QED
  BY <1>1, <1>2, <1>3

\* The cube around a point stays inside of the grid, and along every axis it holds the
\* cells of all photons within the radius.
LEMMA CubeHoldsPhotons ==
    ASSUME NEW m, NEW slots, MapFits(m, slots), NEW i \in Axes,
           NEW point, point[i] \in Int, NEW radius \in Nat
    PROVE  /\ Lowest(point, radius, m, i) \in Nat
           /\ Highest(point, radius, m, i) \in 0 .. m.grid.size[i] - 1
           /\ \A s \in DOMAIN slots :
                  /\ IsValid(slots[s])
                  /\ slots[s].at[i] \in point[i] - radius .. point[i] + radius
                  => Along(m.grid, slots[s], i)
                        \in Lowest(point, radius, m, i) .. Highest(point, radius, m, i)
<1> DEFINE o == m.grid.origin[i]
           n == m.grid.size[i]
           cell == m.grid.cell
           p == point[i]
           a == p - o - radius
           b == p - o + radius
           h == IF b < 0 THEN 0 ELSE Floor(b, cell)
<1>1. CellOK(cell) /\ o \in Int /\ n \in Nat \ {0}
  BY DEF MapFits, Covers
<1>2. Lowest(point, radius, m, i) = IF a < 0 THEN 0 ELSE Floor(a, cell)
  BY DEF Lowest
<1>3. Highest(point, radius, m, i) = Min({n - 1, h})
  BY DEF Highest
<1>4. p \in Int
  OBVIOUS
<1> HIDE DEF o, n, cell, p
<1>5. a \in Int /\ b \in Int
  BY <1>1, <1>4
<1>6. Lowest(point, radius, m, i) \in Nat
  <2>1. ~(a < 0) => Floor(a, cell) \in Nat
    <3>1. ~(a < 0) => a \in Nat
      BY <1>5
    <3> HIDE DEF a
    <3>2. QED
      BY <1>1, <3>1, FloorIsNatural
  <2>2. QED
    BY <1>2, <2>1
<1>7. h \in Nat
  <2>1. ~(b < 0) => Floor(b, cell) \in Nat
    <3>1. ~(b < 0) => b \in Nat
      BY <1>5
    <3> HIDE DEF b
    <3>2. QED
      BY <1>1, <3>1, FloorIsNatural
  <2>2. QED
    BY <2>1
<1>8. Min({n - 1, h}) \in {n - 1, h} /\ Min({n - 1, h}) <= n - 1
  <2> HIDE DEF h
  <2> DEFINE k == n - 1
  <2>1. k \in Int /\ h \in Int
    BY <1>1, <1>7
  <2> HIDE DEF k
  <2>2. IsFiniteSet({k} \cup {h}) /\ {k} \cup {h} = {k, h}
    BY FS_Singleton, FS_AddElement
  <2>3. {k, h} \in SUBSET Int /\ IsFiniteSet({k, h}) /\ {k, h} # {}
    BY <2>1, <2>2
  <2>4. k \in {k, h}
    OBVIOUS
  <2>5. Min({k, h}) \in {k, h} /\ Min({k, h}) <= k
    BY <2>3, <2>4, MaxMin
  <2>6. QED
    BY <2>5 DEF k
<1>9. Highest(point, radius, m, i) \in 0 .. n - 1
  <2> HIDE DEF h
  <2>1. QED
    BY <1>1, <1>3, <1>7, <1>8
<1>10. ASSUME NEW s \in DOMAIN slots, IsValid(slots[s]),
              slots[s].at[i] \in p - radius .. p + radius
       PROVE  Along(m.grid, slots[s], i)
                  \in Lowest(point, radius, m, i) .. Highest(point, radius, m, i)
  <2> DEFINE x == slots[s].at[i] - o
             k == Floor(x, cell)
  <2>1. x \in Nat /\ k \in 0 .. n - 1 /\ Along(m.grid, slots[s], i) = k
    BY <1>10 DEF MapFits, Covers, Along, o, n, cell
  <2>2. slots[s].at[i] \in Int
    BY DEF MapFits, Located
  <2>3. a <= x /\ x <= b
    BY <1>1, <1>4, <1>10, <2>2
  <2> HIDE DEF x
  <2>4. ~(a < 0) => Floor(a, cell) <= k
    <3>1. a \in Int /\ x \in Int /\ a <= x
      BY <1>5, <2>1, <2>3
    <3> HIDE DEF a
    <3>2. QED
      BY <1>1, <3>1, FloorIsMonotone
  <2>5. ~(b < 0) /\ k <= Floor(b, cell)
    <3>1. b \in Int /\ x \in Int /\ x <= b /\ ~(b < 0)
      BY <1>5, <2>1, <2>3
    <3> HIDE DEF b
    <3>2. QED
      BY <1>1, <3>1, FloorIsMonotone
  <2> HIDE DEF k
  <2>6. Lowest(point, radius, m, i) <= k
    BY <1>2, <2>1, <2>4
  <2>7. k <= Highest(point, radius, m, i)
    <3>1. h = Floor(b, cell)
      BY <2>5
    <3> HIDE DEF h
    <3>2. Min({n - 1, h}) = n - 1 \/ Min({n - 1, h}) = h
      BY <1>8
    <3>3. QED
      BY <1>1, <1>3, <2>1, <2>5, <3>1, <3>2
  <2>8. QED
    BY <1>6, <1>9, <2>1, <2>6, <2>7
<1>11. QED
  BY <1>6, <1>9, <1>10 DEF p, n

\* A row of the search is the slots of the cells in it.
LEMMA RowHasItsSlots ==
    ASSUME NEW m, NEW slots, MapFits(m, slots), NEW point, NEW radius,
           Lowest(point, radius, m, 1) \in Nat,
           Highest(point, radius, m, 1) \in 0 .. m.grid.size[1] - 1,
           Lowest(point, radius, m, 1) <= Highest(point, radius, m, 1),
           NEW y \in 0 .. m.grid.size[2] - 1, NEW z \in 0 .. m.grid.size[3] - 1,
           NEW s \in DOMAIN slots
    PROVE  LET first == RowNumber(m.grid.size, y, z) * m.grid.size[1]
           IN /\ first \in Nat /\ first + m.grid.size[1] <= NumCells(m.grid.size)
              /\ s \in Row(point, radius, m, y, z)
                   <=> HashCell(slots[s], m.grid)
                          \in first + Lowest(point, radius, m, 1)
                                .. first + Highest(point, radius, m, 1)
<1> DEFINE size == m.grid.size
           lo == Lowest(point, radius, m, 1)
           hi == Highest(point, radius, m, 1)
           first == RowNumber(size, y, z) * size[1]
           from == GridIndex1D(<<lo, y, z>>, size)
           to == from + hi - lo
           hash == HashCell(slots[s], m.grid)
<1>1. Positive(size) /\ hash \in Nat /\ NumCells(size) \in Nat
  BY CoveredNumCells, HashOfPhoton DEF MapFits
<1>2. Row(point, radius, m, y, z) = m.table[from] .. m.table[to + 1] - 1
  BY DEF Row
<1>3. lo \in 0 .. size[1] - 1 /\ hi \in 0 .. size[1] - 1 /\ lo <= hi
      /\ y \in 0 .. size[2] - 1 /\ z \in 0 .. size[3] - 1 /\ size[1] \in Nat \ {0}
  BY <1>1 DEF Positive, Axes
<1>4. \A c \in 0 .. NumCells(size) :
          m.table[c] \in Nat /\ (s < m.table[c] <=> hash < c)
  BY DEF MapFits
<1>5. s \in Nat
  BY DEF MapFits
<1> HIDE DEF size, lo, hi, hash, from
<1>6. RowNumber(size, y, z) \in Nat /\ from = first + lo /\ from \in 0 .. NumCells(size) - 1
  BY <1>1, <1>3, CellsOfRow DEF from
<1>7. /\ GridIndex1D(<<size[1] - 1, y, z>>, size) = first + (size[1] - 1)
      /\ GridIndex1D(<<size[1] - 1, y, z>>, size) \in 0 .. NumCells(size) - 1
  <2>1. size[1] - 1 \in 0 .. size[1] - 1
    BY <1>3
  <2>2. QED
    BY <1>1, <1>3, <2>1, CellsOfRow
<1>8. first \in Nat
  BY <1>3, <1>6, Products
<1> HIDE DEF first
<1>9. first + size[1] <= NumCells(size)
  BY <1>1, <1>3, <1>7, <1>8
<1>10. to = first + hi /\ from \in 0 .. NumCells(size) /\ to + 1 \in 0 .. NumCells(size)
  BY <1>1, <1>3, <1>6, <1>8, <1>9
<1> HIDE DEF to
<1>11. /\ m.table[from] \in Nat /\ (s < m.table[from] <=> hash < from)
       /\ m.table[to + 1] \in Nat /\ (s < m.table[to + 1] <=> hash < to + 1)
  BY <1>4, <1>10
<1>12. s \in m.table[from] .. m.table[to + 1] - 1 <=> ~(hash < from) /\ hash < to + 1
  BY <1>5, <1>11
<1>13. ~(hash < from) /\ hash < to + 1 <=> hash \in first + lo .. first + hi
  BY <1>1, <1>3, <1>6, <1>8, <1>10
<1>14. QED
  BY <1>2, <1>8, <1>9, <1>12, <1>13 DEF size, lo, hi, hash, first

\* A number whose square is no greater than that of r is no further from zero than r.
LEMMA RootIsBounded ==
    ASSUME NEW d \in Int, NEW r \in Nat, d * d <= r * r
    PROVE  -r <= d /\ d <= r
<1>1. ASSUME NEW e \in Nat, e > r PROVE e * e > r * r
  <2>1. (r + 1) * (r + 1) <= e * (r + 1) /\ e * (r + 1) <= e * e
    BY <1>1
  <2>2. (r + 1) * (r + 1) = r * r + 2 * r + 1
    OBVIOUS
  <2>3. r * r \in Nat /\ e * e \in Nat /\ e * (r + 1) \in Nat
    OBVIOUS
  <2>4. QED
    BY <2>1, <2>2, <2>3
<1>2. ~(d > r)
  BY <1>1
<1>3. ~(-d > r)
  <2>1. (-d) * (-d) = d * d /\ d * d \in Int /\ r * r \in Int
    OBVIOUS
  <2>2. -d > r => -d \in Nat
    OBVIOUS
  <2>3. QED
    BY <1>1, <2>1, <2>2
<1>4. QED
  BY <1>2, <1>3

\* A photon within the radius is within it along every axis.
LEMMA NearAlongAxes ==
    ASSUME NEW p, NEW q, \A i \in Axes : p[i] \in Int /\ q[i] \in Int, NEW r \in Nat
    PROVE  /\ DistanceSquared(p, q) \in Int /\ Square(r) \in Int
           /\ DistanceSquared(p, q) <= Square(r) =>
                  \A i \in Axes : q[i] \in p[i] - r .. p[i] + r
<1> DEFINE d(i) == p[i] - q[i]
<1>1. d(1) \in Int /\ d(2) \in Int /\ d(3) \in Int
  BY DEF Axes
<1>2. DistanceSquared(p, q) = d(1) * d(1) + d(2) * d(2) + d(3) * d(3)
  BY DEF DistanceSquared, Square
<1>3. Square(r) = r * r /\ r * r \in Int
  BY DEF Square
<1>4. \A x \in Int : x * x \in Nat
  OBVIOUS
<1> HIDE DEF d
<1>5. d(1) * d(1) \in Nat /\ d(2) * d(2) \in Nat /\ d(3) * d(3) \in Nat
  BY <1>1, <1>4
<1>6. ASSUME DistanceSquared(p, q) <= Square(r), NEW i \in Axes
      PROVE  q[i] \in p[i] - r .. p[i] + r
  <2>1. d(i) \in Int /\ d(i) * d(i) <= r * r
    <3>1. i = 1 \/ i = 2 \/ i = 3
      BY DEF Axes
    <3>2. d(1) * d(1) <= r * r /\ d(2) * d(2) <= r * r /\ d(3) * d(3) <= r * r
      BY <1>2, <1>3, <1>5, <1>6
    <3>3. QED
      BY <1>1, <3>1, <3>2
  <2>2. -r <= d(i) /\ d(i) <= r
    BY <2>1, RootIsBounded
  <2>3. QED
    BY <2>2 DEF d
<1>7. QED
  BY <1>2, <1>3, <1>5, <1>6

\* The search adds up every photon within the radius once and nothing else.
LEMMA SearchFindsOnce ==
    ASSUME NEW m, NEW slots, MapFits(m, slots),
           NEW point, \A i \in Axes : point[i] \in Int, NEW radius \in Nat,
           NEW s \in DOMAIN slots
    PROVE  TimesFound(slots, m, point, radius, s)
             = IF IsValid(slots[s]) /\ DistanceSquared(point, slots[s].at) <= Square(radius)
               THEN 1 ELSE 0
<1> DEFINE photon == slots[s]
           size == m.grid.size
           near == DistanceSquared(point, photon.at) <= Square(radius)
           Lo(i) == Lowest(point, radius, m, i)
           Hi(i) == Highest(point, radius, m, i)
           cube == (Lo(2) .. Hi(2)) \X (Lo(3) .. Hi(3))
           found == {yz \in cube : s \in Row(point, radius, m, yz[1], yz[2])}
           hash == HashCell(photon, m.grid)
<1>1. /\ DistanceSquared(point, photon.at) \in Int /\ Square(radius) \in Int
      /\ near => \A i \in Axes : photon.at[i] \in point[i] - radius .. point[i] + radius
  BY NearAlongAxes DEF MapFits, Located
<1>2. ~near \/ Lo(1) > Hi(1) => TimesFound(slots, m, point, radius, s) = 0
  BY <1>1 DEF TimesFound
<1>3. near /\ ~(Lo(1) > Hi(1)) => TimesFound(slots, m, point, radius, s) = Cardinality(found)
  BY <1>1 DEF TimesFound
<1>4. \A i \in Axes : /\ Lo(i) \in Nat /\ Hi(i) \in 0 .. size[i] - 1
                      /\ near /\ IsValid(photon) => Along(m.grid, photon, i) \in Lo(i) .. Hi(i)
  BY <1>1, CubeHoldsPhotons
<1>5. /\ Positive(size) /\ NumCells(size) \in Nat /\ hash \in Nat
      /\ IsValid(photon) =>
             /\ \A i \in Axes : Along(m.grid, photon, i) \in 0 .. size[i] - 1
             /\ hash = RowNumber(size, Along(m.grid, photon, 2), Along(m.grid, photon, 3)) * size[1]
                       + Along(m.grid, photon, 1)
      /\ ~IsValid(photon) => hash = NumCells(size) + 1
  BY CoveredNumCells, HashOfPhoton DEF MapFits
<1>6. ASSUME Lo(1) <= Hi(1), NEW y \in Lo(2) .. Hi(2), NEW z \in Lo(3) .. Hi(3)
      PROVE  LET first == RowNumber(size, y, z) * size[1]
             IN /\ first \in Nat /\ first + size[1] <= NumCells(size)
                /\ y \in 0 .. size[2] - 1 /\ z \in 0 .. size[3] - 1
                /\ s \in Row(point, radius, m, y, z)
                     <=> hash \in first + Lo(1) .. first + Hi(1)
  <2>1. y \in 0 .. size[2] - 1 /\ z \in 0 .. size[3] - 1
    BY <1>4, <1>5 DEF Axes, Positive
  <2>2. Lo(1) \in Nat /\ Hi(1) \in 0 .. size[1] - 1
    BY <1>4 DEF Axes
  <2>3. QED
    BY <1>6, <2>1, <2>2, RowHasItsSlots
<1> HIDE DEF photon, size, near, Lo, Hi, found, hash
<1>7. 1 \in Axes /\ 2 \in Axes /\ 3 \in Axes
  BY DEF Axes
<1>8. size[1] \in Nat \ {0} /\ size[2] \in Nat \ {0} /\ size[3] \in Nat \ {0}
      /\ Lo(1) \in Nat /\ Hi(1) \in 0 .. size[1] - 1
  BY <1>4, <1>5, <1>7 DEF Positive
<1>9. CASE IsValid(photon) /\ near
  <2> DEFINE x == Along(m.grid, photon, 1)
             y == Along(m.grid, photon, 2)
             z == Along(m.grid, photon, 3)
  <2>1. /\ x \in Lo(1) .. Hi(1) /\ y \in Lo(2) .. Hi(2) /\ z \in Lo(3) .. Hi(3)
        /\ x \in 0 .. size[1] - 1 /\ y \in 0 .. size[2] - 1 /\ z \in 0 .. size[3] - 1
        /\ hash = RowNumber(size, y, z) * size[1] + x
    BY <1>4, <1>5, <1>7, <1>9
  <2> HIDE DEF x, y, z
  <2>2. Lo(1) <= Hi(1)
    BY <1>8, <2>1
  <2>3. s \in Row(point, radius, m, y, z)
    <3> DEFINE first == RowNumber(size, y, z) * size[1]
    <3>1. /\ first \in Nat
          /\ s \in Row(point, radius, m, y, z) <=> hash \in first + Lo(1) .. first + Hi(1)
      BY <1>6, <2>1, <2>2
    <3> HIDE DEF first
    <3>2. hash = first + x
      BY <2>1 DEF first
    <3>3. QED
      BY <1>8, <2>1, <3>1, <3>2
  <2>4. ASSUME NEW v \in Lo(2) .. Hi(2), NEW w \in Lo(3) .. Hi(3),
               s \in Row(point, radius, m, v, w)
        PROVE  v = y /\ w = z
    <3> DEFINE first == RowNumber(size, v, w) * size[1]
               u == hash - first
    <3>1. /\ first \in Nat /\ hash \in first + Lo(1) .. first + Hi(1)
          /\ v \in 0 .. size[2] - 1 /\ w \in 0 .. size[3] - 1
      BY <1>6, <2>2, <2>4
    <3>2. u \in 0 .. size[1] - 1 /\ hash = first + u
      <4> HIDE DEF first
      <4>1. QED
        BY <1>5, <1>8, <3>1
    <3> HIDE DEF u
    <3>3. RowNumber(size, y, z) * size[1] + x = RowNumber(size, v, w) * size[1] + u
      BY <2>1, <3>2
    <3>4. QED
      BY <1>5, <2>1, <3>1, <3>2, <3>3, CellIsUnique
  <2>5. found = {<<y, z>>}
    <3>1. <<y, z>> \in found
      BY <2>1, <2>3 DEF found
    <3>2. ASSUME NEW yz \in found PROVE yz = <<y, z>>
      <4>1. yz = <<yz[1], yz[2]>> /\ yz[1] \in Lo(2) .. Hi(2) /\ yz[2] \in Lo(3) .. Hi(3)
            /\ s \in Row(point, radius, m, yz[1], yz[2])
        BY DEF found
      <4>2. yz[1] = y /\ yz[2] = z
        BY <2>4, <4>1
      <4>3. QED
        BY <4>1, <4>2
    <3>3. QED
      BY <3>1, <3>2
  <2>6. Cardinality(found) = 1
    BY <2>5, FS_Singleton
  <2>7. QED
    BY <1>3, <1>8, <1>9, <2>2, <2>6 DEF photon, near
<1>10. CASE ~IsValid(photon) /\ near
  <2>1. CASE Lo(1) > Hi(1)
    BY <1>2, <1>10, <2>1 DEF photon, near
  <2>2. CASE Lo(1) <= Hi(1)
    <3>1. ASSUME NEW yz \in found PROVE FALSE
      <4>1. yz[1] \in Lo(2) .. Hi(2) /\ yz[2] \in Lo(3) .. Hi(3)
            /\ s \in Row(point, radius, m, yz[1], yz[2])
        BY DEF found
      <4> DEFINE first == RowNumber(size, yz[1], yz[2]) * size[1]
      <4>2. /\ first \in Nat /\ first + size[1] <= NumCells(size)
            /\ hash \in first + Lo(1) .. first + Hi(1)
        BY <1>6, <2>2, <4>1
      <4> HIDE DEF first
      <4>3. QED
        BY <1>5, <1>8, <1>10, <4>2
    <3>2. Cardinality(found) = 0
      BY <3>1, FS_EmptySet
    <3>3. QED
      BY <1>3, <1>8, <1>10, <2>2, <3>2 DEF photon, near
  <2>3. QED
    BY <1>8, <2>1, <2>2
<1>11. CASE ~near
  BY <1>2, <1>11 DEF photon, near
<1>12. QED
  BY <1>9, <1>10, <1>11 DEF photon, near

-----------------------------------------------------------------------------
(***************************************************************************)
(* Room for the cells                                                      *)
(***************************************************************************)

LEMMA ProductOrder ==
    ASSUME NEW a \in Nat, NEW b \in Nat, NEW c \in Nat, NEW d \in Nat, a <= b, c <= d
    PROVE  a * c \in Nat /\ b * d \in Nat /\ a * c <= b * d
<1>1. a * c <= b * c /\ b * c <= b * d
  OBVIOUS
<1>2. a * c \in Nat /\ b * c \in Nat /\ b * d \in Nat
  OBVIOUS
<1>3. QED
  BY <1>1, <1>2

LEMMA CubeOrder ==
    ASSUME NEW a \in Nat, NEW b \in Nat
    PROVE  /\ a * a * a \in Nat
           /\ a < b => a * a * a < b * b * b
<1>1. ASSUME a + 1 <= b PROVE a * a * a < b * b * b
  <2> DEFINE c == a + 1
  <2>1. c \in Nat /\ c <= b
    BY <1>1
  <2>2. c * c * c = a * a * a + 3 * (a * a) + 3 * a + 1
    OBVIOUS
  <2>3. a * a \in Nat /\ a * a * a \in Nat
    BY Products
  <2> HIDE DEF c
  <2>4. c * c \in Nat /\ b * b \in Nat /\ c * c <= b * b
    BY <2>1, ProductOrder
  <2>5. c * c * c \in Nat /\ b * b * b \in Nat /\ c * c * c <= b * b * b
    BY <2>1, <2>4, ProductOrder
  <2>6. QED
    BY <2>2, <2>3, <2>5
<1>2. a * a * a \in Nat
  BY Products
<1>3. QED
  BY <1>1, <1>2

\* If along every axis the cube of a number of cells takes up no more than its share,
\* the cells of all axes together fit into the room.
LEMMA CellsFitTogether ==
    ASSUME NEW e \in Nat \ {0}, NEW f \in Nat \ {0}, NEW g \in Nat \ {0}, NEW room \in Nat,
           NEW k \in Nat, NEW l \in Nat, NEW n \in Nat,
           k * k * k * (e * f * g) <= e * e * e * room,
           l * l * l * (e * f * g) <= f * f * f * room,
           n * n * n * (e * f * g) <= g * g * g * room
    PROVE  k * l * n <= room
<1> DEFINE v == e * f * g
           cells == k * l * n
           a == k * k * k
           b == l * l * l
           c == n * n * n
           p == e * e * e
           q == f * f * f
           r == g * g * g
<1>1. a * v <= p * room /\ b * v <= q * room /\ c * v <= r * room
  OBVIOUS
<1>2. a \in Nat /\ b \in Nat /\ c \in Nat /\ p \in Nat /\ q \in Nat /\ r \in Nat
  BY CubeOrder
<1>3. v \in Nat \ {0} /\ cells \in Nat
  <2>1. e * f \in Nat \ {0} /\ k * l \in Nat
    BY Products
  <2>2. QED
    BY <2>1, Products
<1>4. a * b * c = cells * cells * cells
  OBVIOUS
<1>5. p * q * r = v * v * v
  OBVIOUS
<1> HIDE DEF v, cells, a, b, c, p, q, r
<1>6. a * v \in Nat /\ b * v \in Nat /\ c * v \in Nat
      /\ p * room \in Nat /\ q * room \in Nat /\ r * room \in Nat
  BY <1>2, <1>3, Products
<1>7. (a * v) * (b * v) \in Nat /\ (p * room) * (q * room) \in Nat
      /\ (a * v) * (b * v) <= (p * room) * (q * room)
  BY <1>1, <1>6, ProductOrder
<1>8. ((a * v) * (b * v)) * (c * v) <= ((p * room) * (q * room)) * (r * room)
  BY <1>1, <1>6, <1>7, ProductOrder
<1>9. ((a * v) * (b * v)) * (c * v) = (a * b * c) * (v * v * v)
  BY <1>2, <1>3
<1>10. ((p * room) * (q * room)) * (r * room) = (p * q * r) * (room * room * room)
  BY <1>2
<1> DEFINE x == cells * cells * cells
           y == room * room * room
           z == v * v * v
<1>11. x * z <= z * y
  BY <1>4, <1>5, <1>8, <1>9, <1>10
<1>12. x \in Nat /\ y \in Nat /\ z \in Nat /\ (room < cells => y < x)
  BY <1>3, CubeOrder
<1>13. z # 0
  <2>1. v * v \in Nat /\ v * v # 0
    BY <1>3, Products
  <2>2. QED
    BY <1>3, <2>1, Products
<1> HIDE DEF x, y, z
<1>14. ~(y < x)
  <2> SUFFICES ASSUME y + 1 <= x PROVE FALSE
    BY <1>12
  <2>1. (y + 1) * z <= x * z
    BY <1>12, ProductOrder
  <2>2. (y + 1) * z = z * y + z /\ z * y \in Nat /\ x * z \in Nat
    BY <1>12
  <2>3. QED
    BY <1>11, <1>12, <1>13, <2>1, <2>2
<1>15. cells <= room
  BY <1>3, <1>12, <1>14
<1>16. QED
  BY <1>15 DEF cells

\* A fraction that is no less than another.
AtLeast(p, q) == q[1] * p[2] <= p[1] * q[2]

\* The larger of two sizes, of which any may be without an end
LEMMA LargerIsLarger ==
    ASSUME NEW p, NEW q, CellOK(p), CellOK(q)
    PROVE  LET r == Larger(p, q)
           IN /\ CellOK(r) /\ r \in {p, q}
              /\ p[2] = 0 \/ q[2] = 0 <=> r[2] = 0
              /\ AtLeast(r, p) /\ AtLeast(r, q)
<1> DEFINE a == p[1]
           b == p[2]
           c == q[1]
           d == q[2]
<1>1. a \in Nat \ {0} /\ b \in Nat /\ c \in Nat \ {0} /\ d \in Nat
  BY DEF CellOK
<1>2. a * d \in Nat /\ c * b \in Nat /\ c * b = b * c /\ a * b = b * a
  BY <1>1
<1>3. Larger(p, q) = IF a * d >= c * b THEN p ELSE q
  BY DEF Larger
<1>4. /\ b = 0 => c * b = 0
      /\ d = 0 /\ b # 0 => a * d = 0 /\ c * b # 0
      /\ a * b <= a * b /\ c * d <= c * d
  BY <1>1
<1> HIDE DEF a, b, c, d
<1>5. CASE a * d >= c * b
  <2>1. Larger(p, q) = p
    BY <1>3, <1>5
  <2>2. b = 0 \/ d = 0 <=> b = 0
    BY <1>1, <1>2, <1>4, <1>5
  <2>3. AtLeast(p, p) /\ AtLeast(p, q)
    BY <1>1, <1>2, <1>4, <1>5 DEF AtLeast, a, b, c, d
  <2>4. QED
    BY <2>1, <2>2, <2>3 DEF b, d
<1>6. CASE ~(a * d >= c * b)
  <2>1. Larger(p, q) = q
    BY <1>3, <1>6
  <2>2. b = 0 \/ d = 0 <=> d = 0
    BY <1>1, <1>2, <1>4, <1>6
  <2>3. a * d <= c * b
    BY <1>2, <1>6
  <2>4. AtLeast(q, q) /\ AtLeast(q, p)
    BY <1>1, <1>2, <1>4, <2>3 DEF AtLeast, a, b, c, d
  <2>5. QED
    BY <2>1, <2>2, <2>4 DEF b, d
<1>7. QED
  BY <1>5, <1>6

\* What is at least another is at least all that one is at least.
LEMMA AtLeastIsTransitive ==
    ASSUME NEW p, NEW q, NEW r, CellOK(p), CellOK(q), CellOK(r),
           p[2] # 0, q[2] # 0, r[2] # 0, AtLeast(p, q), AtLeast(q, r)
    PROVE  AtLeast(p, r)
<1> DEFINE a == p[1]
           b == p[2]
           c == q[1]
           d == q[2]
           e == r[1]
           f == r[2]
<1>1. a \in Nat /\ b \in Nat \ {0} /\ c \in Nat /\ d \in Nat \ {0} /\ e \in Nat /\ f \in Nat \ {0}
  BY DEF CellOK
<1>2. c * b <= a * d /\ e * d <= c * f
  BY DEF AtLeast
<1> HIDE DEF a, b, c, d, e, f
<1>3. (e * d) * b <= (c * f) * b /\ (c * b) * f <= (a * d) * f
  BY <1>1, <1>2, Products, ProductOrder
<1>4. (e * d) * b = (e * b) * d /\ (c * f) * b = (c * b) * f /\ (a * d) * f = (a * f) * d
  BY <1>1
<1> DEFINE x == e * b
           y == a * f
<1>5. x \in Nat /\ y \in Nat /\ (c * b) * f \in Nat
  BY <1>1, Products
<1>6. x * d <= y * d
  <2>1. x * d \in Nat /\ y * d \in Nat
    BY <1>1, <1>5, Products
  <2>2. QED
    BY <1>3, <1>4, <1>5, <2>1
<1> HIDE DEF x, y
<1>7. ~(y + 1 <= x)
  <2> SUFFICES ASSUME y + 1 <= x PROVE FALSE
    OBVIOUS
  <2>1. (y + 1) * d <= x * d
    BY <1>1, <1>5, ProductOrder
  <2>2. (y + 1) * d = y * d + d /\ y * d \in Nat /\ x * d \in Nat
    BY <1>1, <1>5
  <2>3. QED
    BY <1>1, <1>6, <2>1, <2>2
<1>8. x <= y
  BY <1>5, <1>7
<1>9. QED
  BY <1>8 DEF x, y, a, b, c, d, e, f, AtLeast

\* The edge of a cell that fits along an axis as often as it should
Edge(extent, i) ==
    LET n == CellsAlong(extent, i) IN IF n = 0 THEN <<1, 0>> ELSE <<extent[i], n>>

\* A cell is as large as the largest edge, and without an end if one of those is.
LEMMA CellIsLargest ==
    ASSUME NEW extent, \A i \in Axes : extent[i] \in Nat \ {0}
    PROVE  LET q == SmallestPossibleCellSize(extent)
           IN /\ CellOK(q)
              /\ q[2] = 0 <=> \E i \in Axes : CellsAlong(extent, i) = 0
              /\ q[2] # 0 => \A i \in Axes : extent[i] * q[2] <= q[1] * CellsAlong(extent, i)
<1> DEFINE a == Edge(extent, 1)
           b == Edge(extent, 2)
           c == Edge(extent, 3)
           r == Larger(b, c)
           q == Larger(a, r)
<1>1. SmallestPossibleCellSize(extent) = q
  BY DEF SmallestPossibleCellSize, Edge, Axes
<1>2. ASSUME NEW i \in Axes
      PROVE  /\ CellOK(Edge(extent, i))
             /\ Edge(extent, i)[2] = 0 <=> CellsAlong(extent, i) = 0
             /\ CellsAlong(extent, i) # 0 => Edge(extent, i) = <<extent[i], CellsAlong(extent, i)>>
  <2>1. CellsAlong(extent, i) \in Nat
    BY CellsFitAlong, MapConstants
  <2>2. extent[i] \in Nat \ {0}
    OBVIOUS
  <2>3. QED
    BY <2>1, <2>2 DEF CellOK, Edge
<1>3. CellOK(a) /\ CellOK(b) /\ CellOK(c)
  BY <1>2 DEF Axes
<1>4. (\E i \in Axes : CellsAlong(extent, i) = 0) <=> a[2] = 0 \/ b[2] = 0 \/ c[2] = 0
  BY <1>2 DEF Axes
<1> HIDE DEF a, b, c
<1>5. /\ CellOK(r) /\ (b[2] = 0 \/ c[2] = 0 <=> r[2] = 0)
      /\ AtLeast(r, b) /\ AtLeast(r, c)
  BY <1>3, LargerIsLarger
<1> HIDE DEF r
<1>6. /\ CellOK(q) /\ (a[2] = 0 \/ r[2] = 0 <=> q[2] = 0)
      /\ AtLeast(q, a) /\ AtLeast(q, r)
  BY <1>3, <1>5, LargerIsLarger
<1> HIDE DEF q
<1>7. q[2] # 0 => AtLeast(q, b)
  BY <1>3, <1>5, <1>6, AtLeastIsTransitive
<1>8. q[2] # 0 => AtLeast(q, c)
  BY <1>3, <1>5, <1>6, AtLeastIsTransitive
<1>9. ASSUME q[2] # 0, NEW i \in Axes
      PROVE  extent[i] * q[2] <= q[1] * CellsAlong(extent, i)
  <2>1. AtLeast(q, Edge(extent, i))
    <3>1. i = 1 \/ i = 2 \/ i = 3
      BY DEF Axes
    <3>2. QED
      BY <1>6, <1>7, <1>8, <1>9, <3>1 DEF a, b, c
  <2>2. CellsAlong(extent, i) # 0
    BY <1>4, <1>5, <1>6, <1>9
  <2>3. Edge(extent, i)[1] = extent[i] /\ Edge(extent, i)[2] = CellsAlong(extent, i)
    BY <1>2, <2>2
  <2>4. QED
    BY <2>1, <2>3 DEF AtLeast
<1>10. QED
  BY <1>1, <1>4, <1>5, <1>6, <1>9

\* A length of n cells at most is divided into n cells.
LEMMA CeilingIsBounded ==
    ASSUME NEW cell, CellOK(cell), NEW b \in Nat, NEW n \in Nat, b * cell[2] <= n * cell[1]
    PROVE  Ceiling(b, cell) <= n
<1> DEFINE d == cell[1]
           y == b * cell[2]
           q == (y + d - 1) \div d
<1>1. d \in Nat \ {0} /\ y \in Nat /\ y <= n * d /\ n * d \in Nat
  BY Products DEF CellOK
<1> HIDE DEF d, y
<1>2. y + d - 1 \in Int
  BY <1>1
<1>3. q \in Int /\ q * d <= y + d - 1
  BY <1>1, <1>2, Quotient
<1> HIDE DEF q
<1>4. q * d < (n + 1) * d
  <2>1. (n + 1) * d = n * d + d /\ q * d \in Int
    BY <1>1, <1>3
  <2>2. QED
    BY <1>1, <1>3, <2>1
<1>5. q <= n
  BY <1>1, <1>3, <1>4, QuotientOrder
<1>6. QED
  BY <1>5 DEF q, y, d, Ceiling

\* The cells of a grid never need more room than there is.
LEMMA GridHasRoom ==
    ASSUME NEW slots, Located(slots)
    PROVE  NumCells(Grid(slots).size) <= PHOTON_GRID_MAX_SIZE
<1> DEFINE extent == Extent(BoundingBox(slots))
           q == SmallestPossibleCellSize(extent)
           cell == CellSize(extent)
           size == Grid(slots).size
           n(i) == CellsAlong(extent, i)
           m == CellSizeMargin
           M == PHOTON_GRID_MAX_SIZE
<1>1. \A i \in Axes : extent[i] \in Nat \ {0}
  BY BoxHoldsPhotons
<1>2. size = GridSize(extent, cell)
  BY DEF Grid
<1> HIDE DEF extent
<1>3. CellOK(cell)
  BY <1>1, CellSizeOK
<1>4. /\ CellOK(q)
      /\ q[2] = 0 <=> \E i \in Axes : n(i) = 0
      /\ q[2] # 0 => \A i \in Axes : extent[i] * q[2] <= q[1] * n(i)
  BY <1>1, CellIsLargest
<1>5. \A i \in Axes :
          /\ n(i) \in 0 .. M
          /\ n(i) * n(i) * n(i) * (extent[1] * extent[2] * extent[3])
                 <= extent[i] * extent[i] * extent[i] * M
  BY <1>1, CellsFitAlong
<1>6. /\ cell[1] = q[1] * m[2] + m[1] * q[2]
      /\ cell[2] = q[2] * m[2]
  BY DEF CellSize
<1>7. M \in Nat \ {0} /\ m[1] \in Nat /\ m[2] \in Nat \ {0}
  BY MapConstants
<1>8. q[1] \in Nat \ {0} /\ q[2] \in Nat
  BY <1>4 DEF CellOK
<1> HIDE DEF q, cell, size, n, m, M
<1>9. ASSUME NEW i \in Axes, NEW k \in Nat, extent[i] * cell[2] <= k * cell[1]
      PROVE  (size[i] \in Nat \ {0} /\ size[i] <= k) \/ size[i] = 1
  <2> DEFINE c == Ceiling(extent[i], cell)
  <2>1. c \in Nat /\ c <= k
    <3>1. extent[i] \in Nat /\ 0 \in Nat /\ 0 < extent[i]
      BY <1>1
    <3>2. c \in Nat
      BY <1>3, <3>1, FloorBelowCeiling
    <3>3. c <= k
      BY <1>3, <1>9, <3>1, CeilingIsBounded
    <3>4. QED
      BY <3>2, <3>3
  <2>2. size[i] = Max({1, c})
    BY <1>2 DEF GridSize
  <2> HIDE DEF c
  <2>3. {1, c} \in SUBSET Int /\ IsFiniteSet({1, c}) /\ {1, c} # {} /\ 1 \in {1, c}
    <3>1. IsFiniteSet({1} \cup {c}) /\ {1} \cup {c} = {1, c}
      BY FS_Singleton, FS_AddElement
    <3>2. QED
      BY <2>1, <3>1
  <2>4. Max({1, c}) \in {1, c} /\ Max({1, c}) >= 1
    BY <2>3, MaxMin
  <2>5. QED
    BY <2>1, <2>2, <2>4
<1>10. NumCells(size) = size[1] * size[2] * size[3]
  BY DEF NumCells
<1>11. CASE q[2] = 0
  <2>1. cell[2] = 0
    BY <1>6, <1>7, <1>8, <1>11
  <2>2. ASSUME NEW i \in Axes PROVE size[i] = 1
    <3>1. extent[i] * cell[2] = 0 /\ 0 * cell[1] = 0
      BY <1>1, <1>3, <2>1 DEF CellOK
    <3>2. extent[i] * cell[2] <= 0 * cell[1]
      BY <3>1
    <3>3. (size[i] \in Nat \ {0} /\ size[i] <= 0) \/ size[i] = 1
      BY <1>9, <3>2
    <3>4. QED
      BY <3>3
  <2>3. size[1] = 1 /\ size[2] = 1 /\ size[3] = 1
    BY <2>2 DEF Axes
  <2>4. QED
    BY <1>7, <1>10, <2>3 DEF size, M
<1>12. CASE q[2] # 0
  <2>1. ASSUME NEW i \in Axes PROVE size[i] \in Nat /\ size[i] <= n(i) /\ n(i) \in Nat
    <3>1. n(i) \in Nat \ {0}
      <4>1. n(i) \in Nat
        BY <1>5, <1>7
      <4>2. n(i) # 0
        BY <1>4, <1>12
      <4>3. QED
        BY <4>1, <4>2
    <3>2. extent[i] * q[2] <= q[1] * n(i) /\ extent[i] \in Nat
      BY <1>1, <1>4, <1>12
    <3> DEFINE e == extent[i]
               k == n(i)
               a == q[1]
               b == q[2]
               s == m[2]
               t == m[1]
    <3>3. /\ e \in Nat /\ k \in Nat \ {0} /\ a \in Nat /\ b \in Nat /\ s \in Nat /\ t \in Nat
          /\ e * b <= a * k /\ cell[1] = a * s + t * b /\ cell[2] = b * s
      BY <1>6, <1>7, <1>8, <3>1, <3>2
    <3> HIDE DEF e, k, a, b, s, t
    <3>4. (e * b) * s <= (a * k) * s
      BY <3>3, Products, ProductOrder
    <3>5. e * (b * s) = (e * b) * s /\ k * (a * s + t * b) = (a * k) * s + k * (t * b)
      BY <3>3
    <3>6. t * b \in Nat /\ k * (t * b) \in Nat /\ (a * k) * s \in Nat /\ (e * b) * s \in Nat
      BY <3>3, Products
    <3>7. e * cell[2] <= k * cell[1]
      BY <3>3, <3>4, <3>5, <3>6
    <3>8. (size[i] \in Nat \ {0} /\ size[i] <= k) \/ size[i] = 1
      BY <1>9, <3>3, <3>7 DEF e
    <3>9. QED
      BY <3>1, <3>3, <3>8 DEF k
  <2>2. /\ size[1] \in Nat /\ size[1] <= n(1) /\ n(1) \in Nat
        /\ size[2] \in Nat /\ size[2] <= n(2) /\ n(2) \in Nat
        /\ size[3] \in Nat /\ size[3] <= n(3) /\ n(3) \in Nat
    BY <2>1 DEF Axes
  <2>3. /\ extent[1] \in Nat \ {0} /\ extent[2] \in Nat \ {0} /\ extent[3] \in Nat \ {0}
        /\ n(1) * n(1) * n(1) * (extent[1] * extent[2] * extent[3])
               <= extent[1] * extent[1] * extent[1] * M
        /\ n(2) * n(2) * n(2) * (extent[1] * extent[2] * extent[3])
               <= extent[2] * extent[2] * extent[2] * M
        /\ n(3) * n(3) * n(3) * (extent[1] * extent[2] * extent[3])
               <= extent[3] * extent[3] * extent[3] * M
    BY <1>1, <1>5 DEF Axes
  <2>4. n(1) * n(2) * n(3) <= M
    BY <1>7, <2>2, <2>3, CellsFitTogether
  <2>5. size[1] * size[2] <= n(1) * n(2) /\ size[1] * size[2] \in Nat /\ n(1) * n(2) \in Nat
    BY <2>2, ProductOrder
  <2>6. size[1] * size[2] * size[3] <= n(1) * n(2) * n(3)
        /\ size[1] * size[2] * size[3] \in Nat /\ n(1) * n(2) * n(3) \in Nat
    BY <2>2, <2>5, ProductOrder
  <2>7. QED
    BY <1>7, <1>10, <2>4, <2>6 DEF size, M
<1>13. QED
  BY <1>11, <1>12

-----------------------------------------------------------------------------
(***************************************************************************)
(* The photon map                                                          *)
(***************************************************************************)
Positions == Int \X Int \X Int

\* Every slot holds a photon that is somewhere.
SlotsOK(slots) == DOMAIN slots = Slots /\ \A s \in Slots : slots[s].at \in Positions

\* While the radiance is estimated, a grid fits the slots that were sorted for it; and
\* no grid needs more room than there is.
MapInv ==
    /\ SlotsOK(photons)
    /\ pc = "estimate" /\ map.structure = "uniform grid" => MapFits(map, photons)
    /\ NumCells(map.grid.size) <= PHOTON_GRID_MAX_SIZE

LEMMA Coordinatewise == \A p \in Positions, i \in Axes : p[i] \in Int
BY DEF Positions, Axes

LEMMA SlotsAreNumbers ==
    PHOTON_LAUNCH_WIDTH * PHOTON_LAUNCH_HEIGHT * MaxPhotonDeposits \in Nat
<1>1. PHOTON_LAUNCH_WIDTH * PHOTON_LAUNCH_HEIGHT \in Nat
  BY LaunchSize, Products
<1>2. QED
  BY <1>1, LaunchSize, Products

LEMMA SlotsAreLocated ==
    ASSUME NEW slots, SlotsOK(slots)
    PROVE  Located(slots)
<1> DEFINE n == PHOTON_LAUNCH_WIDTH * PHOTON_LAUNCH_HEIGHT * MaxPhotonDeposits
<1>1. n \in Nat /\ Slots = 0 .. n - 1
  BY SlotsAreNumbers DEF Slots
<1> HIDE DEF n
<1>2. IsFiniteSet(Slots)
  BY <1>1, FS_Interval
<1>3. QED
  BY <1>2, Coordinatewise DEF SlotsOK, Located

LEMMA PhotonsAtPositions ==
    /\ NoPhoton.at \in Positions /\ [NoPhoton EXCEPT !.stored = <<"old">>].at \in Positions
    /\ PhotonPositions \subseteq Positions
<1>1. NoPhoton.at = <<0, 0, 0>> /\ [NoPhoton EXCEPT !.stored = <<"old">>].at = <<0, 0, 0>>
  BY DEF NoPhoton
<1>2. PhotonPositions \subseteq Positions
  BY RendererAssumption DEF Positions
<1>3. QED
  BY <1>1, <1>2 DEF Positions

\* A map that was not built has the grid of no photons.
LEMMA NoMapHasRoom ==
    /\ NoMap.structure = "none" /\ NumCells(NoMap.grid.size) <= PHOTON_GRID_MAX_SIZE
<1> DEFINE slots == [s \in Slots |-> NoPhoton]
<1>1. SlotsOK(slots)
  BY PhotonsAtPositions DEF SlotsOK
<1>2. NoMap.grid = Grid(slots) /\ NoMap.structure = "none"
  BY DEF NoMap
<1> HIDE DEF slots
<1>3. NumCells(Grid(slots).size) <= PHOTON_GRID_MAX_SIZE
  BY <1>1, SlotsAreLocated, GridHasRoom
<1>4. QED
  BY <1>2, <1>3

\* Whatever happens to the slots, a map is kept or dropped with the passes that use it.
LEMMA MapKept ==
    ASSUME MapInv, SlotsOK(photons'), map' = map \/ map' = NoMap,
           pc' # "estimate" \/ UNCHANGED <<pc, photons, map>>
    PROVE  MapInv'
<1>1. NumCells(map'.grid.size) <= PHOTON_GRID_MAX_SIZE
  BY NoMapHasRoom DEF MapInv
<1>2. pc' = "estimate" /\ map'.structure = "uniform grid" => MapFits(map', photons')
  <2>1. SUFFICES ASSUME UNCHANGED <<pc, photons, map>>, pc' = "estimate",
                        map'.structure = "uniform grid"
                 PROVE  MapFits(map', photons')
    OBVIOUS
  <2>2. MapFits(map, photons)
    BY <2>1 DEF MapInv
  <2>3. QED
    BY <2>1, <2>2
<1>3. QED
  BY <1>1, <1>2 DEF MapInv

\* The slots that threads clear, fill and leave to the next pass
LEMMA SlotsStayOK ==
    ASSUME SlotsOK(photons)
    PROVE  /\ SlotsOK(OldPhotons)
           /\ \A t \in Threads : SlotsOK(ClearedSlots(t))
           /\ \A t \in Threads, position \in PhotonPositions : SlotsOK(StorePhoton(t, position))
<1>1. SlotsOK(OldPhotons)
  BY PhotonsAtPositions DEF SlotsOK, OldPhotons
<1>2. ASSUME NEW t \in Threads PROVE SlotsOK(ClearedSlots(t))
  BY PhotonsAtPositions DEF SlotsOK, ClearedSlots
<1>3. ASSUME NEW t \in Threads, NEW position \in PhotonPositions
      PROVE  SlotsOK(StorePhoton(t, position))
  <2> DEFINE stored == StorePhoton(t, position)
             photon == [at |-> position, stored |-> <<t, walks[t].stored>>]
             k == PmIndex(t) + walks[t].stored
  <2>1. stored = [photons EXCEPT ![k] = photon] /\ photon.at = position
    BY DEF StorePhoton
  <2> HIDE DEF stored, photon, k
  <2>2. DOMAIN stored = Slots
    BY <2>1 DEF SlotsOK
  <2>3. \A s \in Slots : stored[s] = photons[s] \/ stored[s] = photon
    BY <2>1 DEF SlotsOK
  <2>4. QED
    BY <2>1, <2>2, <2>3, PhotonsAtPositions DEF SlotsOK, stored
<1>4. QED
  BY <1>1, <1>2, <1>3

\* createUniformGridPhotonMap
LEMMA GridMapInv ==
    ASSUME MapInv, createUniformGridPhotonMap
    PROVE  MapInv'
<1> DEFINE grid == Grid(photons)
           table == OffsetTable(photons, grid)
           n == PHOTON_LAUNCH_WIDTH * PHOTON_LAUNCH_HEIGHT * MaxPhotonDeposits
<1>1. SlotsOK(photons) /\ Located(photons)
  BY SlotsAreLocated DEF MapInv
<1>2. Covers(grid, photons) /\ NumCells(grid.size) <= PHOTON_GRID_MAX_SIZE
  BY <1>1, GridCovers, GridHasRoom
<1>3. /\ photons' \in SortedByCell(photons, grid)
      /\ map' = [NoMap EXCEPT !.structure = "uniform grid", !.grid = grid, !.table = table]
  <2>1. CASE NumCells(grid.size) > PHOTON_GRID_MAX_SIZE
    <3>1. NumCells(grid.size) \in Int
      BY <1>2, CoveredNumCells
    <3>2. QED
      BY <1>2, <2>1, <3>1, MapConstants
  <2>2. CASE ~(NumCells(grid.size) > PHOTON_GRID_MAX_SIZE)
    BY <2>2 DEF createUniformGridPhotonMap
  <2>3. QED
    BY <2>1, <2>2
<1>4. n \in Nat /\ Slots = 0 .. n - 1
  BY SlotsAreNumbers DEF Slots
<1>5. map'.grid = grid /\ map'.table = table
  BY <1>3 DEF NoMap
<1> HIDE DEF grid, table, n
<1>6. DOMAIN photons' = Slots /\ Located(photons') /\ Covers(grid, photons')
  BY <1>1, <1>2, <1>3, SortedIsCovered DEF SlotsOK
<1>7. SlotsOK(photons')
  <2>1. PICK order \in Bijection(DOMAIN photons, DOMAIN photons) :
            photons' = [s \in DOMAIN photons |-> photons[order[s]]]
    BY <1>3, SortedOrder
  <2>2. \A s \in Slots : order[s] \in Slots /\ photons'[s] = photons[order[s]]
    BY <1>1, <2>1 DEF SlotsOK, Bijection, Surjection
  <2>3. QED
    BY <1>1, <1>6, <2>2 DEF SlotsOK
<1>8. ASSUME NEW c \in 0 .. NumCells(grid.size)
      PROVE  /\ table[c] \in Nat
             /\ \A s \in Slots : s < table[c] <=> HashCell(photons'[s], grid) < c
  <2>1. \A s \in DOMAIN photons : HashCell(photons[s], grid) \in Int
    BY <1>2, HashOfPhoton
  <2>2. DOMAIN photons = 0 .. n - 1
    BY <1>1, <1>4 DEF SlotsOK
  <2>3. /\ table[c] \in Nat
        /\ \A s \in 0 .. n - 1 : s < table[c] <=> HashCell(photons'[s], grid) < c
    BY <1>3, <1>4, <2>1, <2>2, OffsetsSplitSlots DEF table
  <2>4. QED
    BY <1>4, <2>3
<1>9. MapFits(map', photons')
  BY <1>4, <1>5, <1>6, <1>8 DEF MapFits
<1>10. QED
  BY <1>2, <1>5, <1>7, <1>9 DEF MapInv

LEMMA PhotonMapInv ==
    ASSUME MapInv, PhotonMapping
    PROVE  MapInv'
<1>1. SlotsOK(photons)
  BY DEF MapInv
<1>2. CASE LaunchPhotons \/ EstimateRadiance
  BY <1>1, <1>2, MapKept DEF LaunchPhotons, EstimateRadiance
<1>3. CASE OutputPass
  BY <1>1, <1>3, MapKept, SlotsStayOK DEF OutputPass
<1>4. CASE createUniformGridPhotonMap
  BY <1>4, GridMapInv
<1>5. CASE createPhotonKdTreeOnCPU
  <2>1. map'.structure = "kd-tree" /\ map'.grid = NoMap.grid /\ photons' = photons
    BY <1>5 DEF createPhotonKdTreeOnCPU, NoMap
  <2>2. NumCells(map'.grid.size) <= PHOTON_GRID_MAX_SIZE
    BY <2>1, NoMapHasRoom
  <2>3. QED
    BY <1>1, <2>1, <2>2 DEF MapInv
<1>6. ASSUME NEW t \in Threads,
             \/ Generate(t)
             \/ DiffusePhoton(t) \/ GlossyPhoton(t) \/ TexturePhoton(t)
             \/ GlassPhoton(t) \/ MirrorPhoton(t) \/ DiffuseEmitterPhoton(t) \/ PhotonMiss(t)
      PROVE  MapInv'
  <2>1. /\ map' = map /\ pc' = "photon walks"
        /\ \/ photons' = photons
           \/ photons' = ClearedSlots(t)
           \/ \E position \in PhotonPositions : photons' = StorePhoton(t, position)
    BY <1>6 DEF Generate, DiffusePhoton, GlossyPhoton, TexturePhoton, GlassPhoton, MirrorPhoton,
                DiffuseEmitterPhoton, PhotonMiss, MattPhotonHit, PhotonHit, Walks
  <2>2. SlotsOK(photons')
    BY <1>1, <2>1, SlotsStayOK
  <2>3. QED
    BY <2>1, <2>2, MapKept
<1>7. QED
  BY <1>2, <1>3, <1>4, <1>5, <1>6 DEF PhotonMapping

\* The other passes, and the host between them
LEMMA OtherMapInv ==
    ASSUME MapInv, Host \/ Rays \/ Connections \/ UNCHANGED vars
    PROVE  MapInv'
<1>1. SlotsOK(photons)
  BY DEF MapInv
<1>2. CASE Throws
  BY <1>1, <1>2, MapKept, SlotsStayOK DEF Throws
<1>3. CASE Initialize \/ UNCHANGED vars
  BY <1>1, <1>3, MapKept DEF Initialize, vars
<1>4. CASE InitScene \/ InitSceneFails \/ FirstIteration \/ NextIteration
           \/ Resize \/ ResizeFails \/ ClearOutput
  <2>1. photons' = photons /\ map' = map /\ pc' # "estimate"
    BY <1>4 DEF InitScene, InitSceneFails, MayInitScene, FirstIteration, NextIteration,
                Resize, ResizeFails, ClearOutput
  <2>2. QED
    BY <1>1, <2>1, MapKept
<1>5. CASE Rays
  <2>1. photons' = photons /\ map' = map /\ pc' # "estimate"
    BY <1>5 DEF Rays, LaunchRays, RadianceHit, PathSegment, DirectRadiance, EndOfRay
  <2>2. QED
    BY <1>1, <2>1, MapKept
<1>6. CASE Connections
  <2>1. photons' = photons /\ map' = map /\ pc' # "estimate"
    BY <1>6 DEF Connections, EstimateVertexCounts, LaunchLightPass, LightPassEnds, CameraPass,
                StoreLightVertex
  <2>2. QED
    BY <1>1, <2>1, MapKept
<1>7. QED
  BY <1>2, <1>3, <1>4, <1>5, <1>6 DEF Host

\* A grid over the photons of a pass holds every photon in its cell, the slots are
\* sorted by cells and the offsets part them; and the grid never has more cells than
\* there is room for, so that createUniformGridPhotonMap does not throw.
THEOREM MapInvariance == Spec => []MapInv
<1>1. Init => MapInv
  <2> SUFFICES ASSUME Init PROVE MapInv
    OBVIOUS
  <2>1. pc = "idle" /\ photons = [s \in Slots |-> NoPhoton] /\ map = NoMap
    BY DEF Init
  <2>2. SlotsOK(photons)
    BY <2>1, PhotonsAtPositions DEF SlotsOK
  <2>3. QED
    BY <2>1, <2>2, NoMapHasRoom DEF MapInv
<1>2. MapInv /\ [Next]_vars => MapInv'
  BY PhotonMapInv, OtherMapInv DEF Next
<1>3. QED
  BY <1>1, <1>2, PTL DEF Spec

\* In a build with the uniform grid, an estimate of radiance adds up every photon within
\* its radius once and nothing else, for all photons, points and radii, whatever room
\* there is for cells and however the slots of one cell are ordered.
THEOREM GridFindsEachPhotonOnce ==
    Spec => [](map.structure = "uniform grid" => GatherFindsEachPhotonOnce)
<1>1. MapInv => (map.structure = "uniform grid" => GatherFindsEachPhotonOnce)
  <2> SUFFICES ASSUME MapInv, map.structure = "uniform grid", pc = "estimate",
                      NEW point \in HitPoints, NEW radius \in Radii, NEW s \in Slots
               PROVE  LET distance == DistanceSquared(point, photons[s].at)
                      IN IF IsValid(photons[s]) /\ distance <= Square(radius)
                         THEN TimesFoundInMap(point, radius, s) = 1
                         ELSE TimesFoundInMap(point, radius, s) = 0
    BY DEF GatherFindsEachPhotonOnce
  <2>1. MapFits(map, photons) /\ s \in DOMAIN photons
    BY DEF MapInv, SlotsOK
  <2>2. (\A i \in Axes : point[i] \in Int) /\ radius \in Nat
    <3>1. point \in Positions /\ radius \in Nat
      BY RendererAssumption DEF Positions
    <3>2. QED
      BY <3>1, Coordinatewise
  <2>3. TimesFoundInMap(point, radius, s) = TimesFound(photons, map, point, radius, s)
    BY DEF TimesFoundInMap
  <2>4. QED
    BY <2>1, <2>2, <2>3, SearchFindsOnce
<1>2. QED
  BY <1>1, MapInvariance, PTL

-----------------------------------------------------------------------------
(***************************************************************************)
(* The photon tree                                                         *)
(***************************************************************************)
NumSlots == PHOTON_LAUNCH_WIDTH * PHOTON_LAUNCH_HEIGHT * MaxPhotonDeposits

\* While the radiance is estimated, a map that is no grid is the tree of the photons that
\* the threads have left, no two of which are the same.
TreeInv ==
    pc = "estimate" /\ map.structure # "uniform grid" =>
        /\ map.structure = "kd-tree"
        /\ map.tree = PhotonTree(photons)
        /\ Distinct(photons, NumSlots)

\* Every number below a product is a quotient and a remainder.
LEMMA Division ==
    ASSUME NEW m \in Nat, NEW d \in Nat \ {0}, NEW x \in 0 .. m * d - 1
    PROVE  \E q \in 0 .. m - 1, r \in 0 .. d - 1 : x = q * d + r
<1> DEFINE q == x \div d
           y == q * d
           z == m * d
<1>1. x \in Int /\ 0 <= x /\ z \in Int /\ x <= z - 1
  OBVIOUS
<1>2. q \in Int /\ y <= x /\ x < (q + 1) * d
  BY <1>1, Quotient
<1>3. y \in Int /\ (q + 1) * d = y + d
  BY <1>2
<1>4. ~(q < 0)
  <2> HIDE DEF q
  <2> SUFFICES ASSUME q + 1 <= 0 PROVE FALSE
    BY <1>2
  <2>1. (q + 1) * d <= 0
    BY <1>2
  <2>2. (q + 1) * d \in Int
    BY <1>2
  <2>3. QED
    BY <1>1, <1>2, <2>1, <2>2
<1>5. ~(q >= m)
  <2> HIDE DEF q
  <2> SUFFICES ASSUME q >= m PROVE FALSE
    OBVIOUS
  <2>1. q * d >= m * d
    BY <1>2
  <2> HIDE DEF y, z
  <2>2. y >= z
    BY <2>1 DEF y, z
  <2>3. QED
    BY <1>1, <1>2, <1>3, <2>2
<1>6. q \in 0 .. m - 1
  <2> HIDE DEF q
  <2>1. QED
    BY <1>2, <1>4, <1>5
<1>7. x - y \in 0 .. d - 1 /\ x = y + (x - y)
  <2> HIDE DEF y
  <2>1. QED
    BY <1>1, <1>2, <1>3
<1>8. QED
  BY <1>6, <1>7

\* Every slot is one of a thread's.
LEMMA SlotOfThread ==
    ASSUME NEW s \in Slots
    PROVE  \E t \in Threads, k \in 0 .. MaxPhotonDeposits - 1 : s = PmIndex(t) + k
<1> DEFINE W == PHOTON_LAUNCH_WIDTH
           H == PHOTON_LAUNCH_HEIGHT
           n == H * W
<1>1. n \in Nat /\ W * H = n /\ W \in Nat \ {0} /\ H \in Nat \ {0}
  BY LaunchSize, Products
<1>2. s \in 0 .. n * MaxPhotonDeposits - 1
  BY <1>1 DEF Slots
<1> HIDE DEF n
<1>3. PICK q \in 0 .. n - 1, k \in 0 .. MaxPhotonDeposits - 1 : s = q * MaxPhotonDeposits + k
  BY <1>1, <1>2, LaunchSize, Division
<1>4. q \in 0 .. H * W - 1
  BY DEF n
<1> HIDE DEF W, H
<1>5. PICK y \in 0 .. H - 1, x \in 0 .. W - 1 : q = y * W + x
  <2>1. H \in Nat /\ W \in Nat \ {0}
    BY <1>1
  <2>2. \E y \in 0 .. H - 1, x \in 0 .. W - 1 : q = y * W + x
    BY <1>4, <2>1, Division, Zenon
  <2>3. QED
    BY <2>2
<1>6. <<x, y>> \in Threads /\ PmIndex(<<x, y>>) = q * MaxPhotonDeposits
  BY <1>5 DEF Threads, PmIndex, W, H
<1>7. QED
  BY <1>3, <1>6

\* A photon that is stored tells the slot it is in.
LEMMA SlotsDiffer ==
    ASSUME SlotsOK(photons),
           \A t \in Threads, k \in 0 .. MaxPhotonDeposits - 1 :
               photons[PmIndex(t) + k].stored = IF k < walks[t].stored THEN <<t, k>> ELSE <<>>
    PROVE  Distinct(photons, NumSlots)
<1>1. ASSUME NEW r \in Slots, NEW s \in Slots, IsValid(photons[r]), photons[r] = photons[s]
      PROVE  r = s
  <2>1. PICK t \in Threads, k \in 0 .. MaxPhotonDeposits - 1 : r = PmIndex(t) + k
    BY SlotOfThread
  <2>2. PICK u \in Threads, l \in 0 .. MaxPhotonDeposits - 1 : s = PmIndex(u) + l
    BY SlotOfThread
  <2>3. photons[r].stored # <<>> /\ photons[s].stored # <<>>
    BY <1>1 DEF IsValid
  <2>4. photons[r].stored = <<t, k>>
    BY <2>1, <2>3
  <2>5. photons[s].stored = <<u, l>>
    BY <2>2, <2>3
  <2>6. t = u /\ k = l
    BY <1>1, <2>4, <2>5
  <2>7. QED
    BY <2>1, <2>2, <2>6
<1>2. DOMAIN photons = 0 .. NumSlots - 1 /\ DOMAIN photons = Slots
  BY DEF SlotsOK, Slots, NumSlots
<1>3. QED
  BY <1>1, <1>2 DEF Distinct

\* So it is when all threads have ended.
LEMMA PhotonsAreDistinct ==
    ASSUME IInv, SlotsOK(photons), pc = "photon walks",
           \A t \in Threads : walks[t].state = "ended"
    PROVE  Distinct(photons, NumSlots)
<1>1. \A t \in Threads, k \in 0 .. MaxPhotonDeposits - 1 :
          photons[PmIndex(t) + k].stored = IF k < walks[t].stored THEN <<t, k>> ELSE <<>>
  BY DEF IInv, DepositsStayInOwnSlots
<1>2. QED
  BY <1>1, SlotsDiffer

\* The map is built in createPhotonKdTreeOnCPU, and dropped with the pass.
LEMMA TreeStaysInv ==
    ASSUME IInv, MapInv, TreeInv, [Next]_vars
    PROVE  TreeInv'
<1>1. CASE createPhotonKdTreeOnCPU
  <2>1. /\ photons' = photons
        /\ map'.structure = "kd-tree" /\ map'.tree = PhotonTree(photons)
    BY <1>1 DEF createPhotonKdTreeOnCPU, NoMap
  <2>2. Distinct(photons, NumSlots)
    BY <1>1, PhotonsAreDistinct DEF MapInv, createPhotonKdTreeOnCPU, CreatesMap
  <2>3. QED
    BY <2>1, <2>2 DEF TreeInv
<1>2. CASE createUniformGridPhotonMap
  <2>1. pc' = "estimate" => map'.structure = "uniform grid"
    BY <1>2 DEF createUniformGridPhotonMap, NoMap
  <2>2. QED
    BY <2>1 DEF TreeInv
<1>3. CASE LaunchPhotons \/ EstimateRadiance \/ OutputPass
  <2>1. pc' # "estimate"
    BY <1>3 DEF LaunchPhotons, EstimateRadiance, OutputPass
  <2>2. QED
    BY <2>1 DEF TreeInv
<1>4. ASSUME NEW t \in Threads,
             \/ Generate(t)
             \/ DiffusePhoton(t) \/ GlossyPhoton(t) \/ TexturePhoton(t)
             \/ GlassPhoton(t) \/ MirrorPhoton(t) \/ DiffuseEmitterPhoton(t) \/ PhotonMiss(t)
      PROVE  TreeInv'
  <2>1. pc' = "photon walks"
    BY <1>4 DEF Generate, DiffusePhoton, GlossyPhoton, TexturePhoton, GlassPhoton, MirrorPhoton,
                DiffuseEmitterPhoton, PhotonMiss, MattPhotonHit, PhotonHit, Walks
  <2>2. QED
    BY <2>1 DEF TreeInv
<1>5. CASE Rays \/ Connections
  <2>1. pc' # "estimate"
    BY <1>5 DEF Rays, LaunchRays, RadianceHit, PathSegment, DirectRadiance, EndOfRay,
                Connections, EstimateVertexCounts, LaunchLightPass, LightPassEnds, CameraPass,
                StoreLightVertex
  <2>2. QED
    BY <2>1 DEF TreeInv
<1>6. CASE Throws \/ InitScene \/ InitSceneFails \/ FirstIteration \/ NextIteration
           \/ Resize \/ ResizeFails \/ ClearOutput
  <2>1. pc' # "estimate"
    BY <1>6 DEF Throws, InitScene, InitSceneFails, MayInitScene, FirstIteration, NextIteration,
                Resize, ResizeFails, ClearOutput
  <2>2. QED
    BY <2>1 DEF TreeInv
<1>7. CASE Initialize \/ UNCHANGED vars
  <2>1. pc' = pc /\ map' = map /\ photons' = photons
    BY <1>7 DEF Initialize, vars
  <2>2. QED
    BY <2>1 DEF TreeInv
<1>8. QED
  BY <1>1, <1>2, <1>3, <1>4, <1>5, <1>6, <1>7 DEF Next, Host, PhotonMapping

\* What the search of the tree counts
LEMMA TreeCounts ==
    ASSUME SlotsOK(photons), Distinct(photons, NumSlots),
           NEW point \in HitPoints, NEW radius \in Radii, NEW s \in Slots, IsValid(photons[s])
    PROVE  LET distance == DistanceSquared(point, photons[s].at)
               times == TimesFoundInTree(PhotonTree(photons), point, radius, photons[s])
           IN IF distance <= Square(radius)
              THEN times = 1 \/ (distance = Square(radius) /\ times = 0)
              ELSE times = 0
<1> DEFINE distance == DistanceSquared(point, photons[s].at)
           times == TimesFoundInTree(PhotonTree(photons), point, radius, photons[s])
<1>1. NumSlots \in Nat \ {0}
  <2>1. NumSlots \in Nat /\ Slots = 0 .. NumSlots - 1
    BY SlotsAreNumbers DEF NumSlots, Slots
  <2>2. QED
    BY <2>1
<1>2. Placed(Valid(photons)) /\ photons[s] \in Valid(photons)
  BY Coordinatewise DEF SlotsOK, Placed, Valid
<1>3. (\A i \in Axes : point[i] \in Int) /\ radius \in Int
  <2>1. point \in Positions /\ radius \in Nat
    BY RendererAssumption DEF Positions
  <2>2. QED
    BY <2>1, Coordinatewise
<1>4. /\ distance < Square(radius) => times = 1
      /\ distance = Square(radius) => times = 0 \/ times = 1
      /\ distance > Square(radius) => times = 0
  BY <1>1, <1>2, <1>3, TreeFindsOnce
<1>5. distance \in Int /\ Square(radius) \in Int
  <2>1. /\ \A i \in Axes : point[i] \in Int /\ photons[s].at[i] \in Int
        /\ 1 \in Axes
    BY <1>2, <1>3 DEF Placed, Axes
  <2>2. distance \in Nat
    BY <2>1, DistanceAlongAxis
  <2>3. Square(radius) \in Nat
    BY <1>3, SquareIsNatural
  <2> HIDE DEF distance
  <2>4. QED
    BY <2>2, <2>3
<1> HIDE DEF distance, times
<1>6. IF distance <= Square(radius)
      THEN times = 1 \/ (distance = Square(radius) /\ times = 0)
      ELSE times = 0
  BY <1>4, <1>5
<1>7. QED
  BY <1>6 DEF distance, times

\* The estimation in a build with the tree
LEMMA TreeGathers ==
    ASSUME MapInv, TreeInv, pc = "estimate", map.structure # "uniform grid",
           NEW point \in HitPoints, NEW radius \in Radii, NEW s \in Slots
    PROVE  LET distance == DistanceSquared(point, photons[s].at)
           IN IF IsValid(photons[s]) /\ distance <= Square(radius)
              THEN \/ TimesFoundInMap(point, radius, s) = 1
                   \/ /\ map.structure = "kd-tree" /\ distance = Square(radius)
                      /\ TimesFoundInMap(point, radius, s) = 0
              ELSE TimesFoundInMap(point, radius, s) = 0
<1>1. /\ map.structure = "kd-tree" /\ map.tree = PhotonTree(photons)
      /\ Distinct(photons, NumSlots)
  BY DEF TreeInv
<1>2. CASE ~IsValid(photons[s])
  BY <1>1, <1>2 DEF TimesFoundInMap
<1>3. CASE IsValid(photons[s])
  <2>1. TimesFoundInMap(point, radius, s)
        = TimesFoundInTree(PhotonTree(photons), point, radius, photons[s])
    BY <1>1, <1>3 DEF TimesFoundInMap
  <2>2. SlotsOK(photons)
    BY DEF MapInv
  <2>3. QED
    BY <1>1, <1>3, <2>1, <2>2, TreeCounts
<1>4. QED
  BY <1>2, <1>3

\* The tree that is searched is always that of the photons in the slots.
THEOREM TreeInvariance == Spec => []TreeInv
<1>1. Init => TreeInv
  BY DEF Init, TreeInv
<1>2. IInv /\ MapInv /\ TreeInv /\ [Next]_vars => TreeInv'
  BY TreeStaysInv
<1>3. QED
  BY <1>1, <1>2, Invariance, MapInvariance, PTL DEF Spec

\* In every build, an estimate of radiance adds up every photon within its radius once
\* and nothing else, for all photons, points and radii; only one at exactly the radius
\* may be missed, by the tree.
THEOREM GatherFindsEachPhotonOnceHolds == Spec => []GatherFindsEachPhotonOnce
<1>1. MapInv /\ TreeInv /\ (map.structure = "uniform grid" => GatherFindsEachPhotonOnce)
      => GatherFindsEachPhotonOnce
  BY TreeGathers DEF GatherFindsEachPhotonOnce
<1>2. QED
  BY <1>1, MapInvariance, TreeInvariance, GridFindsEachPhotonOnce, PTL

-----------------------------------------------------------------------------
(***************************************************************************)
(* The limits of depths and sizes                                          *)
(***************************************************************************)
RequestLimits ==
    /\ initialized \in {"not yet", "yes", "lost"}
    /\ request.sequence <= MaxSequence /\ request.iteration <= MaxIteration

\* Every segment of a path may be as deep as one alone, one surface more when it is back;
\* a ray that is traced inside glass has entered it at the last surface.
Shallow(r) ==
    /\ r.segment < NumPaths
    /\ r.depth <= MAX_RADIANCE_TRACE_DEPTH + r.segment + 1
    /\ r.stage = "tracing" => r.depth <= MAX_RADIANCE_TRACE_DEPTH + r.segment
    /\ r.stage = "tracing" /\ r.inside => r.through[Len(r.through)] = "glass"

WalkLimits == \A t \in Threads : walks[t].depth <= MAX_PHOTON_TRACE_DEPTH

LimitInv == RequestLimits /\ Shallow(ray) /\ WalkLimits

LEMMA Limits ==
    /\ MAX_PHOTON_TRACE_DEPTH \in Nat /\ MAX_RADIANCE_TRACE_DEPTH \in Nat
    /\ NumPaths \in Nat /\ NumPaths >= 1
    /\ MaxSequence \in Nat /\ MaxIteration \in Nat
<1>1. /\ {MAX_PHOTON_TRACE_DEPTH, MAX_RADIANCE_TRACE_DEPTH, NumPaths} \subseteq Nat \ {0}
      /\ {MaxPathVertices, MaxSequence, MaxIteration} \subseteq Nat
  BY RendererAssumption
<1>2. QED
  BY <1>1

\* The calls of the render manager, and the passes that complete an iteration
LEMMA RequestStays ==
    ASSUME IInv, RequestLimits, Next
    PROVE  RequestLimits'
<1>1. /\ request \in Request /\ request.sequence \in Nat /\ request.iteration \in Nat
  BY DEF IInv, TypeInv, Request
<1>2. CASE FirstIteration
  <2>1. /\ request.sequence < MaxSequence /\ initialized' = initialized
        /\ request'.sequence = request.sequence + 1 /\ request'.iteration = 0
    BY <1>2 DEF FirstIteration
  <2>2. request'.sequence <= MaxSequence
    BY <1>1, <2>1, Limits
  <2>3. request'.iteration <= MaxIteration
    BY <2>1, Limits
  <2>4. QED
    BY <2>1, <2>2, <2>3 DEF RequestLimits
<1>3. CASE NextIteration
  <2>1. /\ request.finished => request.iteration < MaxIteration
        /\ initialized' = initialized
        /\ request' = [request EXCEPT !.iteration = IF request.finished THEN @ + 1 ELSE @,
                                      !.finished = FALSE]
    BY <1>3 DEF NextIteration
  <2>2. /\ request'.sequence = request.sequence
        /\ request'.iteration = IF request.finished THEN request.iteration + 1
                                ELSE request.iteration
    BY <1>1, <2>1 DEF Request
  <2>3. request.sequence <= MaxSequence /\ request.iteration <= MaxIteration
    BY DEF RequestLimits
  <2>4. request'.iteration <= MaxIteration
    BY <1>1, <2>1, <2>2, <2>3, Limits
  <2>5. QED
    BY <2>1, <2>2, <2>3, <2>4 DEF RequestLimits
<1>4. CASE Initialize \/ InitScene \/ InitSceneFails
  <2>1. /\ initialized' \in {initialized, "yes", "lost"}
        /\ \/ request' = request
           \/ request' = [request EXCEPT !.method = "none", !.finished = FALSE]
    BY <1>4 DEF Initialize, InitScene, InitSceneFails
  <2>2. request'.sequence = request.sequence /\ request'.iteration = request.iteration
    BY <1>1, <2>1 DEF Request
  <2>3. QED
    BY <2>1, <2>2 DEF RequestLimits
<1>5. CASE EndOfRay \/ OutputPass \/ CameraPass
  <2>1. /\ initialized' = initialized
        /\ \/ request' = request
           \/ \E finished \in BOOLEAN : request' = [request EXCEPT !.finished = finished]
    BY <1>5 DEF EndOfRay, OutputPass, CameraPass
  <2>2. request'.sequence = request.sequence /\ request'.iteration = request.iteration
    BY <1>1, <2>1 DEF Request
  <2>3. QED
    BY <2>1, <2>2 DEF RequestLimits
<1>6. ASSUME UNCHANGED <<initialized, request>> PROVE RequestLimits'
  BY <1>6 DEF RequestLimits
<1>7. CASE Resize \/ ResizeFails \/ ClearOutput \/ Throws
  BY <1>6, <1>7 DEF Resize, ResizeFails, ClearOutput, Throws
<1>8. CASE LaunchRays \/ RadianceHit \/ PathSegment \/ DirectRadiance
  BY <1>6, <1>8 DEF LaunchRays, RadianceHit, PathSegment, DirectRadiance
<1>9. CASE EstimateVertexCounts \/ LaunchLightPass \/ LightPassEnds
           \/ \E p \in Pixels(width) : StoreLightVertex(p)
  BY <1>6, <1>9 DEF EstimateVertexCounts, LaunchLightPass, LightPassEnds, StoreLightVertex
<1>10. CASE LaunchPhotons \/ EstimateRadiance \/ createUniformGridPhotonMap
            \/ createPhotonKdTreeOnCPU
  BY <1>6, <1>10 DEF LaunchPhotons, EstimateRadiance, createUniformGridPhotonMap,
                     createPhotonKdTreeOnCPU, CreatesMap
<1>11. ASSUME NEW t \in Threads,
              \/ Generate(t)
              \/ DiffusePhoton(t) \/ GlossyPhoton(t) \/ TexturePhoton(t)
              \/ GlassPhoton(t) \/ MirrorPhoton(t) \/ DiffuseEmitterPhoton(t) \/ PhotonMiss(t)
       PROVE  RequestLimits'
  BY <1>6, <1>11 DEF Generate, DiffusePhoton, GlossyPhoton, TexturePhoton, GlassPhoton,
                     MirrorPhoton, DiffuseEmitterPhoton, PhotonMiss, MattPhotonHit, Walks
<1>12. QED
  BY <1>2, <1>3, <1>4, <1>5, <1>7, <1>8, <1>9, <1>10, <1>11
     DEF Next, Host, Rays, PhotonMapping, Connections

\* One surface more
LEMMA HitIsShallow ==
    ASSUME RayInv, Shallow(ray), RadianceHit
    PROVE  Shallow(ray')
<1>1. /\ ray \in RadianceRay /\ ray.stage = "tracing"
      /\ ray.depth \in Nat /\ ray.segment \in Nat /\ ray.through \in Seq(Surfaces)
  BY DEF RayInv, RadianceRay, RadianceHit
<1>2. /\ ray.segment < NumPaths /\ ray.depth <= MAX_RADIANCE_TRACE_DEPTH + ray.segment
  BY <1>1 DEF Shallow
<1>3. ASSUME NEW r, r.stage = "returned", r.segment = ray.segment,
             r.depth = ray.depth \/ r.depth = ray.depth + 1
      PROVE  Shallow(r)
  <2>1. r.depth <= MAX_RADIANCE_TRACE_DEPTH + r.segment + 1
    BY <1>1, <1>2, <1>3, Limits
  <2>2. QED
    BY <1>2, <1>3, <2>1 DEF Shallow
<1>4. CASE ray' \in {DiffuseRadiance(ray), GlossyRadiance(ray), TextureRadiance(ray),
                     DiffuseEmitterRadiance(ray), Miss(ray)}
  <2>1. /\ ray'.stage = "returned" /\ ray'.segment = ray.segment
        /\ ray'.depth = ray.depth \/ ray'.depth = ray.depth + 1
    BY <1>1, <1>4 DEF RadianceRay, DiffuseRadiance, GlossyRadiance, TextureRadiance,
                      DiffuseEmitterRadiance, Miss
  <2>2. QED
    BY <1>3, <2>1
<1>5. ASSUME NEW r, r.stage = TracesOn(ray), r.segment = ray.segment, r.depth = ray.depth + 1,
             r.inside => r.through[Len(r.through)] = "glass"
      PROVE  Shallow(r)
  <2>1. CASE ray.depth < MAX_RADIANCE_TRACE_DEPTH
    <3>1. r.depth <= MAX_RADIANCE_TRACE_DEPTH + r.segment
      BY <1>1, <1>5, <2>1, Limits
    <3>2. r.depth <= MAX_RADIANCE_TRACE_DEPTH + r.segment + 1
      BY <1>1, <1>5, <2>1, Limits
    <3>3. QED
      BY <1>2, <1>5, <3>1, <3>2 DEF Shallow
  <2>2. CASE ~(ray.depth < MAX_RADIANCE_TRACE_DEPTH)
    <3>1. r.stage = "returned"
      BY <1>5, <2>2 DEF TracesOn
    <3>2. QED
      BY <1>3, <1>5, <3>1
  <2>3. QED
    BY <2>1, <2>2
<1>6. ASSUME NEW fromOutside \in BOOLEAN, NEW reflected \in BOOLEAN,
             ray' = GlassRadiance(ray, fromOutside, reflected)
      PROVE  Shallow(ray')
  <2>1. /\ ray'.stage = TracesOn(ray) /\ ray'.segment = ray.segment
        /\ ray'.depth = ray.depth + 1 /\ ray'.through = Append(ray.through, "glass")
    BY <1>1, <1>6 DEF RadianceRay, GlassRadiance
  <2>2. ray'.through[Len(ray'.through)] = "glass"
    BY <1>1, <2>1 DEF Surfaces
  <2>3. QED
    BY <1>5, <2>1, <2>2
<1>7. CASE ray' = MirrorRadiance(ray)
  <2>1. /\ ray'.stage = TracesOn(ray) /\ ray'.segment = ray.segment
        /\ ray'.depth = ray.depth + 1 /\ ~ray'.inside
    BY <1>1, <1>7 DEF RadianceRay, MirrorRadiance
  <2>2. QED
    BY <1>5, <2>1
<1>8. QED
  BY <1>4, <1>6, <1>7 DEF RadianceHit

LEMMA NewRayIsShallow ==
    ASSUME NEW pixel, NEW r, r = [NoRay EXCEPT !.pixel = pixel]
    PROVE  Shallow(r)
<1>1. r.segment = 0 /\ r.depth = 0 /\ ~r.inside
  BY DEF NoRay
<1>2. 0 < NumPaths /\ 0 <= MAX_RADIANCE_TRACE_DEPTH + 0 /\ 0 <= MAX_RADIANCE_TRACE_DEPTH + 0 + 1
  BY Limits
<1>3. QED
  BY <1>1, <1>2 DEF Shallow

LEMMA NoRayIsShallow == Shallow(NoRay)
<1>1. NoRay = [NoRay EXCEPT !.pixel = 0]
  BY DEF NoRay
<1>2. QED
  BY <1>1, NewRayIsShallow

\* A path that goes on has one segment more to be deep in.
LEMMA RaysAreShallow ==
    ASSUME RayInv, Shallow(ray), Rays
    PROVE  Shallow(ray')
<1>1. /\ ray \in RadianceRay /\ ray.depth \in Nat /\ ray.segment \in Nat
  BY DEF RayInv, RadianceRay
<1>2. /\ ray.segment < NumPaths /\ ray.depth <= MAX_RADIANCE_TRACE_DEPTH + ray.segment + 1
  BY DEF Shallow
<1>3. ASSUME NEW r, r.stage = "done", r.segment = ray.segment, r.depth = ray.depth
      PROVE  Shallow(r)
  BY <1>2, <1>3 DEF Shallow
<1>4. CASE PathSegment
  <2>1. CASE \E sum : ray' = [ray EXCEPT !.sum = sum, !.segment = @ + 1, !.stage = "tracing",
                                         !.flags = FlagsOfNextSegment(@), !.inside = FALSE]
             /\ ray.segment + 1 < NumPaths
    <3>1. /\ ray'.segment = ray.segment + 1 /\ ray'.depth = ray.depth /\ ~ray'.inside
          /\ ray.segment + 1 < NumPaths
      BY <1>1, <2>1 DEF RadianceRay
    <3>2. ray'.depth <= MAX_RADIANCE_TRACE_DEPTH + ray'.segment
      BY <1>1, <1>2, <3>1, Limits
    <3>3. ray'.depth <= MAX_RADIANCE_TRACE_DEPTH + ray'.segment + 1
      BY <1>1, <1>2, <3>1, Limits
    <3>4. QED
      BY <3>1, <3>2, <3>3 DEF Shallow
  <2>2. CASE \E sum : ray' = [ray EXCEPT !.sum = sum, !.stage = "done"]
    <3>1. ray'.stage = "done" /\ ray'.segment = ray.segment /\ ray'.depth = ray.depth
      BY <1>1, <2>2 DEF RadianceRay
    <3>2. QED
      BY <1>3, <3>1
  <2>3. CASE ray' = [ray EXCEPT !.stage = "done"]
    <3>1. ray'.stage = "done" /\ ray'.segment = ray.segment /\ ray'.depth = ray.depth
      BY <1>1, <2>3 DEF RadianceRay
    <3>2. QED
      BY <1>3, <3>1
  <2>4. CASE /\ "emitter" \in ray.flags
             /\ ray' = [ray EXCEPT !.stage = "done",
                                   !.sum = IF "specular" \in ray.flags \/ ray.segment = 0
                                           THEN {<<"seen", ray.through>>} ELSE @]
    <3>1. ray'.stage = "done" /\ ray'.segment = ray.segment /\ ray'.depth = ray.depth
      BY <1>1, <2>4 DEF RadianceRay
    <3>2. QED
      BY <1>3, <3>1
  <2>5. ASSUME NEW goesOn \in BOOLEAN,
               ray' = IF goesOn /\ ray.segment + 1 < NumPaths
                      THEN [ray EXCEPT !.sum = @ \cup {SampledLight(ray)},
                                       !.segment = @ + 1, !.stage = "tracing",
                                       !.flags = FlagsOfNextSegment(@), !.inside = FALSE]
                      ELSE [ray EXCEPT !.sum = @ \cup {SampledLight(ray)}, !.stage = "done"]
        PROVE  Shallow(ray')
    <3> DEFINE sum == ray.sum \cup {SampledLight(ray)}
    <3>1. CASE goesOn /\ ray.segment + 1 < NumPaths
      <4>1. ray' = [ray EXCEPT !.sum = sum, !.segment = @ + 1, !.stage = "tracing",
                               !.flags = FlagsOfNextSegment(@), !.inside = FALSE]
        BY <2>5, <3>1
      <4>2. QED
        BY <2>1, <3>1, <4>1
    <3>2. CASE ~(goesOn /\ ray.segment + 1 < NumPaths)
      <4>1. ray' = [ray EXCEPT !.sum = sum, !.stage = "done"]
        BY <2>5, <3>2
      <4>2. QED
        BY <2>2, <4>1
    <3>3. QED
      BY <3>1, <3>2
  <2>6. QED
    BY <1>4, <2>3, <2>4, <2>5 DEF PathSegment
<1>5. CASE DirectRadiance
  <2>1. ray'.stage = "done" /\ ray'.segment = ray.segment /\ ray'.depth = ray.depth
    BY <1>1, <1>5 DEF RadianceRay, DirectRadiance
  <2>2. QED
    BY <1>3, <2>1
<1>6. CASE LaunchRays \/ EndOfRay
  <2>1. ray' = NoRay \/ ray' = [NoRay EXCEPT !.pixel = ray.pixel + 1]
    BY <1>6 DEF LaunchRays, EndOfRay
  <2>2. QED
    BY <2>1, NoRayIsShallow, NewRayIsShallow
<1>7. QED
  BY <1>4, <1>5, <1>6, HitIsShallow DEF Rays

\* Nothing else touches the ray.
LEMMA RayStaysShallow ==
    ASSUME RayInv, Shallow(ray), [Next]_vars
    PROVE  Shallow(ray')
<1>1. CASE Host \/ Connections \/ UNCHANGED vars
  <2>1. ray' = ray
    BY <1>1 DEF Host, Initialize, InitScene, InitSceneFails, FirstIteration, NextIteration,
                Resize, ResizeFails, ClearOutput, Throws, Connections, EstimateVertexCounts,
                LaunchLightPass, LightPassEnds, CameraPass, StoreLightVertex, vars
  <2>2. QED
    BY <2>1
<1>2. CASE PhotonMapping
  <2>1. CASE LaunchPhotons \/ EstimateRadiance \/ OutputPass \/ createUniformGridPhotonMap
             \/ createPhotonKdTreeOnCPU
    <3>1. ray' = ray
      BY <2>1 DEF LaunchPhotons, EstimateRadiance, OutputPass, createUniformGridPhotonMap,
                  createPhotonKdTreeOnCPU, CreatesMap
    <3>2. QED
      BY <3>1
  <2>2. ASSUME NEW t \in Threads,
               \/ Generate(t)
               \/ DiffusePhoton(t) \/ GlossyPhoton(t) \/ TexturePhoton(t)
               \/ GlassPhoton(t) \/ MirrorPhoton(t) \/ DiffuseEmitterPhoton(t) \/ PhotonMiss(t)
        PROVE  Shallow(ray')
    <3>1. ray' = ray
      BY <2>2 DEF Generate, DiffusePhoton, GlossyPhoton, TexturePhoton, GlassPhoton, MirrorPhoton,
                  DiffuseEmitterPhoton, PhotonMiss, MattPhotonHit, Walks
    <3>2. QED
      BY <3>1
  <2>3. QED
    BY <1>2, <2>1, <2>2 DEF PhotonMapping
<1>3. QED
  BY <1>1, <1>2, RaysAreShallow DEF Next

\* What a walk on matt surfaces becomes: one that goes on is not too deep.
LEMMA ScatteredIsShallow ==
    ASSUME NEW w \in Walk, w.state = "walking", NEW walk \in Scattered(w)
    PROVE  walk.state # "ended" => walk.depth <= MAX_PHOTON_TRACE_DEPTH
<1>1. w.depth \in Nat
  BY DEF Walk
<1>2. CASE walk = [w EXCEPT !.state = "ended"]
  BY <1>2 DEF Walk
<1>3. ASSUME NEW weak \in BOOLEAN,
             walk = [w EXCEPT !.depth = @ + 1,
                              !.state = IF weak \/ w.depth + 1 >= MAX_PHOTON_TRACE_DEPTH
                                           \/ FullThreadStops(w.stored)
                                        THEN "ended" ELSE @]
      PROVE  walk.state # "ended" => walk.depth <= MAX_PHOTON_TRACE_DEPTH
  <2> DEFINE full == FullThreadStops(w.stored)
             deep == w.depth + 1 >= MAX_PHOTON_TRACE_DEPTH
  <2>1. walk.depth = w.depth + 1
    BY <1>3 DEF Walk
  <2>2. walk.state # "ended" => ~deep
    BY <1>3 DEF Walk
  <2>3. ~deep => w.depth + 1 <= MAX_PHOTON_TRACE_DEPTH
    BY <1>1, Limits
  <2>4. QED
    BY <2>1, <2>2, <2>3
<1>4. QED
  BY <1>2, <1>3 DEF Scattered

LEMMA WalkStaysShallow ==
    ASSUME IInv, WalkLimits, NEW t \in Threads, NEW walk \in Walk, Walks(t, walk),
           walk.state # "ended" => walk.depth <= MAX_PHOTON_TRACE_DEPTH
    PROVE  WalkLimits'
<1> DEFINE next == IF walk.state = "ended" THEN [walk EXCEPT !.depth = 0] ELSE walk
<1>1. walks \in [Threads -> Walk] /\ walks' = [walks EXCEPT ![t] = next]
  BY DEF IInv, TypeInv, Walks
<1>2. next.depth <= MAX_PHOTON_TRACE_DEPTH
  <2>1. CASE walk.state = "ended"
    <3>1. next.depth = 0
      BY <2>1 DEF Walk
    <3>2. QED
      BY <3>1, Limits
  <2>2. CASE walk.state # "ended"
    BY <2>2
  <2>3. QED
    BY <2>1, <2>2
<1> HIDE DEF next
<1>3. \A u \in Threads : walks'[u] = next \/ walks'[u] = walks[u]
  BY <1>1
<1>4. QED
  BY <1>2, <1>3 DEF WalkLimits

LEMMA MattPhotonIsShallow ==
    ASSUME IInv, WalkLimits, NEW t \in Threads, NEW stores \in BOOLEAN, MattPhotonHit(t, stores)
    PROVE  WalkLimits'
<1> DEFINE stored == IF stores THEN walks[t].stored + 1 ELSE walks[t].stored
           w == [walks[t] EXCEPT !.stored = stored]
<1>1. PhotonHit(t) /\ \E walk \in Scattered(w) : Walks(t, walk)
  BY DEF MattPhotonHit
<1>2. /\ walks[t] \in Walk /\ walks[t].state = "walking"
      /\ walks[t].stored \in 0 .. MaxPhotonDeposits - 1
  <2>1. walks[t] \in Walk /\ walks[t].state = "walking"
    BY <1>1 DEF PhotonHit, IInv, TypeInv
  <2>2. walks[t].stored < MaxPhotonDeposits
    BY <2>1 DEF IInv, WalkInv
  <2>3. walks[t].stored \in 0 .. MaxPhotonDeposits
    BY <2>1 DEF Walk
  <2>4. walks[t].stored \in 0 .. MaxPhotonDeposits - 1
    BY <2>2, <2>3, HasSlotLeft
  <2>5. QED
    BY <2>1, <2>4
<1>3. stored \in 0 .. MaxPhotonDeposits
  BY <1>2, LaunchSize
<1> HIDE DEF stored
<1>4. w \in Walk /\ w.state = "walking"
  BY <1>2, <1>3 DEF Walk
<1> HIDE DEF w
<1>5. PICK walk \in Scattered(w) : Walks(t, walk)
  BY <1>1
<1>6. walk \in Walk /\ (walk.state # "ended" => walk.depth <= MAX_PHOTON_TRACE_DEPTH)
  BY <1>4, ScatteredIsWalk, ScatteredIsShallow
<1>7. QED
  BY <1>5, <1>6, WalkStaysShallow

\* Glass and mirrors pass a photon on until it is too deep; emitters and misses end it.
LEMMA PassedPhotonIsShallow ==
    ASSUME IInv, WalkLimits, NEW t \in Threads,
           GlassPhoton(t) \/ MirrorPhoton(t) \/ DiffuseEmitterPhoton(t) \/ PhotonMiss(t)
    PROVE  WalkLimits'
<1>1. PhotonHit(t)
  BY DEF GlassPhoton, MirrorPhoton, DiffuseEmitterPhoton, PhotonMiss
<1>2. /\ walks[t] \in Walk /\ walks[t].state = "walking" /\ walks[t].depth \in Nat
  BY <1>1 DEF PhotonHit, IInv, TypeInv, Walk
<1>3. CASE GlassPhoton(t) \/ MirrorPhoton(t)
  <2> DEFINE walk == PassedOn(walks[t])
             deeper == walks[t].depth + 1
             state == IF SpecularGoesOn(deeper) THEN walks[t].state ELSE "ended"
  <2>1. Walks(t, walk)
    BY <1>3 DEF GlassPhoton, MirrorPhoton
  <2>2. walk = [walks[t] EXCEPT !.depth = deeper, !.state = state]
    BY DEF PassedOn
  <2>3. deeper \in Nat /\ state \in WalkStates
    BY <1>2 DEF WalkStates
  <2>4. state # "ended" => deeper <= MAX_PHOTON_TRACE_DEPTH
    BY DEF SpecularGoesOn
  <2> HIDE DEF walk, deeper, state
  <2>5. walk \in Walk /\ walk.state = state /\ walk.depth = deeper
    BY <1>2, <2>2, <2>3 DEF Walk
  <2>6. QED
    BY <2>1, <2>4, <2>5, WalkStaysShallow
<1>4. CASE DiffuseEmitterPhoton(t) \/ PhotonMiss(t)
  <2>1. PICK depth \in Nat : Walks(t, [walks[t] EXCEPT !.depth = depth, !.state = "ended"])
    <3>1. CASE DiffuseEmitterPhoton(t)
      <4>1. Walks(t, [walks[t] EXCEPT !.depth = walks[t].depth + 1, !.state = "ended"])
        BY <3>1 DEF DiffuseEmitterPhoton
      <4>2. walks[t].depth + 1 \in Nat
        BY <1>2
      <4>3. QED
        BY <4>1, <4>2
    <3>2. CASE PhotonMiss(t)
      <4>1. [walks[t] EXCEPT !.state = "ended"]
                = [walks[t] EXCEPT !.depth = walks[t].depth, !.state = "ended"]
        BY <1>2 DEF Walk
      <4>2. Walks(t, [walks[t] EXCEPT !.state = "ended"])
        BY <3>2 DEF PhotonMiss
      <4>3. QED
        BY <1>2, <4>1, <4>2
    <3>3. QED
      BY <1>4, <3>1, <3>2
  <2> DEFINE walk == [walks[t] EXCEPT !.depth = depth, !.state = "ended"]
  <2>2. walk \in Walk /\ walk.state = "ended"
    BY <1>2 DEF Walk, WalkStates
  <2>3. Walks(t, walk)
    BY <2>1
  <2> HIDE DEF walk
  <2>4. QED
    BY <2>2, <2>3, WalkStaysShallow
<1>5. QED
  BY <1>3, <1>4

LEMMA WalksAreShallow ==
    ASSUME IInv, WalkLimits, [Next]_vars
    PROVE  WalkLimits'
<1>1. ASSUME walks' = walks PROVE WalkLimits'
  BY <1>1 DEF WalkLimits
<1>2. CASE Host \/ Rays \/ Connections \/ UNCHANGED vars
  <2>1. walks' = walks
    BY <1>2 DEF Host, Initialize, InitScene, InitSceneFails, FirstIteration, NextIteration,
                Resize, ResizeFails, ClearOutput, Throws, Rays, LaunchRays, RadianceHit,
                PathSegment, DirectRadiance, EndOfRay, Connections, EstimateVertexCounts,
                LaunchLightPass, LightPassEnds, CameraPass, StoreLightVertex, vars
  <2>2. QED
    BY <1>1, <2>1
<1>3. CASE LaunchPhotons \/ EstimateRadiance \/ OutputPass
  BY <1>1, <1>3 DEF LaunchPhotons, EstimateRadiance, OutputPass
<1>4. CASE createUniformGridPhotonMap \/ createPhotonKdTreeOnCPU
  <2>1. walks' = [t \in Threads |-> NotStarted]
    BY <1>4 DEF createUniformGridPhotonMap, createPhotonKdTreeOnCPU, CreatesMap
  <2>2. 0 <= MAX_PHOTON_TRACE_DEPTH /\ NotStarted.depth = 0
    BY Limits DEF NotStarted
  <2>3. QED
    BY <2>1, <2>2 DEF WalkLimits
<1>5. ASSUME NEW t \in Threads, Generate(t) PROVE WalkLimits'
  <2>1. walks \in [Threads -> Walk] /\ walks' = [walks EXCEPT ![t].state = "walking"]
    BY <1>5 DEF IInv, TypeInv, Generate
  <2>2. \A u \in Threads : walks'[u].depth = walks[u].depth
    BY <2>1 DEF Walk
  <2>3. QED
    BY <2>2 DEF WalkLimits
<1>6. ASSUME NEW t \in Threads, DiffusePhoton(t) \/ GlossyPhoton(t) \/ TexturePhoton(t)
      PROVE  WalkLimits'
  <2> DEFINE counted == walks[t].depth >= 1 /\ walks[t].stored < MaxPhotonDeposits
             uncounted == walks[t].depth >= 1
  <2>1. MattPhotonHit(t, counted) \/ MattPhotonHit(t, uncounted)
    BY <1>6 DEF DiffusePhoton, GlossyPhoton, TexturePhoton
  <2>2. counted \in BOOLEAN /\ uncounted \in BOOLEAN
    OBVIOUS
  <2> HIDE DEF counted, uncounted
  <2>3. QED
    BY <2>1, <2>2, MattPhotonIsShallow
<1>7. QED
  BY <1>2, <1>3, <1>4, <1>5, <1>6, PassedPhotonIsShallow DEF Next, PhotonMapping

\* No ray, path or photon goes deeper than its program allows, and no request leaves the
\* bounds.
THEOREM LimitInvariance == Spec => []LimitInv
<1>1. Init => LimitInv
  <2> SUFFICES ASSUME Init PROVE LimitInv
    OBVIOUS
  <2>1. RequestLimits
    <3>1. initialized = "not yet" /\ request.sequence = 0 /\ request.iteration = 0
      BY DEF Init
    <3>2. 0 <= MaxSequence /\ 0 <= MaxIteration
      BY Limits
    <3>3. QED
      BY <3>1, <3>2 DEF RequestLimits
  <2>2. Shallow(ray)
    BY NoRayIsShallow DEF Init
  <2>3. WalkLimits
    <3>1. walks = [t \in Threads |-> NotStarted]
      BY DEF Init
    <3>2. 0 <= MAX_PHOTON_TRACE_DEPTH /\ NotStarted.depth = 0
      BY Limits DEF NotStarted
    <3>3. QED
      BY <3>1, <3>2 DEF WalkLimits
  <2>4. QED
    BY <2>1, <2>2, <2>3 DEF LimitInv
<1>2. IInv /\ RayInv /\ LimitInv /\ [Next]_vars => LimitInv'
  <2> SUFFICES ASSUME IInv, RayInv, LimitInv, [Next]_vars PROVE LimitInv'
    OBVIOUS
  <2>1. RequestLimits'
    <3>1. UNCHANGED vars => RequestLimits'
      BY DEF LimitInv, RequestLimits, vars
    <3>2. QED
      BY <3>1, RequestStays DEF LimitInv
  <2>2. Shallow(ray')
    BY RayStaysShallow DEF LimitInv
  <2>3. WalkLimits'
    BY WalksAreShallow DEF LimitInv
  <2>4. QED
    BY <2>1, <2>2, <2>3 DEF LimitInv
<1>3. QED
  BY <1>1, <1>2, Invariance, RayInvariance, PTL DEF Spec

\* There are no more vertices of light paths than the pixels have places for.
LEMMA VerticesAreFew ==
    ASSUME NEW size \in FrameSizes, NEW counts \in [Pixels(size) -> 0 .. MaxPathVertices]
    PROVE  Cardinality(VerticesOf(counts)) <= NumPixels(size) * MaxPathVertices
<1> DEFINE m == MaxPathVertices
           n == NumPixels(size)
           nths == 0 .. m - 1
           pixels == 0 .. n - 1
<1>1. m \in Nat /\ n \in Nat
  BY PathsAreBounded, PixelsAreFinite
<1>2. VerticesOf(counts) \subseteq pixels \X nths
  BY DEF VerticesOf, VertexIndices, Pixels
<1> HIDE DEF m, n
<1>3. /\ IsFiniteSet(nths) /\ Cardinality(nths) = m
      /\ IsFiniteSet(pixels) /\ Cardinality(pixels) = n
  <2>1. ASSUME NEW k \in Nat PROVE IsFiniteSet(0 .. k - 1) /\ Cardinality(0 .. k - 1) = k
    <3>1. IsFiniteSet(0 .. k - 1) /\ Cardinality(0 .. k - 1) = IF 0 > k - 1 THEN 0 ELSE k - 1 - 0 + 1
      BY FS_Interval
    <3>2. QED
      BY <3>1
  <2>2. QED
    BY <1>1, <2>1
<1> HIDE DEF nths, pixels
<1>4. IsFiniteSet(pixels \X nths) /\ Cardinality(pixels \X nths) = n * m
  BY <1>3, FS_Product
<1>5. Cardinality(VerticesOf(counts)) <= n * m
  BY <1>2, <1>4, FS_Subset
<1>6. QED
  BY <1>5 DEF n, m

\* The types, and the limits of depths and sizes the programs rely on
THEOREM TypeOKHolds == Spec => []TypeOK
<1>1. IInv /\ VertexInv /\ RayInv /\ MapInv /\ LimitInv => TypeOK
  <2> SUFFICES ASSUME IInv, VertexInv, RayInv, MapInv, LimitInv PROVE TypeOK
    OBVIOUS
  <2>1. /\ initialized \in {"not yet", "yes", "lost"}
        /\ request.sequence \in 0 .. MaxSequence /\ request.iteration \in 0 .. MaxIteration
    <3>1. request.sequence \in Nat /\ request.iteration \in Nat
      BY DEF IInv, TypeInv, Request
    <3>2. /\ initialized \in {"not yet", "yes", "lost"}
          /\ request.sequence <= MaxSequence /\ request.iteration <= MaxIteration
      BY DEF LimitInv, RequestLimits
    <3>3. ASSUME NEW n \in Nat, NEW m \in Nat, n <= m PROVE n \in 0 .. m
      BY <3>3
    <3>4. MaxSequence \in Nat /\ MaxIteration \in Nat
      BY Limits
    <3>5. QED
      BY <3>1, <3>2, <3>3, <3>4
  <2>2. /\ width \in Sizes \cup {InitialSize}
        /\ \A b \in DOMAIN buffers : buffers[b] \in Sizes \cup {InitialSize, NoSize}
    BY DEF VertexInv, LightTypes, FrameSizes, BufferSizes
  <2>3. /\ ray.depth \in 0 .. MAX_RADIANCE_TRACE_DEPTH + NumPaths
        /\ ray.segment \in 0 .. NumPaths - 1
        /\ ray.inside /\ ray.stage = "tracing" => ray.through[Len(ray.through)] = "glass"
    <3>1. ray.depth \in Nat /\ ray.segment \in Nat
      BY DEF RayInv, RadianceRay
    <3>2. /\ ray.segment < NumPaths /\ ray.depth <= MAX_RADIANCE_TRACE_DEPTH + ray.segment + 1
          /\ ray.inside /\ ray.stage = "tracing" => ray.through[Len(ray.through)] = "glass"
      BY DEF LimitInv, Shallow
    <3>3. ray.depth \in 0 .. MAX_RADIANCE_TRACE_DEPTH + NumPaths
      BY <3>1, <3>2, Limits
    <3>4. ray.segment \in 0 .. NumPaths - 1
      BY <3>1, <3>2, Limits
    <3>5. QED
      BY <3>2, <3>3, <3>4
  <2>4. \A t \in Threads : walks[t].depth \in 0 .. MAX_PHOTON_TRACE_DEPTH
    <3>1. \A t \in Threads : walks[t].depth \in Nat
      BY DEF IInv, TypeInv, Walk
    <3>2. \A t \in Threads : walks[t].depth <= MAX_PHOTON_TRACE_DEPTH
      BY DEF LimitInv, WalkLimits
    <3>3. QED
      BY <3>1, <3>2, Limits
  <2>5. NumCells(map.grid.size) <= PHOTON_GRID_MAX_SIZE
    BY DEF MapInv
  <2>6. pc \in {"light paths", "camera"} => light.counter <= NumPixels(width) * MaxPathVertices
    BY VerticesAreFew DEF VertexInv, LightTypes, LaunchInv, PlaceInv, Paths
  <2>7. QED
    BY <2>1, <2>2, <2>3, <2>4, <2>5, <2>6 DEF TypeOK
<1>2. QED
  BY <1>1, Invariance, VertexInvariance, RayInvariance, MapInvariance, LimitInvariance, PTL

-----------------------------------------------------------------------------
(***************************************************************************)
(* Loops over a file                                                       *)
(***************************************************************************)

\* loadLightSources adds a light, or not.
SourceAdded(file, before, i) ==
    IF file.lights[i] = "POINT" THEN Append(before, PointLight(i))
    ELSE IF file.lights[i] = "SPOT" THEN Append(before, SpotLight(i))
    ELSE before

\* The loop of loadLightSources, one light after the other
LEMMA SourcesOneByOne ==
    ASSUME NEW file, Len(file.lights) \in Nat
    PROVE  \E f : /\ f[0] = <<>>
                  /\ \A i \in 1 .. Len(file.lights) : f[i] = SourceAdded(file, f[i - 1], i)
                  /\ LightSources(file) = f[Len(file.lights)]
<1> DEFINE n == Len(file.lights)
           Value(f, i) == IF i = 0 THEN <<>> ELSE SourceAdded(file, f[i - 1], i)
           S == {m \in Nat : \E f : f = [i \in 0 .. m |-> Value(f, i)]}
           F == CHOOSE f : f = [i \in 0 .. n |-> Value(f, i)]
<1>1. 0 \in S
  <2> DEFINE f == [i \in 0 .. 0 |-> <<>>]
  <2>1. f = [i \in 0 .. 0 |-> Value(f, i)]
    OBVIOUS
  <2>2. QED
    BY <2>1
<1>2. \A m \in Nat : m \in S => m + 1 \in S
  <2> SUFFICES ASSUME NEW m \in Nat, NEW f, f = [i \in 0 .. m |-> Value(f, i)]
               PROVE  m + 1 \in S
    OBVIOUS
  <2> DEFINE g == [i \in 0 .. m + 1 |-> Value(f, i)]
  <2>1. \A i \in 0 .. m + 1 : i = 0 \/ (i # 0 /\ i - 1 \in 0 .. m /\ i - 1 \in 0 .. m + 1)
    OBVIOUS
  <2>2. \A i \in 0 .. m : g[i] = f[i]
    OBVIOUS
  <2>3. \A i \in 0 .. m + 1 : Value(g, i) = Value(f, i)
    <3> HIDE DEF g
    <3>1. QED
      BY <2>1, <2>2
  <2>4. g = [i \in 0 .. m + 1 |-> Value(g, i)]
    <3> HIDE DEF Value
    <3>1. QED
      BY <2>3
  <2>5. m + 1 \in Nat
    OBVIOUS
  <2> HIDE DEF g, Value
  <2>6. QED
    BY <2>4, <2>5
<1>3. n \in S
  <2> HIDE DEF S
  <2>1. n \in Nat
    OBVIOUS
  <2>2. QED
    BY <1>1, <1>2, <2>1, SetInduction
<1>4. F = [i \in 0 .. n |-> Value(F, i)]
  BY <1>3
<1>5. LightSources(file) = F[n]
  BY DEF LightSources, SourceAdded
<1> HIDE DEF F
<1>6. \A i \in 0 .. n : F[i] = Value(F, i)
  BY <1>4
<1>7. n \in Nat /\ 0 \in 0 .. n /\ \A i \in 1 .. n : i \in 0 .. n /\ i # 0
  OBVIOUS
<1>8. QED
  BY <1>5, <1>6, <1>7

\* The loop of createFromFile, one mesh after the other
LEMMA MeshesOneByOne ==
    ASSUME NEW file, Len(file.meshes) \in Nat
    PROVE  \E f : /\ f[0] = NewScene(file)
                  /\ \A i \in 1 .. Len(file.meshes) : f[i] = LoadMeshLightSource(f[i - 1], i)
                  /\ CreateFromFile(file) = f[Len(file.meshes)]
<1> DEFINE n == Len(file.meshes)
           Value(f, i) == IF i = 0 THEN NewScene(file) ELSE LoadMeshLightSource(f[i - 1], i)
           S == {m \in Nat : \E f : f = [i \in 0 .. m |-> Value(f, i)]}
           F == CHOOSE f : f = [i \in 0 .. n |-> Value(f, i)]
<1>1. 0 \in S
  <2> DEFINE f == [i \in 0 .. 0 |-> NewScene(file)]
  <2>1. f = [i \in 0 .. 0 |-> Value(f, i)]
    OBVIOUS
  <2>2. QED
    BY <2>1
<1>2. \A m \in Nat : m \in S => m + 1 \in S
  <2> SUFFICES ASSUME NEW m \in Nat, NEW f, f = [i \in 0 .. m |-> Value(f, i)]
               PROVE  m + 1 \in S
    OBVIOUS
  <2> DEFINE g == [i \in 0 .. m + 1 |-> Value(f, i)]
  <2>1. \A i \in 0 .. m + 1 : i = 0 \/ (i # 0 /\ i - 1 \in 0 .. m /\ i - 1 \in 0 .. m + 1)
    OBVIOUS
  <2>2. \A i \in 0 .. m : g[i] = f[i]
    OBVIOUS
  <2>3. \A i \in 0 .. m + 1 : Value(g, i) = Value(f, i)
    <3> HIDE DEF g
    <3>1. QED
      BY <2>1, <2>2
  <2>4. g = [i \in 0 .. m + 1 |-> Value(g, i)]
    <3> HIDE DEF Value
    <3>1. QED
      BY <2>3
  <2>5. m + 1 \in Nat
    OBVIOUS
  <2> HIDE DEF g, Value
  <2>6. QED
    BY <2>4, <2>5
<1>3. n \in S
  <2> HIDE DEF S
  <2>1. n \in Nat
    OBVIOUS
  <2>2. QED
    BY <1>1, <1>2, <2>1, SetInduction
<1>4. F = [i \in 0 .. n |-> Value(F, i)]
  BY <1>3
<1>5. CreateFromFile(file) = F[n]
  BY DEF CreateFromFile
<1> HIDE DEF F
<1>6. \A i \in 0 .. n : F[i] = Value(F, i)
  BY <1>4
<1>7. n \in Nat /\ 0 \in 0 .. n /\ \A i \in 1 .. n : i \in 0 .. n /\ i # 0
  OBVIOUS
<1>8. QED
  BY <1>5, <1>6, <1>7

\* The loop of getGroupFromNode, one mesh of the graph after the other
LEMMA InstancesOneByOne ==
    ASSUME NEW s, NEW meshes, meshes = MeshesOfGraph(FlatGraph(s.file)), Len(meshes) \in Nat
    PROVE  \E f : /\ f[0] = [instances |-> <<>>, scene |-> s]
                  /\ \A i \in 1 .. Len(meshes) : f[i] = AddInstance(f[i - 1], meshes[i])
                  /\ SceneRootGroup(s) = f[Len(meshes)]
<1> DEFINE n == Len(meshes)
           Value(f, i) == IF i = 0 THEN [instances |-> <<>>, scene |-> s] ELSE AddInstance(f[i - 1], meshes[i])
           S == {m \in Nat : \E f : f = [i \in 0 .. m |-> Value(f, i)]}
           F == CHOOSE f : f = [i \in 0 .. n |-> Value(f, i)]
<1>1. 0 \in S
  <2> DEFINE f == [i \in 0 .. 0 |-> [instances |-> <<>>, scene |-> s]]
  <2>1. f = [i \in 0 .. 0 |-> Value(f, i)]
    OBVIOUS
  <2>2. QED
    BY <2>1
<1>2. \A m \in Nat : m \in S => m + 1 \in S
  <2> SUFFICES ASSUME NEW m \in Nat, NEW f, f = [i \in 0 .. m |-> Value(f, i)]
               PROVE  m + 1 \in S
    OBVIOUS
  <2> DEFINE g == [i \in 0 .. m + 1 |-> Value(f, i)]
  <2>1. \A i \in 0 .. m + 1 : i = 0 \/ (i # 0 /\ i - 1 \in 0 .. m /\ i - 1 \in 0 .. m + 1)
    OBVIOUS
  <2>2. \A i \in 0 .. m : g[i] = f[i]
    OBVIOUS
  <2>3. \A i \in 0 .. m + 1 : Value(g, i) = Value(f, i)
    <3> HIDE DEF g
    <3>1. QED
      BY <2>1, <2>2
  <2>4. g = [i \in 0 .. m + 1 |-> Value(g, i)]
    <3> HIDE DEF Value
    <3>1. QED
      BY <2>3
  <2>5. m + 1 \in Nat
    OBVIOUS
  <2> HIDE DEF g, Value
  <2>6. QED
    BY <2>4, <2>5
<1>3. n \in S
  <2> HIDE DEF S
  <2>1. n \in Nat
    OBVIOUS
  <2>2. QED
    BY <1>1, <1>2, <2>1, SetInduction
<1>4. F = [i \in 0 .. n |-> Value(F, i)]
  BY <1>3
<1>5. SceneRootGroup(s) = F[n]
  BY DEF SceneRootGroup
<1> HIDE DEF F
<1>6. \A i \in 0 .. n : F[i] = Value(F, i)
  BY <1>4
<1>7. n \in Nat /\ 0 \in 0 .. n /\ \A i \in 1 .. n : i \in 0 .. n /\ i # 0
  OBVIOUS
<1>8. QED
  BY <1>5, <1>6, <1>7

\* The graph that assimp leaves is flattened to the meshes in their order.
Numbers(k) == [m \in 1 .. k |-> m]

LEMMA NumbersAreSequences ==
    ASSUME NEW k \in Nat
    PROVE  /\ Numbers(k) \in Seq(Nat) /\ Len(Numbers(k)) = k
           /\ \A m \in 1 .. k : Numbers(k)[m] = m
           /\ Numbers(k) \o <<>> = Numbers(k)
           /\ Numbers(k) \o <<k + 1>> = Numbers(k + 1)
<1>1. \A j \in Nat : /\ Numbers(j) \in Seq(Nat) /\ Len(Numbers(j)) = j
                     /\ \A m \in 1 .. j : Numbers(j)[m] = m
  BY DEF Numbers
<1>2. Numbers(k) \o <<>> = Numbers(k)
  BY <1>1, ConcatEmptySeq
<1>3. Numbers(k) \o <<k + 1>> = Numbers(k + 1)
  <2> DEFINE longer == Numbers(k) \o <<k + 1>>
  <2>1. <<k + 1>> \in Seq(Nat) /\ Len(<<k + 1>>) = 1 /\ <<k + 1>>[1] = k + 1 /\ k + 1 \in Nat
    OBVIOUS
  <2>2. longer \in Seq(Nat) /\ Len(longer) = k + 1
        /\ \A m \in 1 .. k + 1 : longer[m] = IF m <= k THEN Numbers(k)[m] ELSE <<k + 1>>[m - k]
    BY <1>1, <2>1, ConcatProperties
  <2> HIDE DEF longer
  <2>3. \A m \in 1 .. k + 1 : longer[m] = m
    <3> SUFFICES ASSUME NEW m \in 1 .. k + 1 PROVE longer[m] = m
      OBVIOUS
    <3>1. (m <= k /\ m \in 1 .. k) \/ (~(m <= k) /\ m = k + 1 /\ m - k = 1)
      OBVIOUS
    <3>2. QED
      BY <1>1, <2>1, <2>2, <3>1
  <2>4. longer = Numbers(k + 1)
    BY <1>1, <2>1, <2>2, <2>3, SeqEqual
  <2>5. QED
    BY <2>4 DEF longer
<1>4. QED
  BY <1>1, <1>2, <1>3

LEMMA FlatMeshesInOrder ==
    ASSUME NEW n \in Nat, NEW N \in Nat, n <= N,
           NEW lists, lists = [c \in 1 .. N |-> IF c <= n THEN <<c>> ELSE <<>>]
    PROVE  FlattenSeq(lists) = Numbers(n)
<1>1. Len(lists) = N /\ \A c \in 1 .. N : lists[c] = IF c <= n THEN <<c>> ELSE <<>>
  <2>1. lists \in Seq(Seq(Nat))
    <3>1. \A c \in 1 .. N : lists[c] \in Seq(Nat)
      OBVIOUS
    <3>2. lists \in [1 .. N -> Seq(Nat)]
      BY <3>1
    <3>3. QED
      BY <3>2
  <2>2. QED
    BY <2>1
<1>2. CASE N = 0
  <2>1. lists = Numbers(n)
    BY <1>2 DEF Numbers
  <2>2. QED
    BY <1>1, <1>2, <2>1 DEF FlattenSeq
<1>3. CASE N # 0
  <2> DEFINE Least(i) == IF i <= n THEN i ELSE n
             Value(f, i) == IF i = 1 THEN lists[i] ELSE f[i - 1] \o lists[i]
             F == CHOOSE f : f = [i \in 1 .. Len(lists) |-> Value(f, i)]
             G == [i \in 1 .. N |-> Numbers(Least(i))]
  <2>1. ASSUME NEW i \in 1 .. N, NEW f, i # 1 => f[i - 1] = Numbers(Least(i - 1))
        PROVE  Value(f, i) = Numbers(Least(i))
    <3>1. lists[i] = IF i <= n THEN <<i>> ELSE <<>>
      BY <1>1
    <3>2. CASE i = 1
      <4>1. Numbers(0) = <<>> /\ Numbers(1) = <<1>>
        <5>1. Numbers(0) = <<>>
          BY DEF Numbers
        <5>2. Numbers(0) \o <<1>> = Numbers(1) /\ <<>> \o <<1>> = <<1>>
          <6>1. Numbers(0) \o <<0 + 1>> = Numbers(0 + 1) /\ 0 + 1 = 1
            BY NumbersAreSequences
          <6>2. QED
            BY <6>1, ConcatEmptySeq
        <5>3. QED
          BY <5>1, <5>2
      <4>2. Least(i) = IF 1 <= n THEN 1 ELSE 0
        BY <3>2
      <4>3. QED
        BY <3>1, <3>2, <4>1, <4>2
    <3>3. CASE i # 1
      <4>1. Value(f, i) = Numbers(Least(i - 1)) \o lists[i]
        BY <2>1, <3>3
      <4>2. CASE i <= n
        <5>1. Least(i - 1) = i - 1 /\ Least(i) = i /\ i - 1 \in Nat /\ i - 1 + 1 = i
          BY <3>3, <4>2
        <5>2. Numbers(i - 1) \o <<i - 1 + 1>> = Numbers(i - 1 + 1)
          BY <5>1, NumbersAreSequences
        <5>3. QED
          BY <3>1, <4>1, <4>2, <5>1, <5>2
      <4>3. CASE ~(i <= n)
        <5>1. Least(i - 1) = n /\ Least(i) = n
          BY <3>3, <4>3
        <5>2. QED
          BY <3>1, <4>1, <4>3, <5>1, NumbersAreSequences
      <4>4. QED
        BY <4>2, <4>3
    <3>4. QED
      BY <3>2, <3>3
  <2>2. G = [i \in 1 .. N |-> Value(G, i)]
    <3> HIDE DEF Value, Least
    <3>1. \A i \in 1 .. N : i # 1 => i - 1 \in 1 .. N
      OBVIOUS
    <3>2. \A i \in 1 .. N : i # 1 => G[i - 1] = Numbers(Least(i - 1))
      BY <3>1
    <3>3. \A i \in 1 .. N : Value(G, i) = Numbers(Least(i))
      BY <2>1, <3>2
    <3>4. QED
      BY <3>3
  <2>3. F = [i \in 1 .. N |-> Value(F, i)]
    <3> HIDE DEF G, Value
    <3>1. QED
      BY <1>1, <2>2
  <2>4. FlattenSeq(lists) = F[N]
    BY <1>1, <1>3 DEF FlattenSeq
  <2> HIDE DEF F, G
  <2> DEFINE S == {m \in Nat : m \in 1 .. N => F[m] = Numbers(Least(m))}
  <2>5. 0 \in S
    OBVIOUS
  <2>6. \A m \in Nat : m \in S => m + 1 \in S
    <3> SUFFICES ASSUME NEW m \in Nat, m \in S, m + 1 \in 1 .. N
                 PROVE  F[m + 1] = Numbers(Least(m + 1))
      OBVIOUS
    <3> DEFINE i == m + 1
    <3>1. i # 1 => (i - 1 = m /\ m \in 1 .. N)
      OBVIOUS
    <3>2. i # 1 => F[i - 1] = Numbers(Least(i - 1))
      BY <3>1
    <3>3. i \in 1 .. N
      OBVIOUS
    <3> HIDE DEF i, Value, Least, S
    <3>4. F[i] = Value(F, i)
      BY <2>3, <3>3
    <3>5. F[i] = Numbers(Least(i))
      BY <2>1, <3>2, <3>3, <3>4
    <3>6. QED
      BY <3>5 DEF i
  <2>7. N \in S
    <3> HIDE DEF S
    <3>1. QED
      BY <2>5, <2>6, SetInduction
  <2>8. F[N] = Numbers(n)
    <3>1. N \in 1 .. N /\ Least(N) = n
      BY <1>3
    <3>2. QED
      BY <2>7, <3>1
  <2>9. QED
    BY <2>4, <2>8
<1>4. QED
  BY <1>2, <1>3

LEMMA MeshesInOrder ==
    ASSUME NEW file, IsFile(file)
    PROVE  MeshesOfGraph(FlatGraph(file)) = Numbers(Len(file.meshes))
<1> DEFINE n == Len(file.meshes)
           nodes == FlatGraph(file)
           Below(u, k) == [c \in DOMAIN nodes[k].children |-> u[nodes[k].children[c]]]
           Value(u, k) == IF nodes[k].meshes # <<>> THEN nodes[k].meshes
                          ELSE FlattenSeq(Below(u, k))
           F == CHOOSE u : u = [k \in DOMAIN nodes |-> Value(u, k)]
<1>1. n \in Nat /\ Len(file.lights) \in Nat
  BY DEF IsFile
<1>2. MeshesOfGraph(nodes) = F[1]
  BY DEF MeshesOfGraph
<1>3. CASE n = 1 /\ file.lights = <<>>
  <2>1. nodes = <<[meshes |-> <<1>>, children |-> <<>>]>>
    BY <1>3 DEF FlatGraph
  <2> HIDE DEF nodes
  <2>2. DOMAIN nodes = {1} /\ nodes[1].meshes = <<1>> /\ <<1>> # <<>>
    BY <2>1
  <2> DEFINE G == [k \in DOMAIN nodes |-> <<1>>]
  <2>3. G = [k \in DOMAIN nodes |-> Value(G, k)]
    BY <2>2
  <2>4. F = [k \in DOMAIN nodes |-> Value(F, k)]
    <3> HIDE DEF G, Value
    <3>1. QED
      BY <2>3
  <2> HIDE DEF F
  <2>5. F[1] = <<1>>
    BY <2>2, <2>4
  <2>6. Numbers(1) = <<1>>
    BY DEF Numbers
  <2>7. QED
    BY <1>2, <1>3, <2>5, <2>6 DEF nodes
<1>4. CASE ~(n = 1 /\ file.lights = <<>>)
  <2> DEFINE N == n + Len(file.lights)
             root == [meshes |-> <<>>, children |-> [c \in 1 .. N |-> c + 1]]
             node(c) == [meshes |-> IF c <= n THEN <<c>> ELSE <<>>, children |-> <<>>]
             rest == [c \in 1 .. N |-> node(c)]
             T == {root} \cup {node(c) : c \in 1 .. N}
  <2>1. N \in Nat /\ n <= N
    <3>1. \A a, b \in Nat : a + b \in Nat /\ a <= a + b
      OBVIOUS
    <3>2. QED
      BY <1>1, <3>1
  <2>2. nodes = <<root>> \o rest
    BY <1>4 DEF FlatGraph
  <2>3. /\ DOMAIN nodes = 1 .. N + 1 /\ nodes[1] = root
        /\ \A c \in 1 .. N : nodes[c + 1] = node(c)
    <3>1. rest \in Seq(T) /\ <<root>> \in Seq(T) /\ Len(rest) = N /\ Len(<<root>>) = 1
          /\ <<root>>[1] = root
      <4>1. \A c \in 1 .. N : node(c) \in T
        OBVIOUS
      <4>2. root \in T
        OBVIOUS
      <4> HIDE DEF T, root, node, N
      <4>3. rest \in [1 .. N -> T]
        BY <4>1
      <4>4. QED
        BY <2>1, <4>2, <4>3
    <3>2. \A c \in 1 .. N : rest[c] = node(c)
      OBVIOUS
    <3> HIDE DEF T, root, node, rest, nodes, N
    <3>3. /\ nodes \in Seq(T) /\ Len(nodes) = 1 + N
          /\ \A k \in 1 .. 1 + N : nodes[k] = IF k <= 1 THEN <<root>>[k] ELSE rest[k - 1]
      BY <2>1, <2>2, <3>1, ConcatProperties
    <3>4. /\ 1 + N = N + 1 /\ 1 \in 1 .. 1 + N /\ 1 <= 1
          /\ \A c \in 1 .. N : c + 1 \in 1 .. 1 + N /\ ~(c + 1 <= 1) /\ c + 1 - 1 = c
      BY <2>1
    <3>5. QED
      BY <3>1, <3>2, <3>3, <3>4
  <2>4. /\ nodes[1].meshes = <<>> /\ DOMAIN nodes[1].children = 1 .. N
        /\ \A c \in 1 .. N : nodes[1].children[c] = c + 1
    BY <2>3
  <2>5. /\ \A c \in 1 .. N : nodes[c + 1].meshes = IF c <= n THEN <<c>> ELSE <<>>
        /\ \A c \in 1 .. N : nodes[c + 1].children = <<>>
    <3> SUFFICES ASSUME NEW c \in 1 .. N
                 PROVE  /\ nodes[c + 1].meshes = IF c <= n THEN <<c>> ELSE <<>>
                        /\ nodes[c + 1].children = <<>>
      OBVIOUS
    <3>1. /\ node(c).meshes = IF c <= n THEN <<c>> ELSE <<>>
          /\ node(c).children = <<>>
      OBVIOUS
    <3>2. nodes[c + 1] = node(c)
      BY <2>3
    <3> HIDE DEF nodes, N, n, node
    <3>3. QED
      BY <3>1, <3>2
  <2> HIDE DEF nodes, N
  <2>6. \A u : \A c \in 1 .. N : Value(u, c + 1) = IF c <= n THEN <<c>> ELSE <<>>
    <3> SUFFICES ASSUME NEW u, NEW c \in 1 .. N
                 PROVE  Value(u, c + 1) = IF c <= n THEN <<c>> ELSE <<>>
      OBVIOUS
    <3> HIDE DEF Below
    <3>1. CASE c <= n
      <4>1. nodes[c + 1].meshes = <<c>> /\ <<c>> # <<>>
        BY <2>5, <3>1
      <4>2. QED
        BY <3>1, <4>1
    <3>2. CASE ~(c <= n)
      <4>1. nodes[c + 1].meshes = <<>> /\ nodes[c + 1].children = <<>>
        BY <2>5, <3>2
      <4>2. Below(u, c + 1) = <<>>
        BY <4>1 DEF Below
      <4>3. FlattenSeq(<<>>) = <<>>
        BY DEF FlattenSeq
      <4>4. QED
        BY <3>2, <4>1, <4>2, <4>3
    <3>3. QED
      BY <3>1, <3>2
  <2> DEFINE lists == [c \in 1 .. N |-> IF c <= n THEN <<c>> ELSE <<>>]
  <2>7. ASSUME NEW u, \A c \in 1 .. N : u[c + 1] = IF c <= n THEN <<c>> ELSE <<>>
        PROVE  Value(u, 1) = Numbers(n)
    <3>1. Below(u, 1) = lists
      BY <2>4, <2>7
    <3>2. FlattenSeq(lists) = Numbers(n)
      BY <1>1, <2>1, FlatMeshesInOrder
    <3> HIDE DEF Below, lists
    <3>3. QED
      BY <2>4, <3>1, <3>2
  <2> DEFINE G == [k \in DOMAIN nodes |-> IF k = 1 THEN Numbers(n)
                                         ELSE IF k - 1 <= n THEN <<k - 1>> ELSE <<>>]
  <2>8. /\ 1 \in DOMAIN nodes
        /\ \A c \in 1 .. N : c + 1 \in DOMAIN nodes /\ c + 1 # 1 /\ c + 1 - 1 = c
        /\ \A k \in DOMAIN nodes : k = 1 \/ (k # 1 /\ k - 1 \in 1 .. N /\ k - 1 + 1 = k)
    BY <2>1, <2>3
  <2>9. /\ G[1] = Numbers(n)
        /\ \A c \in 1 .. N : G[c + 1] = IF c <= n THEN <<c>> ELSE <<>>
    BY <2>8
  <2>10. \A k \in DOMAIN nodes : G[k] = Value(G, k)
    <3> HIDE DEF G, Value
    <3>1. G[1] = Value(G, 1)
      BY <2>7, <2>9
    <3>2. \A c \in 1 .. N : G[c + 1] = Value(G, c + 1)
      BY <2>6, <2>9
    <3>3. QED
      BY <2>8, <3>1, <3>2
  <2>11. G = [k \in DOMAIN nodes |-> Value(G, k)]
    <3> HIDE DEF Value
    <3>1. QED
      BY <2>10
  <2>12. F = [k \in DOMAIN nodes |-> Value(F, k)]
    <3> HIDE DEF G, Value
    <3>1. QED
      BY <2>11
  <2> HIDE DEF F, G, Value
  <2>13. \A k \in DOMAIN nodes : F[k] = Value(F, k)
    BY <2>12
  <2>14. \A c \in 1 .. N : F[c + 1] = IF c <= n THEN <<c>> ELSE <<>>
    <3> SUFFICES ASSUME NEW c \in 1 .. N
                 PROVE  F[c + 1] = IF c <= n THEN <<c>> ELSE <<>>
      OBVIOUS
    <3>1. F[c + 1] = Value(F, c + 1)
      BY <2>8, <2>13
    <3>2. Value(F, c + 1) = IF c <= n THEN <<c>> ELSE <<>>
      BY <2>6
    <3>3. QED
      BY <3>1, <3>2
  <2>15. F[1] = Numbers(n)
    BY <2>7, <2>8, <2>13, <2>14
  <2>16. QED
    BY <1>2, <2>15 DEF nodes
<1>5. QED
  BY <1>3, <1>4

-----------------------------------------------------------------------------
(***************************************************************************)
(* Lists of lights                                                         *)
(***************************************************************************)
DeltaLights == {PointLight(i) : i \in Nat} \cup {SpotLight(i) : i \in Nat}
AreaLights == {AreaLight(m) : m \in Nat}
Lights == DeltaLights \cup AreaLights

PlacesOf(lights, l) == {i \in DOMAIN lights : lights[i] = l}
Copies(lights, l) == Cardinality(PlacesOf(lights, l))

LEMMA LightsDiffer ==
    /\ \A l \in DeltaLights : l.isDelta /\ l.from \in Nat
    /\ \A l \in AreaLights : ~l.isDelta
    /\ \A m \in Nat : AreaLight(m) \in AreaLights
    /\ \A i \in Nat : PointLight(i) \in DeltaLights /\ SpotLight(i) \in DeltaLights
    /\ \A i : PointLight(i).from = i /\ SpotLight(i).from = i /\ AreaLight(i).from = i
    /\ \A l, k : AreaLight(l) = AreaLight(k) => l = k
<1>1. \A i : /\ PointLight(i).isDelta /\ PointLight(i).from = i
             /\ SpotLight(i).isDelta /\ SpotLight(i).from = i
             /\ ~AreaLight(i).isDelta /\ AreaLight(i).from = i
  BY DEF PointLight, SpotLight, AreaLight
<1>2. \A l, k : AreaLight(l) = AreaLight(k) => l = k
  BY <1>1
<1>3. QED
  BY <1>1, <1>2 DEF DeltaLights, AreaLights

LEMMA CopiesAreFinite ==
    ASSUME NEW lights \in Seq(Lights), NEW l
    PROVE  /\ IsFiniteSet(PlacesOf(lights, l)) /\ Copies(lights, l) \in Nat
           /\ Copies(lights, l) = 0 <=> PlacesOf(lights, l) = {}
           /\ Copies(lights, l) <= 1 =>
                  \A i, j \in DOMAIN lights : lights[i] = l /\ lights[j] = l => i = j
<1> DEFINE P == PlacesOf(lights, l)
<1>1. P \subseteq 1 .. Len(lights) /\ Len(lights) \in Nat
  BY DEF PlacesOf
<1>2. IsFiniteSet(1 .. Len(lights))
  BY <1>1, FS_Interval
<1>3. IsFiniteSet(P)
  <2> HIDE DEF P
  <2>1. QED
    BY <1>1, <1>2, FS_Subset
<1>4. Cardinality(P) \in Nat /\ (Cardinality(P) = 0 <=> P = {})
      /\ (Cardinality(P) = 1 <=> \E x : P = {x})
  <2> HIDE DEF P
  <2>1. QED
    BY <1>3, FS_CardinalityType, FS_EmptySet, FS_Singleton
<1>5. Copies(lights, l) = Cardinality(P)
  BY DEF Copies
<1>6. ASSUME Copies(lights, l) <= 1,
             NEW i \in DOMAIN lights, NEW j \in DOMAIN lights, lights[i] = l, lights[j] = l
      PROVE  i = j
  <2>1. i \in P /\ j \in P
    BY <1>6 DEF PlacesOf
  <2> HIDE DEF P
  <2>2. Cardinality(P) # 0
    BY <1>4, <2>1
  <2>3. Cardinality(P) = 1
    BY <1>4, <1>5, <1>6, <2>2
  <2>4. QED
    BY <1>4, <2>1, <2>3
<1> HIDE DEF P
<1>7. QED
  BY <1>3, <1>4, <1>5, <1>6 DEF P

\* A light is added.
LEMMA CopiesWithOneMore ==
    ASSUME NEW lights \in Seq(Lights), NEW new \in Lights
    PROVE  /\ Append(lights, new) \in Seq(Lights)
           /\ \A i \in DOMAIN Append(lights, new) :
                  \/ i \in DOMAIN lights /\ Append(lights, new)[i] = lights[i]
                  \/ Append(lights, new)[i] = new
           /\ \A l : Copies(Append(lights, new), l)
                     = IF l = new THEN Copies(lights, l) + 1 ELSE Copies(lights, l)
<1> DEFINE longer == Append(lights, new)
           n == Len(lights)
<1>1. /\ longer \in Seq(Lights) /\ Len(longer) = n + 1 /\ longer[n + 1] = new
      /\ \A i \in 1 .. n : longer[i] = lights[i]
  BY AppendProperties
<1>2. n \in Nat /\ DOMAIN lights = 1 .. n
  OBVIOUS
<1>3. DOMAIN longer = 1 .. n + 1
  BY <1>1
<1>4. /\ \A i \in 1 .. n + 1 : i \in 1 .. n \/ i = n + 1
      /\ \A i \in 1 .. n : i \in 1 .. n + 1 /\ i # n + 1
      /\ n + 1 \in 1 .. n + 1
  BY <1>2
<1> HIDE DEF longer, n
<1>5. ASSUME NEW l
      PROVE  Copies(longer, l) = IF l = new THEN Copies(lights, l) + 1 ELSE Copies(lights, l)
  <2>1. IsFiniteSet(PlacesOf(lights, l))
    BY CopiesAreFinite
  <2>2. n + 1 \notin PlacesOf(lights, l)
    BY <1>2, <1>4 DEF PlacesOf
  <2>3. CASE l = new
    <3>1. PlacesOf(longer, l) = PlacesOf(lights, l) \cup {n + 1}
      BY <1>1, <1>2, <1>3, <1>4, <2>3 DEF PlacesOf
    <3>2. QED
      BY <2>1, <2>2, <2>3, <3>1, FS_AddElement DEF Copies
  <2>4. CASE l # new
    <3>1. PlacesOf(longer, l) = PlacesOf(lights, l)
      BY <1>1, <1>2, <1>3, <1>4, <2>4 DEF PlacesOf
    <3>2. QED
      BY <2>4, <3>1 DEF Copies
  <2>5. QED
    BY <2>3, <2>4
<1>6. \A i \in DOMAIN longer : (i \in DOMAIN lights /\ longer[i] = lights[i]) \/ longer[i] = new
  BY <1>1, <1>2, <1>3, <1>4
<1>7. QED
  BY <1>1, <1>5, <1>6 DEF longer

LEMMA NoCopies ==
    /\ <<>> \in Seq(Lights) /\ DOMAIN (<<>>) = {} /\ \A l : Copies(<<>>, l) = 0
<1>1. DOMAIN (<<>>) = {}
  OBVIOUS
<1>2. \A l : PlacesOf(<<>>, l) = {}
  BY <1>1 DEF PlacesOf
<1>3. QED
  BY <1>1, <1>2, FS_EmptySet DEF Copies

\* The points and spots of a file, up to the k-th of its lights: each is in
\* the list once.
SourcesInv(lights, k) ==
    /\ lights \in Seq(Lights)
    /\ \A i \in DOMAIN lights : lights[i] \in DeltaLights
    /\ \A l \in DeltaLights : Copies(lights, l) <= 1 /\ (Copies(lights, l) # 0 => l.from <= k)
    /\ \A l \in AreaLights : Copies(lights, l) = 0

LEMMA SourceStep ==
    ASSUME NEW file, NEW lights, NEW k \in Nat, SourcesInv(lights, k)
    PROVE  SourcesInv(SourceAdded(file, lights, k + 1), k + 1)
<1>1. SourcesInv(lights, k + 1)
  <2>1. \A x \in Nat : x <= k => x <= k + 1
    OBVIOUS
  <2>2. QED
    BY <2>1, LightsDiffer DEF SourcesInv
<1>2. ASSUME NEW new \in DeltaLights, new.from = k + 1
      PROVE  SourcesInv(Append(lights, new), k + 1)
  <2> DEFINE longer == Append(lights, new)
  <2>1. new \in Lights /\ new.isDelta
    BY LightsDiffer DEF Lights
  <2>2. /\ longer \in Seq(Lights)
        /\ \A i \in DOMAIN longer : (i \in DOMAIN lights /\ longer[i] = lights[i]) \/ longer[i] = new
        /\ \A l : Copies(longer, l) = IF l = new THEN Copies(lights, l) + 1 ELSE Copies(lights, l)
    BY <2>1, CopiesWithOneMore DEF SourcesInv
  <2> HIDE DEF longer
  <2>3. \A i \in DOMAIN longer : longer[i] \in DeltaLights
    BY <2>2 DEF SourcesInv
  <2>4. \A l \in AreaLights : Copies(longer, l) = 0
    BY <2>1, <2>2, LightsDiffer DEF SourcesInv
  <2>5. ASSUME NEW l \in DeltaLights
        PROVE  Copies(longer, l) <= 1 /\ (Copies(longer, l) # 0 => l.from <= k + 1)
    <3>1. CASE l = new
      <4>1. Copies(lights, l) = 0
        <5>1. ~(k + 1 <= k)
          OBVIOUS
        <5>2. QED
          BY <1>2, <3>1, <5>1 DEF SourcesInv
      <4>2. Copies(longer, l) = 0 + 1
        BY <2>2, <3>1, <4>1
      <4>3. QED
        BY <1>2, <3>1, <4>2
    <3>2. CASE l # new
      <4>1. Copies(longer, l) = Copies(lights, l)
        BY <2>2, <3>2
      <4>2. QED
        BY <1>1, <4>1 DEF SourcesInv
    <3>3. QED
      BY <3>1, <3>2
  <2>6. SourcesInv(longer, k + 1)
    BY <2>2, <2>3, <2>4, <2>5 DEF SourcesInv
  <2>7. QED
    BY <2>6 DEF longer
<1>3. /\ k + 1 \in Nat
      /\ PointLight(k + 1) \in DeltaLights /\ PointLight(k + 1).from = k + 1
      /\ SpotLight(k + 1) \in DeltaLights /\ SpotLight(k + 1).from = k + 1
  BY LightsDiffer
<1>4. QED
  BY <1>1, <1>2, <1>3 DEF SourceAdded

LEMMA SourcesOnce ==
    ASSUME NEW file, IsFile(file)
    PROVE  SourcesInv(LightSources(file), Len(file.lights))
<1> DEFINE n == Len(file.lights)
<1>1. n \in Nat
  BY DEF IsFile
<1>2. PICK f : /\ f[0] = <<>>
               /\ \A i \in 1 .. n : f[i] = SourceAdded(file, f[i - 1], i)
               /\ LightSources(file) = f[n]
  BY <1>1, SourcesOneByOne
<1> DEFINE S == {m \in Nat : m <= n => SourcesInv(f[m], m)}
<1> HIDE DEF n
<1>3. 0 \in S
  <2>1. SourcesInv(<<>>, 0)
    BY NoCopies DEF SourcesInv
  <2>2. QED
    BY <1>2, <2>1
<1>4. ASSUME NEW m \in Nat, m \in S
      PROVE  m + 1 \in S
  <2> SUFFICES ASSUME m + 1 <= n PROVE SourcesInv(f[m + 1], m + 1)
    OBVIOUS
  <2>1. m <= n /\ m + 1 \in 1 .. n /\ m + 1 - 1 = m
    BY <1>1
  <2>2. SourcesInv(f[m], m)
    BY <1>4, <2>1
  <2>3. f[m + 1] = SourceAdded(file, f[m], m + 1)
    BY <1>2, <2>1
  <2>4. QED
    BY <2>2, <2>3, SourceStep
<1>5. n \in S
  <2> HIDE DEF S
  <2>1. QED
    BY <1>1, <1>3, <1>4, SetInduction
<1>6. QED
  BY <1>1, <1>2, <1>5 DEF n

-----------------------------------------------------------------------------
(***************************************************************************)
(* The emitters of a file                                                  *)
(***************************************************************************)
MeshesOf(file) == 1 .. Len(file.meshes)
MaterialNumber(file, m) == file.meshes[m].material
ReadMaterial(file, m) == MaterialOf(file.materials[MaterialNumber(file, m)])
Emits(file, m) == ReadMaterial(file, m).kind = "DiffuseEmitter"
IsLit(file, m) == Emits(file, m) /\ file.meshes[m].faces[1] = 3
OwnMaterial(file, m) ==
    \A j \in MeshesOf(file) : j # m => MaterialNumber(file, j) # MaterialNumber(file, m)

\* What loading its meshes has made of the scene of a file, each so many times
MaterialsInv(file, materials) ==
    /\ DOMAIN materials = DOMAIN file.materials
    /\ \A i \in DOMAIN materials :
           materials[i] = [kind |-> MaterialOf(file.materials[i]).kind,
                           normals |-> MaterialOf(file.materials[i]).normals,
                           inverseArea |-> materials[i].inverseArea]

LightsInv(file, lights, times) ==
    /\ lights \in Seq(Lights)
    /\ \A i \in DOMAIN lights :
           \/ lights[i] \in DeltaLights
           \/ \E m \in MeshesOf(file) : IsLit(file, m) /\ lights[i] = AreaLight(m)
    /\ \A l \in DeltaLights : Copies(lights, l) <= 1
    /\ \A m \in MeshesOf(file) :
           Copies(lights, AreaLight(m)) = IF IsLit(file, m) THEN times[m] ELSE 0

AreasInv(file, materials, times) ==
    \A m \in MeshesOf(file) :
        OwnMaterial(file, m) =>
            materials[MaterialNumber(file, m)].inverseArea
            = IF IsLit(file, m) /\ times[m] # 0 THEN m ELSE 0

SceneInv(file, s, times) ==
    /\ s = [file |-> file, materials |-> s.materials, lights |-> s.lights]
    /\ MaterialsInv(file, s.materials)
    /\ LightsInv(file, s.lights, times)
    /\ AreasInv(file, s.materials, times)

LEMMA FileFacts ==
    ASSUME NEW file, IsFile(file)
    PROVE  /\ Len(file.meshes) \in Nat /\ Len(file.lights) \in Nat
           /\ MeshesOf(file) \subseteq Nat \ {0}
           /\ \A m \in MeshesOf(file) : MaterialNumber(file, m) \in DOMAIN file.materials
<1>1. Len(file.meshes) \in Nat /\ Len(file.lights) \in Nat /\ DOMAIN file.meshes = MeshesOf(file)
  BY DEF IsFile, MeshesOf
<1>2. \A n \in Nat : 1 .. n \subseteq Nat \ {0}
  OBVIOUS
<1>3. \A m \in MeshesOf(file) : MaterialNumber(file, m) \in DOMAIN file.materials
  BY <1>1 DEF IsFile, MaterialNumber
<1>4. QED
  BY <1>1, <1>2, <1>3 DEF MeshesOf

LEMMA EmittersAreKnown ==
    ASSUME NEW file, IsFile(file), NEW s, NEW times, SceneInv(file, s, times),
           NEW m \in MeshesOf(file)
    PROVE  /\ s.materials[MaterialNumber(file, m)]
                = [kind |-> ReadMaterial(file, m).kind, normals |-> ReadMaterial(file, m).normals,
                   inverseArea |-> s.materials[MaterialNumber(file, m)].inverseArea]
           /\ IsEmitter(s, m) <=> Emits(file, m)
<1>1. MaterialNumber(file, m) \in DOMAIN s.materials /\ s.file = file
  BY FileFacts DEF SceneInv, MaterialsInv
<1>2. s.materials[MaterialNumber(file, m)]
      = [kind |-> ReadMaterial(file, m).kind, normals |-> ReadMaterial(file, m).normals,
         inverseArea |-> s.materials[MaterialNumber(file, m)].inverseArea]
  BY <1>1 DEF SceneInv, MaterialsInv, ReadMaterial
<1>3. s.materials[MaterialNumber(file, m)].kind = ReadMaterial(file, m).kind
  BY <1>2
<1>4. IsEmitter(s, m) <=> Emits(file, m)
  BY <1>1, <1>3 DEF IsEmitter, Emits, MaterialNumber
<1>5. QED
  BY <1>2, <1>4

\* One face becomes a light.
LEMMA LightsStep ==
    ASSUME NEW file, IsFile(file), NEW lights, NEW times \in [MeshesOf(file) -> Nat],
           LightsInv(file, lights, times), NEW m \in MeshesOf(file), IsLit(file, m)
    PROVE  LightsInv(file, Append(lights, AreaLight(m)), [times EXCEPT ![m] = @ + 1])
<1> DEFINE new == AreaLight(m)
           longer == Append(lights, new)
           more == [times EXCEPT ![m] = @ + 1]
<1>1. new \in AreaLights /\ new \in Lights /\ ~new.isDelta
  BY FileFacts, LightsDiffer DEF Lights
<1>2. \A k : AreaLight(k) = new => k = m
  BY LightsDiffer
<1>3. /\ more[m] = times[m] + 1
      /\ \A k \in MeshesOf(file) : k # m => more[k] = times[k]
  OBVIOUS
<1>4. lights \in Seq(Lights)
  BY DEF LightsInv
<1> HIDE DEF new, more
<1>5. /\ longer \in Seq(Lights)
      /\ \A i \in DOMAIN longer : (i \in DOMAIN lights /\ longer[i] = lights[i]) \/ longer[i] = new
      /\ \A l : Copies(longer, l) = IF l = new THEN Copies(lights, l) + 1 ELSE Copies(lights, l)
  BY <1>1, <1>4, CopiesWithOneMore
<1> HIDE DEF longer
<1>6. \A i \in DOMAIN longer :
          \/ longer[i] \in DeltaLights
          \/ \E k \in MeshesOf(file) : IsLit(file, k) /\ longer[i] = AreaLight(k)
  BY <1>5 DEF LightsInv, new
<1>7. \A l \in DeltaLights : Copies(longer, l) <= 1
  BY <1>1, <1>5, LightsDiffer DEF LightsInv
<1>8. ASSUME NEW k \in MeshesOf(file)
      PROVE  Copies(longer, AreaLight(k)) = IF IsLit(file, k) THEN more[k] ELSE 0
  <2>1. CASE k = m
    <3>1. AreaLight(k) = new
      BY <2>1 DEF new
    <3>2. Copies(lights, AreaLight(k)) = times[m]
      BY <2>1 DEF LightsInv
    <3>3. Copies(longer, AreaLight(k)) = Copies(lights, AreaLight(k)) + 1
      BY <1>5, <3>1
    <3>4. QED
      BY <1>3, <2>1, <3>2, <3>3
  <2>2. CASE k # m
    <3>1. AreaLight(k) # new
      BY <1>2, <2>2
    <3>2. Copies(longer, AreaLight(k)) = Copies(lights, AreaLight(k))
      BY <1>5, <3>1
    <3>3. QED
      BY <1>3, <2>2, <3>2 DEF LightsInv
  <2>3. QED
    BY <2>1, <2>2
<1>9. LightsInv(file, longer, more)
  BY <1>5, <1>6, <1>7, <1>8 DEF LightsInv
<1>10. QED
  BY <1>9 DEF longer, more, new

LEMMA MeshStep ==
    ASSUME NEW file, IsFile(file), NEW s, NEW times \in [MeshesOf(file) -> Nat],
           SceneInv(file, s, times), NEW m \in MeshesOf(file)
    PROVE  SceneInv(file, LoadMeshLightSource(s, m), [times EXCEPT ![m] = @ + 1])
<1> DEFINE t == LoadMeshLightSource(s, m)
           more == [times EXCEPT ![m] = @ + 1]
           x == MaterialNumber(file, m)
<1>1. /\ more[m] = times[m] + 1 /\ times[m] \in Nat
      /\ \A k \in MeshesOf(file) : k # m => more[k] = times[k]
  OBVIOUS
<1>2. more[m] # 0
  BY <1>1
<1>3. s.file = file /\ s = [file |-> file, materials |-> s.materials, lights |-> s.lights]
  BY DEF SceneInv
<1>4. (IsEmitter(s, m) /\ s.file.meshes[m].faces[1] = 3) <=> IsLit(file, m)
  BY <1>3, EmittersAreKnown DEF IsLit
<1>5. CASE IsLit(file, m)
  <2> DEFINE changed == [s.materials EXCEPT ![x].inverseArea = m]
  <2>1. t = [file |-> file, materials |-> changed, lights |-> Append(s.lights, AreaLight(m))]
    <3>1. t = [s EXCEPT !.lights = Append(@, AreaLight(m)),
                        !.materials[s.file.meshes[m].material].inverseArea = m]
      BY <1>4, <1>5 DEF LoadMeshLightSource
    <3>2. s.file.meshes[m].material = x
      BY <1>3 DEF MaterialNumber
    <3> HIDE DEF t, x
    <3>3. QED
      BY <1>3, <3>1, <3>2
  <2> HIDE DEF t
  <2>2. LightsInv(file, t.lights, more)
    <3>1. t.lights = Append(s.lights, AreaLight(m))
      BY <2>1
    <3>2. LightsInv(file, s.lights, times)
      BY DEF SceneInv
    <3>3. LightsInv(file, Append(s.lights, AreaLight(m)), [times EXCEPT ![m] = @ + 1])
      BY <1>5, <3>2, LightsStep
    <3>4. QED
      BY <3>1, <3>3
  <2>3. /\ DOMAIN s.materials = DOMAIN file.materials /\ x \in DOMAIN s.materials
        /\ \A i \in DOMAIN s.materials :
               s.materials[i] = [kind |-> MaterialOf(file.materials[i]).kind,
                                 normals |-> MaterialOf(file.materials[i]).normals,
                                 inverseArea |-> s.materials[i].inverseArea]
    BY FileFacts DEF SceneInv, MaterialsInv
  <2>4. /\ DOMAIN changed = DOMAIN s.materials
        /\ \A i \in DOMAIN s.materials : i # x => changed[i] = s.materials[i]
        /\ changed[x] = [s.materials[x] EXCEPT !.inverseArea = m]
    BY <2>3
  <2> HIDE DEF changed, x
  <2>5. changed[x] = [kind |-> MaterialOf(file.materials[x]).kind,
                      normals |-> MaterialOf(file.materials[x]).normals, inverseArea |-> m]
    <3>1. s.materials[x] = [kind |-> MaterialOf(file.materials[x]).kind,
                            normals |-> MaterialOf(file.materials[x]).normals,
                            inverseArea |-> s.materials[x].inverseArea]
      BY <2>3
    <3>2. QED
      BY <2>4, <3>1
  <2>6. changed[x].inverseArea = m
    BY <2>5
  <2>7. MaterialsInv(file, changed)
    BY <2>3, <2>4, <2>5, <2>6 DEF MaterialsInv
  <2>8. ASSUME NEW k \in MeshesOf(file), OwnMaterial(file, k)
        PROVE  changed[MaterialNumber(file, k)].inverseArea
               = IF IsLit(file, k) /\ more[k] # 0 THEN k ELSE 0
    <3>1. CASE k = m
      BY <1>2, <1>5, <2>6, <3>1 DEF x
    <3>2. CASE k # m
      <4>1. MaterialNumber(file, k) # x
        BY <2>8, <3>2 DEF OwnMaterial, x
      <4>2. MaterialNumber(file, k) \in DOMAIN s.materials
        BY <2>3, FileFacts
      <4>3. changed[MaterialNumber(file, k)] = s.materials[MaterialNumber(file, k)]
        BY <2>4, <4>1, <4>2
      <4>4. more[k] = times[k]
        BY <1>1, <3>2
      <4>5. s.materials[MaterialNumber(file, k)].inverseArea
            = IF IsLit(file, k) /\ times[k] # 0 THEN k ELSE 0
        BY <2>8 DEF SceneInv, AreasInv
      <4>6. QED
        BY <4>3, <4>4, <4>5
    <3>3. QED
      BY <3>1, <3>2
  <2>9. AreasInv(file, changed, more)
    BY <2>8 DEF AreasInv
  <2>10. t.materials = changed /\ t = [file |-> file, materials |-> t.materials, lights |-> t.lights]
    BY <2>1
  <2>11. SceneInv(file, t, more)
    BY <2>2, <2>7, <2>9, <2>10 DEF SceneInv
  <2>12. QED
    BY <2>11 DEF t
<1>6. CASE ~IsLit(file, m)
  <2>1. t = s
    BY <1>4, <1>6 DEF LoadMeshLightSource
  <2> HIDE DEF t, more
  <2>2. \A k \in MeshesOf(file) : IsLit(file, k) => more[k] = times[k]
    BY <1>1, <1>6
  <2>3. LightsInv(file, s.lights, more)
    BY <2>2 DEF SceneInv, LightsInv
  <2>4. AreasInv(file, s.materials, more)
    BY <2>2 DEF SceneInv, AreasInv
  <2>5. SceneInv(file, t, more)
    BY <2>1, <2>3, <2>4 DEF SceneInv
  <2>6. QED
    BY <2>5 DEF t, more
<1>7. QED
  BY <1>5, <1>6

\* Every mesh up to the k-th is loaded once more.
Loaded(file, once, k) == [m \in MeshesOf(file) |-> IF m <= k THEN once + 1 ELSE once]

LEMMA LoadedFacts ==
    ASSUME NEW file, IsFile(file), NEW once \in Nat, NEW k \in Nat
    PROVE  /\ Loaded(file, once, k) \in [MeshesOf(file) -> Nat]
           /\ k + 1 \in MeshesOf(file) =>
                  [Loaded(file, once, k) EXCEPT ![k + 1] = @ + 1] = Loaded(file, once, k + 1)
           /\ Loaded(file, once, Len(file.meshes)) = Loaded(file, once + 1, 0)
<1>1. MeshesOf(file) \subseteq Nat \ {0} /\ Len(file.meshes) \in Nat
  BY FileFacts
<1>2. \A j \in Nat : Loaded(file, once, j) \in [MeshesOf(file) -> Nat]
  BY DEF Loaded
<1>3. ASSUME k + 1 \in MeshesOf(file)
      PROVE  [Loaded(file, once, k) EXCEPT ![k + 1] = @ + 1] = Loaded(file, once, k + 1)
  <2>1. \A m \in Nat : /\ m # k + 1 => (m <= k <=> m <= k + 1)
                       /\ ~(k + 1 <= k) /\ k + 1 <= k + 1
    OBVIOUS
  <2>2. Loaded(file, once, k)[k + 1] = once
    BY <1>3, <2>1, k + 1 \in Nat DEF Loaded
  <2>3. \A m \in MeshesOf(file) : m # k + 1 => Loaded(file, once, k)[m] = Loaded(file, once, k + 1)[m]
    BY <1>1, <2>1 DEF Loaded
  <2>4. Loaded(file, once, k + 1)[k + 1] = once + 1
    BY <1>3, <2>1, k + 1 \in Nat DEF Loaded
  <2>5. Loaded(file, once, k + 1) \in [MeshesOf(file) -> Nat]
        /\ Loaded(file, once, k) \in [MeshesOf(file) -> Nat]
    BY <1>2
  <2>6. QED
    BY <2>2, <2>3, <2>4, <2>5
<1>4. Loaded(file, once, Len(file.meshes)) = Loaded(file, once + 1, 0)
  <2>1. \A m \in MeshesOf(file) : m <= Len(file.meshes) /\ ~(m <= 0)
    BY <1>1 DEF MeshesOf
  <2>2. QED
    BY <2>1 DEF Loaded
<1>5. QED
  BY <1>2, <1>3, <1>4

\* A list of points and spots has no area light.
LEMMA NewSceneInv ==
    ASSUME NEW file, IsFile(file)
    PROVE  SceneInv(file, NewScene(file), Loaded(file, 0, 0))
<1> DEFINE s == NewScene(file)
           times == Loaded(file, 0, 0)
<1>1. \A m \in MeshesOf(file) : times[m] = 0
  <2>1. \A m \in MeshesOf(file) : ~(m <= 0)
    BY FileFacts
  <2>2. QED
    BY <2>1 DEF Loaded
<1> HIDE DEF times
<1>2. s.file = file /\ s.lights = LightSources(file)
      /\ s.materials = [i \in DOMAIN file.materials |-> MaterialOf(file.materials[i])]
      /\ s = [file |-> file, materials |-> s.materials, lights |-> s.lights]
  BY DEF NewScene
<1> HIDE DEF s
<1>3. SourcesInv(s.lights, Len(file.lights))
  BY <1>2, SourcesOnce
<1>4. \A m \in MeshesOf(file) : AreaLight(m) \in AreaLights
  BY FileFacts, LightsDiffer
<1>5. LightsInv(file, s.lights, times)
  BY <1>1, <1>3, <1>4 DEF SourcesInv, LightsInv
<1>6. \A m : /\ MaterialOf(m) = [kind |-> MaterialOf(m).kind, normals |-> MaterialOf(m).normals,
                                 inverseArea |-> MaterialOf(m).inverseArea]
             /\ MaterialOf(m).inverseArea = 0
  BY DEF MaterialOf, EmitterMaterial, TextureMaterial, MaterialOfKind
<1>7. DOMAIN s.materials = DOMAIN file.materials
      /\ \A i \in DOMAIN s.materials : s.materials[i] = MaterialOf(file.materials[i])
  BY <1>2
<1>8. MaterialsInv(file, s.materials)
  BY <1>6, <1>7 DEF MaterialsInv
<1>9. AreasInv(file, s.materials, times)
  BY <1>1, <1>6, <1>7, FileFacts DEF AreasInv
<1>10. QED
  BY <1>2, <1>5, <1>8, <1>9 DEF SceneInv, s, times

LEMMA CreatedSceneInv ==
    ASSUME NEW file, IsFile(file)
    PROVE  SceneInv(file, CreateFromFile(file), Loaded(file, 1, 0))
<1> DEFINE n == Len(file.meshes)
<1>1. n \in Nat /\ MeshesOf(file) = 1 .. n
  BY FileFacts DEF MeshesOf
<1>2. PICK f : /\ f[0] = NewScene(file)
               /\ \A i \in 1 .. n : f[i] = LoadMeshLightSource(f[i - 1], i)
               /\ CreateFromFile(file) = f[n]
  BY <1>1, MeshesOneByOne
<1>3. Loaded(file, 0, n) = Loaded(file, 1, 0)
  <2>1. Loaded(file, 0, n) = Loaded(file, 0 + 1, 0)
    BY LoadedFacts
  <2>2. QED
    BY <2>1
<1> HIDE DEF n
<1> DEFINE S == {m \in Nat : m <= n => SceneInv(file, f[m], Loaded(file, 0, m))}
<1>4. 0 \in S
  BY <1>2, NewSceneInv
<1>5. ASSUME NEW m \in Nat, m \in S PROVE m + 1 \in S
  <2> SUFFICES ASSUME m + 1 <= n PROVE SceneInv(file, f[m + 1], Loaded(file, 0, m + 1))
    OBVIOUS
  <2>1. m <= n /\ m + 1 \in 1 .. n /\ m + 1 - 1 = m
    BY <1>1
  <2>2. SceneInv(file, f[m], Loaded(file, 0, m))
    BY <1>5, <2>1
  <2>3. f[m + 1] = LoadMeshLightSource(f[m], m + 1)
    BY <1>2, <2>1
  <2>4. SceneInv(file, LoadMeshLightSource(f[m], m + 1), [Loaded(file, 0, m) EXCEPT ![m + 1] = @ + 1])
    BY <1>1, <2>1, <2>2, LoadedFacts, MeshStep
  <2>5. QED
    BY <1>1, <2>1, <2>3, <2>4, LoadedFacts
<1>6. n \in S
  <2> HIDE DEF S
  <2>1. QED
    BY <1>1, <1>4, <1>5, SetInduction
<1>7. QED
  BY <1>1, <1>2, <1>3, <1>6

\* The instances of the first k meshes
InstancesInv(file, instances, k) ==
    /\ instances = [i \in 1 .. k |-> instances[i]]
    /\ \A i \in DOMAIN instances :
           /\ instances[i].geometry = [meshId |-> i,
                                       primitives |-> Len(file.meshes[i].faces),
                                       hasTextureCoords |-> file.meshes[i].texCoords,
                                       hasTangentsAndBitangents |-> file.meshes[i].texCoords]
           /\ instances[i].material = MaterialNumber(file, i)
           /\ instances[i].values.kind = ReadMaterial(file, i).kind
           /\ OwnMaterial(file, i) =>
                  instances[i].values.inverseArea = IF IsLit(file, i) THEN i ELSE 0

LEMMA InstanceStep ==
    ASSUME NEW file, IsFile(file), NEW group, NEW k \in Nat, k + 1 \in MeshesOf(file),
           InstancesInv(file, group.instances, k),
           SceneInv(file, group.scene, Loaded(file, 1, k))
    PROVE  /\ InstancesInv(file, AddInstance(group, k + 1).instances, k + 1)
           /\ SceneInv(file, AddInstance(group, k + 1).scene, Loaded(file, 1, k + 1))
<1> DEFINE m == k + 1
           s == group.scene
           new == GeometryInstance(s, m)
           old == group.instances
           longer == Append(old, new)
<1>1. AddInstance(group, m).instances = longer
      /\ AddInstance(group, m).scene = LoadMeshLightSource(s, m)
  BY DEF AddInstance
<1>2. SceneInv(file, LoadMeshLightSource(s, m), Loaded(file, 1, m))
  <2> DEFINE times == Loaded(file, 1, k)
  <2>1. times \in [MeshesOf(file) -> Nat] /\ [times EXCEPT ![m] = @ + 1] = Loaded(file, 1, m)
    BY LoadedFacts
  <2>2. SceneInv(file, s, times)
    OBVIOUS
  <2> HIDE DEF times, s, m
  <2>3. SceneInv(file, LoadMeshLightSource(s, m), [times EXCEPT ![m] = @ + 1])
    BY <2>1, <2>2, MeshStep DEF m
  <2>4. QED
    BY <2>1, <2>3
<1>3. s.file = file
  BY DEF SceneInv
<1>4. /\ new.geometry = [meshId |-> m,
                         primitives |-> Len(file.meshes[m].faces),
                         hasTextureCoords |-> file.meshes[m].texCoords,
                         hasTangentsAndBitangents |-> file.meshes[m].texCoords]
      /\ new.material = MaterialNumber(file, m)
      /\ new.values = RegisteredValues(s.materials[MaterialNumber(file, m)])
  BY <1>3 DEF GeometryInstance, GeometryFromMesh, MaterialNumber
<1>5. new.values.kind = ReadMaterial(file, m).kind
  <2>1. s.materials[MaterialNumber(file, m)].kind = ReadMaterial(file, m).kind
    <3>1. s.materials[MaterialNumber(file, m)]
          = [kind |-> ReadMaterial(file, m).kind, normals |-> ReadMaterial(file, m).normals,
             inverseArea |-> s.materials[MaterialNumber(file, m)].inverseArea]
      BY EmittersAreKnown
    <3> HIDE DEF s, m
    <3>2. QED
      BY <3>1
  <2> HIDE DEF new
  <2>2. QED
    BY <1>4, <2>1 DEF RegisteredValues
<1>6. ASSUME OwnMaterial(file, m)
      PROVE  new.values.inverseArea = IF IsLit(file, m) THEN m ELSE 0
  <2>1. Loaded(file, 1, k)[m] # 0
    BY DEF Loaded
  <2>2. s.materials[MaterialNumber(file, m)].inverseArea = IF IsLit(file, m) THEN m ELSE 0
    BY <1>6, <2>1 DEF SceneInv, AreasInv
  <2> HIDE DEF new
  <2>3. QED
    BY <1>4, <2>2 DEF RegisteredValues
<1>7. /\ longer = [i \in 1 .. m |-> longer[i]]
      /\ \A i \in 1 .. m : (i \in 1 .. k /\ longer[i] = old[i]) \/ (i = m /\ longer[i] = new)
  <2> DEFINE T == {old[i] : i \in 1 .. k} \cup {new}
  <2> HIDE DEF new, old
  <2>1. old = [i \in 1 .. k |-> old[i]]
    BY DEF InstancesInv, old
  <2>2. old \in [1 .. k -> T] /\ new \in T
    BY <2>1
  <2> HIDE DEF T
  <2>3. old \in Seq(T) /\ Len(old) = k
    BY <2>2
  <2>4. /\ longer \in Seq(T) /\ Len(longer) = k + 1 /\ longer[k + 1] = new
        /\ \A i \in 1 .. k : longer[i] = old[i]
    BY <2>2, <2>3, AppendProperties
  <2> HIDE DEF longer
  <2>5. longer \in [1 .. k + 1 -> T]
    BY <2>4
  <2>6. longer = [i \in 1 .. k + 1 |-> longer[i]]
    BY <2>5
  <2>7. \A i \in 1 .. k + 1 : i \in 1 .. k \/ i = k + 1
    OBVIOUS
  <2>8. QED
    BY <2>4, <2>6, <2>7
<1>8. InstancesInv(file, longer, m)
  <2> HIDE DEF longer, new, old, m
  <2>1. InstancesInv(file, old, k)
    BY DEF old
  <2>2. DOMAIN longer = 1 .. m /\ DOMAIN old = 1 .. k
    BY <1>7, <2>1 DEF InstancesInv
  <2> DEFINE Good(i, instance) ==
                 /\ instance.geometry = [meshId |-> i,
                                         primitives |-> Len(file.meshes[i].faces),
                                         hasTextureCoords |-> file.meshes[i].texCoords,
                                         hasTangentsAndBitangents |-> file.meshes[i].texCoords]
                 /\ instance.material = MaterialNumber(file, i)
                 /\ instance.values.kind = ReadMaterial(file, i).kind
                 /\ OwnMaterial(file, i) =>
                        instance.values.inverseArea = IF IsLit(file, i) THEN i ELSE 0
  <2>3. Good(m, new)
    BY <1>4, <1>5, <1>6
  <2>4. \A i \in 1 .. k : Good(i, old[i])
    BY <2>1, <2>2 DEF InstancesInv
  <2>5. \A i \in 1 .. m : Good(i, longer[i])
    <3> HIDE DEF Good
    <3>1. QED
      BY <1>7, <2>3, <2>4
  <2>6. QED
    BY <1>7, <2>2, <2>5 DEF InstancesInv
<1>9. QED
  BY <1>1, <1>2, <1>8

LEMMA ImportedFileInv ==
    ASSUME NEW file, IsFile(file)
    PROVE  LET group == SceneRootGroup(CreateFromFile(file))
           IN /\ InstancesInv(file, group.instances, Len(file.meshes))
              /\ SceneInv(file, group.scene, Loaded(file, 2, 0))
<1> DEFINE n == Len(file.meshes)
           s == CreateFromFile(file)
           meshes == MeshesOfGraph(FlatGraph(s.file))
<1>1. n \in Nat /\ MeshesOf(file) = 1 .. n
  BY FileFacts DEF MeshesOf
<1>2. SceneInv(file, s, Loaded(file, 1, 0))
  BY CreatedSceneInv
<1>3. s.file = file
  BY <1>2 DEF SceneInv
<1>4. meshes = Numbers(n)
  BY <1>3, MeshesInOrder
<1>5. Len(meshes) = n /\ \A m \in 1 .. n : meshes[m] = m
  BY <1>1, <1>4, NumbersAreSequences
<1> HIDE DEF meshes, s
<1>6. PICK f : /\ f[0] = [instances |-> <<>>, scene |-> s]
               /\ \A i \in 1 .. Len(meshes) : f[i] = AddInstance(f[i - 1], meshes[i])
               /\ SceneRootGroup(s) = f[Len(meshes)]
  BY <1>1, <1>5, InstancesOneByOne DEF meshes
<1>7. Loaded(file, 1, n) = Loaded(file, 2, 0)
  <2>1. Loaded(file, 1, n) = Loaded(file, 1 + 1, 0)
    BY LoadedFacts DEF n
  <2>2. 1 + 1 = 2
    OBVIOUS
  <2>3. QED
    BY <2>1, <2>2
<1> HIDE DEF n
<1> DEFINE S == {m \in Nat : m <= n => /\ InstancesInv(file, f[m].instances, m)
                                       /\ SceneInv(file, f[m].scene, Loaded(file, 1, m))}
<1>8. 0 \in S
  <2>1. f[0].instances = <<>> /\ f[0].scene = s
    BY <1>6
  <2>2. InstancesInv(file, <<>>, 0)
    <3>1. DOMAIN (<<>>) = {} /\ 1 .. 0 = {}
      OBVIOUS
    <3>2. QED
      BY <3>1 DEF InstancesInv
  <2>3. QED
    BY <1>2, <2>1, <2>2
<1>9. ASSUME NEW m \in Nat, m \in S PROVE m + 1 \in S
  <2> SUFFICES ASSUME m + 1 <= n
               PROVE  /\ InstancesInv(file, f[m + 1].instances, m + 1)
                      /\ SceneInv(file, f[m + 1].scene, Loaded(file, 1, m + 1))
    OBVIOUS
  <2>1. m <= n /\ m + 1 \in 1 .. n /\ m + 1 - 1 = m
    BY <1>1
  <2>2. f[m + 1] = AddInstance(f[m], m + 1)
    BY <1>5, <1>6, <2>1
  <2>3. InstancesInv(file, f[m].instances, m) /\ SceneInv(file, f[m].scene, Loaded(file, 1, m))
    BY <1>9, <2>1
  <2>4. QED
    BY <1>1, <2>1, <2>2, <2>3, InstanceStep
<1>10. n \in S
  <2> HIDE DEF S
  <2>1. QED
    BY <1>1, <1>8, <1>9, SetInduction
<1>11. SceneRootGroup(s) = f[n]
  BY <1>5, <1>6
<1>12. QED
  BY <1>1, <1>7, <1>10, <1>11 DEF n, s

-----------------------------------------------------------------------------
(***************************************************************************)
(* The light a scene emits and the light that is sampled                   *)
(***************************************************************************)
\* EmittersShineAsSampled of any scene
Emitters(s) == {i \in DOMAIN s.instances : s.instances[i].values.kind = "DiffuseEmitter"}
MeshOfInstance(s, i) == s.instances[i].geometry.meshId
LightPlaces(s, mesh) == {i \in DOMAIN s.lights : s.lights[i] = AreaLight(mesh)}
LitEmitters(s) == {i \in Emitters(s) : LightPlaces(s, MeshOfInstance(s, i)) # {}}

AreasShine(s) ==
    \A i \in Emitters(s) :
        (\A j \in Emitters(s) \ {i} : s.instances[j].material # s.instances[i].material)
        => s.instances[i].values.inverseArea = IF i \in LitEmitters(s) THEN MeshOfInstance(s, i) ELSE 0

EquallyMany(s) ==
    \A i, j \in LitEmitters(s) :
        Cardinality(LightPlaces(s, MeshOfInstance(s, i)))
        = Cardinality(LightPlaces(s, MeshOfInstance(s, j)))

LightsHaveSources(s) ==
    \A k \in DOMAIN s.lights :
        IF s.lights[k].isDelta
        THEN \A l \in DOMAIN s.lights \ {k} : s.lights[l] # s.lights[k]
        ELSE \E i \in LitEmitters(s) : s.lights[k] = AreaLight(MeshOfInstance(s, i))

AttributesThere(s) ==
    \A i \in DOMAIN s.instances :
        s.instances[i].geometry.hasTextureCoords =>
            AttributesRead(s.instances[i].values) \subseteq AttributesOf(s.instances[i].geometry)

Shines(s) == AreasShine(s) /\ EquallyMany(s) /\ LightsHaveSources(s) /\ AttributesThere(s)

LEMMA ShinesIsProperty == EmittersShineAsSampled <=> Shines(scene)
BY DEF EmittersShineAsSampled, LightsOfMesh, Shines, AreasShine, EquallyMany, LightsHaveSources,
       AttributesThere, Emitters, MeshOfInstance, LightPlaces, LitEmitters

\* A point is the only light, or there is none.
LEMMA FewLights ==
    ASSUME NEW lights, lights = <<>> \/ lights = <<PointLight(1)>>
    PROVE  \A k \in DOMAIN lights : lights[k].isDelta /\ DOMAIN lights \ {k} = {}
<1>1. PointLight(1).isDelta
  BY DEF PointLight
<1>2. CASE lights = <<>>
  <2>1. DOMAIN lights = {}
    BY <1>2
  <2>2. QED
    BY <2>1
<1>3. CASE lights = <<PointLight(1)>>
  <2>1. DOMAIN lights = {1} /\ lights[1] = PointLight(1)
    BY <1>3
  <2>2. QED
    BY <1>1, <2>1
<1>4. QED
  BY <1>2, <1>3

\* No scene has been imported.
LEMMA NothingShines ==
    ASSUME NEW s, s.instances = <<>>, s.lights = <<>>
    PROVE  Shines(s)
<1>1. DOMAIN s.instances = {} /\ DOMAIN s.lights = {}
  OBVIOUS
<1>2. Emitters(s) = {} /\ LitEmitters(s) = {}
  BY <1>1 DEF Emitters, LitEmitters
<1>3. QED
  BY <1>1, <1>2 DEF Shines, AreasShine, EquallyMany, LightsHaveSources, AttributesThere

\* The instances of the boxes: all but that of a light are dark.
Kinds == {"Diffuse", "Glossy", "Texture", "Mirror", "Glass", "DiffuseEmitter"}

Dark(instance) ==
    /\ instance.values.kind \in Kinds \ {"DiffuseEmitter"}
    /\ ~instance.geometry.hasTextureCoords

Lamp(instance) ==
    /\ instance.values.kind = "DiffuseEmitter" /\ instance.values.inverseArea = FirstLightMesh
    /\ instance.geometry.meshId = FirstLightMesh /\ ~instance.geometry.hasTextureCoords

Elements(q) == {q[i] : i \in DOMAIN q}

\* What a sequence put together from sequences holds
LEMMA ElementsOfJoined ==
    ASSUME NEW S, NEW a \in Seq(S), NEW b \in Seq(S)
    PROVE  a \o b \in Seq(S) /\ Elements(a \o b) = Elements(a) \cup Elements(b)
<1>1. /\ a \o b \in Seq(S) /\ Len(a \o b) = Len(a) + Len(b) /\ Len(a) \in Nat /\ Len(b) \in Nat
      /\ DOMAIN a = 1 .. Len(a) /\ DOMAIN b = 1 .. Len(b) /\ DOMAIN (a \o b) = 1 .. Len(a \o b)
      /\ \A i \in 1 .. Len(a) + Len(b) :
             (a \o b)[i] = IF i <= Len(a) THEN a[i] ELSE b[i - Len(a)]
  OBVIOUS
<1> DEFINE c == a \o b
           m == Len(a)
           n == Len(b)
<1>2. /\ m \in Nat /\ n \in Nat
      /\ DOMAIN a = 1 .. m /\ DOMAIN b = 1 .. n /\ DOMAIN c = 1 .. m + n
      /\ \A i \in 1 .. m + n : c[i] = IF i <= m THEN a[i] ELSE b[i - m]
  BY <1>1
<1> HIDE DEF c, m, n
<1>3. \A x \in Elements(c) : x \in Elements(a) \cup Elements(b)
  <2> SUFFICES ASSUME NEW i \in 1 .. m + n PROVE c[i] \in Elements(a) \cup Elements(b)
    BY <1>2 DEF Elements
  <2>1. CASE i <= m
    BY <1>2, <2>1 DEF Elements
  <2>2. CASE ~(i <= m)
    <3>1. i - m \in 1 .. n
      BY <1>2, <2>2
    <3>2. QED
      BY <1>2, <2>2, <3>1 DEF Elements
  <2>3. QED
    BY <2>1, <2>2
<1>4. Elements(a) \subseteq Elements(c)
  <2> SUFFICES ASSUME NEW i \in 1 .. m PROVE a[i] \in Elements(c)
    BY <1>2 DEF Elements
  <2>1. i \in 1 .. m + n /\ i <= m
    BY <1>2
  <2>2. QED
    BY <1>2, <2>1 DEF Elements
<1>5. Elements(b) \subseteq Elements(c)
  <2> SUFFICES ASSUME NEW i \in 1 .. n PROVE b[i] \in Elements(c)
    BY <1>2 DEF Elements
  <2> DEFINE k == i + m
  <2>1. k \in 1 .. m + n /\ ~(k <= m) /\ k - m = i
    BY <1>2
  <2> HIDE DEF k
  <2>2. c[k] = b[i] /\ k \in DOMAIN c
    BY <1>2, <2>1
  <2>3. QED
    BY <2>2 DEF Elements
<1>6. QED
  BY <1>1, <1>3, <1>4, <1>5 DEF c

\* A box shines with the light it has, if it has one, and a point shines anyway.
LEMMA BoxShines ==
    ASSUME NEW s, \A x \in Elements(s.instances) : Dark(x) \/ Lamp(x),
           \/ /\ s.lights = <<AreaLight(FirstLightMesh)>>
              /\ \E x \in Elements(s.instances) : Lamp(x)
           \/ /\ s.lights = <<>> \/ s.lights = <<PointLight(1)>>
              /\ \A x \in Elements(s.instances) : Dark(x)
    PROVE  Shines(s)
<1>1. \A i \in DOMAIN s.instances : Dark(s.instances[i]) \/ Lamp(s.instances[i])
  BY DEF Elements
<1>2. AttributesThere(s)
  BY <1>1 DEF AttributesThere, Dark, Lamp
<1>3. \A i \in Emitters(s) :
          /\ i \in DOMAIN s.instances /\ MeshOfInstance(s, i) = FirstLightMesh
          /\ s.instances[i].values.inverseArea = FirstLightMesh
  BY <1>1 DEF Emitters, Dark, Lamp, MeshOfInstance
<1>4. EquallyMany(s)
  BY <1>3 DEF EquallyMany, LitEmitters
<1>5. CASE /\ s.lights = <<AreaLight(FirstLightMesh)>>
           /\ \E x \in Elements(s.instances) : Lamp(x)
  <2>1. DOMAIN s.lights = {1} /\ s.lights[1] = AreaLight(FirstLightMesh)
    BY <1>5
  <2>2. LitEmitters(s) = Emitters(s)
    BY <1>3, <2>1 DEF LitEmitters, LightPlaces
  <2>3. PICK i \in DOMAIN s.instances : Lamp(s.instances[i])
    BY <1>5 DEF Elements
  <2>4. i \in LitEmitters(s) /\ MeshOfInstance(s, i) = FirstLightMesh
    BY <2>2, <2>3 DEF Emitters, Lamp, MeshOfInstance
  <2>5. LightsHaveSources(s)
    BY <2>1, <2>4 DEF LightsHaveSources, AreaLight
  <2>6. AreasShine(s)
    BY <1>3, <2>2 DEF AreasShine
  <2>7. QED
    BY <1>2, <1>4, <2>5, <2>6 DEF Shines
<1>6. CASE /\ s.lights = <<>> \/ s.lights = <<PointLight(1)>>
           /\ \A x \in Elements(s.instances) : Dark(x)
  <2>1. Emitters(s) = {}
    BY <1>6 DEF Emitters, Dark, Elements
  <2>2. LitEmitters(s) = {}
    BY <2>1 DEF LitEmitters
  <2>3. \A k \in DOMAIN s.lights : s.lights[k].isDelta /\ DOMAIN s.lights \ {k} = {}
    BY <1>6, FewLights
  <2>4. QED
    BY <1>2, <1>4, <2>1, <2>2, <2>3 DEF Shines, AreasShine, LightsHaveSources
<1>7. QED
  BY <1>5, <1>6

\* What panels, spheres and lights are made of
LEMMA PanelsAreDark ==
    ASSUME NEW n, NEW name \in {"diffuseWhite", "diffuseGreen", "diffuseRed", "diffuseBlue",
                                "mirror", "glossyWhite", "glass"}
    PROVE  Dark(Panel(n, name)) /\ Dark(SphereInstance(name))
<1>1. BoxMaterials[name] \in {"Diffuse", "Mirror", "Glossy", "Glass"}
  BY DEF BoxMaterials
<1>2. MaterialOfKind(BoxMaterials[name]).kind \in Kinds \ {"DiffuseEmitter"}
  BY <1>1 DEF MaterialOfKind, Kinds
<1> DEFINE material == MaterialOfKind(BoxMaterials[name])
<1> HIDE DEF material
<1>3. /\ Parallelogram(n, name, material).values.kind = material.kind
      /\ ~Parallelogram(n, name, material).geometry.hasTextureCoords
  BY DEF Parallelogram, RegisteredValues
<1>4. Panel(n, name) = Parallelogram(n, name, material)
  BY DEF Panel, material
<1>5. /\ SphereInstance(name).values.kind = material.kind
      /\ ~SphereInstance(name).geometry.hasTextureCoords
  BY DEF SphereInstance, RegisteredValues, material
<1>6. material.kind \in Kinds \ {"DiffuseEmitter"}
  BY <1>2 DEF material
<1>7. QED
  BY <1>3, <1>4, <1>5, <1>6 DEF Dark

LEMMA LightIsLamp ==
    \E x : Lamp(x) /\ LightInstances(<<AreaLight(FirstLightMesh)>>) = <<x>>
<1> DEFINE lights == <<AreaLight(FirstLightMesh)>>
           x == Parallelogram(FirstLightMesh, "emitter",
                              [EmitterMaterial EXCEPT !.inverseArea = FirstLightMesh])
<1>1. DOMAIN lights = {1} /\ lights[1].from = FirstLightMesh
  BY DEF AreaLight
<1>2. FirstLightMesh + 1 - 1 = FirstLightMesh
  BY DEF FirstLightMesh
<1>3. \A y : /\ [EmitterMaterial EXCEPT !.inverseArea = y].kind = "DiffuseEmitter"
             /\ [EmitterMaterial EXCEPT !.inverseArea = y].inverseArea = y
  BY DEF EmitterMaterial
<1>4. /\ x.geometry.meshId = FirstLightMesh
      /\ ~x.geometry.hasTextureCoords
      /\ x.values.kind = "DiffuseEmitter"
      /\ x.values.inverseArea = FirstLightMesh
  BY <1>3 DEF Parallelogram, RegisteredValues
<1>5. LightInstances(lights)
      = [i \in {1} |-> Parallelogram(FirstLightMesh + i - 1, "emitter",
                                     [EmitterMaterial EXCEPT !.inverseArea = FirstLightMesh])]
  BY <1>1 DEF LightInstances
<1>6. DOMAIN LightInstances(lights) = {1} /\ LightInstances(lights)[1] = x
  BY <1>2, <1>5
<1>7. LightInstances(lights) = [i \in {1} |-> x]
  BY <1>5, <1>6
<1> HIDE DEF x
<1>8. [i \in {1} |-> x] = <<x>>
  OBVIOUS
<1>9. QED
  BY <1>4, <1>7, <1>8 DEF Lamp

\* The parts of the boxes
Parts == {Panel(n, name) : n \in Nat, name \in DOMAIN BoxMaterials}
         \cup {SphereInstance(name) : name \in DOMAIN BoxMaterials}

Things == {x \in Parts : Dark(x)}

LEMMA SequencesOfThings ==
    ASSUME NEW S, Things \subseteq S
    PROVE  /\ \A q \in Seq(Things) : q \in Seq(S) /\ \A x \in Elements(q) : Dark(x)
           /\ <<>> \in Seq(S) /\ Elements(<<>>) = {}
<1>1. \A q \in Seq(Things) : q \in Seq(S)
  OBVIOUS
<1>2. ASSUME NEW q \in Seq(Things), NEW x \in Elements(q) PROVE Dark(x)
  <2>1. x \in Things
    BY <1>2 DEF Elements
  <2>2. QED
    BY <2>1 DEF Things
<1>3. Elements(<<>>) = {}
  BY DEF Elements
<1>4. QED
  BY <1>1, <1>2, <1>3

LEMMA ThingsOfBox ==
    ASSUME NEW n \in Nat, NEW name \in {"diffuseWhite", "diffuseGreen", "diffuseRed", "diffuseBlue",
                                        "mirror", "glossyWhite", "glass"}
    PROVE  Panel(n, name) \in Things /\ SphereInstance(name) \in Things
<1>1. name \in DOMAIN BoxMaterials
  BY DEF BoxMaterials
<1>2. Panel(n, name) \in Parts /\ SphereInstance(name) \in Parts
  BY <1>1 DEF Parts
<1>3. Dark(Panel(n, name)) /\ Dark(SphereInstance(name))
  BY PanelsAreDark
<1>4. QED
  BY <1>2, <1>3 DEF Things

LEMMA WallsAreThings ==
    /\ CornellWalls \in Seq(Things)
    /\ \A config : /\ SmallWalls(config) \in Seq(Things) /\ SmallBlocks(config) \in Seq(Things)
                   /\ SmallSpheres(config) \in Seq(Things)
<1>1. CornellWalls \in Seq(Things)
  BY ThingsOfBox DEF CornellWalls
<1> SUFFICES ASSUME NEW config
             PROVE  /\ SmallWalls(config) \in Seq(Things) /\ SmallBlocks(config) \in Seq(Things)
                    /\ SmallSpheres(config) \in Seq(Things)
  BY <1>1
<1>2. SmallWalls(config) \in Seq(Things)
  <2> DEFINE matFloor == IF "FloorMirror" \in config THEN "mirror"
                         ELSE IF "FloorGlossy" \in config THEN "glossyWhite" ELSE "diffuseWhite"
             matBackWall == IF "BackwallBlue" \in config THEN "diffuseBlue" ELSE "diffuseWhite"
             sides == IF "SmallVCMColors" \in config THEN <<"diffuseRed", "diffuseGreen">>
                      ELSE <<"diffuseGreen", "diffuseRed">>
             ceiling == IF "LightPointDistant" \in config THEN <<>> ELSE <<Panel(1, "diffuseWhite")>>
  <2>1. SmallWalls(config)
        = <<Panel(0, matFloor)>> \o ceiling
          \o <<Panel(2, matBackWall), Panel(3, sides[1]), Panel(4, sides[2])>>
    BY DEF SmallWalls
  <2>2. Panel(0, matFloor) \in Things
    BY ThingsOfBox
  <2>3. Panel(2, matBackWall) \in Things
    BY ThingsOfBox
  <2>4. Panel(3, sides[1]) \in Things /\ Panel(4, sides[2]) \in Things
    <3>1. sides[1] \in {"diffuseRed", "diffuseGreen"} /\ sides[2] \in {"diffuseRed", "diffuseGreen"}
      OBVIOUS
    <3> HIDE DEF sides
    <3>2. QED
      BY <3>1, ThingsOfBox
  <2>5. ceiling \in Seq(Things)
    <3>1. Panel(1, "diffuseWhite") \in Things
      BY ThingsOfBox
    <3>2. QED
      BY <3>1
  <2> HIDE DEF matFloor, matBackWall, sides, ceiling
  <2>6. QED
    BY <2>1, <2>2, <2>3, <2>4, <2>5
<1>3. SmallBlocks(config) \in Seq(Things)
  <2>1. ASSUME NEW i \in 1 .. 10 PROVE Panel(4 + i, "diffuseWhite") \in Things
    BY ThingsOfBox
  <2>2. [i \in 1 .. 10 |-> Panel(4 + i, "diffuseWhite")] \in Seq(Things)
    BY <2>1
  <2>3. <<>> \in Seq(Things)
    OBVIOUS
  <2>4. QED
    BY <2>2, <2>3 DEF SmallBlocks
<1>4. SmallSpheres(config) \in Seq(Things)
  <2>1. SphereInstance("glass") \in Things /\ SphereInstance("mirror") \in Things
    BY ThingsOfBox, 0 \in Nat
  <2>2. QED
    BY <2>1 DEF SmallSpheres
<1>5. QED
  BY <1>2, <1>3, <1>4

LEMMA CornellShines == Shines(CornellScene) /\ \A x \in Elements(CornellScene.instances) : Dark(x) \/ Lamp(x)
<1>1. PICK lamp : Lamp(lamp) /\ LightInstances(<<AreaLight(FirstLightMesh)>>) = <<lamp>>
  BY LightIsLamp
<1> DEFINE S == Things \cup {lamp}
<1>2. CornellWalls \in Seq(S) /\ (\A x \in Elements(CornellWalls) : Dark(x)) /\ <<lamp>> \in Seq(S)
  <2>1. Things \subseteq S /\ lamp \in S
    OBVIOUS
  <2> HIDE DEF S
  <2>2. CornellWalls \in Seq(S) /\ \A x \in Elements(CornellWalls) : Dark(x)
    BY <2>1, WallsAreThings, SequencesOfThings
  <2>3. <<lamp>> \in Seq(S)
    BY <2>1
  <2>4. QED
    BY <2>2, <2>3
<1>3. Elements(<<lamp>>) = {lamp}
  BY DEF Elements
<1> HIDE DEF S
<1>4. Elements(CornellWalls \o <<lamp>>) = Elements(CornellWalls) \cup {lamp}
  <2> DEFINE one == <<lamp>>
  <2>1. CornellWalls \in Seq(S) /\ one \in Seq(S) /\ Elements(one) = {lamp}
    BY <1>2, <1>3
  <2> HIDE DEF one
  <2>2. Elements(CornellWalls \o one) = Elements(CornellWalls) \cup {lamp}
    BY <2>1, ElementsOfJoined
  <2>3. QED
    BY <2>2 DEF one
<1>5. /\ CornellScene.lights = <<AreaLight(FirstLightMesh)>>
      /\ CornellScene.instances = CornellWalls \o <<lamp>>
  BY <1>1 DEF CornellScene, CornellLights
<1>6. /\ \A x \in Elements(CornellScene.instances) : Dark(x) \/ Lamp(x)
      /\ \E x \in Elements(CornellScene.instances) : Lamp(x)
  BY <1>1, <1>2, <1>4, <1>5
<1>7. QED
  BY <1>5, <1>6, BoxShines

LEMMA CornellSmallShines ==
    ASSUME NEW config
    PROVE  /\ Shines(CornellSmallScene(config))
           /\ \A x \in Elements(CornellSmallScene(config).instances) : Dark(x) \/ Lamp(x)
<1>1. PICK lamp : Lamp(lamp) /\ LightInstances(<<AreaLight(FirstLightMesh)>>) = <<lamp>>
  BY LightIsLamp
<1> DEFINE S == Things \cup {lamp}
           walls == SmallWalls(config)
           blocks == SmallBlocks(config)
           spheres == SmallSpheres(config)
           lamps == IF HasAreaLight(config) THEN LightInstances(SmallLights(config)) ELSE <<>>
           s == CornellSmallScene(config)
<1>2. /\ walls \in Seq(S) /\ blocks \in Seq(S) /\ spheres \in Seq(S)
      /\ \A x \in Elements(walls) \cup Elements(blocks) \cup Elements(spheres) : Dark(x)
  BY WallsAreThings, SequencesOfThings
<1>3. lamps = IF HasAreaLight(config) THEN <<lamp>> ELSE <<>>
  BY <1>1 DEF SmallLights
<1>4. lamps \in Seq(S) /\ Elements(lamps) = IF HasAreaLight(config) THEN {lamp} ELSE {}
  <2>1. <<lamp>> \in Seq(S) /\ Elements(<<lamp>>) = {lamp} /\ Elements(<<>>) = {} /\ <<>> \in Seq(S)
    BY DEF Elements
  <2>2. QED
    BY <1>3, <2>1
<1>5. s.lights = SmallLights(config) /\ s.instances = walls \o blocks \o lamps \o spheres
  BY DEF CornellSmallScene
<1> HIDE DEF S, walls, blocks, spheres, lamps, s
<1>6. Elements(walls \o blocks \o lamps \o spheres)
      = Elements(walls) \cup Elements(blocks) \cup Elements(lamps) \cup Elements(spheres)
  <2>1. /\ walls \in Seq(S) /\ blocks \in Seq(S) /\ spheres \in Seq(S) /\ lamps \in Seq(S)
    BY <1>2, <1>4
  <2> DEFINE two == walls \o blocks
             three == two \o lamps
             four == three \o spheres
  <2>2. two \in Seq(S) /\ Elements(two) = Elements(walls) \cup Elements(blocks)
    BY <2>1, ElementsOfJoined
  <2> HIDE DEF two
  <2>3. three \in Seq(S) /\ Elements(three) = Elements(two) \cup Elements(lamps)
    BY <2>1, <2>2, ElementsOfJoined
  <2> HIDE DEF three
  <2>4. Elements(four) = Elements(three) \cup Elements(spheres)
    BY <2>1, <2>3, ElementsOfJoined
  <2>5. QED
    BY <2>2, <2>3, <2>4 DEF two, three
<1>7. \A x \in Elements(s.instances) : Dark(x) \/ Lamp(x)
  BY <1>1, <1>2, <1>4, <1>5, <1>6
<1>8. CASE HasAreaLight(config)
  <2>1. s.lights = <<AreaLight(FirstLightMesh)>>
    BY <1>5, <1>8 DEF SmallLights
  <2>2. \E x \in Elements(s.instances) : Lamp(x)
    BY <1>1, <1>4, <1>5, <1>6, <1>8
  <2>3. QED
    BY <1>7, <2>1, <2>2, BoxShines DEF s
<1>9. CASE ~HasAreaLight(config)
  <2>1. s.lights = <<>> \/ s.lights = <<PointLight(1)>>
    BY <1>5, <1>9 DEF SmallLights
  <2>2. \A x \in Elements(s.instances) : Dark(x)
    BY <1>2, <1>4, <1>5, <1>6, <1>9
  <2>3. QED
    BY <1>7, <2>1, <2>2, BoxShines DEF s
<1>10. QED
  BY <1>8, <1>9

LEMMA FileShines ==
    ASSUME NEW file, IsFile(file), NEW s, NEW t,
           InstancesInv(file, s.instances, Len(file.meshes)),
           SceneInv(file, t, Loaded(file, 2, 0)), s.lights = t.lights
    PROVE  Shines(s)
<1>1. MeshesOf(file) = 1 .. Len(file.meshes) /\ MeshesOf(file) \subseteq Nat \ {0}
  BY FileFacts DEF MeshesOf
<1>2. DOMAIN s.instances = MeshesOf(file)
  BY <1>1 DEF InstancesInv
<1>3. \A i \in MeshesOf(file) :
          /\ s.instances[i].geometry = [meshId |-> i,
                                        primitives |-> Len(file.meshes[i].faces),
                                        hasTextureCoords |-> file.meshes[i].texCoords,
                                        hasTangentsAndBitangents |-> file.meshes[i].texCoords]
          /\ s.instances[i].material = MaterialNumber(file, i)
          /\ s.instances[i].values.kind = ReadMaterial(file, i).kind
          /\ OwnMaterial(file, i) =>
                 s.instances[i].values.inverseArea = IF IsLit(file, i) THEN i ELSE 0
  BY <1>2 DEF InstancesInv
<1>4. \A i \in MeshesOf(file) :
          /\ MeshOfInstance(s, i) = i
          /\ s.instances[i].geometry.hasTextureCoords
                = s.instances[i].geometry.hasTangentsAndBitangents
  <2> SUFFICES ASSUME NEW i \in MeshesOf(file)
               PROVE  /\ s.instances[i].geometry.meshId = i
                      /\ s.instances[i].geometry.hasTextureCoords
                            = s.instances[i].geometry.hasTangentsAndBitangents
    BY DEF MeshOfInstance
  <2> DEFINE read == file.meshes[i].texCoords
             primitives == Len(file.meshes[i].faces)
             geometry == s.instances[i].geometry
  <2>1. geometry = [meshId |-> i, primitives |-> primitives,
                    hasTextureCoords |-> read, hasTangentsAndBitangents |-> read]
    BY <1>3
  <2> HIDE DEF read, primitives, geometry
  <2>2. geometry.meshId = i /\ geometry.hasTextureCoords = read
        /\ geometry.hasTangentsAndBitangents = read
    BY <2>1
  <2>3. QED
    BY <2>2 DEF geometry
<1>5. Emitters(s) = {i \in MeshesOf(file) : Emits(file, i)}
  BY <1>2, <1>3 DEF Emitters, Emits
<1>6. /\ s.lights \in Seq(Lights)
      /\ \A k \in DOMAIN s.lights :
             \/ s.lights[k] \in DeltaLights
             \/ \E m \in MeshesOf(file) : IsLit(file, m) /\ s.lights[k] = AreaLight(m)
      /\ \A l \in DeltaLights : Copies(s.lights, l) <= 1
  BY DEF SceneInv, LightsInv
<1>7. \A m \in MeshesOf(file) : Copies(s.lights, AreaLight(m)) = IF IsLit(file, m) THEN 2 ELSE 0
  <2>1. \A m \in MeshesOf(file) : Loaded(file, 2, 0)[m] = 2
    <3>1. \A m \in MeshesOf(file) : ~(m <= 0)
      BY <1>1
    <3>2. QED
      BY <3>1 DEF Loaded
  <2>2. QED
    BY <2>1 DEF SceneInv, LightsInv
<1>8. \A m : LightPlaces(s, m) = PlacesOf(s.lights, AreaLight(m))
  BY DEF LightPlaces, PlacesOf
<1>9. LitEmitters(s) = {i \in MeshesOf(file) : IsLit(file, i)}
  <2>1. \A i \in MeshesOf(file) : LightPlaces(s, i) # {} <=> IsLit(file, i)
    <3> SUFFICES ASSUME NEW i \in MeshesOf(file) PROVE LightPlaces(s, i) # {} <=> IsLit(file, i)
      OBVIOUS
    <3>1. Copies(s.lights, AreaLight(i)) = 0 <=> LightPlaces(s, i) = {}
      BY <1>6, <1>8, CopiesAreFinite
    <3>2. QED
      BY <1>7, <3>1
  <2>2. \A i \in MeshesOf(file) : IsLit(file, i) => Emits(file, i)
    BY DEF IsLit
  <2>3. QED
    BY <1>4, <1>5, <2>1, <2>2 DEF LitEmitters
<1>10. AreasShine(s)
  <2> SUFFICES ASSUME NEW i \in Emitters(s),
                      \A j \in Emitters(s) \ {i} : s.instances[j].material # s.instances[i].material
               PROVE  s.instances[i].values.inverseArea
                      = IF i \in LitEmitters(s) THEN MeshOfInstance(s, i) ELSE 0
    BY DEF AreasShine
  <2>1. i \in MeshesOf(file) /\ Emits(file, i)
    BY <1>5
  <2>2. OwnMaterial(file, i)
    <3> SUFFICES ASSUME NEW j \in MeshesOf(file), j # i,
                        MaterialNumber(file, j) = MaterialNumber(file, i)
                 PROVE  FALSE
      BY DEF OwnMaterial
    <3>1. Emits(file, j)
      BY <2>1 DEF Emits, ReadMaterial
    <3>2. j \in Emitters(s) \ {i}
      BY <1>5, <3>1
    <3>3. s.instances[j].material = s.instances[i].material
      BY <1>3, <2>1
    <3>4. QED
      BY <3>2, <3>3
  <2>3. QED
    BY <1>3, <1>4, <1>9, <2>1, <2>2
<1>11. EquallyMany(s)
  <2>1. \A i \in LitEmitters(s) : Cardinality(LightPlaces(s, MeshOfInstance(s, i))) = 2
    BY <1>4, <1>7, <1>8, <1>9 DEF Copies
  <2>2. QED
    BY <2>1 DEF EquallyMany
<1>12. LightsHaveSources(s)
  <2> SUFFICES ASSUME NEW k \in DOMAIN s.lights
               PROVE  IF s.lights[k].isDelta
                      THEN \A l \in DOMAIN s.lights \ {k} : s.lights[l] # s.lights[k]
                      ELSE \E i \in LitEmitters(s) : s.lights[k] = AreaLight(MeshOfInstance(s, i))
    BY DEF LightsHaveSources
  <2>1. CASE s.lights[k] \in DeltaLights
    <3>1. s.lights[k].isDelta
      BY <2>1, LightsDiffer
    <3>2. Copies(s.lights, s.lights[k]) <= 1
      BY <1>6, <2>1
    <3>3. \A i, j \in DOMAIN s.lights :
              s.lights[i] = s.lights[k] /\ s.lights[j] = s.lights[k] => i = j
      BY <1>6, <3>2, CopiesAreFinite
    <3>4. QED
      BY <3>1, <3>3
  <2>2. CASE s.lights[k] \notin DeltaLights
    <3>1. PICK m \in MeshesOf(file) : IsLit(file, m) /\ s.lights[k] = AreaLight(m)
      BY <1>6, <2>2
    <3>2. ~s.lights[k].isDelta
      BY <3>1 DEF AreaLight
    <3>3. m \in LitEmitters(s) /\ MeshOfInstance(s, m) = m
      BY <1>4, <1>9, <3>1
    <3>4. QED
      BY <3>1, <3>2, <3>3
  <2>3. QED
    BY <2>1, <2>2
<1>13. AttributesThere(s)
  <2> SUFFICES ASSUME NEW i \in MeshesOf(file), s.instances[i].geometry.hasTextureCoords
               PROVE  AttributesRead(s.instances[i].values)
                          \subseteq AttributesOf(s.instances[i].geometry)
    BY <1>2 DEF AttributesThere
  <2>1. s.instances[i].geometry.hasTangentsAndBitangents
    BY <1>4
  <2>2. QED
    BY <2>1 DEF AttributesRead, AttributesOf
<1>14. QED
  BY <1>10, <1>11, <1>12, <1>13 DEF Shines

LEMMA ImportedScenesShine ==
    ASSUME NEW name, name[1] \in {"Cornell"} \cup DOMAIN Configs \/ IsFile(name[2])
    PROVE  Shines(ImportedScene(name))
<1> DEFINE s == ImportedScene(name)
<1>1. CASE name[1] = "Cornell"
  <2>1. s = CornellScene
    BY <1>1 DEF ImportedScene
  <2>2. QED
    BY <2>1, CornellShines
<1>2. CASE name[1] # "Cornell" /\ name[1] \in DOMAIN Configs
  <2> DEFINE config == Configs[name[1]]
  <2>1. s = CornellSmallScene(config)
    BY <1>2 DEF ImportedScene
  <2> HIDE DEF s, config
  <2>2. Shines(s)
    BY <2>1, CornellSmallShines
  <2>3. QED
    BY <2>2 DEF s
<1>3. CASE name[1] # "Cornell" /\ name[1] \notin DOMAIN Configs
  <2> DEFINE file == name[2]
             group == SceneRootGroup(CreateFromFile(file))
  <2>1. IsFile(file)
    BY <1>3
  <2>2. s = [lights |-> group.scene.lights, instances |-> group.instances]
    BY <1>3 DEF ImportedScene
  <2>3. /\ InstancesInv(file, group.instances, Len(file.meshes))
        /\ SceneInv(file, group.scene, Loaded(file, 2, 0))
    BY <2>1, ImportedFileInv
  <2> HIDE DEF s, file, group
  <2>4. s.lights = group.scene.lights /\ s.instances = group.instances
    BY <2>2
  <2>5. Shines(s)
    BY <2>1, <2>3, <2>4, FileShines
  <2>6. QED
    BY <2>5 DEF s
<1>4. QED
  BY <1>1, <1>2, <1>3

\* Nothing but initScene changes the scene.
LEMMA SceneStep ==
    ASSUME Next
    PROVE  /\ methods' = methods
           /\ \/ scene' = scene
              \/ \E name \in ScenesFor[methods] : scene' = ImportedScene(name)
<1>1. CASE Host
  BY <1>1 DEF Host, Initialize, InitScene, InitSceneFails, FirstIteration, NextIteration, Resize,
         ResizeFails, ClearOutput, Throws
<1>2. CASE Rays
  BY <1>2 DEF Rays, LaunchRays, RadianceHit, PathSegment, DirectRadiance, EndOfRay
<1>3. CASE PhotonMapping
  <2>1. CASE LaunchPhotons \/ EstimateRadiance \/ OutputPass
    BY <2>1 DEF LaunchPhotons, EstimateRadiance, OutputPass
  <2>2. CASE createUniformGridPhotonMap \/ createPhotonKdTreeOnCPU
    BY <2>2 DEF createUniformGridPhotonMap, createPhotonKdTreeOnCPU, CreatesMap
  <2>3. ASSUME NEW t \in Threads,
               \/ Generate(t)
               \/ DiffusePhoton(t) \/ GlossyPhoton(t) \/ TexturePhoton(t)
               \/ GlassPhoton(t) \/ MirrorPhoton(t) \/ DiffuseEmitterPhoton(t) \/ PhotonMiss(t)
        PROVE  UNCHANGED <<methods, scene>>
    BY <2>3 DEF Generate, DiffusePhoton, GlossyPhoton, TexturePhoton, GlassPhoton, MirrorPhoton,
                DiffuseEmitterPhoton, PhotonMiss, MattPhotonHit, PhotonHit, Walks
  <2>4. QED
    BY <1>3, <2>1, <2>2, <2>3 DEF PhotonMapping
<1>4. CASE Connections
  BY <1>4 DEF Connections, EstimateVertexCounts, LaunchLightPass, LightPassEnds, CameraPass,
         StoreLightVertex
<1>5. QED
  BY <1>1, <1>2, <1>3, <1>4 DEF Next

\* EmittersShineAsSampled: whatever file is imported or built-in scene built,
\* an emitter of its own material shines with the inverse area of its own face
\* if that face is sampled as a light, and all emitters, points and spots are in
\* the list of lights equally often.
THEOREM EmittersShineAsSampledHolds == Spec => []EmittersShineAsSampled
<1> DEFINE SceneIsFine == methods \in MethodChoices /\ EmittersShineAsSampled
<1>1. Init => SceneIsFine
  <2> SUFFICES ASSUME Init PROVE SceneIsFine
    OBVIOUS
  <2>1. scene.instances = <<>> /\ scene.lights = <<>> /\ methods \in MethodChoices
    BY DEF Init, NoScene
  <2>2. QED
    BY <2>1, NothingShines, ShinesIsProperty
<1>2. SceneIsFine /\ [Next]_vars => SceneIsFine'
  <2> SUFFICES ASSUME SceneIsFine, [Next]_vars PROVE SceneIsFine'
    OBVIOUS
  <2>1. /\ methods' = methods
        /\ \/ scene' = scene
           \/ \E name \in ScenesFor[methods] : scene' = ImportedScene(name)
    BY SceneStep DEF vars
  <2>2. Shines(scene) /\ methods \in MethodChoices
    BY ShinesIsProperty
  <2>3. Shines(scene')
    BY <2>1, <2>2, ScenesAssumption, ImportedScenesShine
  <2>4. EmittersShineAsSampled' <=> Shines(scene')
    BY DEF EmittersShineAsSampled, LightsOfMesh, Shines, AreasShine, EquallyMany,
           LightsHaveSources, AttributesThere, Emitters, MeshOfInstance, LightPlaces, LitEmitters
  <2>5. QED
    BY <2>1, <2>2, <2>3, <2>4
<1>3. QED
  BY <1>1, <1>2, PTL DEF Spec

-----------------------------------------------------------------------------
(***************************************************************************)
(* The rays that are traced in a scene are answered                        *)
(***************************************************************************)
KindsAreKnown(s) == \A i \in DOMAIN s.instances : s.instances[i].values.kind \in Kinds

TypesOfRays == RadianceTypes \cup PhotonTypes \cup VcmTypes \cup ShadowTypes

\* A material has programs for all rays, but an emitter for photons inside of glass.
LEMMA KindsAnswer ==
    ASSUME NEW kind \in Kinds
    PROVE  TypesOfRays \ ProgramsOf[kind] \subseteq
               IF kind = "DiffuseEmitter" THEN {"PHOTON_IN_PARTICIPATING_MEDIUM"} ELSE {}
<1>1. CASE kind # "DiffuseEmitter"
  <2>1. ProgramsOf[kind] = TypesOfRays
    BY <1>1 DEF Kinds, ProgramsOf, DiffusePrograms, GlossyPrograms, TexturePrograms,
                MirrorPrograms, GlassPrograms, TypesOfRays
  <2>2. QED
    BY <1>1, <2>1
<1>2. CASE kind = "DiffuseEmitter"
  <2>1. ProgramsOf[kind] = EmitterPrograms
    BY <1>2 DEF ProgramsOf
  <2>2. TypesOfRays \ EmitterPrograms \subseteq {"PHOTON_IN_PARTICIPATING_MEDIUM"}
    BY Zenon DEF TypesOfRays, EmitterPrograms, PhotonTypes
  <2>3. QED
    BY <1>2, <2>1, <2>2
<1>3. QED
  BY <1>1, <1>2

LEMMA TracedTypesAreTypes == \A instances : TracedTypes(instances) \subseteq TypesOfRays
<1>1. {"RADIANCE", "PHOTON", "LIGHT_VCM", "CAMERA_VCM", "SHADOW"} \subseteq TypesOfRays
  BY Zenon DEF TypesOfRays, RadianceTypes, PhotonTypes, VcmTypes, ShadowTypes
<1>2. GlassTypes \subseteq TypesOfRays
  BY Zenon DEF GlassTypes, TypesOfRays, RadianceTypes, PhotonTypes
<1>3. QED
  BY <1>1, <1>2, Zenon DEF TracedTypes

LEMMA KnownKindsAreAnswered ==
    ASSUME NEW s, KindsAreKnown(s)
    PROVE  /\ \A i \in DOMAIN s.instances :
                  TracedTypes(s.instances) \ ProgramsOf[s.instances[i].values.kind] \subseteq
                      IF s.instances[i].values.kind = "DiffuseEmitter"
                      THEN {"PHOTON_IN_PARTICIPATING_MEDIUM"} ELSE {}
           /\ TracedTypes(s.instances) \cap (RadianceTypes \cup VcmTypes) \subseteq MissPrograms
<1>1. TracedTypes(s.instances) \subseteq TypesOfRays
  BY TracedTypesAreTypes
<1>2. ASSUME NEW i \in DOMAIN s.instances
      PROVE  TracedTypes(s.instances) \ ProgramsOf[s.instances[i].values.kind] \subseteq
                 IF s.instances[i].values.kind = "DiffuseEmitter"
                 THEN {"PHOTON_IN_PARTICIPATING_MEDIUM"} ELSE {}
  <2> DEFINE kind == s.instances[i].values.kind
             missing == IF kind = "DiffuseEmitter" THEN {"PHOTON_IN_PARTICIPATING_MEDIUM"} ELSE {}
             traced == TracedTypes(s.instances)
  <2>1. kind \in Kinds
    BY <1>2 DEF KindsAreKnown
  <2> HIDE DEF kind, traced
  <2>2. TypesOfRays \ ProgramsOf[kind] \subseteq missing
    BY <2>1, KindsAnswer
  <2>3. traced \subseteq TypesOfRays
    BY <1>1 DEF traced
  <2> HIDE DEF missing
  <2>4. traced \ ProgramsOf[kind] \subseteq missing
    BY <2>2, <2>3
  <2>5. QED
    BY <2>4 DEF kind, missing, traced
<1>3. RadianceTypes \cup VcmTypes \subseteq MissPrograms
  BY DEF MissPrograms
<1>4. QED
  BY <1>2, <1>3

LEMMA KindsOfMaterials == \A m : MaterialOf(m).kind \in Kinds
BY DEF MaterialOf, EmitterMaterial, TextureMaterial, MaterialOfKind, Kinds

LEMMA KindsOfBox ==
    ASSUME NEW s, \A x \in Elements(s.instances) : Dark(x) \/ Lamp(x)
    PROVE  KindsAreKnown(s)
BY DEF KindsAreKnown, Elements, Dark, Lamp, Kinds

LEMMA ImportedKindsAreKnown ==
    ASSUME NEW name, name[1] \in {"Cornell"} \cup DOMAIN Configs \/ IsFile(name[2])
    PROVE  KindsAreKnown(ImportedScene(name))
<1> DEFINE s == ImportedScene(name)
<1>1. CASE name[1] = "Cornell"
  <2>1. s = CornellScene
    BY <1>1 DEF ImportedScene
  <2>2. QED
    BY <2>1, CornellShines, KindsOfBox
<1>2. CASE name[1] # "Cornell" /\ name[1] \in DOMAIN Configs
  <2> DEFINE config == Configs[name[1]]
  <2>1. s = CornellSmallScene(config)
    BY <1>2 DEF ImportedScene
  <2> HIDE DEF s, config
  <2>2. \A x \in Elements(s.instances) : Dark(x) \/ Lamp(x)
    BY <2>1, CornellSmallShines
  <2>3. KindsAreKnown(s)
    BY <2>2, KindsOfBox
  <2>4. QED
    BY <2>3 DEF s
<1>3. CASE name[1] # "Cornell" /\ name[1] \notin DOMAIN Configs
  <2> DEFINE file == name[2]
             group == SceneRootGroup(CreateFromFile(file))
  <2>1. s = [lights |-> group.scene.lights, instances |-> group.instances]
    BY <1>3 DEF ImportedScene
  <2>2. InstancesInv(file, group.instances, Len(file.meshes))
    BY <1>3, ImportedFileInv
  <2> HIDE DEF s, file, group
  <2>3. s.instances = group.instances
    BY <2>1
  <2>4. \A i \in DOMAIN s.instances : s.instances[i].values.kind = ReadMaterial(file, i).kind
    BY <2>2, <2>3 DEF InstancesInv
  <2>5. KindsAreKnown(s)
    BY <2>4, KindsOfMaterials DEF KindsAreKnown, ReadMaterial
  <2>6. QED
    BY <2>5 DEF s
<1>4. QED
  BY <1>1, <1>2, <1>3

\* EveryRayIsAnswered: every ray that is traced in a scene finds a program in each
\* material it can meet, and, of the passes that wait for one, if it meets nothing.
THEOREM EveryRayIsAnsweredHolds == Spec => []EveryRayIsAnswered
<1> DEFINE KindsInv == methods \in MethodChoices /\ KindsAreKnown(scene)
<1>1. Init => KindsInv
  <2> SUFFICES ASSUME Init PROVE KindsInv
    OBVIOUS
  <2>1. scene.instances = <<>> /\ methods \in MethodChoices
    BY DEF Init, NoScene
  <2>2. QED
    BY <2>1 DEF KindsAreKnown
<1>2. KindsInv /\ [Next]_vars => KindsInv'
  <2> SUFFICES ASSUME KindsInv, [Next]_vars PROVE KindsInv'
    OBVIOUS
  <2>1. /\ methods' = methods
        /\ \/ scene' = scene
           \/ \E name \in ScenesFor[methods] : scene' = ImportedScene(name)
    BY SceneStep DEF vars
  <2>2. KindsAreKnown(scene) /\ methods \in MethodChoices
    OBVIOUS
  <2>3. ASSUME NEW name \in ScenesFor[methods] PROVE KindsAreKnown(ImportedScene(name))
    BY <2>2, ScenesAssumption, ImportedKindsAreKnown
  <2>4. KindsAreKnown(scene')
    BY <2>1, <2>2, <2>3
  <2>5. QED
    BY <2>1, <2>2, <2>4 DEF KindsAreKnown
<1>3. KindsInv => EveryRayIsAnswered
  BY KnownKindsAreAnswered DEF EveryRayIsAnswered
<1>4. QED
  BY <1>1, <1>2, <1>3, PTL DEF Spec

\* No scene that can be loaded is lit otherwise than it is sampled, or lets a ray
\* go unanswered.
THEOREM ScenesAreSoundHolds == Spec => []ScenesAreSound
<1>1. EmittersShineAsSampled /\ EveryRayIsAnswered => ScenesAreSound
  BY DEF ScenesAreSound
<1>2. QED
  BY <1>1, EmittersShineAsSampledHolds, EveryRayIsAnsweredHolds, PTL

=============================================================================
