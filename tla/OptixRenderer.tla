---------------------------- MODULE OptixRenderer ----------------------------
(***************************************************************************)
(* OptixRenderer: the host's control of the GPU passes that make one       *)
(* iteration of a frame, and the programs of the passes as far as they     *)
(* share memory.  renderNextIteration resizes and clears the buffers and   *)
(* launches, one after the other,                                          *)
(*                                                                         *)
(*    path tracing:    rays;                                               *)
(*    photon mapping:  rays, photons, the map (PhotonMap or KdTree),        *)
(*                     output;                                             *)
(*    VCM:             once per scene and size a light pass that only      *)
(*                     counts vertices, then the light and camera pass.    *)
(*                                                                         *)
(* Every launch may throw, and so may resizeBuffers half-way.  The caller  *)
(* is StandaloneRenderManager or RenderServerRenderer: it counts local     *)
(* iterations from 0 whenever the method, the size or the scene changes,   *)
(* and repeats the number of an iteration that threw.                      *)
(*                                                                         *)
(* Threads of a launch interleave where they share memory: the photons'    *)
(* slots, the light vertices and the pixels that light paths write to.     *)
(* Rays of different pixels share nothing and are traced one by one.       *)
(* Contributions are tokens, [sequence, iteration, part], so that a sum of *)
(* floats is a bag of them.  Geometry and colours are left to chance.      *)
(***************************************************************************)
EXTENDS KdTree, SceneImport, Bags

CONSTANTS
    Sizes,                  \* of a frame: <<width, height>>
    MethodChoices,          \* sets of methods, a user changes among one
    ScenesFor,              \* the scenes that come with each
    AccelerationStructures, \* photon maps a build may have
    PHOTON_LAUNCH_WIDTH,
    PHOTON_LAUNCH_HEIGHT,
    MaxPhotonDeposits,      \* MAX_PHOTON_COUNT, slots of one thread
    MAX_PHOTON_TRACE_DEPTH,
    PHOTON_TRACING_RR_START_DEPTH,
    MAX_RADIANCE_TRACE_DEPTH,
    PATH_TRACING_RR_START_DEPTH,
    NumPaths,               \* segments of a traced path
    MaxPathVertices,        \* VCM_MAX_PATH_LENGTH - 1
    PhotonPositions,        \* where photons hit surfaces
    HitPoints, Radii,       \* where and how far radiance is gathered
    MaxSequence,            \* bound: restarts of the iterations
    MaxIteration            \* bound: iterations after a restart

Methods == {"path tracing", "photon mapping", "VCM"}

ASSUME RendererAssumption ==
    /\ Sizes \subseteq (Nat \ {0}) \X (Nat \ {0})
    /\ MethodChoices \subseteq SUBSET Methods
    /\ DOMAIN ScenesFor = MethodChoices
    /\ AccelerationStructures \subseteq {"uniform grid", "kd-tree"}
    /\ {PHOTON_LAUNCH_WIDTH, PHOTON_LAUNCH_HEIGHT, MaxPhotonDeposits} \subseteq Nat \ {0}
    /\ {MAX_PHOTON_TRACE_DEPTH, MAX_RADIANCE_TRACE_DEPTH, NumPaths} \subseteq Nat \ {0}
    /\ {MaxPathVertices, MaxSequence, MaxIteration} \subseteq Nat
    /\ PhotonPositions \subseteq Int \X Int \X Int
    /\ HitPoints \subseteq Int \X Int \X Int
    /\ Radii \subseteq Nat

(* A name is that of a built-in scene or of a file.                        *)
ASSUME ScenesAssumption ==
    \A choice \in MethodChoices : \A name \in ScenesFor[choice] :
        name[1] \in {"Cornell"} \cup DOMAIN Configs \/ IsFile(name[2])

NumPixels(s) == s[1] * s[2]
Pixels(s) == 0 .. NumPixels(s) - 1
Threads == (0 .. PHOTON_LAUNCH_WIDTH - 1) \X (0 .. PHOTON_LAUNCH_HEIGHT - 1)
Slots == 0 .. PHOTON_LAUNCH_WIDTH * PHOTON_LAUNCH_HEIGHT * MaxPhotonDeposits - 1

(* m_width and m_height before the first resize, and the size of what is   *)
(* not created yet.                                                        *)
InitialSize == <<10, 10>>
NoSize == <<0, 0>>

VARIABLES
    methods,                \* what the user changes among
    initialized,            \* m_initialized: "not yet", "yes" or "lost"
    scene,                  \* [lights, instances] of the scene, in the context
    request,                \* what renderNextIteration was called with
    pc,                     \* where it is; "idle" between calls
    width,                  \* <<m_width, m_height>>
    buffers,                \* the sizes of the pixel buffers and of the
                            \* index of light vertices
    output,                 \* m_outputBuffer, a bag for every pixel
    ray,                    \* RadiancePRD of the ray being traced, with the
                            \* surfaces it went through; inside: its type is
                            \* that of a ray inside glass; sum: the paths in
                            \* finalRadiance, their light "sampled" or "seen"
    photons,                \* m_photons
    walks,                  \* PhotonPRD of every thread
    map,                    \* [structure, grid, table, tree]
    light,                  \* the light vertices: [estimated, capacity,
                            \* counter, counts, index, cells]
    torn,                   \* resizeBuffers threw half-way
    halfway                 \* VCM threw after its light pass

frameVars == <<width, buffers, output>>
vars == <<methods, initialized, scene, request, pc, frameVars, ray,
          photons, walks, map, light, torn, halfway>>

Token(part) ==
    [sequence |-> request.sequence, iteration |-> request.iteration, part |-> part]

(* What a pixel's memory holds after setSize.                              *)
Garbage == [sequence |-> 0, iteration |-> 0, part |-> <<"garbage">>]

NoRay == [pixel |-> 0, stage |-> "tracing", segment |-> 0, depth |-> 0, flags |-> {},
          through |-> <<>>, inside |-> FALSE, sum |-> {}]
NoScene == [lights |-> <<>>, instances |-> <<>>]
NoMap == [structure |-> "none", grid |-> Grid([s \in Slots |-> NoPhoton]), table |-> <<>>,
          tree |-> <<>>]
NoLight == [estimated |-> FALSE, capacity |-> 1, counter |-> 0, counts |-> <<>>,
            index |-> <<>>, cells |-> <<>>]
NotStarted == [state |-> "not started", depth |-> 0, stored |-> 0]

(* The buffers of the pixels and the index of light vertices.              *)
NewBuffers(size) ==
    [output |-> size, hits |-> size, direct |-> size, indirect |-> size, index |-> size]

-----------------------------------------------------------------------------
(***************************************************************************)
(* Initialization, scenes and the calls of the render manager.             *)
(***************************************************************************)
Init ==
    /\ methods \in MethodChoices
    /\ initialized = "not yet"
    /\ scene = NoScene
    /\ request = [sequence |-> 0, iteration |-> 0, method |-> "none", size |-> InitialSize,
                  finished |-> FALSE]
    /\ pc = "idle"
    /\ width = InitialSize
    /\ buffers = NewBuffers(NoSize)
    /\ output = <<>>
    /\ ray = NoRay
    /\ photons = [s \in Slots |-> NoPhoton]
    /\ walks = [t \in Threads |-> NotStarted]
    /\ map = NoMap
    /\ light = [NoLight EXCEPT !.capacity = 0]
    /\ torn = FALSE
    /\ halfway = FALSE

(* initialize creates the buffers.  The render manager calls it once; a    *)
(* second call, or one whose device is not found, throws before it has     *)
(* changed anything.                                                       *)
Initialize ==
    /\ initialized = "not yet"
    /\ initialized' = "yes"
    /\ buffers' = NewBuffers(width)
    /\ light' = NoLight
    /\ UNCHANGED <<methods, scene, request, pc, width, output, ray, photons, walks, map, torn,
                   halfway>>

(* The sums of earlier sequences are all alike.                            *)
OldSums == [p \in DOMAIN output |-> SetToBag({Garbage})]

(* Two changes of the scene with no iteration between them leave what the  *)
(* second alone would.                                                     *)
MayInitScene ==
    /\ pc = "idle"
    /\ initialized = "yes"
    /\ request.sequence < MaxSequence
    /\ scene = NoScene \/ request.method # "none"

(* initScene: the graph, and then the list of lights.  A scene without     *)
(* lights is refused before anything changes.  The lengths of the light    *)
(* paths have to be estimated anew.                                        *)
(* It follows a change of the scene, so the next iteration is the first of *)
(* its sequence.                                                           *)
InitScene ==
    /\ MayInitScene
    /\ \E name \in ScenesFor[methods] :
           /\ ImportedScene(name).lights # <<>>
           /\ scene' = ImportedScene(name)
    /\ light' = [light EXCEPT !.estimated = FALSE]
    /\ request' = [request EXCEPT !.method = "none", !.finished = FALSE]
    /\ output' = OldSums
    /\ UNCHANGED <<methods, initialized, pc, width, buffers, ray, photons, walks, map, torn, halfway>>

(* An exception in initScene leaves the renderer uninitialized for good.   *)
InitSceneFails ==
    /\ MayInitScene
    /\ initialized' = "lost"
    /\ light' = [light EXCEPT !.estimated = FALSE]
    /\ request' = [request EXCEPT !.method = "none", !.finished = FALSE]
    /\ output' = OldSums
    /\ UNCHANGED <<methods, scene, pc, width, buffers, ray, photons, walks, map, torn,
                   halfway>>

(* Mutant: a change of the height alone is missed.                         *)
WidthChanged(size) == size[1] # width[1]

MustResize(size) == size # width

(* A call of renderNextIteration, the first of a new sequence or the next  *)
(* of the last one.                                                        *)
FirstIteration ==
    /\ pc = "idle"
    /\ initialized = "yes" /\ scene # NoScene
    /\ request.sequence < MaxSequence
    /\ \E m \in methods, s \in Sizes :
           /\ request' = [sequence |-> request.sequence + 1, iteration |-> 0, method |-> m,
                          size |-> s, finished |-> FALSE]
           /\ pc' = IF MustResize(s) THEN "resize" ELSE "clear"
    /\ output' = OldSums
    /\ UNCHANGED <<methods, initialized, scene, width, buffers, ray, photons, walks, map,
                   light, torn, halfway>>

NextIteration ==
    /\ pc = "idle"
    /\ initialized = "yes" /\ scene # NoScene
    /\ request.method # "none"
    /\ request.finished => request.iteration < MaxIteration
    /\ request' = [request EXCEPT !.iteration = IF request.finished THEN @ + 1 ELSE @,
                                  !.finished = FALSE]
    /\ pc' = IF MustResize(request.size) THEN "resize" ELSE "clear"
    /\ UNCHANGED <<methods, initialized, scene, frameVars, ray, photons, walks, map, light,
                   torn, halfway>>

-----------------------------------------------------------------------------
(***************************************************************************)
(* The host between the launches.                                          *)
(***************************************************************************)
(* After a pass, what the light vertices hold is of no more interest, and  *)
(* the photons that are left in the slots are all alike.                   *)
ForgottenVertices ==
    [light EXCEPT !.counts = [p \in DOMAIN @ |-> 0],
                  !.index = [k \in DOMAIN @ |-> 0],
                  !.cells = [c \in DOMAIN @ |-> <<>>]]

OldPhotons ==
    [s \in Slots |-> IF IsValid(photons[s]) THEN [NoPhoton EXCEPT !.stored = <<"old">>]
                     ELSE NoPhoton]

ResizeOrder == <<"output", "hits", "direct", "indirect">>
NewMemory(size) == [p \in Pixels(size) |-> SetToBag({Garbage})]

(* resizeBuffers.  The random states are seeded, and the counts of light   *)
(* vertices have to be estimated anew.                                     *)
Resize ==
    /\ pc = "resize"
    /\ buffers' = [b \in DOMAIN buffers |-> request.size]
    /\ width' = request.size
    /\ output' = NewMemory(request.size)
    /\ light' = [light EXCEPT !.estimated = FALSE]
    /\ torn' = FALSE
    /\ pc' = "clear"
    /\ UNCHANGED <<methods, initialized, scene, request, ray, photons, walks, map, halfway>>

(* One of its setSize calls throws, after k buffers of the pixels have the *)
(* new size; the fifth is that of the index of light vertices, after       *)
(* m_width and m_height are set.                                           *)
ResizeFails ==
    /\ pc = "resize"
    /\ \E k \in 0 .. 5 :
           /\ buffers' = [b \in DOMAIN buffers |->
                             IF \E j \in 1 .. Len(ResizeOrder) : j <= k /\ ResizeOrder[j] = b
                             THEN request.size ELSE buffers[b]]
           /\ width' = IF k = 5 THEN request.size ELSE width
           /\ output' = IF k = 0 THEN output ELSE NewMemory(request.size)
    /\ torn' = TRUE
    /\ pc' = "idle"
    /\ UNCHANGED <<methods, initialized, scene, request, ray, photons, walks, map, light,
                   halfway>>

(* Mutant: the sum goes on where the last frame has ended.                 *)
KeepOutput == output

Cleared == IF request.iteration = 0 THEN [p \in Pixels(width) |-> EmptyBag] ELSE output

BuffersFit == \A b \in DOMAIN buffers : buffers[b] = width

(* The output buffer is zeroed for the first iteration.  A launch over     *)
(* buffers of another size writes outside of them: anything may happen.    *)
ClearOutput ==
    /\ pc = "clear"
    /\ output' = IF BuffersFit THEN Cleared ELSE output
    /\ halfway' = (halfway /\ request.iteration # 0)
    /\ pc' = IF ~BuffersFit THEN "undefined"
             ELSE IF request.method # "VCM" THEN "rays"
             ELSE IF light.estimated THEN "light" ELSE "count"
    /\ UNCHANGED <<methods, initialized, scene, request, width, buffers, ray, photons,
                   walks, map, light, torn>>

(* A launch throws before it has done anything; renderNextIteration throws.*)
(* If it is that of VCM's camera pass, the light paths have been added to  *)
(* the sum, and its value is of no more interest.                          *)
Throws ==
    /\ pc \in {"rays", "photons", "estimate", "output", "count", "light", "camera"}
    /\ halfway' = (halfway \/ pc = "camera")
    /\ output' = IF pc = "camera" THEN NewMemory(width) ELSE output
    /\ light' = ForgottenVertices
    /\ photons' = OldPhotons
    /\ map' = NoMap
    /\ pc' = "idle"
    /\ UNCHANGED <<methods, initialized, scene, request, width, buffers, ray, walks, torn>>

-----------------------------------------------------------------------------
(***************************************************************************)
(* Rays from the camera: RayGeneratorPT, RayGeneratorPPM, the radiance     *)
(* programs of the materials, and the direct radiance of photon mapping,   *)
(* which reads nothing but the hit point of its own pixel.                 *)
(***************************************************************************)
LaunchRays ==
    /\ pc = "rays"
    /\ pc' = "ray"
    /\ ray' = NoRay
    /\ UNCHANGED <<methods, initialized, scene, request, frameVars, photons, walks, map,
                   light, torn, halfway>>

(* Adds a token to the pixels, or replaces what they hold at iteration 0.  *)
Accumulate(pixels, part) ==
    [p \in DOMAIN output |->
        IF p \notin pixels THEN output[p]
        ELSE IF request.iteration = 0 THEN SetToBag({Token(part)})
        ELSE output[p] (+) SetToBag({Token(part)})]

(* The radiance programs of the materials: what each makes of the ray.  A  *)
(* matt surface ends the trace.  Texture does not count its hit.           *)
DiffuseRadiance(r) ==
    [r EXCEPT !.flags = @ \cup {"non specular"}, !.depth = @ + 1,
              !.through = Append(@, "matt"), !.stage = "returned"]

GlossyRadiance(r) == DiffuseRadiance(r)

TextureRadiance(r) ==
    [r EXCEPT !.flags = @ \cup {"non specular"}, !.through = Append(@, "matt"),
              !.stage = "returned"]

(* Glass and mirrors trace on, unless the ray is too deep.                 *)
TracesOn(r) == IF r.depth < MAX_RADIANCE_TRACE_DEPTH THEN r.stage ELSE "returned"

(* The type of a ray tells whether it travels inside glass; the normal of  *)
(* the surface tells from where it comes, whatever its type.               *)
WillTravelInsideGlass(fromOutside, reflected) == fromOutside # reflected

GlassRadiance(r, fromOutside, reflected) ==
    [r EXCEPT !.flags = (@ \cup {"specular"}) \ {"non specular"}, !.depth = @ + 1,
              !.through = Append(@, "glass"), !.stage = TracesOn(r),
              !.inside = WillTravelInsideGlass(fromOutside, reflected)]

(* Mirror leaves the flags alone.                                          *)
MirrorRadiance(r) ==
    [r EXCEPT !.depth = @ + 1, !.through = Append(@, "mirror"), !.stage = TracesOn(r),
              !.inside = FALSE]

DiffuseEmitterRadiance(r) == [r EXCEPT !.flags = @ \cup {"emitter"}, !.stage = "returned"]

Miss(r) == [r EXCEPT !.flags = {"miss"}, !.stage = "returned"]

(* rtTrace finds the next surface.                                         *)
RadianceHit ==
    /\ pc = "ray"
    /\ ray.stage = "tracing"
    /\ \/ ray' \in {DiffuseRadiance(ray), GlossyRadiance(ray), TextureRadiance(ray)}
       \/ \E fromOutside, reflected \in BOOLEAN : ray' = GlassRadiance(ray, fromOutside, reflected)
       \/ ray' = MirrorRadiance(ray)
       \/ ray' \in {DiffuseEmitterRadiance(ray), Miss(ray)}
    /\ UNCHANGED <<methods, initialized, scene, request, pc, frameVars, photons, walks, map,
                   light, torn, halfway>>

(* Mutant: the flags of one segment last for the next.                     *)
KeepFlags(flags) == flags

FlagsOfNextSegment(flags) == {}

(* getLightContribution at the surface the ray has ended on.               *)
SampledLight(r) == <<"sampled", r.through>>

(* The loop over the segments of a traced path.  An emitter counts if the  *)
(* camera or glass has led to it; at a matt surface light is sampled, and  *)
(* the next segment starts there, unless roulette ends the path.           *)
PathSegment ==
    /\ pc = "ray"
    /\ ray.stage = "returned"
    /\ request.method = "path tracing"
    /\ \/ /\ "emitter" \in ray.flags
          /\ ray' = [ray EXCEPT !.stage = "done",
                                !.sum = IF "specular" \in ray.flags \/ ray.segment = 0
                                        THEN {<<"seen", ray.through>>} ELSE @]
       \/ /\ "emitter" \notin ray.flags /\ "non specular" \in ray.flags
          /\ \E goesOn \in BOOLEAN :
                /\ ray.segment < PATH_TRACING_RR_START_DEPTH => goesOn
                /\ ray' = IF goesOn /\ ray.segment + 1 < NumPaths
                          THEN [ray EXCEPT !.sum = @ \cup {SampledLight(ray)},
                                           !.segment = @ + 1, !.stage = "tracing",
                                           !.flags = FlagsOfNextSegment(@), !.inside = FALSE]
                          ELSE [ray EXCEPT !.sum = @ \cup {SampledLight(ray)}, !.stage = "done"]
       \/ /\ ray.flags \cap {"emitter", "non specular"} = {}
          /\ ray' = [ray EXCEPT !.stage = "done"]
    /\ UNCHANGED <<methods, initialized, scene, request, pc, frameVars, photons, walks, map,
                   light, torn, halfway>>

(* What the kernel of the direct radiance takes from the hit point.        *)
DirectRadiance ==
    /\ pc = "ray"
    /\ ray.stage = "returned"
    /\ request.method = "photon mapping"
    /\ ray' = [ray EXCEPT !.stage = "done",
                          !.sum = IF "non specular" \in ray.flags THEN {SampledLight(ray)}
                                  ELSE IF "emitter" \in ray.flags THEN {<<"seen", ray.through>>}
                                  ELSE {}]
    /\ UNCHANGED <<methods, initialized, scene, request, pc, frameVars, photons, walks, map,
                   light, torn, halfway>>

(* A traced path is added to its pixel unless it is not a number.  Then    *)
(* the ray of the next pixel, or the end of the launch.                    *)
EndOfRay ==
    /\ pc = "ray"
    /\ ray.stage = "done"
    /\ \/ /\ request.method = "path tracing"
          /\ output' = Accumulate({ray.pixel}, <<"frame">>)
       \/ UNCHANGED output
    /\ \/ /\ ray.pixel + 1 < NumPixels(width)
          /\ ray' = [NoRay EXCEPT !.pixel = ray.pixel + 1]
          /\ UNCHANGED <<request, pc>>
       \/ /\ ray.pixel + 1 = NumPixels(width)
          /\ ray' = NoRay
          /\ pc' = IF request.method = "path tracing" THEN "idle" ELSE "photons"
          /\ request' = [request EXCEPT !.finished = (request.method = "path tracing")]
    /\ UNCHANGED <<methods, initialized, scene, width, buffers, photons, walks, map, light,
                   torn, halfway>>

-----------------------------------------------------------------------------
(***************************************************************************)
(* Photons: PhotonGenerator, the photon programs of the materials, the     *)
(* map and the passes that use it.                                         *)
(***************************************************************************)
PmIndex(t) == (t[2] * PHOTON_LAUNCH_WIDTH + t[1]) * MaxPhotonDeposits
SlotsOf(t) == PmIndex(t) .. PmIndex(t) + MaxPhotonDeposits - 1

LaunchPhotons ==
    /\ pc = "photons"
    /\ pc' = "photon walks"
    /\ UNCHANGED <<methods, initialized, scene, request, frameVars, ray, photons, walks, map,
                   light, torn, halfway>>

ClearedSlots(t) == [s \in Slots |-> IF s \in SlotsOf(t) THEN NoPhoton ELSE photons[s]]

(* generator: a thread clears its slots and traces its photon.             *)
Generate(t) ==
    /\ pc = "photon walks"
    /\ walks[t].state = "not started"
    /\ photons' = ClearedSlots(t)
    /\ walks' = [walks EXCEPT ![t].state = "walking"]
    /\ UNCHANGED <<methods, initialized, scene, request, pc, frameVars, ray, map, light, torn,
                   halfway>>

(* STORE_PHOTON.                                                           *)
StorePhoton(t, position) ==
    [photons EXCEPT ![PmIndex(t) + walks[t].stored] = [at |-> position, stored |-> <<t, walks[t].stored>>]]

(* Mutant: glass and mirrors pass a photon on without a limit.             *)
AnyDepth(depth) == TRUE

SpecularGoesOn(depth) == depth <= MAX_PHOTON_TRACE_DEPTH

(* Mutant: a thread whose slots are full walks on.                         *)
NoThreadStops(stored) == FALSE

FullThreadStops(stored) == stored >= MaxPhotonDeposits

(* A photon on a matt surface ends by roulette, when it is too deep or too *)
(* weak, or the slots of its thread are full.                              *)
Scattered(walk) ==
    (IF walk.depth >= PHOTON_TRACING_RR_START_DEPTH THEN {[walk EXCEPT !.state = "ended"]} ELSE {})
    \cup
    {[walk EXCEPT !.depth = @ + 1,
                  !.state = IF weak \/ walk.depth + 1 >= MAX_PHOTON_TRACE_DEPTH
                               \/ FullThreadStops(walk.stored)
                            THEN "ended" ELSE @] : weak \in BOOLEAN}

PhotonHit(t) == pc = "photon walks" /\ walks[t].state = "walking"

(* How deep a walk was that has ended is of no more interest.              *)
Walks(t, walk) ==
    /\ walks' = [walks EXCEPT ![t] =
                     IF walk.state = "ended" THEN [walk EXCEPT !.depth = 0] ELSE walk]
    /\ UNCHANGED <<methods, initialized, scene, request, pc, frameVars, ray, map, light, torn,
                   halfway>>

(* The photon may be stored; what becomes of it next.                      *)
MattPhotonHit(t, stores) ==
    /\ PhotonHit(t)
    /\ IF stores
       THEN \E position \in PhotonPositions : photons' = StorePhoton(t, position)
       ELSE UNCHANGED photons
    /\ \E walk \in Scattered([walks[t] EXCEPT !.stored = IF stores THEN @ + 1 ELSE @]) :
           Walks(t, walk)

(* A photon is stored if it has hit a surface before, and there is a slot; *)
(* Texture does not look at the number of its slots.                       *)
DiffusePhoton(t) ==
    MattPhotonHit(t, walks[t].depth >= 1 /\ walks[t].stored < MaxPhotonDeposits)

GlossyPhoton(t) ==
    MattPhotonHit(t, walks[t].depth >= 1 /\ walks[t].stored < MaxPhotonDeposits)

TexturePhoton(t) == MattPhotonHit(t, walks[t].depth >= 1)

(* Glass and mirrors pass it on.                                           *)
PassedOn(walk) ==
    [walk EXCEPT !.depth = @ + 1,
                 !.state = IF SpecularGoesOn(walk.depth + 1) THEN @ ELSE "ended"]

GlassPhoton(t) == PhotonHit(t) /\ Walks(t, PassedOn(walks[t])) /\ UNCHANGED photons

MirrorPhoton(t) == PhotonHit(t) /\ Walks(t, PassedOn(walks[t])) /\ UNCHANGED photons

(* An emitter counts it and ends it, a miss ends it.                       *)
DiffuseEmitterPhoton(t) ==
    /\ PhotonHit(t)
    /\ Walks(t, [walks[t] EXCEPT !.depth = @ + 1, !.state = "ended"])
    /\ UNCHANGED photons

PhotonMiss(t) ==
    /\ PhotonHit(t)
    /\ Walks(t, [walks[t] EXCEPT !.state = "ended"])
    /\ UNCHANGED photons

(* ACCELERATION_STRUCTURE is set when the program is built.  Nothing of a  *)
(* map is left for the next pass, so it may as well differ between passes. *)
CreatesMap(structure) ==
    /\ structure \in AccelerationStructures
    /\ pc = "photon walks"
    /\ \A t \in Threads : walks[t].state = "ended"
    /\ walks' = [t \in Threads |-> NotStarted]
    /\ UNCHANGED <<methods, initialized, scene, request, frameVars, ray, light, torn, halfway>>

(* It throws if there are too many cells, before it sorts the photons.     *)
createUniformGridPhotonMap ==
    /\ CreatesMap("uniform grid")
    /\ LET grid == Grid(photons)
       IN IF NumCells(grid.size) > PHOTON_GRID_MAX_SIZE
          THEN /\ map' = [NoMap EXCEPT !.grid = grid]
               /\ pc' = "idle"
               /\ UNCHANGED photons
          ELSE /\ map' = [NoMap EXCEPT !.structure = "uniform grid", !.grid = grid,
                                      !.table = OffsetTable(photons, grid)]
               /\ photons' \in SortedByCell(photons, grid)
               /\ pc' = "estimate"

(* The order in which it leaves the photons in their slots is never looked *)
(* at: every thread clears its own before it stores anything.              *)
createPhotonKdTreeOnCPU ==
    /\ CreatesMap("kd-tree")
    /\ map' = [NoMap EXCEPT !.structure = "kd-tree", !.tree = PhotonTree(photons)]
    /\ pc' = "estimate"
    /\ UNCHANGED photons

(* The indirect and the direct radiance of every pixel.                    *)
EstimateRadiance ==
    /\ pc = "estimate"
    /\ pc' = "output"
    /\ UNCHANGED <<methods, initialized, scene, request, frameVars, ray, photons, walks, map,
                   light, torn, halfway>>

(* Output.cu.                                                              *)
OutputPass ==
    /\ pc = "output"
    /\ output' = Accumulate(Pixels(width), <<"frame">>)
    /\ request' = [request EXCEPT !.finished = TRUE]
    /\ photons' = OldPhotons
    /\ map' = NoMap
    /\ pc' = "idle"
    /\ UNCHANGED <<methods, initialized, scene, width, buffers, ray, walks, light, torn,
                   halfway>>

-----------------------------------------------------------------------------
(***************************************************************************)
(* The vertices of light paths.  A pixel has one light path and connects   *)
(* to the vertices of that path.                                           *)
(***************************************************************************)
VertexIndices(paths) == paths \X (0 .. MaxPathVertices - 1)

(* Paths with these counts have as many vertices as the counts add up to.  *)
VerticesOf(counts) == {v \in VertexIndices(DOMAIN counts) : v[2] < counts[v[1]]}

(* The light pass that only counts the vertices of every path, and the     *)
(* sizes that follow: room for twice the sum, at most for all there can be.*)
EstimateVertexCounts ==
    /\ pc = "count"
    /\ \E counts \in [Pixels(width) -> 0 .. MaxPathVertices] :
           LET sum == Cardinality(VerticesOf(counts))
               capacity == Min({2 * sum, NumPixels(width) * MaxPathVertices})
           IN light' = [light EXCEPT !.estimated = TRUE, !.capacity = capacity, !.counts = counts,
                                     !.index = [k \in VertexIndices(Pixels(width)) |-> 0],
                                     !.cells = [c \in 0 .. capacity - 1 |-> <<>>]]
    /\ pc' = "light"
    /\ UNCHANGED <<methods, initialized, scene, request, frameVars, ray, photons, walks, map,
                   torn, halfway>>

(* Mutant: the counter goes on where the last light pass has ended.        *)
KeepCounter == light.counter

CounterAtLaunch == 0

(* The host resets the counter of vertices; every thread of the light pass *)
(* resets the count of its path.                                           *)
LaunchLightPass ==
    /\ pc = "light"
    /\ pc' = "light paths"
    /\ light' = [ForgottenVertices EXCEPT !.counter = CounterAtLaunch]
    /\ UNCHANGED <<methods, initialized, scene, request, frameVars, ray, photons, walks, map,
                   torn, halfway>>

(* lightHit on a surface that is not specular: the vertex takes the next   *)
(* place in the buffer, which may be past its end, and the path's index    *)
(* tells which.  T1 connects it to the pixel it is seen in; the sum there  *)
(* is not atomic, and another path's may be written over it.               *)
StoreLightVertex(p) ==
    LET nth == light.counts[p]
    IN /\ pc = "light paths"
       /\ nth < MaxPathVertices
       /\ light' = [light EXCEPT !.counter = @ + 1,
                                 !.counts[p] = @ + 1,
                                 !.index[<<p, nth>>] = light.counter,
                                 !.cells = [c \in DOMAIN @ |-> IF c = light.counter THEN <<p, nth>>
                                                               ELSE light.cells[c]]]
       /\ \/ \E pixel \in Pixels(width) :
                output' = [output EXCEPT ![pixel] = @ (+) SetToBag({Token(<<p, nth>>)})]
          \/ UNCHANGED output
       /\ UNCHANGED <<methods, initialized, scene, request, pc, width, buffers, ray, photons,
                      walks, map, torn, halfway>>

(* The light paths may all end anywhere.                                   *)
LightPassEnds ==
    /\ pc = "light paths"
    /\ pc' = "camera"
    /\ UNCHANGED <<methods, initialized, scene, request, frameVars, ray, photons, walks, map,
                   light, torn, halfway>>

(* cameraPass adds the colour of every pixel to its sum.                   *)
CameraPass ==
    /\ pc = "camera"
    /\ output' = [p \in DOMAIN output |-> output[p] (+) SetToBag({Token(<<"camera">>)})]
    /\ request' = [request EXCEPT !.finished = TRUE]
    /\ light' = ForgottenVertices
    /\ pc' = "idle"
    /\ UNCHANGED <<methods, initialized, scene, width, buffers, ray, photons, walks, map,
                   torn, halfway>>

-----------------------------------------------------------------------------
(***************************************************************************)
(* The types of the rays: those of the generators and of light sampling,   *)
(* which every material passes on, and those of rays inside of glass; and  *)
(* the miss programs that initialize sets.                                 *)
(***************************************************************************)
GlassTypes == {"RADIANCE_IN_PARTICIPATING_MEDIUM", "PHOTON_IN_PARTICIPATING_MEDIUM"}

TracedTypes(instances) ==
    {"RADIANCE", "PHOTON", "LIGHT_VCM", "CAMERA_VCM", "SHADOW"}
    \cup (IF \E i \in DOMAIN instances : instances[i].values.kind = "Glass" THEN GlassTypes ELSE {})

MissPrograms == RadianceTypes \cup {"PHOTON"} \cup VcmTypes

-----------------------------------------------------------------------------
Host ==
    \/ Initialize \/ InitScene \/ InitSceneFails \/ FirstIteration \/ NextIteration
    \/ Resize \/ ResizeFails \/ ClearOutput \/ Throws

Rays == LaunchRays \/ RadianceHit \/ PathSegment \/ DirectRadiance \/ EndOfRay

PhotonMapping ==
    \/ LaunchPhotons
    \/ \E t \in Threads :
           \/ Generate(t)
           \/ DiffusePhoton(t) \/ GlossyPhoton(t) \/ TexturePhoton(t)
           \/ GlassPhoton(t) \/ MirrorPhoton(t) \/ DiffuseEmitterPhoton(t) \/ PhotonMiss(t)
    \/ createUniformGridPhotonMap \/ createPhotonKdTreeOnCPU
    \/ EstimateRadiance \/ OutputPass

Connections ==
    \/ EstimateVertexCounts \/ LaunchLightPass \/ LightPassEnds \/ CameraPass
    \/ \E p \in Pixels(width) : StoreLightVertex(p)

Next == Host \/ Rays \/ PhotonMapping \/ Connections

Spec == Init /\ [][Next]_vars

-----------------------------------------------------------------------------
(* The types, and the limits of depths and sizes the programs rely on.     *)
TypeOK ==
    /\ initialized \in {"not yet", "yes", "lost"}
    /\ request.sequence \in 0 .. MaxSequence
    /\ request.iteration \in 0 .. MaxIteration
    /\ width \in Sizes \cup {InitialSize}
    /\ \A b \in DOMAIN buffers : buffers[b] \in Sizes \cup {InitialSize, NoSize}
    /\ ray.depth \in 0 .. MAX_RADIANCE_TRACE_DEPTH + NumPaths
    /\ ray.segment \in 0 .. NumPaths - 1
    /\ ray.inside /\ ray.stage = "tracing" => ray.through[Len(ray.through)] = "glass"
    /\ \A t \in Threads : walks[t].depth \in 0 .. MAX_PHOTON_TRACE_DEPTH
    /\ NumCells(map.grid.size) <= PHOTON_GRID_MAX_SIZE
    /\ pc \in {"light paths", "camera"} => light.counter <= NumPixels(width) * MaxPathVertices

(* A launch runs over buffers of the size that was asked for, unless a     *)
(* resize has failed half-way since the last that succeeded (resizeBuffers *)
(* sets m_width and m_height in its middle, and the next call looks at     *)
(* nothing else).                                                          *)
BuffersFitLaunch ==
    ~torn => /\ pc # "undefined"
             /\ pc \notin {"idle", "resize", "clear"} => width = request.size

(* When an iteration is complete, every pixel holds the sum of what the    *)
(* iterations since the last restart have added to it: nothing from before *)
(* it, nothing twice, and of every iteration the part that cannot get lost.*)
(* (A path that is not a number is dropped, and so may a light path's be.  *)
(* When VCM throws after its light pass, the iteration is repeated and its *)
(* light paths count twice until the next restart: halfway.)               *)
FrameIsSumOfIterations ==
    (pc = "idle" /\ request.finished /\ ~halfway) =>
        \A p \in Pixels(width) :
            /\ \A token \in DOMAIN output[p] :
                  /\ output[p][token] = 1
                  /\ token.sequence = request.sequence
                  /\ token.iteration <= request.iteration
            /\ \A i \in 0 .. request.iteration, part \in {<<"frame">>, <<"camera">>} :
                  (part = <<"frame">> /\ request.method = "photon mapping")
                      \/ (part = <<"camera">> /\ request.method = "VCM")
                  => [sequence |-> request.sequence, iteration |-> i, part |-> part] \in DOMAIN output[p]

(* While photons are traced, the slots of a thread hold the photons it has *)
(* stored in this pass and nothing else: no thread writes into the slots   *)
(* of another, even where Texture does not count, and none leaves an old   *)
(* photon behind.                                                          *)
DepositsStayInOwnSlots ==
    pc = "photon walks" =>
        \A t \in Threads : walks[t].state # "not started" =>
            \A k \in 0 .. MaxPhotonDeposits - 1 :
                photons[PmIndex(t) + k].stored = IF k < walks[t].stored THEN <<t, k>> ELSE <<>>

(* An estimate of radiance adds up every photon within its radius once,    *)
(* and no slot that holds none of this pass: the box, the cells, the order *)
(* of the slots and the offsets fit together, as do the medians, the       *)
(* places of the nodes and the search of the tree, for every point, also   *)
(* outside of the box.  (A photon at exactly the radius counts, but the    *)
(* tree may not find it behind a plane at that distance.)                  *)
TimesFoundInMap(point, radius, s) ==
    IF map.structure = "uniform grid" THEN TimesFound(photons, map, point, radius, s)
    ELSE IF IsValid(photons[s]) THEN TimesFoundInTree(map.tree, point, radius, photons[s])
    ELSE 0

GatherFindsEachPhotonOnce ==
    pc = "estimate" =>
        \A point \in HitPoints, radius \in Radii, s \in Slots :
            LET distance == DistanceSquared(point, photons[s].at)
            IN IF IsValid(photons[s]) /\ distance <= Square(radius)
               THEN \/ TimesFoundInMap(point, radius, s) = 1
                    \/ /\ map.structure = "kd-tree" /\ distance = Square(radius)
                       /\ TimesFoundInMap(point, radius, s) = 0
               ELSE TimesFoundInMap(point, radius, s) = 0

(* A complete path has sampled light once at every matt surface on it, and *)
(* the light of an emitter it hits counts only where none was sampled for  *)
(* it, if no matt surface is on the path or glass behind the last one.     *)
(* (There it takes the place of what the path has sampled before.)         *)
MattPrefixes == {SubSeq(ray.through, 1, k) : k \in {j \in DOMAIN ray.through : ray.through[j] = "matt"}}

LightCountedOnce ==
    ray.stage = "done" =>
        \/ ray.sum = {<<"sampled", path>> : path \in MattPrefixes}
        \/ /\ ray.sum = {<<"seen", ray.through>>}
           /\ \A path \in MattPrefixes :
                  \E k \in Len(path) + 1 .. Len(ray.through) : ray.through[k] = "glass"

(* If a pass stores no more vertices than there is room for, the camera    *)
(* pass finds for every pixel the vertices its light path has stored in    *)
(* this pass, in the order of the path.                                    *)
VerticesOfOwnPath ==
    (pc = "camera" /\ Cardinality(VerticesOf(light.counts)) <= light.capacity) =>
        \A p \in Pixels(width) : \A k \in 0 .. light.counts[p] - 1 :
            /\ light.index[<<p, k>>] < light.capacity
            /\ light.cells[light.index[<<p, k>>]] = <<p, k>>

(* The light a surface emits and the light that is sampled for it are the  *)
(* same: an emitter of its own material has in its instance the inverse    *)
(* area of its own face if there are lights of it in the buffer, and none  *)
(* if there are none; all emitters have equally many, a point or a spot    *)
(* has one, and no light is without its source.  A normal map finds the    *)
(* tangents it reads wherever the mesh has texture coordinates.            *)
(* (Lights are loaded in createFromFile, for the values of the instances,  *)
(* and once more with the graph: an emitter of a file has two.)            *)
LightsOfMesh(mesh) == {i \in DOMAIN scene.lights : scene.lights[i] = AreaLight(mesh)}

EmittersShineAsSampled ==
    LET emitters == {i \in DOMAIN scene.instances : scene.instances[i].values.kind = "DiffuseEmitter"}
        MeshOf(i) == scene.instances[i].geometry.meshId
        lit == {i \in emitters : LightsOfMesh(MeshOf(i)) # {}}
    IN /\ \A i \in emitters :
              (\A j \in emitters \ {i} : scene.instances[j].material # scene.instances[i].material)
              => scene.instances[i].values.inverseArea = IF i \in lit THEN MeshOf(i) ELSE 0
       /\ \A i, j \in lit :
              Cardinality(LightsOfMesh(MeshOf(i))) = Cardinality(LightsOfMesh(MeshOf(j)))
       /\ \A k \in DOMAIN scene.lights :
              IF scene.lights[k].isDelta
              THEN \A l \in DOMAIN scene.lights \ {k} : scene.lights[l] # scene.lights[k]
              ELSE \E i \in lit : scene.lights[k] = AreaLight(MeshOf(i))
       /\ \A i \in DOMAIN scene.instances :
              scene.instances[i].geometry.hasTextureCoords =>
                  AttributesRead(scene.instances[i].values)
                      \subseteq AttributesOf(scene.instances[i].geometry)

(* A ray that is traced in a scene finds a program in every material it    *)
(* can meet there, and one if it meets nothing where somebody waits for    *)
(* what the program leaves behind: the loops of VCM go on until a program  *)
(* ends them, and the camera's passes read the flags.  (A photon inside of *)
(* glass that meets an emitter finds none: it ends there all the same.)    *)
EveryRayIsAnswered ==
    LET traced == TracedTypes(scene.instances)
    IN /\ \A i \in DOMAIN scene.instances :
              LET kind == scene.instances[i].values.kind
              IN traced \ ProgramsOf[kind] \subseteq
                     IF kind = "DiffuseEmitter" THEN {"PHOTON_IN_PARTICIPATING_MEDIUM"} ELSE {}
       /\ traced \cap (RadianceTypes \cup VcmTypes) \subseteq MissPrograms

(* Both: no scene that can be loaded is one the passes go wrong in.        *)
ScenesAreSound == EmittersShineAsSampled /\ EveryRayIsAnswered

=============================================================================
