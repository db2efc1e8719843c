------------------------------- MODULE VcmPath -------------------------------
(***************************************************************************)
(* One path of light in the bidirectional path tracer (vcm/), from a light *)
(* source x_0 over surface points x_1 .. x_n to the camera x_n+1, and the  *)
(* ways the program can build it: the light pass walks it from the light   *)
(* and connects x_n to the camera (T1), the camera pass walks it backwards *)
(* and samples a point on the light (S1), connects to a stored vertex of   *)
(* the light's walk, or hits the light itself (S0).  Technique s takes s   *)
(* vertices from the light.  Every technique weighs its contribution with  *)
(* quantities (dVCM, dVC) that the walks carry along; the weights of all   *)
(* techniques of a path must add up to one, although no walk knows what    *)
(* the other does.                                                         *)
(*                                                                         *)
(* The geometry is data: cosines, squared lengths and densities are        *)
(* numbers, chosen at the start.  Throughput, colours and occlusion are    *)
(* left out (the path is the one that is visible, and met at no grazing    *)
(* angle), and so is dVM: merging is switched off (m_vcmUseVM), its        *)
(* factors are 0.  vcmMis is the identity (the balance heuristic).         *)
(***************************************************************************)
EXTENDS Integers, Sequences

CONSTANTS
    Numbers, Zero, One,
    Plus(_, _), Times(_, _),
    Reciprocal(_),
    Lights,                 \* [isDelta, cos, inverseArea, pick]
    Surfaces,               \* [kind, cosL, cosC, phong, albedo, cont]
    SquaredLengths,         \* of the segments of a path
    MaxSurfaces,            \* bound: the surface points of a path
    maxPathLen,             \* VCM_MAX_PATH_LENGTH
    lightSubpathCount,      \* the number of pixels
    cameraPdfW,             \* density of a camera ray's direction
    InvPi                   \* M_1_PIf

ASSUME PathAssumption ==
    /\ MaxSurfaces \in Nat \ {0}
    /\ maxPathLen \in Nat \ {0}

-----------------------------------------------------------------------------
(***************************************************************************)
(* Numbers.  The program's are floats; what is checked of them here are    *)
(* identities of sums, products and quotients.  Nothing is assumed of the  *)
(* numbers but the laws by which sums and products of positive numbers are *)
(* rearranged and quotients reduced, so that the rational numbers are one  *)
(* choice and a finite field is another.  No number is compared but with 0 *)
(* and 1.                                                                  *)
(***************************************************************************)
Positive == Numbers \ {Zero}

ASSUME NumbersAssumption ==
    /\ Zero \in Numbers /\ One \in Positive
    /\ \A x, y \in Numbers :
           /\ Plus(x, y) \in Numbers /\ Plus(x, y) = Plus(y, x)
           /\ Times(x, y) \in Numbers /\ Times(x, y) = Times(y, x)
    /\ \A x, y, z \in Numbers :
           /\ Plus(Plus(x, y), z) = Plus(x, Plus(y, z))
           /\ Times(Times(x, y), z) = Times(x, Times(y, z))
           /\ Times(x, Plus(y, z)) = Plus(Times(x, y), Times(x, z))
    /\ \A x \in Numbers : Plus(x, Zero) = x /\ Times(x, Zero) = Zero /\ Times(x, One) = x
    /\ \A x \in Positive : Reciprocal(x) \in Positive /\ Times(x, Reciprocal(x)) = One

Over(x, y) == Times(x, Reciprocal(y))
Four == Plus(Plus(One, One), Plus(One, One))

(* f[1] + .. + f[n] and f[1] * .. * f[n].                                  *)
Total(f, n) ==
    LET upTo[k \in 0 .. n] == IF k = 0 THEN Zero ELSE Plus(upTo[k - 1], f[k])
    IN upTo[n]

Product(f, n) ==
    LET upTo[k \in 0 .. n] == IF k = 0 THEN One ELSE Times(upTo[k - 1], f[k])
    IN upTo[n]

VARIABLES
    path,                   \* [light, surfaces, d2]
    pass,                   \* "light", "camera", or "done"
    at,                     \* the point of the path the walk hits next
    prd,                    \* SubpathPRD: [depth, dVCM, dVC]
    vertices,               \* the light vertices stored, [at, dVCM, dVC]
    taken,                  \* technique -> 1 / misWeight, of what was added
    ended,                  \* passes that ended by roulette
    retried                 \* a sample was rejected

vars == <<path, pass, at, prd, vertices, taken, ended, retried>>

Light == path.light
Last == Len(path.surfaces)
Surface(i) == path.surfaces[i]
(* The squared length of the segment from x_i to x_i+1.                    *)
D2(i) == path.d2[i + 1]

-----------------------------------------------------------------------------
(***************************************************************************)
(* The materials: the lobes that the closest-hit programs give the VcmBSDF *)
(* of a hit, in the light pass and in the camera pass alike.               *)
(***************************************************************************)
DiffuseLobes == <<"lambertian">>
TextureLobes == <<"lambertian">>
GlossyLobes == <<"lambertian", "phong">>
MirrorLobes == <<"reflection">>
GlassLobes == <<"transmission", "reflection">>

Kinds == {"diffuse", "texture", "glossy", "mirror", "glass"}
LobeNames == {"lambertian", "phong", "reflection", "transmission"}

Lobes(v) ==
    CASE v.kind = "diffuse" -> DiffuseLobes
      [] v.kind = "texture" -> TextureLobes
      [] v.kind = "glossy" -> GlossyLobes
      [] v.kind = "mirror" -> MirrorLobes
      [] v.kind = "glass" -> GlassLobes

NumLobes(v) == Len(Lobes(v))
Picks(v) == 1 .. NumLobes(v)

-----------------------------------------------------------------------------
(***************************************************************************)
(* BxDF: the density of a lobe for a direction with the given cosine.  A   *)
(* specular lobe samples its only direction with density 1.                *)
(***************************************************************************)
LambertianPdf(cos) == Times(cos, InvPi)
PhongPdf(v) == v.phong
SpecularReflectionPdf == One
SpecularTransmissionPdf == One

LobePdf(v, lobe, cos) ==
    CASE lobe = "lambertian" -> LambertianPdf(cos)
      [] lobe = "phong" -> PhongPdf(v)
      [] lobe = "reflection" -> SpecularReflectionPdf
      [] lobe = "transmission" -> SpecularTransmissionPdf

-----------------------------------------------------------------------------
(***************************************************************************)
(* VcmBSDF.  cosL and cosC are a surface's cosines towards the light's and *)
(* the camera's neighbour, albedo[lobe] the pick probability of a lobe     *)
(* before it is scaled, cont the probability to go on.  A lobe is picked by*)
(* its place b in the list.                                                *)
(***************************************************************************)
IsSpecular(v) == \A b \in Picks(v) : Lobes(v)[b] \in {"reflection", "transmission"}

(* Surfaces that may reject a sample: a direction of the Phong lobe below  *)
(* the surface, and total reflection inside glass.                         *)
MayReject(v) == \E b \in Picks(v) : Lobes(v)[b] \in {"phong", "transmission"}

SumPickProb(v) == Total([b \in Picks(v) |-> v.albedo[Lobes(v)[b]]], NumLobes(v))

(* sampleBxDF: the probability to pick a lobe is its share of the albedo.  *)
PickProb(v, b) == Over(v.albedo[Lobes(v)[b]], SumPickProb(v))

(* pdf: the lobes' densities, by the probabilities to pick them.           *)
Pdf(v, cos) ==
    Total([b \in Picks(v) |-> Times(PickProb(v, b), LobePdf(v, Lobes(v)[b], cos))], NumLobes(v))

(* sampleF: the densities of all lobes by the probability of the one that  *)
(* was picked.                                                             *)
SampledPdf(v, cos, b) ==
    Times(PickProb(v, b), Total([c \in Picks(v) |-> LobePdf(v, Lobes(v)[c], cos)], NumLobes(v)))

(* vcmF, at a connection: the density of the new direction and that of the *)
(* direction the walk came from, both scaled by the probability to go on.  *)
VcmF(v, cosFix, cosGen) ==
    LET density(cos) ==
            Total([b \in Picks(v) |-> Times(LobePdf(v, Lobes(v)[b], cos), PickProb(v, b))],
                  NumLobes(v))
    IN [dir |-> Times(density(cosGen), v.cont), rev |-> Times(density(cosFix), v.cont)]

-----------------------------------------------------------------------------
(***************************************************************************)
(* light.h: a walk starts on the light, or a point on it is sampled.  A    *)
(* point light is inside the scene's bounding sphere.                      *)
(***************************************************************************)
LightEmit(l) ==
    IF l.isDelta
    THEN [emissionPdfW |-> Over(InvPi, Four), directPdfA |-> One, cos |-> One]
    ELSE [emissionPdfW |-> Times(LambertianPdf(l.cos), l.inverseArea),
          directPdfA |-> l.inverseArea,
          cos |-> l.cos]

LightIlluminate(l, d2) ==
    IF l.isDelta
    THEN [emissionPdfW |-> Over(InvPi, Four), directPdfW |-> d2, cos |-> One]
    ELSE [emissionPdfW |-> Times(Times(l.inverseArea, l.cos), InvPi),
          directPdfW |-> Over(Times(l.inverseArea, d2), l.cos),
          cos |-> l.cos]

-----------------------------------------------------------------------------
(***************************************************************************)
(* mis.h: the quantities of a walk.                                        *)
(***************************************************************************)
InitLightMisTerms(l, cos, directPdfW, emissionPdfW) ==
    [depth |-> 0,
     dVCM |-> Over(directPdfW, emissionPdfW),
     dVC |-> IF l.isDelta THEN Zero ELSE Over(cos, emissionPdfW)]

InitCameraMisTerms(pdfW) ==
    [depth |-> 0, dVCM |-> Over(lightSubpathCount, pdfW), dVC |-> Zero]

(* Mutant: the squared length of the ray is forgotten.                     *)
WithoutLength(p, cosIn, d2) ==
    [depth |-> p.depth + 1, dVCM |-> Over(p.dVCM, cosIn), dVC |-> Over(p.dVC, cosIn)]

(* updateMisTermsOnHit, at the beginning of lightHit and cameraHit.        *)
UpdateOnHit(p, cosIn, d2) ==
    [depth |-> p.depth + 1,
     dVCM |-> Over(Times(p.dVCM, d2), cosIn),
     dVC |-> Over(p.dVC, cosIn)]

(* updateMisTermsOnScatter, with both densities scaled by the probability  *)
(* to go on.                                                               *)
UpdateOnScatter(p, v, cosIn, cosOut, b) ==
    IF IsSpecular(v)
    THEN [p EXCEPT !.dVCM = Zero, !.dVC = Times(@, cosOut)]
    ELSE LET dirPdfW == Times(SampledPdf(v, cosOut, b), v.cont)
             revPdfW == Times(Pdf(v, cosIn), v.cont)
         IN [p EXCEPT !.dVCM = Over(One, dirPdfW),
                      !.dVC = Times(Over(cosOut, dirPdfW),
                                    Plus(Times(p.dVC, revPdfW), p.dVCM))]

(* The sum in the parentheses of every partial weight.                     *)
PartialWeight(p, revPdfW) == Plus(p.dVCM, Times(p.dVC, revPdfW))

-----------------------------------------------------------------------------
(***************************************************************************)
(* The weights of the techniques: 1 / misWeight = wLight + 1 + wCamera.    *)
(***************************************************************************)
(* connectCameraT1, at x_n.                                                *)
WeightT1(p) ==
    LET v == Surface(Last)
        cameraPdfA == Over(Times(cameraPdfW, v.cosC), D2(Last))
        wLight == Times(Over(cameraPdfA, lightSubpathCount),
                        PartialWeight(p, VcmF(v, v.cosL, v.cosC).rev))
    IN Plus(wLight, One)

(* connectLightSourceS1, at x_1.                                           *)
WeightS1(p) ==
    LET v == Surface(1)
        bsdf == VcmF(v, v.cosC, v.cosL)
        light == LightIlluminate(Light, D2(0))
        wLight == IF Light.isDelta THEN Zero
                  ELSE Over(bsdf.dir, Times(Light.pick, light.directPdfW))
        wCamera == Times(Over(Times(light.emissionPdfW, v.cosL), Times(light.directPdfW, light.cos)),
                         PartialWeight(p, bsdf.rev))
    IN Plus(Plus(wLight, One), wCamera)

(* connectVertices: x_i stored by the light's walk, x_i+1 on the camera's. *)
(* Both densities are converted with the cosine at their own vertex.       *)
WeightConnect(stored, p) ==
    LET l == Surface(stored.at)
        c == Surface(stored.at + 1)
        lightBsdf == VcmF(l, l.cosL, l.cosC)
        cameraBsdf == VcmF(c, c.cosC, c.cosL)
        cameraDirPdfA == Over(Times(cameraBsdf.dir, c.cosL), D2(stored.at))
        lightDirPdfA == Over(Times(lightBsdf.dir, l.cosC), D2(stored.at))
        wLight == Times(cameraDirPdfA, PartialWeight(stored, lightBsdf.rev))
        wCamera == Times(lightDirPdfA, PartialWeight(p, cameraBsdf.rev))
    IN Plus(Plus(wLight, One), wCamera)

(* connectLightSourceS0: the quantities as they were after the last        *)
(* scattering, DiffuseEmitter does not update them on its hit.             *)
WeightS0(p, directPdfA, emissionPdfW) ==
    IF p.depth = 1 THEN One
    ELSE Plus(One, Plus(Times(Times(directPdfA, Light.pick), p.dVCM),
                        Times(Times(emissionPdfW, Light.pick), p.dVC)))

-----------------------------------------------------------------------------
(* No number of a scene or of a path is 0, and none of the densities of a  *)
(* surface adds up to it.                                                  *)
ASSUME SceneAssumption ==
    /\ Lights \subseteq [isDelta : BOOLEAN, cos : Positive, inverseArea : Positive, pick : Positive]
    /\ Surfaces \subseteq [kind : Kinds, cosL : Positive, cosC : Positive, phong : Positive,
                           albedo : [LobeNames -> Positive], cont : Positive]
    /\ \A v \in Surfaces : /\ SumPickProb(v) # Zero
                           /\ Pdf(v, v.cosL) # Zero /\ Pdf(v, v.cosC) # Zero
    /\ SquaredLengths \subseteq Positive
    /\ {lightSubpathCount, cameraPdfW, InvPi, Four} \subseteq Positive

Paths ==
    {[light |-> l, surfaces |-> s, d2 |-> d] :
        l \in Lights,
        s \in UNION {[1 .. n -> Surfaces] : n \in 1 .. MaxSurfaces},
        d \in UNION {[1 .. n + 1 -> SquaredLengths] : n \in 1 .. MaxSurfaces}}

(* initLightPayload picks the light and the emission.                      *)
InitLightPayload(l) ==
    LET emit == LightEmit(l)
    IN InitLightMisTerms(l, emit.cos, Times(emit.directPdfA, l.pick), Times(emit.emissionPdfW, l.pick))

InitCameraPayload == InitCameraMisTerms(cameraPdfW)

(* lightPass.                                                              *)
Init ==
    /\ path \in {p \in Paths : Len(p.d2) = Len(p.surfaces) + 1}
    /\ pass = "light"
    /\ at = 1
    /\ prd = InitLightPayload(path.light)
    /\ vertices = <<>>
    /\ taken = <<>>
    /\ ended = {}
    /\ retried = FALSE

(* Adds a contribution of technique s with the given 1 / misWeight.        *)
Contribute(old, s, weight) == Append(old, [technique |-> s, weight |-> weight])

(* sampleScattering at surface v: Russian roulette ends the walk, or a     *)
(* direction is sampled.  When the sample is rejected, the function returns*)
(* and the same ray is traced again.  Any other sample leads to the next   *)
(* point of the path or off it.                                            *)
SampleScattering(hit, v, cosIn, cosOut, next) ==
    \/ /\ v.cont # One
       /\ ended' = ended \cup {pass}
       /\ pass' = IF pass = "light" THEN "hand over" ELSE "done"
       /\ UNCHANGED <<at, prd, retried>>
    \/ /\ MayReject(v)
       /\ retried' = TRUE
       /\ prd' = hit
       /\ UNCHANGED <<pass, at, ended>>
    \/ \E b \in Picks(v) :
           /\ prd' = UpdateOnScatter(hit, v, cosIn, cosOut, b)
           /\ at' = next
           /\ UNCHANGED <<pass, ended, retried>>

(* Mutant: a light path ends one hit too early.                            *)
LightPathFull(depth) == maxPathLen < depth + 3

LightPathTooLong(depth) == maxPathLen < depth + 2

(* lightHit: the vertex is stored and connected to the camera, except on a *)
(* specular surface; then the walk goes on, if the path is not too long.   *)
LightHit ==
    /\ pass = "light"
    /\ at <= Last
    /\ LET v == Surface(at)
           hit == UpdateOnHit(prd, v.cosL, D2(at - 1))
       IN /\ IF IsSpecular(v)
             THEN UNCHANGED <<vertices, taken>>
             ELSE /\ vertices' = Append(vertices, [at |-> at, dVCM |-> hit.dVCM, dVC |-> hit.dVC])
                  /\ taken' = IF at = Last THEN Contribute(taken, Last + 1, WeightT1(hit)) ELSE taken
          /\ \/ /\ LightPathTooLong(hit.depth)
                /\ pass' = "hand over"
                /\ UNCHANGED <<at, prd, ended, retried>>
             \/ /\ ~LightPathTooLong(hit.depth)
                /\ SampleScattering(hit, v, v.cosL, v.cosC, at + 1)
    /\ UNCHANGED path

(* miss, of the light pass.                                                *)
LightMiss ==
    /\ pass = "light"
    /\ at > Last
    /\ pass' = "hand over"
    /\ UNCHANGED <<path, at, prd, vertices, taken, ended, retried>>

(* The launch of the camera pass, cameraPass.                              *)
LaunchCameraPass ==
    /\ pass = "hand over"
    /\ pass' = "camera"
    /\ at' = Last
    /\ prd' = InitCameraPayload
    /\ UNCHANGED <<path, vertices, taken, ended, retried>>

(* The loop over the vertices stored for the pixel's light path.  Only the *)
(* connection to the next point of the path makes this path.               *)
ConnectStored(old, hit) ==
    LET upTo[k \in 0 .. Len(vertices)] ==
            IF k = 0 THEN old
            ELSE IF vertices[k].at + 1 = at
            THEN Contribute(upTo[k - 1], at, WeightConnect(vertices[k], hit))
            ELSE upTo[k - 1]
    IN upTo[Len(vertices)]

(* cameraHit: the hit point is connected to the light and to the vertices  *)
(* stored for the pixel's light path, except on a specular surface.        *)
CameraHit ==
    /\ pass = "camera"
    /\ at >= 1
    /\ LET v == Surface(at)
           hit == UpdateOnHit(prd, v.cosC, D2(at))
           byS1 == IF at = 1 THEN Contribute(taken, 1, WeightS1(hit)) ELSE taken
       IN /\ taken' = IF IsSpecular(v) THEN taken ELSE ConnectStored(byS1, hit)
          /\ \/ /\ maxPathLen <= hit.depth
                /\ pass' = "done"
                /\ UNCHANGED <<at, prd, ended, retried>>
             \/ /\ maxPathLen > hit.depth
                /\ SampleScattering(hit, v, v.cosC, v.cosL, at - 1)
    /\ UNCHANGED <<path, vertices>>

(* vcmClosestHitCamera of DiffuseEmitter.                                  *)
CameraHitsEmitter ==
    /\ pass = "camera"
    /\ at = 0 /\ ~Light.isDelta
    /\ pass' = "done"
    /\ taken' = Contribute(taken, 0, WeightS0([prd EXCEPT !.depth = @ + 1], Light.inverseArea,
                                             Times(LambertianPdf(Light.cos), Light.inverseArea)))
    /\ UNCHANGED <<path, at, prd, vertices, ended, retried>>

(* miss, of the camera pass: there is nothing to hit at a point light.     *)
CameraMiss ==
    /\ pass = "camera"
    /\ at = 0 /\ Light.isDelta
    /\ pass' = "done"
    /\ UNCHANGED <<path, at, prd, vertices, taken, ended, retried>>

Next ==
    \/ LightHit \/ LightMiss
    \/ LaunchCameraPass \/ CameraHit \/ CameraHitsEmitter \/ CameraMiss

Spec == Init /\ [][Next]_vars

-----------------------------------------------------------------------------
(***************************************************************************)
(* What the weights should be: the share of a technique's density in the   *)
(* sum over all techniques, by the densities of their samples per area.    *)
(***************************************************************************)
(* The densities of the point on the light and of the direction from it.   *)
LightPointPdf(l) == IF l.isDelta THEN One ELSE l.inverseArea
EmissionDirPdfW(l) == IF l.isDelta THEN Over(InvPi, Four) ELSE Times(l.cos, InvPi)

(* The density of x_i+1, sampled from x_i by the light's walk.             *)
LightDensity(i) ==
    LET dirPdfW == IF i = 0 THEN EmissionDirPdfW(Light)
                   ELSE Times(Pdf(Surface(i), Surface(i).cosC), Surface(i).cont)
    IN Over(Times(dirPdfW, Surface(i + 1).cosL), D2(i))

(* The density of x_i, sampled from x_i+1 by the camera's walk.            *)
CameraDensity(i) ==
    LET dirPdfW == IF i = Last THEN cameraPdfW
                   ELSE Times(Pdf(Surface(i + 1), Surface(i + 1).cosL), Surface(i + 1).cont)
        cosine == IF i = 0 THEN Light.cos ELSE Surface(i).cosC
    IN Over(Times(dirPdfW, cosine), D2(i))

(* The density of the points x_0 .. x_s-1 sampled by the light's walk, and *)
(* that of x_s .. x_n sampled by the camera's.                             *)
LightPdfA(s) ==
    Product([k \in 1 .. s |-> IF k = 1 THEN Times(LightPointPdf(Light), Light.pick)
                               ELSE LightDensity(k - 2)], s)

CameraPdfA(s) ==
    Product([k \in 1 .. Last + 1 - s |-> CameraDensity(Last + 1 - k)], Last + 1 - s)

Density(s) ==
    LET samples == IF s = Last + 1 THEN lightSubpathCount ELSE One
    IN Times(samples, Times(LightPdfA(s), CameraPdfA(s)))

(* The techniques that can build the path: none joins the walks at a       *)
(* specular surface, and no camera ray hits a point light.                 *)
Techniques ==
    {s \in 0 .. Last + 1 :
        /\ s = 0 => ~Light.isDelta
        /\ s >= 1 /\ s <= Last => ~IsSpecular(Surface(s))
        /\ s >= 2 => ~IsSpecular(Surface(s - 1))}

DensityIfPossible(s) == IF s \in Techniques THEN Density(s) ELSE Zero

Balanced(s) ==
    Over(Total([k \in 1 .. Last + 2 |-> DensityIfPossible(k - 1)], Last + 2), Density(s))

-----------------------------------------------------------------------------
(* Every lobe of the path is as likely as the others on its surface.       *)
LobesEquallyLikely ==
    \A i \in 1 .. Last : \A b, c \in Picks(Surface(i)) :
        PickProb(Surface(i), b) = PickProb(Surface(i), c)

(* The segment that technique s adds is one its formula treats exactly:    *)
(* for a connection, the cosines of its two ends are equal, and for S0 the *)
(* update on the hit would change nothing.                                 *)
ExactlyConverted(s) ==
    CASE s = 0 -> D2(0) = One /\ Light.cos = One
      [] s \in {1, Last + 1} -> TRUE
      [] OTHER -> Surface(s - 1).cosC = Surface(s).cosL

(* The weight of a contribution is the balance heuristic's: one over it is *)
(* the sum of the densities of all techniques, over its own.  The walks    *)
(* have carried along all they need: what technique s weighs with after    *)
(* any number of bounces agrees with densities no walk has ever seen.      *)
WeightsAreBalanced ==
    (LobesEquallyLikely /\ ~retried) =>
        \A k \in 1 .. Len(taken) :
            ExactlyConverted(taken[k].technique) =>
                taken[k].weight = Balanced(taken[k].technique)

(* When no roulette has ended a walk, every technique that can build a     *)
(* path of at most maxPathLen segments has contributed exactly once, no    *)
(* other has: the limits of the two walks leave no gap and no overlap.     *)
EveryTechniqueOnce ==
    (pass = "done" /\ ended = {} /\ ~retried /\ Last + 1 <= maxPathLen) =>
        /\ \A k \in 1 .. Len(taken) : taken[k].technique \in Techniques
        /\ \A s \in Techniques : \E k \in 1 .. Len(taken) :
               \A j \in 1 .. Len(taken) : taken[j].technique = s <=> j = k

=============================================================================
