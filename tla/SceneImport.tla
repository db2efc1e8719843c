----------------------------- MODULE SceneImport -----------------------------
(***************************************************************************)
(* Scenes: what SceneFactory makes of a name, and what a scene gives to    *)
(* OptixRenderer::initScene.  A file is what assimp has read of it,        *)
(*   materials: of each the channels of its emissive and its reflective    *)
(*              colour, and whether it has a texture, normals, glass,      *)
(*   meshes:    of each its material, the numbers of indices of its faces  *)
(*              and whether it has texture coordinates,                    *)
(*   lights:    their types.                                               *)
(* A built-in scene is a name.  Positions, areas and colours are left out; *)
(* a light is known by where it comes from, a mesh or a number in the      *)
(* file.  The inverse area of an emitter is the mesh whose first face it   *)
(* is of, and 0 as long as none is set.                                    *)
(***************************************************************************)
EXTENDS Integers, SequencesExt

Channels == {"r", "g", "b"}

(* What assimp makes sure of: a mesh has one of the materials, and a face  *)
(* (loadMeshLightSource reads an emitter's first without looking).         *)
IsFile(file) ==
    /\ file.meshes \in Seq(Range(file.meshes))
    /\ file.lights \in Seq(Range(file.lights))
    /\ \A mesh \in DOMAIN file.meshes :
           /\ file.meshes[mesh].material \in DOMAIN file.materials
           /\ file.meshes[mesh].faces # <<>>

(* Light's constructors.                                                   *)
AreaLight(mesh) == [type |-> "AREA", isDelta |-> FALSE, from |-> mesh]
PointLight(number) == [type |-> "POINT", isDelta |-> TRUE, from |-> number]
SpotLight(number) == [type |-> "SPOT", isDelta |-> TRUE, from |-> number]

-----------------------------------------------------------------------------
(***************************************************************************)
(* Scene: a file.                                                          *)
(***************************************************************************)
(* The node graph that aiProcess_PreTransformVertices leaves: the root has *)
(* the only mesh, or a child for every mesh and every light.               *)
FlatGraph(file) ==
    LET n == Len(file.meshes)
    IN IF n = 1 /\ file.lights = <<>> THEN <<[meshes |-> <<1>>, children |-> <<>>]>>
       ELSE <<[meshes |-> <<>>, children |-> [c \in 1 .. n + Len(file.lights) |-> c + 1]]>>
            \o [c \in 1 .. n + Len(file.lights) |->
                   [meshes |-> IF c <= n THEN <<c>> ELSE <<>>, children |-> <<>>]]

(* The name asks for one component; the code for all of them.              *)
ColorHasAnyComponent(color) == color = Channels

(* The constructors of the materials.                                      *)
MaterialOfKind(kind) == [kind |-> kind, normals |-> FALSE, inverseArea |-> 0]
EmitterMaterial == [kind |-> "DiffuseEmitter", normals |-> FALSE, inverseArea |-> 0]
TextureMaterial(normals) == [kind |-> "Texture", normals |-> normals, inverseArea |-> 0]

(* loadSceneMaterials: the first kind that fits.                           *)
MaterialOf(m) ==
    IF ColorHasAnyComponent(m.emissive) THEN EmitterMaterial
    ELSE IF m.texture THEN TextureMaterial(m.normals)
    ELSE IF m.glass THEN MaterialOfKind("Glass")
    ELSE IF ColorHasAnyComponent(m.reflective) THEN MaterialOfKind("Mirror")
    ELSE MaterialOfKind("Diffuse")

(* loadLightSources: points and spots, one after the other.                *)
LightSources(file) ==
    LET sources[i \in 0 .. Len(file.lights)] ==
            IF i = 0 THEN <<>>
            ELSE IF file.lights[i] = "POINT" THEN Append(sources[i - 1], PointLight(i))
            ELSE IF file.lights[i] = "SPOT" THEN Append(sources[i - 1], SpotLight(i))
            ELSE sources[i - 1]
    IN sources[Len(file.lights)]

IsEmitter(scene, mesh) ==
    scene.materials[scene.file.meshes[mesh].material].kind = "DiffuseEmitter"

(* loadMeshLightSource: the first face becomes a light, and its inverse    *)
(* area that of the material, which other meshes may share.                *)
LoadMeshLightSource(scene, mesh) ==
    IF IsEmitter(scene, mesh) /\ scene.file.meshes[mesh].faces[1] = 3
    THEN [scene EXCEPT !.lights = Append(@, AreaLight(mesh)),
                       !.materials[scene.file.meshes[mesh].material].inverseArea = mesh]
    ELSE scene

NewScene(file) ==
    [file |-> file,
     materials |-> [i \in DOMAIN file.materials |-> MaterialOf(file.materials[i])],
     lights |-> LightSources(file)]

(* createFromFile: materials, lights, and the emitters among the meshes.   *)
CreateFromFile(file) ==
    LET scene[mesh \in 0 .. Len(file.meshes)] ==
            IF mesh = 0 THEN NewScene(file) ELSE LoadMeshLightSource(scene[mesh - 1], mesh)
    IN scene[Len(file.meshes)]

(* createGeometryFromMesh.  assimp computes tangents where there are       *)
(* texture coordinates.                                                    *)
GeometryFromMesh(scene, mesh) ==
    [meshId |-> mesh,
     primitives |-> Len(scene.file.meshes[mesh].faces),
     hasTextureCoords |-> scene.file.meshes[mesh].texCoords,
     hasTangentsAndBitangents |-> scene.file.meshes[mesh].texCoords]

(* What registerGeometryInstanceValues stores of a material.               *)
RegisteredValues(material) ==
    [kind |-> material.kind, inverseArea |-> material.inverseArea, hasNormals |-> material.normals]

(* The attributes mesh_intersect computes, and those the programs of       *)
(* Texture read.                                                           *)
AttributesOf(geometry) ==
    {"shadingNormal", "geometricNormal", "textureCoordinate"}
    \cup (IF geometry.hasTangentsAndBitangents THEN {"tangent", "bitangent"} ELSE {})

AttributesRead(values) ==
    IF values.kind # "Texture" THEN {"shadingNormal"}
    ELSE {"shadingNormal", "textureCoordinate"}
         \cup (IF values.hasNormals THEN {"tangent", "bitangent"} ELSE {})

(* getGroupFromNode: the meshes of the graph in the order they are met; a  *)
(* node that has meshes hides its children.                                *)
MeshesOfGraph(nodes) ==
    LET under[n \in DOMAIN nodes] ==
            IF nodes[n].meshes # <<>> THEN nodes[n].meshes
            ELSE FlattenSeq([c \in DOMAIN nodes[n].children |-> under[nodes[n].children[c]]])
    IN under[1]

(* getGeometryInstance: the instance takes the values the material has.    *)
GeometryInstance(scene, mesh) ==
    LET material == scene.file.meshes[mesh].material
    IN [geometry |-> GeometryFromMesh(scene, mesh),
        material |-> material,
        values |-> RegisteredValues(scene.materials[material])]

(* After an instance is made of its mesh, an emitter is loaded once more.  *)
AddInstance(group, mesh) ==
    [instances |-> Append(group.instances, GeometryInstance(group.scene, mesh)),
     scene |-> LoadMeshLightSource(group.scene, mesh)]

SceneRootGroup(scene) ==
    LET meshes == MeshesOfGraph(FlatGraph(scene.file))
        group[i \in 0 .. Len(meshes)] ==
            IF i = 0 THEN [instances |-> <<>>, scene |-> scene]
            ELSE AddInstance(group[i - 1], meshes[i])
    IN group[Len(meshes)]

-----------------------------------------------------------------------------
(***************************************************************************)
(* Cornell and CornellSmall.                                               *)
(***************************************************************************)
Configs ==
    LET vcmColors == {"SmallVCMColors", "BackwallBlue"}
        spheres == {"SmallGlassSphere", "SmallMirrorSphere"}
    IN [CornellSmall |-> {"LightArea", "Blocks"},
        CornellSmallNoBlocks |-> {"LightArea"},
        CornellSmallLargeSphere |-> vcmColors \cup {"FloorGlossy", "LargeMirrorSphere", "LightArea"},
        CornellSmallSmallSpheres |-> vcmColors \cup spheres \cup {"FloorGlossy", "LightPointStrong"},
        CornellSmallLightUpwards |-> vcmColors \cup {"LightAreaUpwards"},
        CornellSmallPointDistant |-> vcmColors \cup spheres \cup {"LightPointDistant"},
        CornellSmallPointTest |-> vcmColors \cup {"SmallGlassSphere", "FloorGlossy", "LightPointStrong"}]

(* The materials of the boxes by their names.                              *)
BoxMaterials ==
    [diffuseWhite |-> "Diffuse", diffuseGreen |-> "Diffuse", diffuseRed |-> "Diffuse",
     diffuseBlue |-> "Diffuse", mirror |-> "Mirror", glossyWhite |-> "Glossy", glass |-> "Glass"]

(* createParallelogram.                                                    *)
Parallelogram(meshId, name, material) ==
    [geometry |-> [meshId |-> meshId, primitives |-> 1,
                   hasTextureCoords |-> FALSE, hasTangentsAndBitangents |-> FALSE],
     material |-> name,
     values |-> RegisteredValues(material)]

Panel(meshId, name) == Parallelogram(meshId, name, MaterialOfKind(BoxMaterials[name]))

(* A sphere has no mesh id.                                                *)
SphereInstance(name) ==
    [geometry |-> [primitives |-> 1, hasTextureCoords |-> FALSE, hasTangentsAndBitangents |-> FALSE],
     material |-> name,
     values |-> RegisteredValues(MaterialOfKind(BoxMaterials[name]))]

(* The ids of the lights come after those of ten panels of two blocks.     *)
FirstLightMesh == 15

(* A parallelogram for every light, all of the first one's inverse area.   *)
LightInstances(lights) ==
    [i \in DOMAIN lights |->
        Parallelogram(FirstLightMesh + i - 1, "emitter",
                      [EmitterMaterial EXCEPT !.inverseArea = lights[1].from])]

(* Cornell: floor, ceiling, back, right and left wall, and its light.      *)
CornellLights == <<AreaLight(FirstLightMesh)>>

CornellWalls ==
    <<Panel(0, "diffuseWhite"), Panel(1, "diffuseWhite"), Panel(2, "diffuseWhite"),
      Panel(3, "diffuseGreen"), Panel(4, "diffuseRed")>>

CornellScene ==
    [lights |-> CornellLights,
     instances |-> CornellWalls \o LightInstances(CornellLights)]

(* CornellSmall::initialize.                                               *)
HasAreaLight(config) == config \cap {"LightArea", "LightAreaUpwards"} # {}

SmallLights(config) ==
    IF HasAreaLight(config) THEN <<AreaLight(FirstLightMesh)>>
    ELSE IF config \cap {"LightPoint", "LightPointStrong", "LightPointDistant"} # {}
    THEN <<PointLight(1)>>
    ELSE <<>>

(* The box is open to a light above it.                                    *)
SmallWalls(config) ==
    LET matFloor == IF "FloorMirror" \in config THEN "mirror"
                    ELSE IF "FloorGlossy" \in config THEN "glossyWhite" ELSE "diffuseWhite"
        matBackWall == IF "BackwallBlue" \in config THEN "diffuseBlue" ELSE "diffuseWhite"
        sides == IF "SmallVCMColors" \in config THEN <<"diffuseRed", "diffuseGreen">>
                 ELSE <<"diffuseGreen", "diffuseRed">>
        ceiling == IF "LightPointDistant" \in config THEN <<>> ELSE <<Panel(1, "diffuseWhite")>>
    IN <<Panel(0, matFloor)>> \o ceiling
       \o <<Panel(2, matBackWall), Panel(3, sides[1]), Panel(4, sides[2])>>

SmallBlocks(config) ==
    IF "Blocks" \in config THEN [i \in 1 .. 10 |-> Panel(4 + i, "diffuseWhite")] ELSE <<>>

SmallSpheres(config) ==
    (IF "LargeGlassSphere" \in config THEN <<SphereInstance("glass")>>
     ELSE IF "LargeMirrorSphere" \in config THEN <<SphereInstance("mirror")>> ELSE <<>>)
    \o (IF "SmallGlassSphere" \in config THEN <<SphereInstance("glass")>> ELSE <<>>)
    \o (IF "SmallMirrorSphere" \in config THEN <<SphereInstance("mirror")>> ELSE <<>>)

CornellSmallScene(config) ==
    LET lamps == IF HasAreaLight(config) THEN LightInstances(SmallLights(config)) ELSE <<>>
    IN [lights |-> SmallLights(config),
        instances |-> SmallWalls(config) \o SmallBlocks(config) \o lamps \o SmallSpheres(config)]

-----------------------------------------------------------------------------
(***************************************************************************)
(* getOptixMaterial of the materials: the types of the rays (RayType) that *)
(* their programs answer.  A ray of another type that meets them is traced *)
(* in vain, and nobody is told.                                            *)
(***************************************************************************)
RadianceTypes == {"RADIANCE", "RADIANCE_IN_PARTICIPATING_MEDIUM"}
PhotonTypes == {"PHOTON", "PHOTON_IN_PARTICIPATING_MEDIUM"}
VcmTypes == {"LIGHT_VCM", "CAMERA_VCM"}

(* registerMaterialWithShadowProgram, also for emitters, whose own program *)
(* for shadow rays it replaces.                                            *)
ShadowTypes == {"SHADOW"}

(* Mutant: a matt surface does not answer rays from inside of glass.       *)
DiffuseOutsideOnly == {"RADIANCE"} \cup PhotonTypes \cup VcmTypes \cup ShadowTypes

DiffusePrograms == RadianceTypes \cup PhotonTypes \cup VcmTypes \cup ShadowTypes

GlossyPrograms == RadianceTypes \cup PhotonTypes \cup VcmTypes \cup ShadowTypes

TexturePrograms == RadianceTypes \cup PhotonTypes \cup VcmTypes \cup ShadowTypes

MirrorPrograms == RadianceTypes \cup PhotonTypes \cup VcmTypes \cup ShadowTypes

(* The any-hit programs that would tell the sides apart are commented out. *)
GlassPrograms == RadianceTypes \cup PhotonTypes \cup VcmTypes \cup ShadowTypes

EmitterPrograms == RadianceTypes \cup {"PHOTON"} \cup VcmTypes \cup ShadowTypes

ProgramsOf ==
    [Diffuse |-> DiffusePrograms, Glossy |-> GlossyPrograms, Texture |-> TexturePrograms,
     Mirror |-> MirrorPrograms, Glass |-> GlassPrograms, DiffuseEmitter |-> EmitterPrograms]

-----------------------------------------------------------------------------
(* The lights and the instances initScene gets from the scene of a name,   *)
(* <<name>> or <<"file", file>> (getSceneByName, getSceneRootGroup).  The  *)
(* list of lights is read after the graph is built.                        *)
ImportedScene(name) ==
    LET imported == CreateFromFile(name[2])
        group == SceneRootGroup(imported)
    IN IF name[1] = "Cornell" THEN CornellScene
       ELSE IF name[1] \in DOMAIN Configs THEN CornellSmallScene(Configs[name[1]])
       ELSE [lights |-> group.scene.lights, instances |-> group.instances]

=============================================================================
