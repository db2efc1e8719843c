--------------------------- MODULE MCOptixRenderer ---------------------------
(***************************************************************************)
(* Two threads of photons with two slots each, frames of one and of two    *)
(* pixels, light paths of up to two vertices.  The positions of the        *)
(* photons make grids of one to eight cells; the hit points are inside and *)
(* outside of their box.  Where nothing is rendered, every built-in scene  *)
(* is imported, and files of one or two meshes, materials and lights.      *)
(***************************************************************************)
EXTENDS OptixRenderer

MCSizes == {<<1, 1>>, <<1, 2>>}
MCMethodChoices == {{}, {"photon mapping"}, {"path tracing", "VCM"}}

Plain == [emissive |-> {}, reflective |-> {}, texture |-> FALSE, normals |-> FALSE, glass |-> FALSE]
MCMaterials ==
    {Plain,
     [Plain EXCEPT !.emissive = Channels],
     [Plain EXCEPT !.emissive = {"r"}, !.reflective = Channels],
     [Plain EXCEPT !.emissive = Channels, !.texture = TRUE, !.normals = TRUE],
     [Plain EXCEPT !.texture = TRUE, !.normals = TRUE],
     [Plain EXCEPT !.texture = TRUE, !.glass = TRUE],
     [Plain EXCEPT !.glass = TRUE, !.reflective = Channels]}
MCMeshes == [material : 1 .. 2, faces : {<<3>>, <<3, 3>>, <<2, 3>>}, texCoords : BOOLEAN]
MCLights == {<<>>, <<"POINT">>, <<"SPOT", "DIRECTIONAL">>, <<"POINT", "POINT">>}
MCFiles ==
    [materials : MCMaterials \X MCMaterials,
     meshes : {<<m>> : m \in MCMeshes} \cup (MCMeshes \X MCMeshes),
     lights : MCLights]

MCScenesFor ==
    [m \in MCMethodChoices |->
        IF m # {} THEN {<<"Cornell">>}
        ELSE {<<"Cornell">>} \cup {<<name>> : name \in DOMAIN Configs}
             \cup {<<"file", file>> : file \in MCFiles}]
MCPhotonPositions == {<<0, 0, 0>>, <<5, 2, 1>>, <<8, 4, 6>>}
MCHitPoints == {<<0, 0, 0>>, <<4, 2, 2>>, <<9, 4, 6>>, <<-3, 5, 0>>}
MCMaps == {"uniform grid", "kd-tree"}
MCRadii == {1, 4, 7}
MCMargin == <<1, 100>>
=============================================================================
