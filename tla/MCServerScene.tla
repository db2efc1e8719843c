---- MODULE MCServerScene ----
(***************************************************************************)
(* A user makes two inputs: two scenes are loaded, or one and the          *)
(* rendering is paused, resumed or started, so that a scene can be         *)
(* replaced while requests of another are on their way.  There is one the  *)
(* client cannot read, one the server cannot, one without lights, and one  *)
(* whose name is that of another, which the server loads instead.  What    *)
(* the server has before is left by a client that asked for any of them.   *)
(***************************************************************************)
EXTENDS ServerScene

MCChoices ==
    {"Cornell", "CornellSmallNoBlocks", "scene.dae", "unlit.dae", "missing.dae", "broken.dae"}
MCReadableHere == MCChoices \ {"broken.dae"}
MCReadableThere == {"Cornell", "CornellSmall", "scene.dae", "unlit.dae"}
MCWithLights == {"Cornell", "CornellSmall", "scene.dae", "missing.dae", "broken.dae"}
====
