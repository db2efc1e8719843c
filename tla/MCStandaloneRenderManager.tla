---------------------- MODULE MCStandaloneRenderManager ----------------------
(***************************************************************************)
(* Small instances of StandaloneRenderManager.  Two scenes exist at a time *)
(* at most, so two addresses let a new scene have that of a deleted one.   *)
(* A frame is shown every other iteration.  Three inputs are enough to     *)
(* load three scenes before the manager looks, to change the method while  *)
(* the second scene is imported, and to pause and resume the first.        *)
(***************************************************************************)
EXTENDS StandaloneRenderManager

InputKinds ==
    {"scene", "pause", "restart", "method", "default camera", "mouse", "camera", "Cornell",
     "Sponza", "Conference", "output", "radius"}

ManagerInputs == {"scene", "pause", "restart", "method"}

\* The inputs of the manager; the inputs that change the picture while it is
\* rendered; and those that set the camera and run into each other or into a scene
\* that is loaded, without the iterations.
UserChoices ==
    {<<ManagerInputs, 3, 2>>, <<ManagerInputs, 2, 3>>, <<{"scene", "radius", "output"}, 2, 3>>,
     <<{"scene", "mouse"}, 2, 2>>,
     <<{"scene", "camera", "output"}, 2, 0>>, <<{"scene", "Cornell"}, 2, 0>>,
     <<{"scene", "Conference"}, 2, 0>>, <<{"scene", "default camera", "output"}, 3, 0>>,
     <<{"mouse", "Sponza"}, 3, 0>>, <<{"output", "Sponza", "Cornell"}, 2, 0>>}

PauseAndRestart == {<<ManagerInputs, 3, 1>>}

TypedResolutions == {<<4, 3>>}

Symmetry == Permutations(Addresses) \cup Permutations(RenderMethods)
=============================================================================
