----------------------- MODULE MCRenderServerRenderer -----------------------
(***************************************************************************)
(* Two clients, one after the other, and three requests of up to two       *)
(* iterations in two sequences: enough for a request to be overtaken by a  *)
(* newer one of its client, and by the requests of another client.         *)
(***************************************************************************)
EXTENDS RenderServerRenderer
=============================================================================
