-------------------- MODULE MCRenderResultPacketReceiver --------------------
(***************************************************************************)
(* Two sequences and five iterations: enough for three separate runs in    *)
(* the back buffer and for a packet that joins two of them.                *)
(***************************************************************************)
EXTENDS RenderResultPacketReceiver
=============================================================================
