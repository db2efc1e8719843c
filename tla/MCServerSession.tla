--------------------------- MODULE MCServerSession ---------------------------
(***************************************************************************)
(* Two connections, so that the second meets a server that is busy, has    *)
(* just lost its client or still renders for it, and two requests on each, *)
(* so that segments can cut and join packets.                              *)
(***************************************************************************)
EXTENDS ServerSession
=============================================================================
