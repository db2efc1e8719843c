---------------------- MODULE MCDistributedApplication ----------------------
(***************************************************************************)
(* Two servers that can be exchanged.  The user starts a sequence twice: a *)
(* restart, new settings or another method.  A connection may have two     *)
(* packets of one iteration at its server, and all connections together    *)
(* two: each limit is met by itself, the one when both servers have a      *)
(* packet, the other after a restart has set the total back.               *)
(***************************************************************************)
EXTENDS DistributedApplication, TLC

Symmetry == Permutations(Servers)
=============================================================================
