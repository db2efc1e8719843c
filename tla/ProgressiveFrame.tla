-------------------------- MODULE ProgressiveFrame --------------------------
(***************************************************************************)
(* What the client promises of a progressive photon mapping frame.  The    *)
(* radius of iteration n + 1 is computed from that of iteration n, so the  *)
(* estimate only converges when the frame is the mean of the iterations    *)
(* 0, 1, ..., shown - 1 and of nothing else.  Results arrive in any order: *)
(* at every moment the frame shows the longest run of iterations, counted  *)
(* from 0, of which all results have arrived.                              *)
(***************************************************************************)
EXTENDS Integers

CONSTANT Iterations     \* the iteration numbers that can be asked for

VARIABLES
    received,           \* iterations whose result has arrived, in any order
    shown               \* the frame is the mean of iterations 0..shown - 1

vars == <<received, shown>>

IsLongestPrefix(n, S) == n \in Nat /\ n \notin S /\ \A i \in 0 .. n - 1 : i \in S

Init ==
    /\ received = {}
    /\ shown = 0

\* A change of camera, scene or settings starts the frame over.
Restart ==
    /\ received' = {}
    /\ shown' = 0

\* The result of one or more new iterations arrives.
Accept ==
    /\ received' \subseteq Iterations
    /\ received \subseteq received'
    /\ received # received'
    /\ IsLongestPrefix(shown', received')

Next == Restart \/ Accept

Spec == Init /\ [][Next]_vars
=============================================================================
