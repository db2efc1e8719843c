------------------------------- MODULE KdTree -------------------------------
(***************************************************************************)
(* The other photon map a build of OptixRenderer may have: a kd-tree over  *)
(* the photons of one pass, built on the host                              *)
(* (OptixRenderer_CPUKdTree.cpp, select.h) and searched with a stack by    *)
(* the estimation of indirect radiance.                                    *)
(*                                                                         *)
(* The tree is an array: the children of node n are 2n + 1 and 2n + 2.     *)
(* Nodes below a leaf keep what an earlier tree has left in them.          *)
(***************************************************************************)
EXTENDS PhotonMap, SequencesExt

-----------------------------------------------------------------------------
(***************************************************************************)
(* select.h.  Lists are sequences, so every index is one more than there.  *)
(***************************************************************************)
Swapped(list, a, b) == [list EXCEPT ![a] = list[b], ![b] = list[a]]

(* partition: the pivot waits at the end of the range; left and right scan *)
(* towards each other and exchange what is on the wrong side.              *)
LeftStop(s, pivot, axis) ==
    Min({i \in s.left + 1 .. s.right : i = s.right \/ s.list[i].at[axis] >= pivot})

RightStop(s, left, pivot, axis) ==
    Max({i \in left - 1 .. s.right - 1 : i <= left \/ s.list[i].at[axis] <= pivot})

(* When they meet, the pivot takes the place of left.                      *)
Exchanged(s, left, right, last) ==
    IF left < right
    THEN [s EXCEPT !.list = Swapped(@, left, right), !.left = left, !.right = right]
    ELSE [s EXCEPT !.list = Swapped(@, left, last), !.left = left, !.met = TRUE]

(* One scan from either side; there are none once they have met.           *)
Scanned(s, pivot, last, axis) ==
    LET left == LeftStop(s, pivot, axis)
    IN IF s.met THEN s ELSE Exchanged(s, left, RightStop(s, left, pivot, axis), last)

(* Every scan but the last brings them nearer.                             *)
Partition(list, first, last, pivotIndex, axis) ==
    LET pivot == list[pivotIndex].at[axis]
        scan[k \in 0 .. last - first + 1] ==
            IF k = 0 THEN [list |-> Swapped(list, last, pivotIndex), left |-> first - 1,
                           right |-> last, met |-> FALSE]
            ELSE Scanned(scan[k - 1], pivot, last, axis)
    IN scan[last - first + 1]

(* select: the range around k is narrowed until its pivot ends up there.   *)
Narrowed(s, k, split) ==
    [list  |-> split.list,
     first |-> IF k > split.left THEN split.left + 1 ELSE s.first,
     last  |-> IF k < split.left THEN split.left - 1 ELSE s.last,
     found |-> k = split.left]

NextRange(s, k, axis) ==
    IF s.found THEN s
    ELSE Narrowed(s, k, Partition(s.list, s.first, s.last, (s.first + s.last) \div 2, axis))

Select(list, k, axis) ==
    LET range[i \in 0 .. Len(list)] ==
            IF i = 0 THEN [list |-> list, first |-> 1, last |-> Len(list), found |-> FALSE]
            ELSE NextRange(range[i - 1], k, axis)
    IN range[Len(list)].list

-----------------------------------------------------------------------------
(***************************************************************************)
(* createPhotonKdTreeOnCPU.                                                *)
(***************************************************************************)
(* A photon without power is replaced by the last one.                     *)
Looked(s) ==
    IF s.i > Len(s.list) THEN s
    ELSE IF IsValid(s.list[s.i]) THEN [s EXCEPT !.i = @ + 1]
    ELSE [s EXCEPT !.list = Front([s.list EXCEPT ![s.i] = Last(s.list)])]

ValidPhotons(photons) ==
    LET number == Cardinality(DOMAIN photons)
        look[k \in 0 .. number] ==
            IF k = 0 THEN [i |-> 1, list |-> [j \in 1 .. number |-> photons[j - 1]]]
            ELSE Looked(look[k - 1])
    IN look[number].list

Box(list) ==
    [first |-> [i \in Axes |-> Min({list[k].at[i] : k \in DOMAIN list})],
     second |-> [i \in Axes |-> Max({list[k].at[i] : k \in DOMAIN list})]]

(* max_component of the diagonal.                                          *)
LongestAxis(box) ==
    LET diagonal == Extent(box)
    IN IF diagonal[1] > diagonal[2] /\ diagonal[1] > diagonal[3] THEN 1
       ELSE IF diagonal[2] > diagonal[3] THEN 2 ELSE 3

(* The type of a node: an axis, or PPM_LEAF or PPM_NULL.                   *)
Leaf == 4
Null == 5

(* What buildKDTree does with the photons of one node: the median on the   *)
(* longest axis of its box is the node's own.                              *)
Inner(axis, box, median, selected) ==
    [type |-> axis, photon |-> selected[median], box |-> box,
     left |-> SubSeq(selected, 1, median - 1),
     right |-> SubSeq(selected, median + 1, Len(selected))]

Split(list, axis, box, median) == Inner(axis, box, median, Select(list, median, axis))

Node(list, box) ==
    IF Len(list) = 0 THEN [type |-> Null, photon |-> NoPhoton]
    ELSE IF Len(list) = 1 THEN [type |-> Leaf, photon |-> list[1]]
    ELSE Split(list, LongestAxis(box), box, Len(list) \div 2 + 1)

NotWritten == [type |-> 0, photon |-> NoPhoton]

(* The two recursive calls, with the box cut at the median; they stop at a *)
(* node that is no axis.                                                   *)
LeftChild(node) ==
    Node(node.left, [node.box EXCEPT !.second[node.type] = node.photon.at[node.type]])

RightChild(node) ==
    Node(node.right, [node.box EXCEPT !.first[node.type] = node.photon.at[node.type]])

Parent(n) == (n - 1) \div 2

ChildAt(n, parent) ==
    IF parent.type \notin Axes THEN NotWritten
    ELSE IF n = 2 * Parent(n) + 1 THEN LeftChild(parent) ELSE RightChild(parent)

(* pow2roundup(n + 1) - 1.                                                 *)
TreeSize(n) ==
    LET power[k \in 0 .. n] == IF k = 0 THEN 1 ELSE 2 * power[k - 1]
    IN Min({power[k] - 1 : k \in {j \in 0 .. n : power[j] >= n + 1}})

PhotonTree(photons) ==
    LET valid == ValidPhotons(photons)
        node[n \in 0 .. TreeSize(Cardinality(DOMAIN photons)) - 1] ==
            IF n = 0 THEN IF valid = <<>> THEN Node(valid, {}) ELSE Node(valid, Box(valid))
            ELSE ChildAt(n, node[Parent(n)])
    IN [n \in DOMAIN node |-> [type |-> node[n].type, photon |-> node[n].photon]]

-----------------------------------------------------------------------------
(***************************************************************************)
(* The estimation of indirect radiance.  The order in which the stack      *)
(* gives the nodes back makes no difference to the sum.                    *)
(***************************************************************************)
(* From an inner node the search goes on on the point's side of the plane, *)
(* and later on the other one if the plane is nearer than the radius.      *)
Visits(tree, point, radius, n) ==
    LET axis == tree[n].type
        distance == point[axis] - tree[n].photon.at[axis]
        near == IF distance < 0 THEN 2 * n + 1 ELSE 2 * n + 2
    IN IF axis \notin Axes THEN {}
       ELSE {near} \cup IF Square(distance) < Square(radius) THEN {2 * n + 1, 2 * n + 2} ELSE {}

Visited(tree, point, radius) ==
    LET visited[n \in DOMAIN tree] ==
            n = 0 \/ (visited[Parent(n)] /\ n \in Visits(tree, point, radius, Parent(n)))
    IN {n \in DOMAIN tree : visited[n]}

(* How often the power of a photon is added up at the point.               *)
TimesFoundInTree(tree, point, radius, photon) ==
    Cardinality({n \in Visited(tree, point, radius) :
                    /\ tree[n].type # Null
                    /\ tree[n].photon = photon
                    /\ DistanceSquared(point, photon.at) <= Square(radius)})
=============================================================================
