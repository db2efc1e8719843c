------------------------------ MODULE PhotonMap ------------------------------
(***************************************************************************)
(* The photon map of OptixRenderer: a uniform grid over the bounding box   *)
(* of the photons of one pass, the photons sorted by their cell, and an    *)
(* offset table (OptixRenderer_SpatialHash.cu, PhotonGrid.h).  The         *)
(* estimation of indirect radiance reads the rows of cells around a point  *)
(* from it (IndirectRadianceEstimation.cu).                                *)
(*                                                                         *)
(* Coordinates are integers, of a unit as small as one wants; a quotient   *)
(* of floats is a pair of a numerator and a denominator, and <<1, 0>> is   *)
(* the infinite cell size that a division by zero gives.                   *)
(***************************************************************************)
EXTENDS Integers, Sequences, FiniteSets, FiniteSetsExt, Functions, TLC

CONSTANTS
    PHOTON_GRID_MAX_SIZE,   \* cells there is room for
    CellSizeMargin,         \* 0.001, in units: a pair
    Padding                 \* 0.0000001, in units

ASSUME PhotonMapAssumption ==
    /\ PHOTON_GRID_MAX_SIZE \in Nat \ {0}
    /\ CellSizeMargin \in Nat \X (Nat \ {0})
    /\ Padding \in Nat \ {0}

Axes == 1 .. 3

(* What a thread's slot holds before a photon is stored in it: its power   *)
(* is 0.                                                                   *)
NoPhoton == [at |-> <<0, 0, 0>>, stored |-> <<>>]
IsValid(photon) == photon.stored # <<>>

-----------------------------------------------------------------------------
(***************************************************************************)
(* The grid.  getPhotonsBoundingBox reduces the boxes of all slots, those  *)
(* without power drop out; padAABB, which pads by 0.0000001f: here by an   *)
(* integer, that no rounding swallows.                                     *)
(***************************************************************************)
Valid(photons) == {photons[s] : s \in {t \in DOMAIN photons : IsValid(photons[t])}}
Coordinates(photons, i) ==
    IF Valid(photons) = {} THEN {0} ELSE {photon.at[i] : photon \in Valid(photons)}

BoundingBox(photons) ==
    [first |-> [i \in Axes |-> Min(Coordinates(photons, i)) - Padding],
     second |-> [i \in Axes |-> Max(Coordinates(photons, i)) + Padding]]

Extent(box) == [i \in Axes |-> box.second[i] - box.first[i]]

Larger(q, r) == IF q[1] * r[2] >= r[1] * q[2] THEN q ELSE r

(* getSmallestPossibleCellSize: along axis i fit n cells whose edge is the *)
(* cube root of volume / maxGridSize, rounded down; the widest of the      *)
(* extents over those numbers is the cell size.                            *)
CellsAlong(extent, i) ==
    LET volume == extent[1] * extent[2] * extent[3]
    IN Max({n \in 0 .. PHOTON_GRID_MAX_SIZE :
               n * n * n * volume <= extent[i] * extent[i] * extent[i] * PHOTON_GRID_MAX_SIZE})

SmallestPossibleCellSize(extent) ==
    LET edge == [i \in Axes |-> LET n == CellsAlong(extent, i)
                                IN IF n = 0 THEN <<1, 0>> ELSE <<extent[i], n>>]
    IN Larger(edge[1], Larger(edge[2], edge[3]))

CellSize(extent) ==
    LET q == SmallestPossibleCellSize(extent)
    IN <<q[1] * CellSizeMargin[2] + CellSizeMargin[1] * q[2], q[2] * CellSizeMargin[2]>>

(* The cells that fit into a length, rounded down and up.                  *)
Floor(length, cell) == (length * cell[2]) \div cell[1]
Ceiling(length, cell) == (length * cell[2] + cell[1] - 1) \div cell[1]

(* calculateGridSize.                                                      *)
GridSize(extent, cell) == [i \in Axes |-> Max({1, Ceiling(extent[i], cell)})]

(* getPhotonGridIndex and getPhotonGridIndex1D.                            *)
GridIndex(position, origin, cell) == [i \in Axes |-> Floor(position[i] - origin[i], cell)]
GridIndex1D(index, size) == index[1] + index[2] * size[1] + index[3] * size[1] * size[2]

NumCells(size) == size[1] * size[2] * size[3]

(* Everything createUniformGridPhotonMap knows of the grid.                *)
Grid(photons) ==
    LET box == BoundingBox(photons)
        cell == CellSize(Extent(box))
    IN [origin |-> box.first, cell |-> cell, size |-> GridSize(Extent(box), cell)]

-----------------------------------------------------------------------------
(***************************************************************************)
(* The map.                                                                *)
(***************************************************************************)
(* calculateHashCellsKernel: a slot without power goes behind all cells.   *)
HashCell(photon, grid) ==
    IF IsValid(photon)
    THEN GridIndex1D(GridIndex(photon.at, grid.origin, grid.cell), grid.size)
    ELSE NumCells(grid.size) + 1

(* sortPhotonsByHash, which permutes the slots themselves; thrust's sort   *)
(* leaves the photons of one cell in any order.                            *)
SortedByCell(photons, grid) ==
    LET cells == [s \in DOMAIN photons |-> HashCell(photons[s], grid)]
    IN {[s \in DOMAIN photons |-> photons[order[s]]] :
           order \in {o \in Bijection(DOMAIN photons, DOMAIN photons) :
                         \A s, t \in DOMAIN photons : s < t => cells[o[s]] <= cells[o[t]]}}

(* The histogram and its exclusive prefix sum, createHashmapOffsetTable.   *)
OffsetTable(photons, grid) ==
    LET cells == [s \in DOMAIN photons |-> HashCell(photons[s], grid)]
    IN [c \in 0 .. NumCells(grid.size) |-> Cardinality({s \in DOMAIN photons : cells[s] < c})]

-----------------------------------------------------------------------------
(***************************************************************************)
(* The estimation of indirect radiance at a point.                         *)
(***************************************************************************)
(* The first and the last cell of the cube around the point, along axis i; *)
(* a negative number converts to 0.                                        *)
Lowest(point, radius, map, i) ==
    LET length == point[i] - map.grid.origin[i] - radius
    IN IF length < 0 THEN 0 ELSE Floor(length, map.grid.cell)

Highest(point, radius, map, i) ==
    LET length == point[i] - map.grid.origin[i] + radius
    IN Min({map.grid.size[i] - 1, IF length < 0 THEN 0 ELSE Floor(length, map.grid.cell)})

(* Mutant: a row ends before its last cell.                                *)
RowWithoutLast(point, radius, map, y, z) ==
    LET from == GridIndex1D(<<Lowest(point, radius, map, 1), y, z>>, map.grid.size)
        to == from + Highest(point, radius, map, 1) - Lowest(point, radius, map, 1)
    IN map.table[from] .. map.table[to] - 1

(* The slots of a row of cells are contiguous.                             *)
Row(point, radius, map, y, z) ==
    LET from == GridIndex1D(<<Lowest(point, radius, map, 1), y, z>>, map.grid.size)
        to == from + Highest(point, radius, map, 1) - Lowest(point, radius, map, 1)
    IN map.table[from] .. map.table[to + 1] - 1

Square(x) == x * x
DistanceSquared(p, q) == Square(p[1] - q[1]) + Square(p[2] - q[2]) + Square(p[3] - q[3])

(* How often the power of slot s is added up at the point.                 *)
TimesFound(photons, map, point, radius, s) ==
    IF DistanceSquared(point, photons[s].at) > Square(radius)
       \/ Lowest(point, radius, map, 1) > Highest(point, radius, map, 1)
    THEN 0
    ELSE Cardinality({yz \in (Lowest(point, radius, map, 2) .. Highest(point, radius, map, 2))
                          \X (Lowest(point, radius, map, 3) .. Highest(point, radius, map, 3)) :
                         s \in Row(point, radius, map, yz[1], yz[2])})

=============================================================================
