------------------------------ MODULE MCVcmPath ------------------------------
(***************************************************************************)
(* A small set of lights and surfaces: two area lights and a point light,  *)
(* a diffuse and a textured surface, a glossy one whose lobes are equally  *)
(* likely, a mirror and glass.  MaxSurfaces and maxPathLen are such that   *)
(* the longest path has exactly as many segments as a walk may have.       *)
(***************************************************************************)
EXTENDS VcmPath

CONSTANT Prime              \* bound: the numbers there are

MCNumbers == 0 .. Prime - 1
MCPlus(x, y) == (x + y) % Prime
MCTimes(x, y) == (x * y) % Prime
Reciprocals == [x \in 1 .. Prime - 1 |-> CHOOSE y \in 1 .. Prime - 1 : (x * y) % Prime = 1]
MCReciprocal(x) == Reciprocals[x]

Two == 2
Half == Over(One, Two)
Third == Over(One, 3)

MCLights ==
    {[isDelta |-> FALSE, cos |-> One, inverseArea |-> Half, pick |-> One],
     [isDelta |-> FALSE, cos |-> Half, inverseArea |-> Half, pick |-> Half],
     [isDelta |-> TRUE, cos |-> One, inverseArea |-> One, pick |-> Half]}

Even == [lambertian |-> One, phong |-> One, reflection |-> One, transmission |-> One]

Point(kind, cosL, cosC, albedo, cont) ==
    [kind |-> kind, cosL |-> cosL, cosC |-> cosC, phong |-> Half, albedo |-> albedo, cont |-> cont]

MCSurfaces ==
    {Point("diffuse", One, Half, Even, Half),
     Point("texture", Half, One, Even, One),
     Point("glossy", Half, Half, Even, Half),
     Point("mirror", Half, Half, Even, One),
     Point("glass", One, Half, Even, Half)}

MCSquaredLengths == {One, Two}
MCCameraPdfW == Two
=============================================================================
