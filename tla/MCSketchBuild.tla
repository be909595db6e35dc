--------------------------- MODULE MCSketchBuild ---------------------------
\* A strict parallel sketch build for TLC: two chunks whose rows share a block.
EXTENDS SketchBuild

FourPoints == {[asked |-> 2, memory |-> 2, cacheBytes |-> 0, strict |-> TRUE, points |-> 4]}
PointValues == [r \in 0..9 |-> (r * r) % 7]
WindowRatio == <<3, 2>>
=============================================================================
