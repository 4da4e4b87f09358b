------------------------------ MODULE MCGemmOp ------------------------------
(***************************************************************************)
(* Instances of UncachedOp, which includes GemmOp: register tiles of 2 x 2 *)
(* and slabs of 2 units, so                                                *)
(* that shapes up to 5 x 6 x 3 have ragged rows, columns and slabs, fewer  *)
(* and more tiles than threads, and single columns.                        *)
(***************************************************************************)
EXTENDS UncachedOp

Shape(m, n, kb, pad) == [m |-> m, n |-> n, kb |-> kb, ldc |-> m + pad]

\* Ragged and exact, smaller and larger than a tile; a padded result.
MCShapes ==
    {Shape(m, n, 3, 0) : m \in 1 .. 5, n \in {1, 2, 3, 5, 6}} \cup {Shape(3, 4, 2, 1), Shape(5, 3, 1, 1)}

\* Where the slices are counted in the packed structure itself, its size does
\* not matter.
OneCell == [k \in Kinds |-> 1]

\* In units of 4096 bytes: agrid16_t is 16384 bytes of codes and twice 4096 of
\* scales and corrections, agrid_t the same codes and twice 2048.
Grid16Cells == [k \in Kinds |-> 6]
GridCells   == [k \in Kinds |-> 5]
Grid16Shapes == {Shape(4, 2, 1, 0), Shape(6, 1, 3, 0)}

\* A few shapes for teams that disagree about the cache.
FewShapes == {Shape(4, 4, 1, 0), Shape(2, 5, 1, 0)}
=============================================================================
