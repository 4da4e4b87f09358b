--------------------------- MODULE PackedKernels ----------------------------
(***************************************************************************)
(* The kernels of the formats that multiply from packs, on the slab and    *)
(* the edge tile TileKernel follows.                                       *)
(***************************************************************************)
EXTENDS Integers

CONSTANTS
    Supers,         \* 256-weight stretches of the slab the tile runs through
    Rows16, Rows8,  \* rows under a tile of 16 and of 8 rows
    Cols            \* columns under a tile

ASSUME SizesAssumption ==
    /\ Supers \in Nat
    /\ Rows16 \subseteq Nat \ {0} /\ Rows8 \subseteq Nat \ {0} /\ Cols \subseteq Nat \ {0}

q4_K  == INSTANCE Q4K WITH Rows <- Rows16
q5_K  == INSTANCE Q5K WITH Rows <- Rows16
q2_K  == INSTANCE Q2K WITH Rows <- Rows16
q3_K  == INSTANCE Q3K WITH Rows <- Rows16
q6_K  == INSTANCE Q6K WITH Rows <- Rows16
leg   == INSTANCE Legacy WITH Rows <- Rows16, Blocks <- 2 * Supers
iq4   == INSTANCE IQ4 WITH Rows <- Rows8
grid  == INSTANCE Grid WITH Rows <- Rows8
qbit  == INSTANCE QBit WITH Rows <- Rows16, Blocks <- Supers

\* l, but inside a matrix of size rows or columns: the row or column whose
\* scalar product a lane is compared with.
LastOr(l, size) == IF l < size THEN l ELSE size - 1
=============================================================================
