------------------------------- MODULE Slices -------------------------------
(***************************************************************************)
(* The integer arithmetic that splits one matrix multiplication among the  *)
(* nth threads of a ggml operation: ppc_apack_slice of ppc_pack_cache.cpp  *)
(* (rows of A to repack), the row-tile partition every packed GEMM uses,   *)
(* and the column-tile partition of the cached dispatch path.  Tiles and   *)
(* threads are numbered from 0, as in the code.                            *)
(***************************************************************************)
EXTENDS Integers

FloorDiv(a, b) == a \div b  \* mutant: the division rounds down

\* (a + b - 1) / b on positive operands: the code's rounding-up division.
CeilDiv(a, b) == (a + b - 1) \div b

\* How many tiles of height mr cover m rows; the last may be ragged.
TileCount(m, mr) == CeilDiv(m, mr)

MinOf(a, b) == IF a < b THEN a ELSE b

FirstTileFloor(tiles, ith, nth) == ith * (tiles \div nth)  \* mutant: overlapping shares

\* The half-open interval of tiles [FirstTile, EndTile) owned by thread ith.
\* Surplus threads get FirstTile >= EndTile.
FirstTile(tiles, ith, nth) == ith * CeilDiv(tiles, nth)
EndTile(tiles, ith, nth)   == MinOf(FirstTile(tiles, ith, nth) + CeilDiv(tiles, nth), tiles)

ThreadTiles(tiles, ith, nth) ==
    {k \in 0 .. tiles - 1 :
        FirstTile(tiles, ith, nth) <= k /\ k < EndTile(tiles, ith, nth)}

\* ppc_apack_slice: the first row and the number of rows thread ith repacks;
\* the early return of a surplus thread is <<0, 0>>.
ApackSlice(m, mr, ith, nth) ==
    LET tiles == TileCount(m, mr)
        t0    == FirstTile(tiles, ith, nth)
        t1    == EndTile(tiles, ith, nth)
    IN  IF t0 >= t1
        THEN [i0 |-> 0, rows |-> 0]
        ELSE [i0 |-> t0 * mr, rows |-> MinOf(t1 * mr, m) - t0 * mr]

\* The rows a slice covers.
SliceRows(s) == s.i0 .. s.i0 + s.rows - 1
=============================================================================
