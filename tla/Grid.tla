-------------------------------- MODULE Grid --------------------------------
(***************************************************************************)
(* The kernels of the grid formats (src/iq_grid_ppc_mma.cpp): the 8x8 GEMM *)
(* over chunks of 32 weights (tq1_0, tq2_0, iq1_s, iq2_xxs, iq3_xxs,       *)
(* iq3_s) and of 16 weights (iq1_m, iq2_s, iq2_xs, and nvfp4 with its      *)
(* blocks of 64), and the two GEMV kernels that read the same packs.  A    *)
(* decoder is taken as a table of signed codes and one of scales.          *)
(***************************************************************************)
EXTENDS MmaTile

CONSTANTS Supers, Rows, Cols   \* 256-weight stretches of the slab; sizes under the tile

MR == 8
NR == 8
Chunks == 16 * Supers   \* chunks of 16; the 32-deep kernel runs through as many of its own
Cases ==
    [family : {"deep32", "deep16", "nvfp4"}, kernel : {"gemm"}, rows : Rows, cols : Cols] \cup
    [family : {"deep32", "deep16"}, kernel : {"gemv"}, rows : Rows, cols : {1}]

\* Vectors of a chunk; chunks of a block of A and of a block of B.
Depth(family)  == IF family = "deep32" THEN 2 ELSE 1
PerA(family)   == CASE family = "deep32" -> 8 [] family = "deep16" -> 16 [] family = "nvfp4" -> 4
PerB(family)   == CASE family = "deep32" -> 8 [] family = "deep16" -> 16 [] family = "nvfp4" -> 2

A(family, r, ch) == <<"A", r, ch \div PerA(family)>>
B(family, j, ch) == <<"B", j, ch \div PerB(family)>>

\* DEC: code[e] and sc[c] of a block.
Code(blk, e)  == <<"code", blk, e>>
Scale(blk, c) == Factor(<<"sc", blk, c>>)

\* mutant: w[r] is filled from the start of the block
FirstCodes(family, blk, c) ==
    [h \in 0 .. Depth(family) - 1 |-> Vector(LAMBDA i : Code(blk, 16 * h + i))]

\* w[r]: the codes of chunk c of a block.
ChunkCodes(family, blk, c) ==
    [h \in 0 .. Depth(family) - 1 |-> Vector(LAMBDA i : Code(blk, 16 * Depth(family) * c + 16 * h + i))]

\* repack_grid, repack_grid16, grid16_repack_nvfp4 and the place_chunk they
\* call.
RepackA(family, rows, ch) ==
    LET bp(r) == A(family, ClampLane(r, rows), ch)
        w(r)  == ChunkCodes(family, bp(r), ch % PerA(family))
    IN  [v    |-> PackTile([r \in 0 .. MR - 1 |-> w(r)], 2),
         sA   |-> LaneVectors(LAMBDA r : Scale(bp(r), ch % PerA(family)), 2),
         C128 |-> LaneVectors(LAMBDA r : C128Of(w(r), Depth(family)), 2)]

\* grid_pack_b_q8_K, grid16_pack_b_q8_K, grid16_pack_b_q8_0.
PackB(family, cols, ch) ==
    LET yb(j) == B(family, ClampLane(j, cols), ch)
    IN  [v  |-> FlippedActivations(yb, 16 * Depth(family) * (ch % PerB(family)), Depth(family)),
         dB |-> LaneVectors(LAMBDA j : Factor(<<"dB", yb(j)>>), 2)]

\* kernel_grid_8x8, kernel_grid16_8x8: fin += (P - C128) * (sA * dB).
Gemm(cs, r, j, ch) ==
    LET pa == RepackA(cs.family, cs.rows, ch)
        pb == PackB(cs.family, cs.cols, ch)
        s  == pa.sA[r \div 4][r % 4] (+) pb.dB[j \div 4][j % 4]
    IN  Unbiased(s, Sum8x8(4 * Depth(cs.family), pa.v, pb.v, r, j), pa.C128[r \div 4][r % 4])

\* vec_perm with repl[x]: one word of a vector in all four places.
Replicated(v, x) == [w \in 0 .. 3 |-> v[x]]

\* The four rows of an accumulator, gathered from their first elements by
\* two merges and a permutation.
Gathered(rp) == PermHigh(MergeH(rp[0], rp[1]), MergeH(rp[2], rp[3]))

\* grid_gemv_packed, grid16_gemv_issue and grid16_gemv_fixup: one chunk
\* against the activations themselves.  A lane is a row.
Gemv(cs, r, ch) ==
    LET pa    == RepackA(cs.family, cs.rows, ch)
        depth == Depth(cs.family)
        blk   == B(cs.family, 0, ch)
        first == 16 * depth * (ch % PerB(cs.family))
        y(h)  == Vector(LAMBDA i : Flipped(Activation(blk, first + 16 * h + i)))
        acc   == [row \in 0 .. 3 |-> [col \in 0 .. 3 |->
                    Accumulated(4 * depth,
                                [x \in 0 .. 4 * depth - 1 |-> pa.v[2 * x + r \div 4]],
                                [x \in 0 .. 4 * depth - 1 |-> Replicated(y(x \div 4), x % 4)],
                                row, col)]]
        s     == pa.sA[r \div 4][r % 4] (+) Factor(<<"dB", blk>>)
    IN  Unbiased(s, Gathered(acc)[r % 4], pa.C128[r \div 4][r % 4])

Contribution(cs, r, j, ch) == IF cs.kernel = "gemm" THEN Gemm(cs, r, j, ch) ELSE Gemv(cs, r, ch)

\* dref and its copies in run16 and run_nvfp4.
Reference(cs, r, j, ch) ==
    LET n    == 16 * Depth(cs.family)
        blkA == A(cs.family, r, ch)
        blkB == B(cs.family, j, ch)
        c    == ch % PerA(cs.family)
        w(l) == Code(blkA, n * c + l)
        y(l) == Activation(blkB, n * (ch % PerB(cs.family)) + l)
    IN  {Addend(1, Scale(blkA, c) (+) Factor(<<"dB", blkB>>),
                BagOfValues([l \in 0 .. n - 1 |-> <<w(l), y(l)>>]))}
=============================================================================
