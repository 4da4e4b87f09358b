-------------------------------- MODULE IQ4 --------------------------------
(***************************************************************************)
(* The 8x8 kernel of the signed formats (src/iq4_ppc_mma.cpp): iq4_nl,     *)
(* iq4_xs and mxfp4, 4-bit indices into a table of signed values, and      *)
(* q8_0, signed bytes.  The weights take the signed operand; the           *)
(* activations are made unsigned by flipping their sign bit, which adds    *)
(* 128 to each, and the kernel takes 128 * sum(w) off again.  A chunk is   *)
(* 32 weights: a block, or a group of an iq4_xs superblock.                *)
(***************************************************************************)
EXTENDS Numbers

CONSTANTS Supers, Rows, Cols   \* 256-weight stretches of the slab; sizes under the tile

MR == 8
NR == 8
Chunks == 8 * Supers
Types  == {"iq4_nl", "iq4_xs", "mxfp4", "q8_0"}
Cases  == [type : Types, rows : Rows, cols : Cols]

\* The block of a row or column that holds chunk ch, and the chunk's place in
\* it: iq4_xs and q8_K keep eight chunks to a block.
BlockOf(type, ch) == IF type = "iq4_xs" THEN ch \div 8 ELSE ch
InBlock(type, ch) == IF type = "iq4_xs" THEN ch % 8 ELSE 0
A(type, r, ch) == <<"A", r, BlockOf(type, ch)>>
B(type, j, ch) == <<"B", j, BlockOf(type, ch)>>

kvalues_iq4nl  == <<-127, -104, -83, -65, -49, -35, -22, -10, 1, 13, 25, 38, 53, 69, 89, 113>>
kvalues_mxfp4_ == <<0, 1, 2, 3, 4, 6, 8, 12, 0, -1, -2, -3, -4, -6, -8, -12>>

\* The value at an index; iq4_nl and iq4_xs share their table.
Value(type, index) ==
    <<IF type = "mxfp4" THEN kvalues_mxfp4_ ELSE kvalues_iq4nl, Number(index)>>

\* mutant: the two nibbles of a byte are taken as neighbours
Interleaved(type, blk, first) ==
    [h \in 0 .. 1 |-> Vector(LAMBDA i :
        LET byte == SourceByte(blk, "qs", first + 8 * h + i \div 2)
        IN  Value(type, IF i % 2 = 0 THEN And(byte, LowBits(4)) ELSE Shr(byte, 4)))]

\* iq4_lookup32t.
Lookup32(type, blk, first) ==
    [h \in 0 .. 1 |-> Vector(LAMBDA i :
        LET byte == SourceByte(blk, "qs", first + i)
        IN  Value(type, IF h = 0 THEN And(byte, LowBits(4)) ELSE Shr(byte, 4)))]

\* The 32 weights of a chunk, as the four repackers fill w[r].
Weights(type, blk, ib) ==
    IF type = "q8_0" THEN [h \in 0 .. 1 |-> Vector(LAMBDA i : SourceByte(blk, "qs", 16 * h + i))]
                     ELSE Lookup32(type, blk, 16 * ib)

\* Their scale: d, e8m0_half(e), or d * (ls - 32) with ls in six bits.
Scale(type, blk, ib) ==
    CASE type = "mxfp4"  -> Factor(<<"e8m0_half", Number(SourceByte(blk, "e", 0))>>)
      [] type = "iq4_xs" ->
            LET ls == Or(And(Shr(SourceByte(blk, "scales_l", ib \div 2), 4 * (ib % 2)), LowBits(4)),
                         Shl(And(Shr(SourceWord(blk, "scales_h", 0, 2), 2 * ib), LowBits(2)), 4))
            IN  D(blk) (+) Factor(<<"less 32", Number(ls)>>)
      [] OTHER           -> D(blk)

\* iq4_place_chunk, on the rows the repackers clamp.  C128 is 128 * sum(w).
RepackA(type, rows, ch) ==
    LET bp(r) == A(type, ClampLane(r, rows), ch)
        w(r)  == Weights(type, bp(r), InBlock(type, ch))
    IN  [v    |-> PackTile([r \in 0 .. MR - 1 |-> w(r)], 2),
         sA   |-> LaneVectors(LAMBDA r : Scale(type, bp(r), InBlock(type, ch)), 2),
         C128 |-> LaneVectors(LAMBDA r : C128Of(w(r), 2), 2)]

\* iq4_pack_b_q8_0 and iq4_pack_b_q8_K: one chunk.
PackB(type, cols, ch) ==
    LET yb(j) == B(type, ClampLane(j, cols), ch)
    IN  [v  |-> FlippedActivations(yb, 32 * InBlock(type, ch), 2),
         dB |-> LaneVectors(LAMBDA j : Factor(<<"dB", yb(j)>>), 2)]

\* kernel_iq4_8x8: fin += (P - C128) * (sA * dB).
Contribution(cs, r, j, ch) ==
    LET pa == RepackA(cs.type, cs.rows, ch)
        pb == PackB(cs.type, cs.cols, ch)
        s  == pa.sA[r \div 4][r % 4] (+) pb.dB[j \div 4][j % 4]
    IN  Unbiased(s, Sum8x8(8, pa.v, pb.v, r, j), pa.C128[r \div 4][r % 4])

\* dref_nl, dref_xs and the references of q8_0 and mxfp4: elements l and
\* l + 16 of a group are the nibbles of one byte.
Reference(cs, r, j, ch) ==
    LET blk == A(cs.type, r, ch)
        ib  == InBlock(cs.type, ch)
        qs(l)  == SourceByte(blk, "qs", 16 * ib + l)
        w(l)   == IF cs.type = "q8_0" THEN SourceByte(blk, "qs", l)
                  ELSE Value(cs.type, IF l < 16 THEN And(qs(l), LowBits(4)) ELSE Shr(qs(l - 16), 4))
        y(l)   == Activation(B(cs.type, j, ch), 32 * ib + l)
        s      == Scale(cs.type, blk, ib) (+) Factor(<<"dB", B(cs.type, j, ch)>>)
    IN  {Addend(1, s, BagOfValues([l \in 0 .. 31 |-> <<w(l), y(l)>>]))}
=============================================================================
