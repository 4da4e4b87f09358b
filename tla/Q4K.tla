-------------------------------- MODULE Q4K --------------------------------
(***************************************************************************)
(* The q4_K kernel (src/q4_k_ppc_mma.cpp): superblocks of 256 weights in   *)
(* eight sub-blocks of 32, 4-bit codes, a 6-bit scale and a 6-bit minimum  *)
(* per sub-block.  A chunk is a sub-block.                                 *)
(***************************************************************************)
EXTENDS MmaTile

CONSTANTS Supers, Rows, Cols   \* superblocks of the slab; sizes under the tile

MR == 16
NR == 8
Chunks == 8 * Supers
Cases  == [rows : Rows, cols : Cols]

A(r, b) == <<"A", r, b>>   \* superblock b of row r
B(j, b) == <<"B", j, b>>   \* q8_K block b of column j

\* get_scale_min_k4, as the bits of the two 6-bit numbers.
ScaleMin(blk, j) ==
    LET q(i) == SourceByte(blk, "scales", i)
    IN  IF j < 4
        THEN [sc |-> And(q(j), LowBits(6)), mn |-> And(q(j + 4), LowBits(6))]
        ELSE [sc |-> Or(And(q(j + 4), LowBits(4)), Shl(Shr(q(j - 4), 6), 4)),
              mn |-> Or(Shr(q(j + 4), 4), Shl(Shr(q(j), 6), 4))]

\* mutant: both sub-blocks of a pair take the low nibbles
LowNibbles(blk, sub) ==
    [h \in 0 .. 1 |-> Vector(LAMBDA i :
        And(SourceByte(blk, "qs", 32 * (sub \div 2) + 16 * h + i), LowBits(4)))]

\* q4k_codes32: the two vectors of codes of sub-block sub.
Codes32(blk, sub) ==
    [h \in 0 .. 1 |-> Vector(LAMBDA i :
        LET byte == SourceByte(blk, "qs", 32 * (sub \div 2) + 16 * h + i)
        IN  IF sub % 2 = 0 THEN And(byte, LowBits(4)) ELSE Shr(byte, 4))]

\* q4k_repack_a: one chunk of a tile of rows rows.
RepackA(rows, b, sub) ==
    LET bp(r) == A(ClampLane(r, rows), b)
        sm(r) == ScaleMin(bp(r), sub)
    IN  [v   |-> PackTile([r \in 0 .. MR - 1 |-> Codes32(bp(r), sub)], 4),
         dsc |-> LaneVectors(LAMBDA r : Factor(<<"d", bp(r)>>) (+) Factor(sm(r).sc), 4),
         dm  |-> LaneVectors(LAMBDA r : Factor(<<"dmin", bp(r)>>) (+) Factor(sm(r).mn), 4)]

\* q4k_pack_b: one chunk of a tile of cols columns.  TS is dB times a sum.
PackB(cols, b, sub) ==
    LET yb(j) == B(ClampLane(j, cols), b)
    IN  [v  |-> Activations(yb, 32 * sub, 2),
         dB |-> LaneVectors(LAMBDA j : Factor(<<"dB", yb(j)>>), 2),
         TS |-> LaneVectors(LAMBDA j : BSum(yb(j), 2 * sub) (+) BSum(yb(j), 2 * sub + 1), 2)]

\* kernel4k_16x8: P * (dB * dsc) is added, TS * dm taken off.
Contribution(cs, r, j, ch) ==
    LET pa == RepackA(cs.rows, ch \div 8, ch % 8)
        pb == PackB(cs.cols, ch \div 8, ch % 8)
        g  == r \div 4    l == r % 4
        i  == j \div 4    a == j % 4
    IN  {Addend(1, pb.dB[i][a] (+) pa.dsc[g][l], Sum16x8(8, pa.v, pb.v, r, j)),
         Addend(-1, pb.dB[i][a] (+) pa.dm[g][l], pb.TS[i][a])}

\* dref: what sub-block sub of superblock b of row r adds to column j.
Reference(cs, r, j, ch) ==
    LET b    == ch \div 8
        sub  == ch % 8
        sm   == ScaleMin(A(r, b), sub)
        q(e) == LET byte == SourceByte(A(r, b), "qs", 32 * (sub \div 2) + e)
                IN  IF sub % 2 = 1 THEN Shr(byte, 4) ELSE And(byte, LowBits(4))
        y(e) == Activation(B(j, b), 32 * sub + e)
        yd   == Factor(<<"dB", B(j, b)>>)
    IN  {Addend(1, yd (+) Factor(<<"d", A(r, b)>>) (+) Factor(sm.sc),
                BagOfValues([e \in 0 .. 31 |-> <<y(e), q(e)>>])),
         Addend(-1, yd (+) Factor(<<"dmin", A(r, b)>>) (+) Factor(sm.mn),
                BagOfValues([e \in 0 .. 31 |-> <<y(e)>>]))}
=============================================================================
