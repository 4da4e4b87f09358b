-------------------------------- MODULE Q5K --------------------------------
(***************************************************************************)
(* The q5_K kernel (src/q5_k_ppc_mma.cpp): as q4_K, with a fifth bit of    *)
(* every code in qh, bit sub of byte l for element l of sub-block sub.     *)
(***************************************************************************)
EXTENDS MmaTile

CONSTANTS Supers, Rows, Cols   \* superblocks of the slab; sizes under the tile

MR == 16
NR == 8
Chunks == 8 * Supers
Cases  == [rows : Rows, cols : Cols]

A(r, b) == <<"A", r, b>>   \* superblock b of row r
B(j, b) == <<"B", j, b>>   \* q8_K block b of column j

\* get_scale_min_k4: the same packing as q4_K.
ScaleMin(blk, j) ==
    LET q(i) == SourceByte(blk, "scales", i)
    IN  IF j < 4
        THEN [sc |-> And(q(j), LowBits(6)), mn |-> And(q(j + 4), LowBits(6))]
        ELSE [sc |-> Or(And(q(j + 4), LowBits(4)), Shl(Shr(q(j - 4), 6), 4)),
              mn |-> Or(Shr(q(j + 4), 4), Shl(Shr(q(j), 6), 4))]

\* mutant: the fifth bit is not isolated before it is shifted up
HighBitsKept(blk, sub) ==
    [h \in 0 .. 1 |-> Vector(LAMBDA i :
        LET byte == SourceByte(blk, "qs", 32 * (sub \div 2) + 16 * h + i)
        IN  Or(IF sub % 2 = 0 THEN And(byte, LowBits(4)) ELSE Shr(byte, 4),
               Shl(Shr(SourceByte(blk, "qh", 16 * h + i), sub), 4)))]

\* q5k_codes32: nibble and fifth bit.
Codes32(blk, sub) ==
    [h \in 0 .. 1 |-> Vector(LAMBDA i :
        LET byte == SourceByte(blk, "qs", 32 * (sub \div 2) + 16 * h + i)
            high == SourceByte(blk, "qh", 16 * h + i)
        IN  Or(IF sub % 2 = 0 THEN And(byte, LowBits(4)) ELSE Shr(byte, 4),
               Shl(And(Shr(high, sub), LowBits(1)), 4)))]

\* q5k_repack_a: one chunk of a tile of rows rows.
RepackA(rows, b, sub) ==
    LET bp(r) == A(ClampLane(r, rows), b)
        sm(r) == ScaleMin(bp(r), sub)
    IN  [v   |-> PackTile([r \in 0 .. MR - 1 |-> Codes32(bp(r), sub)], 4),
         dsc |-> LaneVectors(LAMBDA r : Factor(<<"d", bp(r)>>) (+) Factor(sm(r).sc), 4),
         dm  |-> LaneVectors(LAMBDA r : Factor(<<"dmin", bp(r)>>) (+) Factor(sm(r).mn), 4)]

\* q5k_pack_b: one chunk of a tile of cols columns.
PackB(cols, b, sub) ==
    LET yb(j) == B(ClampLane(j, cols), b)
    IN  [v  |-> Activations(yb, 32 * sub, 2),
         dB |-> LaneVectors(LAMBDA j : Factor(<<"dB", yb(j)>>), 2),
         TS |-> LaneVectors(LAMBDA j : BSum(yb(j), 2 * sub) (+) BSum(yb(j), 2 * sub + 1), 2)]

\* kernel4k_16x8: P * (dB * dsc) is added, TS * dm taken off.
Contribution(cs, r, j, ch) ==
    LET pa == RepackA(cs.rows, ch \div 8, ch % 8)
        pb == PackB(cs.cols, ch \div 8, ch % 8)
        g  == r \div 4    l == r % 4
        i  == j \div 4    a == j % 4
    IN  {Addend(1, pb.dB[i][a] (+) pa.dsc[g][l], Sum16x8(8, pa.v, pb.v, r, j)),
         Addend(-1, pb.dB[i][a] (+) pa.dm[g][l], pb.TS[i][a])}

\* dref: nibble | ((qh[l] >> sub) & 1) << 4.
Reference(cs, r, j, ch) ==
    LET b    == ch \div 8
        sub  == ch % 8
        sm   == ScaleMin(A(r, b), sub)
        q(e) == LET byte == SourceByte(A(r, b), "qs", 32 * (sub \div 2) + e)
                    nib  == IF sub % 2 = 1 THEN Shr(byte, 4) ELSE And(byte, LowBits(4))
                IN  [nib EXCEPT ![4] = SourceByte(A(r, b), "qh", e)[sub]]
        y(e) == Activation(B(j, b), 32 * sub + e)
        yd   == Factor(<<"dB", B(j, b)>>)
    IN  {Addend(1, yd (+) Factor(<<"d", A(r, b)>>) (+) Factor(sm.sc),
                BagOfValues([e \in 0 .. 31 |-> <<y(e), q(e)>>])),
         Addend(-1, yd (+) Factor(<<"dmin", A(r, b)>>) (+) Factor(sm.mn),
                BagOfValues([e \in 0 .. 31 |-> <<y(e)>>]))}
=============================================================================
