-------------------------------- MODULE Q2K --------------------------------
(***************************************************************************)
(* The q2_K kernel (src/q2_k_ppc_mma.cpp): superblocks of 256 weights in   *)
(* sixteen sub-blocks of 16, 2-bit codes, a 4-bit scale and a 4-bit        *)
(* minimum per sub-block.  A chunk is a sub-block, four steps deep.        *)
(***************************************************************************)
EXTENDS MmaTile

CONSTANTS Supers, Rows, Cols   \* superblocks of the slab; sizes under the tile

MR == 16
NR == 8
Chunks == 16 * Supers
Cases  == [rows : Rows, cols : Cols]

A(r, b) == <<"A", r, b>>   \* superblock b of row r
B(j, b) == <<"B", j, b>>   \* q8_K block b of column j

\* mutant: the shift counts sub-blocks instead of pairs of them
ShiftBySubblock(blk, c) ==
    [h \in {0} |-> Vector(LAMBDA i :
        And(Shr(SourceByte(blk, "qs", 32 * (c \div 8) + 16 * (c % 2) + i), 2 * (c % 4)),
            LowBits(2)))]

\* q2k_codes16: the 16 codes of sub-block c.
Codes16(blk, c) ==
    LET half  == c \div 8
        shift == 2 * ((c % 8) \div 2)
        lo    == c % 2
    IN  [h \in {0} |-> Vector(LAMBDA i :
            And(Shr(SourceByte(blk, "qs", 32 * half + 16 * lo + i), shift), LowBits(2)))]

\* q2k_repack_a: one chunk of a tile of rows rows.
RepackA(rows, b, c) ==
    LET bp(r) == A(ClampLane(r, rows), b)
        s8(r) == SourceByte(bp(r), "scales", c)
    IN  [v   |-> PackTile([r \in 0 .. MR - 1 |-> Codes16(bp(r), c)], 4),
         dsc |-> LaneVectors(LAMBDA r :
                    Factor(<<"d", bp(r)>>) (+) Factor(And(s8(r), LowBits(4))), 4),
         dm  |-> LaneVectors(LAMBDA r :
                    Factor(<<"dmin", bp(r)>>) (+) Factor(Shr(s8(r), 4)), 4)]

\* q2k_pack_b: one chunk of a tile of cols columns.
PackB(cols, b, c) ==
    LET yb(j) == B(ClampLane(j, cols), b)
    IN  [v  |-> Activations(yb, 16 * c, 1),
         dB |-> LaneVectors(LAMBDA j : Factor(<<"dB", yb(j)>>), 2),
         TS |-> LaneVectors(LAMBDA j : BSum(yb(j), c), 2)]

\* kernel2k_16x8: P * (dB * dsc) is added, TS * dm taken off.
Contribution(cs, r, j, ch) ==
    LET pa == RepackA(cs.rows, ch \div 16, ch % 16)
        pb == PackB(cs.cols, ch \div 16, ch % 16)
        g  == r \div 4    l == r % 4
        i  == j \div 4    a == j % 4
    IN  {Addend(1, pb.dB[i][a] (+) pa.dsc[g][l], Sum16x8(4, pa.v, pb.v, r, j)),
         Addend(-1, pb.dB[i][a] (+) pa.dm[g][l], pb.TS[i][a])}

\* dref walks the block in the order of the activations: two halves of 128,
\* four shifts, two runs of 16; is counts the runs.  (dl * q - ml) * y.
Reference(cs, r, j, ch) ==
    LET b     == ch \div 16
        is    == ch % 16
        nn    == is \div 8               \* the half: q has advanced 32 bytes
        shift == 2 * ((is % 8) \div 2)
        run   == is % 2
        s8    == SourceByte(A(r, b), "scales", is)
        q(e)  == And(Shr(SourceByte(A(r, b), "qs", 32 * nn + 16 * run + e), shift), LowBits(2))
        y(e)  == Activation(B(j, b), 128 * nn + 16 * shift + 16 * run + e)
        yd    == Factor(<<"dB", B(j, b)>>)
    IN  {Addend(1, yd (+) Factor(<<"d", A(r, b)>>) (+) Factor(And(s8, LowBits(4))),
                BagOfValues([e \in 0 .. 15 |-> <<y(e), q(e)>>])),
         Addend(-1, yd (+) Factor(<<"dmin", A(r, b)>>) (+) Factor(Shr(s8, 4)),
                BagOfValues([e \in 0 .. 15 |-> <<y(e)>>]))}
=============================================================================
