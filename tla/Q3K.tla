-------------------------------- MODULE Q3K --------------------------------
(***************************************************************************)
(* The q3_K kernel (src/q3_k_ppc_mma.cpp): superblocks of 256 weights in   *)
(* sixteen sub-blocks of 16.  A weight is its 3-bit code minus 4: two bits *)
(* of the code are in qs and one in hmask; the kernel multiplies with the  *)
(* code and takes 4 * sum(y) off.  A chunk is a sub-block.                 *)
(***************************************************************************)
EXTENDS MmaTile

CONSTANTS Supers, Rows, Cols   \* superblocks of the slab; sizes under the tile

MR == 16
NR == 8
Chunks == 16 * Supers
Cases  == [rows : Rows, cols : Cols]

A(r, b) == <<"A", r, b>>   \* superblock b of row r
B(j, b) == <<"B", j, b>>   \* q8_K block b of column j

\* The sixteen 6-bit scales: their low four bits are the nibbles of bytes
\* 0 .. 7, their high two bits pairs of bits of bytes 8 .. 11.
Scale6(blk, c) ==
    LET aux(w) == SourceByte(blk, "scales", 4 * w + (c % 4))
        low(w) == IF w < 2 THEN And(aux(w), LowBits(4)) ELSE And(Shr(aux(w - 2), 4), LowBits(4))
    IN  Or(low(c \div 4), Shl(And(Shr(aux(2), 2 * (c \div 4)), LowBits(2)), 4))

\* mutant: the high bit is looked up as if both halves shared it
HalvesShareMask(blk, c) ==
    LET j == (c % 8) \div 2
        lo == c % 2
    IN  [h \in {0} |-> Vector(LAMBDA i :
            Or(And(Shr(SourceByte(blk, "qs", 32 * (c \div 8) + 16 * lo + i), 2 * j), LowBits(2)),
               Shl(And(Shr(SourceByte(blk, "hmask", 16 * lo + i), j), LowBits(1)), 2)))]

\* q3k_codes16: the 16 codes of sub-block c.
Codes16(blk, c) ==
    LET half == c \div 8
        j    == (c % 8) \div 2
        lo   == c % 2
        code(i) == And(Shr(SourceByte(blk, "qs", 32 * half + 16 * lo + i), 2 * j), LowBits(2))
        hbit(i) == And(Shr(SourceByte(blk, "hmask", 16 * lo + i), 4 * half + j), LowBits(1))
    IN  [h \in {0} |-> Vector(LAMBDA i : Or(code(i), Shl(hbit(i), 2)))]

\* q3k_repack_a: one chunk; dsc is d * (sc - 32).
RepackA(rows, b, c) ==
    LET bp(r) == A(ClampLane(r, rows), b)
    IN  [v   |-> PackTile([r \in 0 .. MR - 1 |-> Codes16(bp(r), c)], 4),
         dsc |-> LaneVectors(LAMBDA r :
                    Factor(<<"d", bp(r)>>) (+) Factor(<<"less 32", Scale6(bp(r), c)>>), 4)]

\* q3k_pack_b: one chunk; TS is dB * 4 * bsums[c].
PackB(cols, b, c) ==
    LET yb(j) == B(ClampLane(j, cols), b)
    IN  [v  |-> Activations(yb, 16 * c, 1),
         dB |-> LaneVectors(LAMBDA j : Factor(<<"dB", yb(j)>>), 2),
         TS |-> LaneVectors(LAMBDA j : [times |-> 4, sum |-> BSum(yb(j), c)], 2)]

\* kernel3k_16x8: fin += dsc * (dB * P - TS).
Contribution(cs, r, j, ch) ==
    LET pa == RepackA(cs.rows, ch \div 16, ch % 16)
        pb == PackB(cs.cols, ch \div 16, ch % 16)
        TS == pb.TS[j \div 4][j % 4]
        s  == pb.dB[j \div 4][j % 4] (+) pa.dsc[r \div 4][r % 4]
    IN  {Addend(1, s, Sum16x8(4, pa.v, pb.v, r, j)), Addend(-TS.times, s, TS.sum)}

\* dref: t is the low two bits, minus 4 unless the bit of hmask under the
\* running mask mbit is set; that is the code with the bit at weight 4,
\* minus 4.
Reference(cs, r, j, ch) ==
    LET b     == ch \div 16
        is    == ch % 16
        nn    == is \div 8
        shift == 2 * ((is % 8) \div 2)
        mbit  == 4 * nn + shift \div 2   \* position of mbit: shifted once per step of shift
        run   == is % 2
        q(e)  == And(Shr(SourceByte(A(r, b), "qs", 32 * nn + 16 * run + e), shift), LowBits(2))
        t(e)  == [q(e) EXCEPT ![2] = SourceByte(A(r, b), "hmask", 16 * run + e)[mbit]]
        y(e)  == Activation(B(j, b), 128 * nn + 16 * shift + 16 * run + e)
        dl    == Factor(<<"dB", B(j, b)>>) (+) Factor(<<"d", A(r, b)>>)
                    (+) Factor(<<"less 32", Scale6(A(r, b), is)>>)
    IN  {Addend(1, dl, BagOfValues([e \in 0 .. 15 |-> <<y(e), t(e)>>])),
         Addend(-4, dl, BagOfValues([e \in 0 .. 15 |-> <<y(e)>>]))}
=============================================================================
