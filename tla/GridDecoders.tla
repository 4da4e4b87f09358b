---------------------------- MODULE GridDecoders ----------------------------
(***************************************************************************)
(* The scalar decoders of the grid formats (src/iq_grid_ppc_mma.cpp) that  *)
(* the repackers run: a block becomes signed codes and one scale for each  *)
(* 32 or 16 of them.  Blocks are symbolic; the entries of the grids are    *)
(* named by their table, index and place.                                  *)
(***************************************************************************)
EXTENDS Numbers

Bit(v, k) == Number(And(v, {k}))

\* Two bits, less one.
DecTQ2_0(b) ==
    [code |-> [e \in 0 .. 255 |->
        LET j == 32 * (e \div 128)   l == (e % 128) \div 32   m == e % 32
        IN  Plain(<<"less 1", Number(And(Shr(SourceByte(b, "qs", j + m), 2 * l), LowBits(2)))>>)],
     sc   |-> [c \in 0 .. 7 |-> ScaleOf(0, D(b))]]

\* ((uint8_t)(q * 3^n) * 3 >> 8) - 1, for every value of the byte q.
Trit(q, n) == Plain(<<Number(q), [v \in 0 .. 255 |-> (((v * 3^n) % 256) * 3) \div 256 - 1]>>)

\* 5 trits in each of 48 bytes, 32 and then 16 at a time, and 4 in each of 4.
DecTQ1_0(b) ==
    [code |-> [e \in 0 .. 255 |->
        CASE e < 160              -> Trit(SourceByte(b, "qs", e % 32), e \div 32)
          [] 160 <= e /\ e < 240  -> Trit(SourceByte(b, "qs", 32 + (e % 16)), (e - 160) \div 16)
          [] 240 <= e             -> Trit(SourceByte(b, "qh", e % 4), (e - 240) \div 4)],
     sc   |-> [c \in 0 .. 7 |-> ScaleOf(0, D(b))]]

DecIQ2_XXS(b) ==
    LET aux(ib) == SourceWord(b, "qs", 8 * ib + 4, 4)
    IN  [sc   |-> [ib \in 0 .. 7 |-> ScaleOf(-2, D(b) (+) PlusHalf(Shr(aux(ib), 28)))],
         code |-> [e \in 0 .. 255 |->
            LET ib == e \div 32   l == (e % 32) \div 8   j == e % 8
                signs == KSigns(And(Shr(aux(ib), 7 * l), LowBits(7)))
            IN  Signed(And(signs, KMask(j)),
                       Entry("iq2xxs_grid", SourceByte(b, "qs", 8 * ib + l), j))]]

\* Two grid rows of four make a group of eight.
DecIQ3_XXS(b) ==
    LET sas(ib) == SourceWord(b, "qs", 64 + 4 * ib, 4)
    IN  [sc   |-> [ib \in 0 .. 7 |-> ScaleOf(-1, D(b) (+) PlusHalf(Shr(sas(ib), 28)))],
         code |-> [e \in 0 .. 255 |->
            LET ib == e \div 32   l == (e % 32) \div 8   j == e % 8
                signs == KSigns(And(Shr(sas(ib), 7 * l), LowBits(7)))
            IN  Signed(And(signs, KMask(j)),
                       Entry("iq3xxs_grid", SourceByte(b, "qs", 8 * ib + 2 * l + j \div 4), j % 4))]]

\* mutant: the ninth bit of both indices of a group comes from one place
OneHighBit(b, c, l, second) ==
    Or(Promoted(SourceByte(b, "qs", 8 * c + 2 * l + second)),
       And(Shl(Promoted(SourceByte(b, "qh", c)), 8 - 2 * l), {8}))

\* dec_iq3_s: the index of a grid row, qs with a ninth bit from qh.
IQ3Index(b, c, l, second) ==
    Or(Promoted(SourceByte(b, "qs", 8 * c + 2 * l + second)),
       And(Shl(Promoted(SourceByte(b, "qh", c)), 8 - second - 2 * l), {8}))

\* The stretches of 32 come in pairs that share a byte of scales.
DecIQ3_S(b) ==
    [sc   |-> [c \in 0 .. 7 |->
        LET s == SourceByte(b, "scales", c \div 2)
        IN  ScaleOf(0, D(b) (+) OddFactor(IF c % 2 = 0 THEN And(s, LowBits(4)) ELSE Shr(s, 4)))],
     code |-> [e \in 0 .. 255 |->
        LET ib32 == 2 * (e \div 64)   half == (e % 64) \div 32   l == (e % 32) \div 8   j == e % 8
            c == ib32 + half
        IN  Signed(And(SourceByte(b, "signs", 4 * c + l), KMask(j)),
                   Entry("iq3s_grid", IQ3Index(b, c, l, j \div 4), j % 4))]]

\* 8 * g + 1 or 8 * g - 1, by the sign of delta; the scale takes the 1/8.
EightAndSign(g, neg) == {<<8, g>>, <<1, <<"-1 if", neg>>>>}

DecIQ1_S(b) ==
    LET qh(ib) == SourceWord(b, "qh", 2 * ib, 2)
    IN  [sc   |-> [ib \in 0 .. 7 |->
            ScaleOf(-3, D(b) (+) OddFactor(And(Shr(qh(ib), 12), LowBits(3))))],
         code |-> [e \in 0 .. 255 |->
            LET ib == e \div 32   l == (e % 32) \div 8   j == e % 8
                index == Or(Promoted(SourceByte(b, "qs", 4 * ib + l)),
                            Shl(Promoted(And(Shr(qh(ib), 3 * l), LowBits(3))), 8))
            IN  EightAndSign(Entry("iq1s_grid", index, j), Bit(qh(ib), 15))]]

-----------------------------------------------------------------------------
(* One scale for each 16 codes.                                            *)

\* The nibbles of a byte of scales: (1/2 + s) * d / 4.
NibbleScale(b, c) ==
    LET s == SourceByte(b, "scales", c \div 2)
    IN  ScaleOf(-2, D(b) (+) PlusHalf(IF c % 2 = 0 THEN And(s, LowBits(4)) ELSE Shr(s, 4)))

Dec16IQ2_XS(b) ==
    [sc   |-> [c \in 0 .. 15 |-> NibbleScale(b, c)],
     code |-> [e \in 0 .. 255 |->
        LET ib32 == e \div 32   l == (e % 32) \div 8   j == e % 8
            w == SourceWord(b, "qs", 2 * (4 * ib32 + l), 2)
        IN  Signed(And(KSigns(Shr(w, 9)), KMask(j)), Entry("iq2xs_grid", And(w, LowBits(9)), j))]]

Dec16IQ2_S(b) ==
    [sc   |-> [c \in 0 .. 15 |-> NibbleScale(b, c)],
     code |-> [e \in 0 .. 255 |->
        LET ib32 == e \div 32   l == (e % 32) \div 8   j == e % 8
            index == Or(Promoted(SourceByte(b, "qs", 4 * ib32 + l)),
                        And(Shl(Promoted(SourceByte(b, "qh", ib32)), 8 - 2 * l), {8, 9}))
            signs == SourceByte(b, "qs", 32 + 4 * ib32 + l)
        IN  Signed(And(signs, KMask(j)), Entry("iq2s_grid", index, j))]]

\* The fp16 scale of an iq1_m block is spread over the high nibbles of its
\* words of scales.
Dec16IQ1_M(b) ==
    LET scw(i) == SourceWord(b, "scales", 2 * i, 2)
        du16   == Or(Or(Shr(scw(0), 12), And(Shr(scw(1), 8), 4 .. 7)),
                     Or(And(Shr(scw(2), 4), 8 .. 11), And(scw(3), 12 .. 15)))
        qh(i)  == SourceByte(b, "qh", i)
    IN  [sc   |-> [c \in 0 .. 15 |->
            LET ib == c \div 2
            IN  ScaleOf(-3, Factor(<<"fp16", Number(du16)>>) (+)
                    OddFactor(And(Shr(scw(ib \div 2), 6 * (ib % 2) + 3 * (c % 2)), LowBits(3))))],
         code |-> [e \in 0 .. 255 |->
            LET ib == e \div 32   l == (e % 32) \div 8   j == e % 8
                high  == qh(2 * ib + l \div 2)
                index == Or(Promoted(SourceByte(b, "qs", 4 * ib + l)),
                            And(Shl(Promoted(high), IF l % 2 = 0 THEN 8 ELSE 4), 8 .. 10))
            IN  EightAndSign(Entry("iq1s_grid", index, j), Bit(high, IF l % 2 = 0 THEN 3 ELSE 7))]]

nvfp4_kvalues == <<0, 1, 2, 3, 4, 6, 8, 12, 0, -1, -2, -3, -4, -6, -8, -12>>

\* A block of 64 in four parts of 16 with a scale each.
DecNVFP4(b) ==
    [sc   |-> [s \in 0 .. 3 |-> ScaleOf(0, Factor(<<"ue4m3", Number(SourceByte(b, "d", s))>>))],
     code |-> [e \in 0 .. 63 |->
        LET s == e \div 16   j == e % 8
            q == SourceByte(b, "qs", 8 * s + j)
        IN  Plain(<<nvfp4_kvalues, Number(IF e % 16 < 8 THEN And(q, LowBits(4)) ELSE Shr(q, 4))>>)]]
=============================================================================
