------------------------------ MODULE GgmlRef ------------------------------
(***************************************************************************)
(* ggml's own dequantization, the reference that the decoders of this      *)
(* repository are compared with (src/xcheck_ggml_ref.h): element e of a    *)
(* block, as a scale and a sum of terms, and the conversions of scales.    *)
(***************************************************************************)
EXTENDS Numbers

\* y = scale * atom, and y = scale * g * (neg ? -1 : 1).
Times(scale, atom)           == Element(scale, {<<1, atom>>})
TimesSigned(scale, g, signs, j) == Element(scale, {<<1, <<Number(And(signs, KMask(j))), g>>>>})

\* y = dl * (g + delta), delta = -1/8 or 1/8.
TimesShifted(scale, g, neg) ==
    [factors |-> scale.factors, eighths |-> {<<8 * 2^scale.two, g>>, <<2^scale.two, <<"-1 if", neg>>>>}]

\* Group l of eight elements in stretch ib of 32, and the place in it.
Ib(e) == e \div 32
L(e)  == (e \div 8) % 4
J(e)  == e % 8

Nibble(byte, high) == IF high THEN Shr(byte, 4) ELSE And(byte, LowBits(4))

DequantizeTQ2_0(x, e) ==
    LET q == Shr(SourceByte(x, "qs", 32 * (e \div 128) + (e % 32)), 2 * ((e \div 32) % 4))
    IN  Times(ScaleOf(0, D(x)), <<"less 1", Number(And(q, LowBits(2)))>>)

\* xi - 1 for the n-th of the five trits of a byte.
XiLess1 == [n \in 0 .. 4 |-> [v \in 0 .. 255 |->
    LET pow3 == <<1, 3, 9, 27, 81, 243>>
        q    == (v * pow3[n + 1]) % 256
    IN  (q * 3) \div 256 - 1]]

DequantizeTQ1_0(x, e) ==
    LET trits(field, i, n) == Times(ScaleOf(0, D(x)), <<Number(SourceByte(x, field, i)), XiLess1[n]>>)
    IN  IF e < 160 THEN trits("qs", e % 32, e \div 32)
        ELSE IF e < 240 THEN trits("qs", 32 + ((e - 160) % 16), (e - 160) \div 16)
        ELSE trits("qh", (e - 240) % 4, (e - 240) \div 4)

DequantizeIQ2_XXS(x, e) ==
    LET byte(i) == SourceByte(x, "qs", 8 * Ib(e) + i)
        aux1    == SourceWord(x, "qs", 8 * Ib(e) + 4, 4)
        db      == ScaleOf(-2, D(x) (+) PlusHalf(Shr(aux1, 28)))
    IN  TimesSigned(db, Entry("iq2xxs_grid", byte(L(e)), J(e)),
                    KSigns(And(Shr(aux1, 7 * L(e)), LowBits(7))), J(e))

\* The scale of one half of a stretch of 32, for iq2_xs and iq2_s.
HalfStretchScale(x, e) ==
    ScaleOf(-2, D(x) (+) PlusHalf(Nibble(SourceByte(x, "scales", Ib(e)), L(e) \div 2 = 1)))

DequantizeIQ2_XS(x, e) ==
    LET q == SourceWord(x, "qs", 8 * Ib(e) + 2 * L(e), 2)
    IN  TimesSigned(HalfStretchScale(x, e), Entry("iq2xs_grid", And(q, LowBits(9)), J(e)),
                    KSigns(Shr(q, 9)), J(e))

DequantizeIQ2_S(x, e) ==
    LET qs == Promoted(SourceByte(x, "qs", 4 * Ib(e) + L(e)))
        qh == Promoted(SourceByte(x, "qh", Ib(e)))
    IN  TimesSigned(HalfStretchScale(x, e),
                    Entry("iq2s_grid", Or(qs, And(Shl(qh, 8 - 2 * L(e)), 8 .. 9)), J(e)),
                    SourceByte(x, "qs", 256 \div 8 + 4 * Ib(e) + L(e)), J(e))

DequantizeIQ3_XXS(x, e) ==
    LET aux == SourceWord(x, "qs", 256 \div 4 + 4 * Ib(e), 4)
        row == SourceByte(x, "qs", 8 * Ib(e) + 2 * L(e) + (IF J(e) < 4 THEN 0 ELSE 1))
    IN  TimesSigned(ScaleOf(-1, D(x) (+) PlusHalf(Shr(aux, 28))),
                    Entry("iq3xxs_grid", row, J(e) % 4),
                    KSigns(And(Shr(aux, 7 * L(e)), LowBits(7))), J(e))

\* The loop runs over pairs of stretches, with db1 and qh[0] for the first
\* and db2 and qh[1] for the second.
DequantizeIQ3_S(x, e) ==
    LET pair   == e \div 64
        second == Ib(e) % 2 = 1
        qs(i)  == Promoted(SourceByte(x, "qs", 16 * pair + (IF second THEN 8 ELSE 0) + i))
        qh     == Promoted(SourceByte(x, "qh", 2 * pair + (IF second THEN 1 ELSE 0)))
        grid1  == Or(qs(2 * L(e)), And(Shl(qh, 8 - 2 * L(e)), {8}))
        grid2  == Or(qs(2 * L(e) + 1), And(Shl(qh, 7 - 2 * L(e)), {8}))
        signs  == SourceByte(x, "signs", 8 * pair + (IF second THEN 4 ELSE 0) + L(e))
    IN  TimesSigned(ScaleOf(0, D(x) (+) OddFactor(Nibble(SourceByte(x, "scales", pair), second))),
                    IF J(e) < 4 THEN Entry("iq3s_grid", grid1, J(e))
                                ELSE Entry("iq3s_grid", grid2, J(e) - 4), signs, J(e))

DequantizeIQ1_S(x, e) ==
    LET qh  == SourceWord(x, "qh", 2 * Ib(e), 2)
        row == Or(Promoted(SourceByte(x, "qs", 4 * Ib(e) + L(e))),
                  Shl(And(Promoted(Shr(qh, 3 * L(e))), LowBits(3)), 8))
    IN  TimesShifted(ScaleOf(0, D(x) (+) OddFactor(And(Shr(qh, 12), LowBits(3)))),
                     Entry("iq1s_grid", row, J(e)), Number(And(qh, {15})))

DequantizeIQ1_M(x, e) ==
    LET sc(i) == SourceWord(x, "scales", 2 * i, 2)
        u16   == Or(Or(Or(Shr(sc(0), 12), And(Shr(sc(1), 8), 4 .. 7)), And(Shr(sc(2), 4), 8 .. 11)),
                    And(sc(3), 12 .. 15))
        s     == Shr(sc(Ib(e) \div 2), 6 * (Ib(e) % 2) + (IF L(e) < 2 THEN 0 ELSE 3))
        qh    == SourceByte(x, "qh", 2 * Ib(e) + (IF L(e) < 2 THEN 0 ELSE 1))
        odd   == L(e) \in {1, 3}
        idx   == Or(Promoted(SourceByte(x, "qs", 4 * Ib(e) + L(e))),
                    And(Shl(Promoted(qh), IF odd THEN 4 ELSE 8), {8, 9, 10}))
    IN  TimesShifted(ScaleOf(0, Factor(<<"fp16", Number(u16)>>) (+) OddFactor(And(s, LowBits(3)))),
                     Entry("iq1s_grid", idx, J(e)), Number(And(qh, {IF odd THEN 7 ELSE 3})))

-----------------------------------------------------------------------------
(* Tables of sixteen values.                                               *)

kvalues_iq4nl == <<-127, -104, -83, -65, -49, -35, -22, -10, 1, 13, 25, 38, 53, 69, 89, 113>>
kvalues_mxfp4 == <<0, 1, 2, 3, 4, 6, 8, 12, 0, -1, -2, -3, -4, -6, -8, -12>>

\* Elements j and j + half of a stretch share byte first + j.
TableValue(x, table, first, half, e) ==
    LET j == e % (2 * half)
    IN  <<table, Number(Nibble(SourceByte(x, "qs", first + (j % half)), j >= half))>>

DequantizeIQ4_NL(x, e) == Times(ScaleOf(0, D(x)), TableValue(x, kvalues_iq4nl, 0, 16, e))

DequantizeIQ4_XS(x, e) ==
    LET ib == Ib(e)
        ls == Or(And(Shr(Promoted(SourceByte(x, "scales_l", ib \div 2)), 4 * (ib % 2)), LowBits(4)),
                 Shl(And(Shr(Promoted(SourceWord(x, "scales_h", 0, 2)), 2 * ib), LowBits(2)), 4))
    IN  Times(ScaleOf(0, D(x) (+) Factor(<<"less 32", Number(ls)>>)),
              TableValue(x, kvalues_iq4nl, 16 * ib, 16, e))

DequantizeMXFP4(x, e) ==
    Times(ScaleOf(0, Factor(<<"e8m0_half", Number(SourceByte(x, "e", 0))>>)),
          TableValue(x, kvalues_mxfp4, 0, 16, e))

DequantizeNVFP4(x, e) ==
    LET s == e \div 16
    IN  Times(ScaleOf(0, Factor(<<"ue4m3", Number(SourceByte(x, "d", s))>>)),
              TableValue(x, kvalues_mxfp4, 8 * s, 8, e))

-----------------------------------------------------------------------------
(* Conversions of scales.                                                  *)

\* ggml_compute_fp16_to_fp32, without branches: the bits of h without its
\* sign, moved to the fields of a float whose exponent is 224 too large, and
\* multiplied by 2^-112; or, for subnormals, moved into the mantissa of 1/2,
\* and 1/2 taken off.  two_w is the magnitude shifted by 17, so
\* that it is below 1 << 27 when the magnitude is below 2^10.
GgmlFp16ToFp32(h) ==
    LET magnitude    == h % 2^15
        normalized   == Float(FALSE, magnitude \div 2^10 + 224, (magnitude % 2^10) * 2^13)
        scaled       == IF normalized.e = 255 THEN normalized
                        ELSE [normalized EXCEPT !.e = @ - 112]
        denormalized == Dyadic((2^23 + magnitude) - 2^23, 126 - 150)
        neg          == h \div 2^15 = 1
    IN  IF magnitude < 2^10 THEN [neg |-> neg, mag |-> denormalized]
        ELSE FloatValue([scaled EXCEPT !.neg = neg])

\* Two patterns of subnormals, then the exponent field alone.
GgmlE8M0ToFp32Half(x) ==
    FloatValue(IF x < 2 THEN Float(FALSE, 0, 2^21 * 2^x) ELSE Float(FALSE, x - 1, 0)).mag

GgmlUE4M3ToFp32(x) ==
    LET exp == (x \div 8) % 16
        man == x % 8
    IN  IF x = 0 \/ x = 127 THEN Dyadic(0, 0)
        ELSE Dyadic(IF exp = 0 THEN man ELSE 8 + man, (IF exp = 0 THEN -9 ELSE exp - 7 - 3) - 1)
=============================================================================
