----------------------------- MODULE CrossCheck -----------------------------
(***************************************************************************)
(* The cross-check programs (src/xcheck_grid.cpp, src/xcheck_iq4.cpp): the *)
(* decoders and references this repository multiplies with, compared       *)
(* element by element with ggml's dequantization.  The programs run on     *)
(* random blocks; here a block is symbolic, so that one comparison stands  *)
(* for all its contents, and the conversions of scales, which the programs *)
(* reach through the blocks, are compared for every input.                 *)
(***************************************************************************)
EXTENDS GridDecoders

ggmlref == INSTANCE GgmlRef
iq4     == INSTANCE IQ4 WITH Supers <- 1, Rows <- {1}, Cols <- {1}

Grid32 == {"tq2_0", "tq1_0", "iq2_xxs", "iq3_xxs", "iq3_s", "iq1_s"}
Grid16 == {"iq2_xs", "iq2_s", "iq1_m", "nvfp4"}
IQ4    == {"iq4_nl", "iq4_xs", "mxfp4"}
Scales == {"fp16", "e8m0_half", "ue4m3"}

QK(fmt) == CASE fmt = "nvfp4" -> 64 [] fmt \in {"iq4_nl", "mxfp4"} -> 32 [] OTHER -> 256
GS(fmt) == IF fmt \in Grid16 THEN 16 ELSE 32

\* The block of a comparison: the kernels' first block of row 0, and the
\* column of a one-hot activation.
Block == iq4!A("iq4_nl", 0, 0)

Decoded(fmt) ==
    CASE fmt = "tq2_0"   -> DecTQ2_0(Block)
      [] fmt = "tq1_0"   -> DecTQ1_0(Block)
      [] fmt = "iq2_xxs" -> DecIQ2_XXS(Block)
      [] fmt = "iq3_xxs" -> DecIQ3_XXS(Block)
      [] fmt = "iq3_s"   -> DecIQ3_S(Block)
      [] fmt = "iq1_s"   -> DecIQ1_S(Block)
      [] fmt = "iq2_xs"  -> Dec16IQ2_XS(Block)
      [] fmt = "iq2_s"   -> Dec16IQ2_S(Block)
      [] fmt = "iq1_m"   -> Dec16IQ1_M(Block)
      [] fmt = "nvfp4"   -> DecNVFP4(Block)

\* block_check: sc[i / GS] * code[i].
GridElement(fmt, i) == Element(Decoded(fmt).sc[i \div GS(fmt)], Decoded(fmt).code[i])

\* The reference of the iq4 suite on the activation e_i with scale 1: what it
\* gives is the one dequantized weight that meets element i.
OneHot(fmt, i) ==
    LET ch  == i \div 32
        sum == CHOOSE a \in iq4!Reference([type |-> fmt, rows |-> 1, cols |-> 1], 0, 0, ch) : TRUE
        y   == iq4!B(fmt, 0, ch)
        hit == CHOOSE p \in DOMAIN sum.products : p[2] = Activation(y, i)
    IN  Element(ScaleOf(0, sum.factors (-) Factor(<<"dB", y>>)), Plain(hit[1]))

\* What the repository gives for element or input i of a format.
Repo(fmt, i) ==
    CASE fmt \in Grid32 \cup Grid16 -> GridElement(fmt, i)
      [] fmt \in IQ4               -> OneHot(fmt, i)
      [] fmt = "fp16"              -> FloatValue(Fp16ToFp32(i))
      [] fmt = "e8m0_half"         -> E8M0HalfToFp32(i)
      [] fmt = "ue4m3"             -> UE4M3ToFp32(i)

\* What ggml gives.
Ggml(fmt, i) ==
    CASE fmt = "tq2_0"     -> ggmlref!DequantizeTQ2_0(Block, i)
      [] fmt = "tq1_0"     -> ggmlref!DequantizeTQ1_0(Block, i)
      [] fmt = "iq2_xxs"   -> ggmlref!DequantizeIQ2_XXS(Block, i)
      [] fmt = "iq3_xxs"   -> ggmlref!DequantizeIQ3_XXS(Block, i)
      [] fmt = "iq3_s"     -> ggmlref!DequantizeIQ3_S(Block, i)
      [] fmt = "iq1_s"     -> ggmlref!DequantizeIQ1_S(Block, i)
      [] fmt = "iq2_xs"    -> ggmlref!DequantizeIQ2_XS(Block, i)
      [] fmt = "iq2_s"     -> ggmlref!DequantizeIQ2_S(Block, i)
      [] fmt = "iq1_m"     -> ggmlref!DequantizeIQ1_M(Block, i)
      [] fmt = "nvfp4"     -> ggmlref!DequantizeNVFP4(Block, i)
      [] fmt = "iq4_nl"    -> ggmlref!DequantizeIQ4_NL(Block, i)
      [] fmt = "iq4_xs"    -> ggmlref!DequantizeIQ4_XS(Block, i)
      [] fmt = "mxfp4"     -> ggmlref!DequantizeMXFP4(Block, i)
      [] fmt = "fp16"      -> ggmlref!GgmlFp16ToFp32(i)
      [] fmt = "e8m0_half" -> ggmlref!GgmlE8M0ToFp32Half(i)
      [] fmt = "ue4m3"     -> ggmlref!GgmlUE4M3ToFp32(i)

Inputs(fmt) ==
    CASE fmt = "fp16" -> 0 .. 2^16 - 1
      [] fmt \in Scales \ {"fp16"} -> 0 .. 255
      [] OTHER -> 0 .. QK(fmt) - 1

VARIABLES
    input,        \* [fmt, i]: the element or the input that is compared
    yrepo, yref   \* the two results, once there are any
vars == <<input, yrepo, yref>>

Init ==
    /\ input \in UNION {[fmt : {f}, i : Inputs(f)] : f \in Grid32 \cup Grid16 \cup IQ4 \cup Scales}
    /\ yrepo = <<>> /\ yref = <<>>

\* Both sides of one comparison.
Compare ==
    /\ yrepo = <<>>
    /\ yrepo' = <<Repo(input.fmt, input.i)>>
    /\ yref'  = <<Ggml(input.fmt, input.i)>>
    /\ UNCHANGED input

Next == Compare

Spec == Init /\ [][Next]_vars

-----------------------------------------------------------------------------
\* Decode == ggml: every weight the repository decodes, from any contents of
\* a block, has the scale, the table entry and the sign that ggml gives it,
\* and every scale byte or half is converted to the same number (or to no
\* finite number by both).
DecodeIsGgml == yrepo = yref
=============================================================================
