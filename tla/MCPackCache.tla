---------------------------- MODULE MCPackCache -----------------------------
(***************************************************************************)
(* Instances of PackCache for TLC.  "s" is served by acquire / publish,    *)
(* "p" by acquire_par / slice_done; "big" and "huge" are parallel tensors  *)
(* whose packs the small caps refuse after and before the scan.            *)
(***************************************************************************)
EXTENDS PackCache

\* Packs of one, two and nine units, against caps of at most four units.
MCBytes == [x \in Tensor |-> CASE x = "huge" -> 9 [] x = "big" -> 2 [] OTHER -> 1]

\* Weights are what lies in the fingerprinted bytes and what lies between them;
\* a reload changes some of the former (one that does not goes unnoticed).
Told    == {[told |-> h, untold |-> h] : h \in {0, 1}}
MCFp    == [d \in Content |-> d.told]

\* One context whose threads are all of Thread ...
OneCtx  == [t \in Thread |-> "c1"]
OneIth  == [t \in Thread |-> t - 1]
\* ... or two contexts, with the odd and with the even threads.
TwoCtx  == [t \in Thread |-> IF t % 2 = 1 THEN "c1" ELSE "c2"]
TwoIth  == [t \in Thread |-> (t - 1) \div 2]

AnyTensor == [c \in Ctx |-> Tensor]
\* The contexts share the serial tensors and keep the parallel ones apart.
OwnPar    == [c \in Ctx |-> {x \in Tensor : x \in Serial \/ (x = "p") = (c = "c1")}]

Direct == INSTANCE DirectPack WITH view <- View, NoView <- Junk

\* The cache implements the per-call path: the same weights are multiplied with,
\* and every thread of an operation gets to multiply.
ImplementsDirect == Direct!Spec
=============================================================================
