--------------------------- MODULE PingPongProofs ---------------------------
(***************************************************************************)
(* The ping-pong of the accumulators is right for every slab length and    *)
(* every depth of the weights.  The invariant counts the chunks drained so *)
(* far and says which chunk each set holds at the two places of the loop.  *)
(***************************************************************************)
EXTENDS PingPong, TLAPS

Types ==
    /\ schedule \in {"gemv", "gemm"} /\ total \in Nat
    /\ s \in Nat /\ ch \in Nat
    /\ live \in {"P", "Q"}
    /\ acc \in [{"P", "Q"} -> Nat \cup {Junk}]
    /\ fin \in Seq((Nat \cup {Junk}) \X Int)
    /\ pc \in {"slab", "issue", "drain"}

\* The next chunk of the slab to be drained.
Due == IF schedule = "gemv" THEN ch ELSE ch - 1

\* Between slabs, everything before the slab was drained and nothing else.
BetweenSlabs ==
    pc = "slab" => Len(fin) = IF First < total THEN First ELSE total

\* Inside, everything before the chunk due; the live set holds that one.
InsideSlab ==
    pc # "slab" =>
        /\ First < total
        /\ Due >= 0 /\ ch <= Length
        /\ Len(fin) = First + Due
        /\ Due < Length => acc[live] = First + Due

\* After an issue the other set holds the chunk after the one due.
AfterIssue ==
    pc = "drain" =>
        /\ ch < Length
        /\ Due + 1 < Length => acc[Other(live)] = First + Due + 1

IInv == Types /\ BetweenSlabs /\ InsideSlab /\ AfterIssue /\ DrainedInOrder

\* The first chunk of a slab is a natural number, and the slab after starts
\* KC chunks later.
LEMMA SlabStart ==
    ASSUME Types
    PROVE  First \in Nat /\ (s + 1) * KC = First + KC
BY PingPongAssumption, SMT DEF Types, First

\* A slab has between one and KC chunks.
LEMMA SlabLength ==
    ASSUME Types, First < total
    PROVE  Length \in 1 .. KC /\ First + Length <= total
<1>1. First \in Nat
  BY SlabStart
<1> QED
  BY <1>1, PingPongAssumption, SMT DEF Types, Length

\* Draining the chunk that is due keeps the order.
LEMMA DrainKeepsOrder ==
    ASSUME Types, DrainedInOrder, NEW set \in {"P", "Q"}, NEW c \in Int,
           First + c = Len(fin), acc[set] = First + c, Drain(set, c)
    PROVE  /\ fin' \in Seq((Nat \cup {Junk}) \X Int)
           /\ Len(fin') = Len(fin) + 1
           /\ DrainedInOrder'
<1> DEFINE x == <<acc[set], First + c>>
<1>1. First \in Nat
  BY SlabStart
<1>2. x \in (Nat \cup {Junk}) \X Int /\ x = <<Len(fin), Len(fin)>>
  BY <1>1 DEF Types
<1>3. fin' = Append(fin, x)
  BY DEF Drain
<1>4. fin \in Seq((Nat \cup {Junk}) \X Int)
  BY DEF Types
<1>5. /\ fin' \in Seq((Nat \cup {Junk}) \X Int)
      /\ Len(fin') = Len(fin) + 1
      /\ \A i \in 1 .. Len(fin) : fin'[i] = fin[i]
      /\ fin'[Len(fin) + 1] = x
  <2> HIDE DEF x
  <2> QED
    BY <1>2, <1>3, <1>4
<1>6. ASSUME NEW i \in 1 .. Len(fin')
      PROVE  fin'[i] = <<i - 1, i - 1>>
  <2>1. CASE i \in 1 .. Len(fin)
    BY <2>1, <1>5 DEF DrainedInOrder
  <2>2. CASE i = Len(fin) + 1
    <3>1. Len(fin) = i - 1
      BY <2>2, <1>4
    <3> QED
      BY <3>1, <2>2, <1>5, <1>2
  <2> QED
    BY <2>1, <2>2, <1>5, <1>4
<1> QED
  BY <1>5, <1>6 DEF DrainedInOrder

-----------------------------------------------------------------------------

LEMMA InitHolds == Init => IInv
<1> SUFFICES ASSUME Init
             PROVE  IInv
  OBVIOUS
<1>1. First = 0
  BY PingPongAssumption, SMT DEF Init, First
<1>2. total \in Nat
  BY PingPongAssumption DEF Init
<1>3. Types
  BY <1>2 DEF Init, Types
<1>4. BetweenSlabs
  BY <1>1, <1>2 DEF Init, BetweenSlabs
<1> QED
  BY <1>3, <1>4 DEF Init, IInv, InsideSlab, AfterIssue, DrainedInOrder

LEMMA StartSlabKeeps == IInv /\ StartSlab => IInv'
<1> SUFFICES ASSUME IInv, StartSlab
             PROVE  IInv'
  OBVIOUS
<1> USE DEF IInv
<1>1. First \in Nat /\ Length \in 1 .. KC /\ First < total
  BY SlabStart, SlabLength DEF StartSlab
<1>2. First' = First /\ Length' = Length /\ total' = total /\ fin' = fin
  BY DEF StartSlab, First, Length
<1>3. Due' = 0 /\ ch' \in 0 .. 1 /\ acc'["P"] = First /\ live' = "P" /\ pc' = "issue"
  BY <1>1, SMT DEF StartSlab, Fill, Types, Due
<1>4. Types'
  BY <1>1, <1>3 DEF StartSlab, Fill, Types
<1>5. InsideSlab'
  BY <1>1, <1>2, <1>3, PingPongAssumption, SMT DEF StartSlab, InsideSlab, BetweenSlabs, Types
<1>6. BetweenSlabs' /\ AfterIssue' /\ DrainedInOrder'
  BY <1>2, <1>3 DEF BetweenSlabs, AfterIssue, DrainedInOrder
<1> QED
  BY <1>4, <1>5, <1>6

LEMMA IssueKeeps == IInv /\ Issue => IInv'
<1> SUFFICES ASSUME IInv, Issue
             PROVE  IInv'
  OBVIOUS
<1> USE DEF IInv
<1>1. First \in Nat /\ Length \in 1 .. KC /\ First < total /\ ch \in Nat
  BY SlabStart, SlabLength DEF Issue, InsideSlab, Types
<1>2. /\ First' = First /\ Length' = Length /\ Due' = Due /\ Other(live)' = Other(live)
      /\ total' = total /\ fin' = fin /\ live' = live /\ ch' = ch /\ pc' = "drain"
  BY DEF Issue, First, Length, Due, Other
<1>3. Other(live) \in {"P", "Q"} /\ Other(live) # live
  BY DEF Types, Other
<1>4. /\ acc' \in [{"P", "Q"} -> Nat \cup {Junk}]
      /\ acc'[live] = acc[live]
      /\ Due + 1 < Length => acc'[Other(live)] = First + Due + 1
  <2>1. CASE schedule = "gemm"
    <3>1. acc' = [acc EXCEPT ![Other(live)] = First + ch]
      BY <2>1 DEF Issue, Fill
    <3>2. First + Due + 1 = First + ch /\ First + ch \in Nat
      BY <2>1, <1>1 DEF Due
    <3> QED
      BY <3>1, <3>2, <1>3 DEF Types
  <2>2. CASE schedule = "gemv" /\ ch + 1 < Length
    <3>1. acc' = [acc EXCEPT ![Other(live)] = First + (ch + 1)]
      BY <2>2 DEF Issue, Fill
    <3>2. First + Due + 1 = First + (ch + 1) /\ First + (ch + 1) \in Nat
      BY <2>2, <1>1 DEF Due
    <3> QED
      BY <3>1, <3>2, <1>3 DEF Types
  <2>3. CASE schedule = "gemv" /\ ~ (ch + 1 < Length)
    BY <2>3 DEF Issue, Types, Due
  <2> QED
    BY <2>1, <2>2, <2>3 DEF Types
<1>5. Types'
  BY <1>4 DEF Issue, Types
<1>6. InsideSlab' /\ AfterIssue'
  BY <1>1, <1>2, <1>4 DEF Issue, InsideSlab, AfterIssue
<1>7. BetweenSlabs' /\ DrainedInOrder'
  BY <1>2 DEF BetweenSlabs, DrainedInOrder
<1> QED
  BY <1>5, <1>6, <1>7

LEMMA DrainOneKeeps == IInv /\ DrainOne => IInv'
<1> SUFFICES ASSUME IInv, DrainOne
             PROVE  IInv'
  OBVIOUS
<1> USE DEF IInv
<1>1. /\ First \in Nat /\ Length \in 1 .. KC /\ First < total /\ ch \in Nat
      /\ Due \in Int /\ Due >= 0 /\ Due < Length /\ ch < Length
  BY SlabStart, SlabLength, SMT DEF DrainOne, InsideSlab, AfterIssue, Types, Due
<1>2. /\ First' = First /\ Length' = Length /\ total' = total /\ acc' = acc
      /\ live' = Other(live) /\ ch' = ch + 1 /\ pc' = "issue"
  BY DEF DrainOne, First, Length
<1>3. Due' = Due + 1
  BY <1>1, <1>2 DEF DrainOne, Due
<1>4. Drain(live, Due)
  BY DEF DrainOne, Due, Types
<1>5. First + Due = Len(fin) /\ acc[live] = First + Due
  BY <1>1 DEF DrainOne, InsideSlab
<1>6. /\ fin' \in Seq((Nat \cup {Junk}) \X Int)
      /\ Len(fin') = Len(fin) + 1
      /\ DrainedInOrder'
  <2>1. live \in {"P", "Q"}
    BY DEF Types
  <2> QED
    BY <2>1, <1>1, <1>4, <1>5, DrainKeepsOrder
<1>7. Types'
  BY <1>1, <1>2, <1>6 DEF DrainOne, Types, Other
<1>8. Due + 1 < Length => acc'[live'] = First + (Due + 1)
  BY <1>1, <1>2 DEF DrainOne, AfterIssue
<1>9. InsideSlab'
  BY <1>1, <1>2, <1>3, <1>5, <1>6, <1>8 DEF InsideSlab
<1>10. BetweenSlabs' /\ AfterIssue'
  BY <1>2 DEF BetweenSlabs, AfterIssue
<1> QED
  BY <1>6, <1>7, <1>9, <1>10

LEMMA EndSlabKeeps == IInv /\ EndSlab => IInv'
<1> SUFFICES ASSUME IInv, EndSlab
             PROVE  IInv'
  OBVIOUS
<1> USE DEF IInv
<1>1. /\ First \in Nat /\ Length \in 1 .. KC /\ First < total /\ First + Length <= total
      /\ total \in Nat /\ ch = Length /\ KC \in Nat
  BY SlabStart, SlabLength, PingPongAssumption DEF EndSlab, InsideSlab, Types
<1>2. First' = First + KC /\ total' = total /\ pc' = "slab"
  BY SlabStart DEF EndSlab, First
<1>3. /\ fin' \in Seq((Nat \cup {Junk}) \X Int)
      /\ Len(fin') = First + Length
      /\ DrainedInOrder'
  <2>1. CASE schedule = "gemm"
    <3>1. Due = Length - 1 /\ Length - 1 \in Int /\ live \in {"P", "Q"}
      BY <2>1, <1>1 DEF Due, Types
    <3>2. First + (Length - 1) = Len(fin) /\ acc[live] = First + (Length - 1)
      BY <3>1, <1>1 DEF EndSlab, InsideSlab
    <3>3. Drain(live, Length - 1)
      BY <2>1 DEF EndSlab
    <3> HIDE DEF IInv
    <3>4. Types /\ DrainedInOrder
      BY DEF IInv
    <3>5. /\ fin' \in Seq((Nat \cup {Junk}) \X Int)
          /\ Len(fin') = Len(fin) + 1
          /\ DrainedInOrder'
      BY <3>1, <3>2, <3>3, <3>4, DrainKeepsOrder
    <3> QED
      BY <3>2, <3>5, <1>1
  <2>2. CASE schedule = "gemv"
    BY <2>2, <1>1 DEF EndSlab, InsideSlab, Due, Types, DrainedInOrder
  <2> QED
    BY <2>1, <2>2 DEF Types
<1>4. Types'
  BY <1>3 DEF EndSlab, Types
<1>5. BetweenSlabs'
  <2>1. CASE total - First < KC
    BY <2>1, <1>1, <1>2, <1>3 DEF BetweenSlabs, Length
  <2>2. CASE ~ (total - First < KC)
    BY <2>2, <1>1, <1>2, <1>3 DEF BetweenSlabs, Length
  <2> QED
    BY <2>1, <2>2
<1>6. InsideSlab' /\ AfterIssue'
  BY <1>2 DEF InsideSlab, AfterIssue
<1> QED
  BY <1>3, <1>4, <1>5, <1>6

LEMMA IInvHolds == Spec => []IInv
<1>1. Init => IInv
  BY InitHolds
<1>2. IInv /\ [Next]_vars => IInv'
  <2> SUFFICES ASSUME IInv, [Next]_vars
               PROVE  IInv'
    OBVIOUS
  <2>1. CASE UNCHANGED vars
    BY <2>1 DEF vars, IInv, Types, BetweenSlabs, InsideSlab, AfterIssue, DrainedInOrder,
                First, Length, Due, Other
  <2> QED
    BY <2>1, StartSlabKeeps, IssueKeeps, DrainOneKeeps, EndSlabKeeps DEF Next
<1> QED
  BY <1>1, <1>2, PTL DEF Spec

\* Both schedules drain every chunk once, in order, from the set that holds
\* it and with its own scales, for every slab length and every depth.
THEOREM PingPongDrainsInOrder == Spec => []DrainedInOrder
<1>1. IInv => DrainedInOrder
  BY DEF IInv
<1> QED
  BY <1>1, IInvHolds, PTL

\* At the end of the depth every chunk has been added up, however ragged the
\* last slab.
THEOREM PingPongDrainsAll == Spec => []NothingLeftBehind
<1>1. IInv => NothingLeftBehind
  <2> SUFFICES ASSUME IInv, Done
               PROVE  Len(fin) = total
    BY DEF NothingLeftBehind
  <2>1. First \in Nat /\ total \in Nat
    BY SlabStart DEF IInv, Types
  <2> QED
    BY <2>1 DEF IInv, BetweenSlabs, Done
<1> QED
  BY <1>1, IInvHolds, PTL
=============================================================================
