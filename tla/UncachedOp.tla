----------------------------- MODULE UncachedOp -----------------------------
(***************************************************************************)
(* The drivers that multiply without the pack cache, added to those of     *)
(* GemmOp.  Each of their threads takes the rows Slices gives it:          *)
(*   "tiles"  the first designs (src/reference/q1_0_ppc_mma.cpp and        *)
(*            q2_0_ppc_mma.cpp): whole register tiles straight from the    *)
(*            blocks, the columns and rows left over one scalar at a time; *)
(*   "slabs"  the second and third (q1_0_ppc_mma_v2.cpp and                *)
(*            qbit_ppc_mma_v3.cpp): one slab of A and one of every column  *)
(*            tile of B packed in private memory, the accumulators kept    *)
(*            from slab to slab;                                           *)
(*   "gemv"   qbit_gemv_q1 and qbit_gemv_q2 (qbit_ppc_mma_v4.cpp), the     *)
(*            n = 1 path of the qbit driver;                               *)
(*   "pairs"  gemv2_q4_K_q8_K_ppc (q4_k_ppc_mma.cpp): two rows at a time   *)
(*            against one column.                                          *)
(***************************************************************************)
EXTENDS GemmOp

CONSTANT OwnKinds

ASSUME OwnKindsAssumption == OwnKinds \subseteq {"tiles", "slabs", "gemv", "pairs"}

VARIABLE own  \* of each thread: what it packs and accumulates for itself

ownvars == <<vars, own>>

-----------------------------------------------------------------------------
(* A thread's share and its private memory.                                 *)

InTiles == op.kind \in {"tiles", "slabs"}

\* The rows i0 .. i1 - 1 of thread t: whole row tiles for the designs with
\* register tiles, single rows for the GEMVs.
Height == IF InTiles THEN MR ELSE 1
I0(t) == FirstTile(TileCount(op.m, Height), t, op.nth) * Height
I1(t) == MinOf(op.m, (FirstTile(TileCount(op.m, Height), t, op.nth)
                        + CeilDiv(TileCount(op.m, Height), op.nth)) * Height)

NewLanes(lanes) == [x \in (0 .. lanes - 1) \X (0 .. KC - 1) |-> Junk]

\* PA, PB and fin as aligned_alloc returns them.
NewMemory == [PA  |-> NewLanes(MR), PB |-> [jt \in ColTiles(op.n) |-> NewLanes(NR)],
              fin |-> [jt \in ColTiles(op.n) |-> Junk]]

\* What the first nblk positions of the memory of a slab become.
Over(packed, old, s) == [x \in DOMAIN old |-> IF x[2] \in Depth(s) THEN packed[x] ELSE old[x]]

OnlyFirstTile(t, i) == i = I0(t)  \* mutant: B is never packed again

\* With one slab the columns packed for the first row tile serve the others.
RepackB(t, i) == i = I0(t) \/ op.kb > KC

\* vec_splats(0.0f) in every accumulator.
Zeroed == [x \in (0 .. MR - 1) \X (0 .. NR - 1) |-> <<>>]

\* A further product: none may be added twice.
Plus(f, g) == [p \in DOMAIN f \cup DOMAIN g |->
                  IF p \in DOMAIN f \cap DOMAIN g THEN Junk
                  ELSE IF p \in DOMAIN f THEN f[p] ELSE g[p]]

\* The kernel over one slab.
SlabProduct(PA, PB, s, r, j) ==
    [p \in {s} \X Depth(s) |-> <<PA[<<r, p[2]>>], PB[<<j, p[2]>>]>>]

-----------------------------------------------------------------------------
(* The actions.                                                             *)

OwnInit ==
    /\ \E s \in Shapes, nth \in Teams, kind \in OwnKinds :
          /\ kind = "pairs" => s.n = 1
          /\ op = [m |-> s.m, n |-> s.n, kb |-> s.kb, ldc |-> s.ldc, nth |-> nth, kind |-> kind]
    /\ fill = "none" /\ pending = 0 /\ pa = <<>>
    /\ pc = [t \in Ith |-> "enter"]
    /\ path = [t \in Ith |-> "own"]
    /\ tile = [t \in Ith |-> <<0, 0>>]
    /\ pt = [t \in Ith |-> <<>>]
    /\ own = [t \in Ith |-> NewMemory]
    /\ c = [a \in 0 .. op.ldc * op.n - 1 |-> Junk]
    /\ writers = [a \in 0 .. op.ldc * op.n - 1 |-> {}]

\* if (i0 >= m) return, or loops that end before they begin.
Enter(t) ==
    /\ pc[t] = "enter"
    /\ pc' = [pc EXCEPT ![t] = IF I0(t) < I1(t) THEN "own" ELSE "end"]
    /\ tile' = [tile EXCEPT ![t] = IF op.kind = "gemv" THEN <<0, 0>> ELSE <<I0(t), 0>>]
    /\ UNCHANGED <<op, pa, fill, pending, path, pt, c, writers, own>>

\* Thread t stores f[<<i, j>>] into C[i + j*ldc].
Store(t, f) ==
    LET hit(a) == {x \in DOMAIN f : Address(x[1], x[2]) = a}
    IN  /\ c' = [a \in DOMAIN c |-> IF hit(a) = {} THEN c[a] ELSE f[CHOOSE x \in hit(a) : TRUE]]
        /\ writers' = [a \in DOMAIN c |-> IF hit(a) = {} THEN writers[a] ELSE writers[a] \cup {t}]

\* Rows times columns straight from the blocks.
Products(rows, cols) == [x \in rows \X cols |-> DotProduct(x[1], x[2])]

\* The loop goes on at <<x, y>> while more holds.
GoOn(t, more, x, y) ==
    /\ tile' = [tile EXCEPT ![t] = <<x, y>>]
    /\ pc' = [pc EXCEPT ![t] = IF more THEN "own" ELSE "end"]

Running(t, kind) ==
    /\ pc[t] = "own" /\ op.kind = kind
    /\ UNCHANGED <<op, pa, fill, pending, path, pt>>

\* "tiles", at <<i, j>>: a whole register tile.
WholeTile(t) ==
    LET i == tile[t][1]
        j == tile[t][2]
    IN  /\ Running(t, "tiles")
        /\ i + MR <= I1(t) /\ j + NR <= op.n
        /\ Store(t, Products(i .. i + MR - 1, j .. j + NR - 1))
        /\ IF j + NR < op.n THEN GoOn(t, TRUE, i, j + NR) ELSE GoOn(t, i + MR < I1(t), i + MR, 0)
        /\ UNCHANGED own

\* A column right of the last whole tile, for the MR rows of a tile.
ColumnEdge(t) ==
    LET i == tile[t][1]
        j == tile[t][2]
    IN  /\ Running(t, "tiles")
        /\ i + MR <= I1(t) /\ j + NR > op.n
        /\ Store(t, Products(i .. i + MR - 1, {j}))
        /\ IF j + 1 < op.n THEN GoOn(t, TRUE, i, j + 1) ELSE GoOn(t, i + MR < I1(t), i + MR, 0)
        /\ UNCHANGED own

\* A row below the last whole tile, element by element.
RowEdge(t) ==
    LET i == tile[t][1]
        j == tile[t][2]
    IN  /\ Running(t, "tiles")
        /\ i + MR > I1(t)
        /\ Store(t, Products({i}, {j}))
        /\ IF j + 1 < op.n THEN GoOn(t, TRUE, i, j + 1) ELSE GoOn(t, i + 1 < I1(t), i + 1, 0)
        /\ UNCHANGED own

\* "slabs", at <<i, s>>: the accumulators start at zero with the row tile;
\* pack this slab of A, and of B unless it is still there; multiply.
Slab(t) ==
    LET i   == tile[t][1]
        s   == tile[t][2]
        old == own[t]
        A   == Over(RepackA(i, MinOf(I1(t) - i, MR), 0)[s], old.PA, s)
        B(jt) == IF RepackB(t, i) THEN Over(PackB(0, op.n)[jt][s], old.PB[jt], s) ELSE old.PB[jt]
        start(jt) == IF s = 0 THEN Zeroed ELSE old.fin[jt]
    IN  /\ Running(t, "slabs")
        /\ s \in Slabs
        /\ own' = [own EXCEPT ![t] =
                [old EXCEPT !.PA  = A,
                            !.PB  = [jt \in ColTiles(op.n) |-> B(jt)],
                            !.fin = [jt \in ColTiles(op.n) |-> [x \in DOMAIN Zeroed |->
                                        Plus(start(jt)[x], SlabProduct(A, B(jt), s, x[1], x[2]))]]]]
        /\ GoOn(t, TRUE, i, s + 1)
        /\ UNCHANGED <<c, writers>>

\* After the last slab the rows of the tile are stored, column tile by
\* column tile.
StoreSlabs(t) ==
    LET i == tile[t][1]
    IN  /\ Running(t, "slabs")
        /\ tile[t][2] \notin Slabs
        /\ Store(t, [x \in (i .. MinOf(i + MR, I1(t)) - 1) \X (0 .. op.n - 1) |->
                        own[t].fin[x[2] \div NR][<<x[1] - i, x[2] % NR>>]])
        /\ GoOn(t, i + MR < I1(t), i + MR, 0)
        /\ UNCHANGED own

\* "gemv", at column <<0, j>>: gemv_prep_b for the column, then every row of
\* the thread with those sums.
Column(t) ==
    LET j == tile[t][2]
    IN  /\ Running(t, "gemv")
        /\ Store(t, Products(I0(t) .. I1(t) - 1, {j}))
        /\ GoOn(t, j + 1 < op.n, 0, j + 1)
        /\ UNCHANGED own

\* "pairs": the rows r and r + 1; without a second row the first stands in
\* for it and is stored once.
Pair(t) ==
    LET r   == tile[t][1]
        two == r + 1 < I1(t)
        xb  == IF two THEN r + 1 ELSE r
    IN  /\ Running(t, "pairs")
        /\ Store(t, Products({r, xb}, {0}))
        /\ GoOn(t, r + 2 < I1(t), r + 2, 0)
        /\ UNCHANGED own

OwnStep(t) ==
    Enter(t) \/ WholeTile(t) \/ ColumnEdge(t) \/ RowEdge(t)
    \/ Slab(t) \/ StoreSlabs(t) \/ Column(t) \/ Pair(t)

AllInit == OwnInit \/ (Init /\ own = <<>>)

AllNext == (Next /\ UNCHANGED own) \/ (\E t \in Ith : OwnStep(t))

AllSpec == AllInit /\ [][AllNext]_ownvars
=============================================================================
