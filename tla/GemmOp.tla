------------------------------- MODULE GemmOp -------------------------------
(***************************************************************************)
(* One multiplication C = A * B by the nth threads of a ggml operation:    *)
(* the one-shot drivers generated by IQ4_ONESHOT (patches/0008, 0014 and   *)
(* 0019) and GRID_ONESHOT_C (patches/0021), and the tile loops of the      *)
(* packed GEMM they call (src/q4_k_ppc_mma.cpp is the pattern).            *)
(*                                                                         *)
(* A has m rows and B has n columns, both kb units deep (a unit is what    *)
(* the inner kernel consumes at a time: a superblock or a chunk).  A unit  *)
(* of a row is the pair <<row, unit>>; the product of two packed tiles is  *)
(* kept symbolic, as the function that says which unit of A meets which    *)
(* unit of B at every position of the slabs.  What the kernel does inside  *)
(* a unit is the subject of the kernel modules, and how the threads agree  *)
(* on one pack that of PackCache: here the cache is the outcome of the     *)
(* acquire call of each thread.  Two threads of a parallel fill write      *)
(* disjoint cells unless SliceUnit differs from TileSize; where they meet, *)
(* the order of their writes is arbitrary.                                 *)
(***************************************************************************)
EXTENDS Slices, FiniteSets

CONSTANTS
    MR, NR,          \* rows and columns of a register tile
    KC,              \* units of a K slab
    Kinds,           \* of "serial", "parallel", "grid", "grid16": the format's driver
    TileSize,        \* of each kind: cells of the packed structure of one tile and slab
    SliceUnit,       \* of each kind: cells of the structure the driver's slices are
                     \* counted in
    Shapes,          \* [m, n, kb, ldc] of the operations
    Teams,           \* numbers of threads
    RefusalsDiffer,  \* the cache may refuse some threads of an operation only
    Junk             \* what a new allocation contains

ASSUME GeometryAssumption ==
    /\ MR \in Nat \ {0} /\ NR \in Nat \ {0} /\ KC \in Nat \ {0}
    /\ Shapes \subseteq [m : Nat \ {0}, n : Nat \ {0}, kb : Nat \ {0}, ldc : Nat]
    /\ \A s \in Shapes : s.ldc >= s.m
    /\ Teams \subseteq Nat \ {0}
    /\ Kinds \subseteq {"serial", "parallel", "grid", "grid16"}
    /\ TileSize \in [Kinds -> Nat \ {0}] /\ SliceUnit \in [Kinds -> Nat \ {0}]
    /\ \A k \in Kinds : SliceUnit[k] <= TileSize[k]

VARIABLES
    op,       \* the operation: its shape, driver and team; constant
    pa,       \* the pack of A in the cache, by cell
    fill,     \* "none", "busy" or "whole": the cache's slot for A
    pending,  \* slices of a parallel fill not counted down yet
    pc, path, \* of each thread: where it is, and how it will multiply
    tile,     \* the next <<row tile, column tile>> of its loops
    pt,       \* its private pack of one row tile (per-call path)
    c,        \* the result matrix, column-major with leading dimension ldc
    writers   \* history: who has stored into each element of c

vars == <<op, pa, fill, pending, pc, path, tile, pt, c, writers>>

-----------------------------------------------------------------------------
(* Packing.                                                                 *)

Ith == 0 .. op.nth - 1

RowTiles    == 0 .. TileCount(op.m, MR) - 1
ColTiles(n) == 0 .. TileCount(n, NR) - 1
Slabs       == 0 .. CeilDiv(op.kb, KC) - 1

WholeSlab(s) == KC  \* mutant: a ragged slab is used like a full one

\* The units of slab s: all KC of them but for the last, ragged one.
SlabUnits(s) == MinOf(op.kb - s * KC, KC)

\* The positions of slab s as the packing and kernel loops visit them.
Depth(s) == 0 .. SlabUnits(s) - 1

Clamp(i, n) == IF i >= n THEN n - 1 ELSE i

\* One row tile of rows row0 .. row0 + rows - 1 (tile number it of that
\* range): every slab, every lane; lanes beyond the last row repeat it, and
\* positions beyond the last unit keep what the memory held.
RepackA(row0, rows, it) ==
    [s \in Slabs |-> [x \in (0 .. MR - 1) \X (0 .. KC - 1) |->
        IF x[2] \in Depth(s)
        THEN <<row0 + Clamp(it * MR + x[1], rows), s * KC + x[2]>>
        ELSE Junk]]

\* The same for the columns col0 .. col0 + cols - 1 of B.
PackB(col0, cols) ==
    [jt \in ColTiles(cols) |-> [s \in Slabs |-> [x \in (0 .. NR - 1) \X (0 .. KC - 1) |->
        IF x[2] \in Depth(s)
        THEN <<col0 + Clamp(jt * NR + x[1], cols), s * KC + x[2]>>
        ELSE Junk]]]

\* A pack is Size cells for every row tile and slab, the slabs of a tile next
\* to each other.  A cell holds its part of the packed slab.
Size  == TileSize[op.kind]
Cells == 0 .. TileCount(op.m, MR) * Cardinality(Slabs) * Size - 1

\* Packing the rows row0 .. row0 + rows - 1 into the cells from base on.
PackInto(mem, base, row0, rows) ==
    [a \in Cells |->
        LET o    == a - base
            slab == (o \div Size) % Cardinality(Slabs)
            it   == o \div (Size * Cardinality(Slabs))
        IN  IF o >= 0 /\ it < TileCount(rows, MR)
            THEN <<RepackA(row0, rows, it)[slab], o % Size>>
            ELSE mem[a]]

\* The slab a kernel finds in the cells of row tile it, if they are of one
\* packed slab.
SlabAt(mem, it, s) ==
    LET part(x) == mem[(it * Cardinality(Slabs) + s) * Size + x]
        slab    == part(0)[1]
    IN  IF \A x \in 0 .. Size - 1 : part(x) = <<slab, x>>
        THEN slab
        ELSE [x \in (0 .. MR - 1) \X (0 .. KC - 1) |-> Junk]

JunkTile == [s \in Slabs |-> [x \in (0 .. MR - 1) \X (0 .. KC - 1) |-> Junk]]

\* The positions <<slab, unit of the slab>> an accumulator runs through.
Positions == {p \in Slabs \X (0 .. KC - 1) : p[2] \in Depth(p[1])}

\* What accumulates for row r and column j of one register tile.
Accumulate(ta, tb, r, j) ==
    [p \in Positions |-> <<ta[p[1]][<<r, p[2]>>], tb[p[1]][<<j, p[2]>>]>>]

\* Row i of A times column j of B: unit p of slab s is unit s * KC + p.
DotProduct(i, j) ==
    [p \in {q \in Slabs \X (0 .. KC - 1) : q[1] * KC + q[2] < op.kb} |->
        <<<<i, p[1] * KC + p[2]>>, <<j, p[1] * KC + p[2]>>>>]

-----------------------------------------------------------------------------
(* The division of the work.                                                *)

\* The cached path multiplies by rows when there are fewer column tiles than
\* threads, and by columns otherwise.
ByRows == TileCount(op.n, NR) < op.nth

\* The first cell of the slice that starts at row i0.
SliceBase(i0) == (i0 \div MR) * Cardinality(Slabs) * SliceUnit[op.kind]

\* The columns of thread t on the cached path.
ColStart(t) == FirstTile(TileCount(op.n, NR), t, op.nth) * NR
ColCount(t) ==
    MinOf(op.n - ColStart(t), Cardinality(ThreadTiles(TileCount(op.n, NR), t, op.nth)) * NR)

\* What a thread multiplies, given its path: its row tiles, the columns it
\* packs, and the tile of A it finds for a row tile.
MyRowTiles(t) ==
    IF path[t] = "columns" THEN RowTiles ELSE ThreadTiles(TileCount(op.m, MR), t, op.nth)
MyCol0(t) == IF path[t] = "columns" THEN ColStart(t) ELSE 0
MyCols(t) == IF path[t] = "columns" THEN ColCount(t) ELSE op.n
TileOfA(t, it) == IF path[t] = "percall" THEN pt[t] ELSE [s \in Slabs |-> SlabAt(pa, it, s)]

NoWrap(t, rt, ct) == <<rt, ct + 1>>  \* mutant: the row tile never advances

\* The loop nest over row tiles and, inside, column tiles.
NextTile(t, rt, ct) ==
    IF ct + 1 \in ColTiles(MyCols(t)) THEN <<rt, ct + 1>> ELSE <<rt + 1, 0>>

\* The elements of c that register tile <<rt, ct>> of thread t is stored to:
\* C + i + (j0 + cj) * ldc, rows and columns cut at the edge of the matrix.
RowsOf(rt) == 0 .. MinOf(op.m - rt * MR, MR) - 1
ColsOf(t, ct) == 0 .. MinOf(MyCols(t) - ct * NR, NR) - 1

Address(i, j) == i + j * op.ldc

-----------------------------------------------------------------------------
(* The state machine.                                                       *)

\* The loops of a thread start at its first row tile; a thread without tiles
\* or columns has nothing left to do.
Starts(t, p, tiles, cols) ==
    /\ path' = [path EXCEPT ![t] = p]
    /\ IF tiles = {} \/ cols <= 0
       THEN /\ pc' = [pc EXCEPT ![t] = "end"]
            /\ tile' = tile
       ELSE /\ pc' = [pc EXCEPT ![t] = "tiles"]
            /\ tile' = [tile EXCEPT ![t] = <<CHOOSE k \in tiles : \A l \in tiles : k <= l, 0>>]

Init ==
    /\ \E s \in Shapes, nth \in Teams, kind \in Kinds :
          op = [m |-> s.m, n |-> s.n, kb |-> s.kb, ldc |-> s.ldc, nth |-> nth, kind |-> kind]
    /\ fill \in {"none", "whole"}
    /\ pa = IF fill = "whole"
            THEN PackInto(<<>>, 0, 0, op.m)
            ELSE [a \in Cells |-> <<Junk, Junk>>]
    /\ pending = 0
    /\ pc = [t \in Ith |-> "acquire"]
    /\ path = [t \in Ith |-> "unknown"]
    /\ tile = [t \in Ith |-> <<0, 0>>]
    /\ pt = [t \in Ith |-> JunkTile]
    /\ c = [a \in 0 .. op.ldc * op.n - 1 |-> Junk]
    /\ writers = [a \in 0 .. op.ldc * op.n - 1 |-> {}]

\* A refused thread packs all of B for itself and repacks its row tiles one
\* by one.  The cap refuses all threads alike; a failing allocation need not.
Refused(t) ==
    /\ pc[t] = "acquire" /\ fill = "none"
    /\ RefusalsDiffer \/ \A u \in Ith : path[u] \in {"unknown", "percall"}
    /\ Starts(t, "percall", ThreadTiles(TileCount(op.m, MR), t, op.nth), op.n)
    /\ UNCHANGED <<op, pa, fill, pending, pt, c, writers>>

\* acquire returns the pack: create the slot (all threads of a parallel fill
\* owe it a slice), join its fill, or find it whole.
Acquired(t) ==
    /\ pc[t] = "acquire"
    /\ RefusalsDiffer \/ \A u \in Ith : path[u] # "percall"
    /\ \/ /\ fill = "none"
          /\ fill' = "busy"
          /\ pending' = IF op.kind = "serial" THEN 0 ELSE op.nth
          /\ pc' = [pc EXCEPT ![t] = "fill"]
       \/ /\ fill = "busy" /\ op.kind # "serial"
          /\ pc' = [pc EXCEPT ![t] = "fill"]
          /\ UNCHANGED <<fill, pending>>
       \/ /\ fill = "whole"
          /\ pc' = [pc EXCEPT ![t] = "choose"]
          /\ UNCHANGED <<fill, pending>>
    /\ path' = [path EXCEPT ![t] = "cached"]
    /\ UNCHANGED <<op, pa, tile, pt, c, writers>>

\* Repacking: the serial packer writes every tile, a thread of a parallel
\* fill the tiles of its slice, each clamped to the rows of that slice, at
\* (agrid_t *)PA + (i0_/MR)*sl(k).
Fill(t) ==
    /\ pc[t] = "fill"
    /\ pa' = IF op.kind = "serial"
             THEN PackInto(pa, 0, 0, op.m)
             ELSE LET sl == ApackSlice(op.m, MR, t, op.nth)
                  IN  PackInto(pa, SliceBase(sl.i0), sl.i0, sl.rows)
    /\ pc' = [pc EXCEPT ![t] = "filled"]
    /\ UNCHANGED <<op, fill, pending, path, tile, pt, c, writers>>

\* publish, or slice_done; only the last slice makes the pack usable.
Filled(t) ==
    /\ pc[t] = "filled"
    /\ pending' = IF op.kind = "serial" THEN 0 ELSE pending - 1
    /\ fill' = IF pending' = 0 THEN "whole" ELSE "busy"
    /\ pc' = [pc EXCEPT ![t] = "await"]
    /\ UNCHANGED <<op, pa, path, tile, pt, c, writers>>

Await(t) ==
    /\ pc[t] = "await" /\ fill = "whole"
    /\ pc' = [pc EXCEPT ![t] = "choose"]
    /\ UNCHANGED <<op, pa, fill, pending, path, tile, pt, c, writers>>

\* With the pack in hand: by rows (for a single column of a grid format
\* through the GEMV kernel, which reads the column in place) or by columns.
Choose(t) ==
    /\ pc[t] = "choose"
    /\ IF ByRows
       THEN Starts(t, IF op.kind \in {"grid", "grid16"} /\ op.n = 1 THEN "gemv" ELSE "rows",
                   ThreadTiles(TileCount(op.m, MR), t, op.nth), op.n)
       ELSE Starts(t, "columns", RowTiles, ColCount(t))
    /\ UNCHANGED <<op, pa, fill, pending, pt, c, writers>>

\* The per-call path repacks a row tile into its private pack when it gets
\* to it.
RepackOne(t) ==
    /\ pc[t] = "tiles" /\ path[t] = "percall"
    /\ tile[t][2] = 0
    /\ LET i == tile[t][1] * MR
       IN  pt' = [pt EXCEPT ![t] = RepackA(i, MinOf(op.m - i, MR), 0)]
    /\ pc' = [pc EXCEPT ![t] = "repacked"]
    /\ UNCHANGED <<op, pa, fill, pending, path, tile, c, writers>>

\* One register tile: the kernel over all slabs, and the store.
Tile(t) ==
    /\ \/ pc[t] = "tiles" /\ (path[t] = "percall" => tile[t][2] # 0)
       \/ pc[t] = "repacked"
    /\ LET rt   == tile[t][1]
           ct   == tile[t][2]
           ta   == TileOfA(t, rt)
           tb   == PackB(MyCol0(t), MyCols(t))[ct]
           hit(a) == {x \in RowsOf(rt) \X ColsOf(t, ct) :
                         Address(rt * MR + x[1], MyCol0(t) + ct * NR + x[2]) = a}
           next == NextTile(t, rt, ct)
       IN  /\ c' = [a \in DOMAIN c |->
                      IF hit(a) = {} THEN c[a]
                      ELSE LET x == CHOOSE x \in hit(a) : TRUE
                           IN  Accumulate(ta, tb, x[1], x[2])]
           /\ writers' = [a \in DOMAIN c |->
                            IF hit(a) = {} THEN writers[a] ELSE writers[a] \cup {t}]
           /\ IF next[1] \in MyRowTiles(t)
              THEN tile' = [tile EXCEPT ![t] = next] /\ pc' = [pc EXCEPT ![t] = "tiles"]
              ELSE tile' = tile /\ pc' = [pc EXCEPT ![t] = "end"]
    /\ UNCHANGED <<op, pa, fill, pending, path, pt>>

ThreadStep(t) ==
    Refused(t) \/ Acquired(t) \/ Fill(t) \/ Filled(t) \/ Await(t) \/ Choose(t)
    \/ RepackOne(t) \/ Tile(t)

AllDone == \A t \in Ith : pc[t] = "end"

Next == (\E t \in Ith : ThreadStep(t)) \/ (AllDone /\ UNCHANGED vars)

Spec == Init /\ [][Next]_vars

-----------------------------------------------------------------------------
(* What the operation must achieve.                                         *)

Elements == {Address(i, j) : i \in 0 .. op.m - 1, j \in 0 .. op.n - 1}

\* Every value is where it belongs: the slot is busy exactly while slices are
\* outstanding, and a thread in its loops is inside the matrix.
TypeOK ==
    /\ fill \in {"none", "busy", "whole"}
    /\ pending \in 0 .. op.nth
    /\ op.kind # "serial" => (fill = "busy") = (pending > 0)
    /\ \A t \in Ith :
          /\ path[t] \in {"unknown", "cached", "percall", "rows", "columns", "gemv", "own"}
          /\ pc[t] \in {"acquire", "fill", "filled", "await", "choose", "tiles", "repacked", "end",
                        "enter", "own"}
          /\ pc[t] \in {"tiles", "repacked"} => /\ tile[t][1] \in MyRowTiles(t)
                                                /\ tile[t][2] \in ColTiles(MyCols(t))

\* Whatever a thread has stored is right: the element of the address is the
\* product of its row and its column over the whole depth, with no unit from
\* a clamped lane, a ragged slab or memory nobody wrote, and nothing outside
\* the matrix (the padding between columns) is touched.
EveryStoreIsTheProduct ==
    \A a \in DOMAIN c : c[a] # Junk =>
        /\ a \in Elements
        /\ c[a] = DotProduct(a % op.ldc, a \div op.ldc)

\* When the last thread is done no element is missing, whatever the shape,
\* the team, and the way each thread obtained its weights.
NoElementMissed ==
    AllDone => \A a \in Elements : c[a] # Junk

\* No element is computed by two threads: the threads never race on a store
\* and no work is done twice.
OneWriter ==
    \A a \in DOMAIN c : Cardinality(writers[a]) <= 1
=============================================================================
