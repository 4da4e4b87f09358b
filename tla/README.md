# A verification of ppc-mma-kernels

ppc-mma-kernels multiplies quantised weight matrices on POWER10's matrix unit (MMA) for llama.cpp: packed
kernels for some twenty weight formats, drivers that divide one multiplication among the threads of a ggml
operation, and a process-wide cache of repacked weights. This directory models those parts in TLA+, checks the
models with TLC and proves theorems about them with TLAPS. Paths are those of the repository, from `src/` on;
`PROJECT.json` gives the source lines of every definition.

## 1. Inventory

### The parts and how they interact

```
ggml graph node: every thread of a context enters sgemm.cpp with (ith, nth)
   |  dispatch on types and n                                      patches 0015, 0017, 0021
   v
operation driver  IQ4_ONESHOT, GRID_ONESHOT_C, nvfp4, K-quants     patches 0007, 0008, 0014, 0019, 0021
   |  acquire / publish          one thread repacks, the others wait       \
   |  acquire_par / slice_done   every thread repacks its slice             >  pack cache
   |  refused: repack row tiles for this call only                         /   ppc_pack_cache.cpp
   |  columns of C, or rows of C when n is small
   v
packed GEMM / GEMV of the format     *_ppc_mma*.cpp
      pack B, loop over tiles and K slabs, outer products, fold scales and corrections, store
```

| Part | State it keeps | Operations | What is hard about it | What makes it correct |
|---|---|---|---|---|
| Pack cache, `src/ppc_pack_cache.cpp` | slot table, byte total, cap, counters, under one mutex and one condition variable | `acquire`, `publish`, `acquire_par`, `slice_done`, `clear`, `stats` | the mutex is given up while a pack is being filled; slot pointers live across waits; the table grows; reloads retire packs; allocations fail | a returned pack is whole, of the present weights and stays so; one slot per key; no leak, no double free; the cap holds; nobody waits forever; all threads of an operation get the same answer |
| Operation drivers, `patches/`, and those beside the cache in `qbit_ppc_mma_v4.cpp`, `q4_k_ppc_mma.cpp` and `src/reference/` | per call: the packs of B, a temporary pack of one row tile; without the cache also a slab of A and the accumulators | repack, choose columns or rows, tile loops, store | every thread decides for itself how it takes part; ragged edges, surplus threads; pointer arithmetic into a shared pack | each element of C computed by exactly one thread from the right row and column over the whole depth; nothing else touched |
| Packed kernels, `src/*_ppc_mma*.cpp` | accumulators, a slab of packed A and B | decode and repack weights, pack activations, multiply, store | bit fields of scales and codes, a layout written by one function and read by another, signed operands fed to an unsigned one | each lane adds up what the scalar definition of the format says, for every content |
| Accumulator schedules, `src/iq_grid_ppc_mma.cpp` | two accumulator sets | issue chunk i+1, drain chunk i | first and last chunk of a slab | every chunk drained once, in order, with its own scales |
| Dispatch in `sgemm.cpp`, patches 0015, 0017, 0021 | none | guards on types and n | - | sends a shape to a driver that takes it |
| fp16, e8m0 and ue4m3 conversion | none | conversion to float | subnormals, special patterns | the number ggml gives |
| Grid decoders and tables, `src/iq_grid_ppc_mma.cpp:89-300`, `src/iq_grids.h` | constant tables | decode a block | indices, signs and scales scattered over packed words, in ten ways | the scale, table entry and sign that ggml gives each element |
| Cross-checks, `src/xcheck_*.cpp` | - | compare decoders and references with ggml on random blocks | random bytes miss rare contents | the same comparison, for all contents |
| Scripts, `scripts/`, `Makefile` | servers, outputs of two builds | build, compare, judge | failures that look like success | the verdict follows from all measurements |
| Superseded designs, `src/reference/` | private packs and accumulators of a thread | three older kernels and drivers for q1_0 and q2_0 | a correction counted instead of summed, packs kept from tile to tile, scalar edges | as the kernels and drivers above |
| Earlier patches | - | - | - | the same code in patch form |

### The hazards

`PROJECT.json` lists 39, each at its line with the properties that would catch it. The groups are

- *the slot protocol*: two racing admissions; a key found again without its fingerprint; a slot pointer kept
  across `pthread_cond_wait`; a retirement or `clear()` under a reader; the count of outstanding slices; a
  wakeup that is missing or spurious;
- *partial failure*: one thread of an operation refused, its neighbours served;
- *boundaries of the division of work*: ragged tiles, slabs and slices, more threads than tiles, the slice
  pointer of the parallel fill;
- *layout and decoding*: bits of a code in two fields, transposition strides, the +128 of the activations,
  offsets folded into another sum, scales decoded in vector registers;
- *decoders and conversions*: signs, indices and scales picked out of packed words, subnormal halves, trits
  that rely on wrapping in eight bits;
- *private packs*: columns packed for one row tile and used for the next;
- *schedules*: chunks left in, or drained twice from, the two accumulator sets.

## 2. Plan

The order is that of consequence: a mistake in the cache or in the division of the work is silent, depends on
timing or shape and escapes the cross-checks; the kernels follow.

| Step | Module | Subject | State |
|---|---|---|---|
| 1 | `Slices` | arithmetic of slices and shares | done, proved |
| 2 | `DirectPack` | abstract: what a caller may rely on | done |
| 3 | `PackCache` (extends `Slices`, implements `DirectPack`), `MCPackCache` | the cache and its callers | done, proved |
| 4 | `GemmOp` (extends `Slices`), `MCGemmOp` | one operation, from acquire to the stores | done |
| 5 | `MmaTile`, one module per kernel file, `PackedKernels`, `TileKernel` | the kernels | done, proved |
| 6 | `PingPong` | accumulator schedules | done, proved |
| 7 | `Numbers`, `GridDecoders`, `GgmlRef`, `CrossCheck` | the decoders and conversions against ggml's | done |
| 8 | `Gemv2`, `EarlierQBit` | the two-row GEMV of q4_K, the earlier q1_0 and q2_0 kernels, as cases of `TileKernel` | done |
| 9 | `UncachedOp` (extends `GemmOp`) | the drivers that do not use the cache | done |
| 10 | `GemmProofs` | `OneWriter` of all drivers, for every shape and team | done, proved |
| 11 | `PackUseProofs` | what the operations rely on, and the steps of the refinement of `DirectPack` | done, proved |
| 12 | `GemmResultProofs` (extends `GemmProofs`) | the other invariants of `GemmOp`: `TypeOK`, `NoElementMissed`, `EveryStoreIsTheProduct` | done, proved |
| 13 | `PackedKernelProofs`, `KernelProofs` | `EveryLaneIsReference` and `StoredIsWhole` of all kernels, from lemmas about tiles, bits and sums | done, proved |

## 3. The models

### PackCache

Every entry point of the cache holds the mutex from its first line to its return, except inside
`pthread_cond_wait` and while the caller packs. So one action is one stretch of code between two of these
points:

| Action | Code |
|---|---|
| `Bypass` | cache disabled, or pack larger than the cap |
| `Hit`, `WaitForPack`, `Join`, `WaitForStale` | the scan finds the key: whole / being packed (serial) / being packed (parallel) / being packed from old contents |
| `Admit`, `Refuse` | no pack of these contents: retire a finished pack of old ones, grow the table, check the cap, allocate, fill a slot - or give up at any of these, keeping what was already done |
| `Pack` | the caller writes its tiles, without the mutex |
| `Publish`, `SliceDone` | the slot is looked up by key and made ready, or counted down; `slice_done` then waits |
| `WakeHit`, `WakeSlice`, `SleepAgain`, `SpuriousWakeup` | the loops around `pthread_cond_wait` |
| `Multiply` | the kernel reads the pack (or the per-call tiles) |
| `StartOp`, `EndOp` | ggml: all threads of a context enter an operation and meet at a barrier behind it |
| `Reload`, `Clear` | the embedder: other weights at the same address; `ppc_apack_cache_clear` |

A tensor stands for a whole key (pointer, m, k, variant), a pack for its row tiles, a tile for the content it was
packed from. Memory is kept apart from ownership: `mem` says what is written in a buffer, `live` which buffers
are allocated, and a new buffer contains `Junk`. A slot *pointer* is the index of the slot, and stays in `ptr`
across a wait as it does in the code; when `realloc` moves the table, the waiting threads become `lost`, and
what they read afterwards is a free choice.

What the embedder promises is a parameter. `InFlight` says whether `clear()` and reloads may come during
operations. Both free packs that a thread may be multiplying with, and the comments speak of unloading and reloading
models, so OneOp and TwoOps keep them between operations; AnyOrder does not. `Uses` says which
contexts multiply with which tensors.

`DirectPack` is the promise: each thread repacks what it needs and multiplies with a whole pack of the weights the
operation was started on, and every thread gets there. The mapping takes for a thread's view the contents of its
buffer while it multiplies, and the current weights on the per-call path.

### GemmOp

One multiplication by `nth` threads. A matrix element is kept symbolic as the function that says which unit (the
superblock or chunk) of A meets which unit of B at each position of the slabs, so a wrong row, column, slab length
or clamp shows in the value itself. The outcome of acquire is a choice (`Refused`, `Acquired`), the same for all
threads unless `RefusalsDiffer`. The pack is memory divided into cells, with the tile's structure `TileSize` cells
large; the slices of a parallel fill are placed at multiples of `SliceUnit`, the size of the structure the *driver*
counts in. `Tile` is one register tile: the kernel over all slabs, and the store with its address arithmetic.

The drivers are checked for every n, also for those the dispatcher would send elsewhere.

### UncachedOp

The drivers that do not ask the cache share `op`, `c` and `writers` with `GemmOp`, so that the same properties are asked
of them; `AllSpec` starts an operation of either sort. Each thread has the rows `I0 .. I1 - 1` (whole register tiles, or
single rows for the GEMVs) and its loops are actions that store one piece of C:

| Kind | Code | Actions |
|---|---|---|
| `tiles` | `gemm_q1_0_q8_0_ppc` and `gemm_q2_0_q8_0_ppc`, the first designs | `WholeTile`, `ColumnEdge`, `RowEdge` |
| `slabs` | `gemm_q1_0_q8_0_ppc_v2`, `gemm_qbit` of v3 | `Slab` packs and multiplies one slab, with B packed again when the depth has several; `StoreSlabs` |
| `gemv` | `qbit_gemv_q1`, `qbit_gemv_q2` | `Column` |
| `pairs` | `gemv2_q4_K_q8_K_ppc` | `Pair`: the odd last row stands in for its partner |

A thread's packs and accumulators are in `own`: memory that holds `Junk` until it is written, so that a pack kept too long
or an accumulator not reset shows in the value stored.

### The kernels: MmaTile, TileKernel and the formats

`TileKernel` follows one lane of a register tile through the chunks of a slab to the store; `PackedKernels` has the
sizes and the instances of the formats that multiply from packs. Each format module gives the repacker, the activation
pack, what the kernel adds to a lane in a chunk (`Contribution`) and what the scalar reference in the same file adds
to a row and a column (`Reference`).

| Module | File | Formats |
|---|---|---|
| `Q4K`, `Q5K`, `Q2K`, `Q3K`, `Q6K` | `q4_k_ppc_mma.cpp` ... `q6_k_ppc_mma.cpp` | the K-quants |
| `Legacy` | `legacy_ppc_mma.cpp` | q4_0, q4_1, q5_0, q5_1 |
| `IQ4` | `iq4_ppc_mma.cpp` | iq4_nl, iq4_xs, mxfp4, q8_0 |
| `Grid` | `iq_grid_ppc_mma.cpp` | 32-deep and 16-deep grid and ternary formats, nvfp4; GEMM and GEMV |
| `QBit` | `qbit_ppc_mma_v4.cpp` | q1_0, q2_0; GEMM and GEMV |
| `Gemv2` | `q4_k_ppc_mma.cpp:362-581` | q4_K, two rows against one column |
| `EarlierQBit` | `src/reference/` | q1_0, q2_0; the 4x4 (v1), 8x8 (v2) and 16x8 (v3) kernels |

The data is symbolic. A byte is the tuple of the source bits at its eight positions; shifts, masks and ors move
bits, merges and permutations move words; a sum of products is the bag of its products, and the scales it is
multiplied by are a bag of factors. One check therefore holds for all contents of all blocks. A code built from the
wrong bit, a product counted twice, two rows exchanged by a stride, or a scale applied twice changes the value.
What this leaves out is floating-point rounding and the order of additions, and the range of the 32-bit
accumulators. The build is little-endian, as the packing code assumes.

`Gemv2` follows the vector decode of the twelve scale bytes, merges, unpacking and rotation included. In `EarlierQBit`
the second design's correction, `4096 - 256 * popcount`, is a count of bits; it is compared with what the bias of the
activations adds to the very products of the lane, in the same form (so much for each one bit).

### CrossCheck: Numbers, GridDecoders, GgmlRef

`CrossCheck` is the comparison of `xcheck_grid.cpp` and `xcheck_iq4.cpp`. `GridDecoders` holds the ten `dec_*` functions
and `GgmlRef` ggml's dequantization from `xcheck_ggml_ref.h`, translated independently of each other. A decoded weight
is a bag of scale factors and a sum of terms, whose atoms name what they were taken from: an entry of a table by table,
index bits and place, a sign by its bit. Index bits are symbolic, so that one comparison of an element covers all
contents of a block, where the programs draw 4096 random ones. Powers of two are counted (`ScaleOf`, `Element`), since
`8 * grid + delta` with a scale of `d / 8` must be recognised as `grid + delta / 8`. Of the iq4 formats the repository
has no decoder, and the programs run the reference of the test suite on one-hot activations: `OneHot` takes the
same weight out of `IQ4!Reference`. Conversions of scales are functions of small integers and are compared on all
65,536 and 256 inputs, as exact dyadic numbers (`FloatValue`); patterns that are not finite must be so on both sides.

### PingPong

`grid16_gemv_packed` and `kernel_grid_8x8_pp`: an accumulator set holds the number of the chunk it was filled with,
and `fin` records which chunk was drained and whose scales were applied to it.

## 4. The runs

| Run | States | Shows |
|---|---|---|
| OneOp | 528,528 | three threads, tensors of both protocols, packs that the cap refuses before and after the scan, reloads and `clear()` between operations: whole packs, one path per operation, exact counts, one serial packer, no write or free under a reader; only `clear()` uncaches |
| TwoOps | 19,828 | two contexts at once: the same, no sleeper missed its broadcast or waits for one that nobody owes it (`NobodyWaitsInVain`), every call returns, and the cache implements `DirectPack` |
| AnyOrder | 653,500 | `clear()` and reloads during operations, allocations failing at random, a table that moves, shared fills: types, one slot per key, ownership of buffers, accounting, settled counts |
| Gemm | 110,597 | 27 shapes, one to four threads, seven kinds of driver, with and without the cache: every store is the product, none is missing, none is made twice |
| Kernels | 40,272 | every lane of a ragged tile of every kernel, the two-row GEMV and the earlier designs included, is the reference, and whole when it is stored |
| CrossCheck | 137,472 | every element of every grid, ternary and iq4 format and every scale is decoded as ggml does |
| PingPong | 192 | both schedules over empty, short, ragged and whole slabs |
| SharedFill, MovedTable, PartialRefusal, MixedPaths, SliceStride | - | end in a counterexample: section 5 |

**Bounds, and why they are enough.** In the cache a thread interacts with others through one slot: three threads give
a packer, a waiter and a latecomer, and a surplus thread without a slice. Two contexts give every interaction of
operations, as the cache knows no more of a context than its calls. Three operations make a pack, retire it after a
reload and pack again. Four tiles for three threads leave the last thread without a tile. A table of one or two slots
reaches growth in two admissions. `MaxOps` is the only bound that cuts executions off. In `Gemm`, 2x2 register tiles
and slabs of two units give with shapes up to 5 x 6 x 3 every combination of full and ragged rows, columns and slabs,
and numbers of tiles below, at and above the number of threads; the loops have no other parameter. In `Kernels` two
superblocks cover every residue of the chunk number, and a tile of 13 (6) rows and 7 columns has lanes on both sides of
the edge in a group of four and groups beyond it. A decoder has no parameter: `CrossCheck` takes one block of each format,
all its elements, and every scale. The rest of TLC's bounds are the sizes of symbolic data, which is
not enumerated.

**Deadlock** is checked where the system runs on. `AnyOrder` turns the check off, because there threads may really
block forever (findings PartialRefusal and SharedFill), and `Kernels` and `CrossCheck` because a tile ends with
its store and a comparison with its result. In OneOp
and TwoOps a reload or `clear()` is always possible while nothing runs, so the deadlock check says little there;
`EveryCallReturns` says it.

**Fairness.** `FairSpec` has weak fairness of each thread's steps: the operating system runs every thread that can
run, and a thread holding the mutex releases it after a bounded stretch, so no thread starves another at the
granularity of these actions. A sleeping thread has no enabled step, and no fairness is assumed of spurious wakeups,
of broadcasts beyond the steps that make them, of new operations, reloads or `clear()`. Liveness is checked in TwoOps,
whose first table is large enough not to grow during the run: with growth it is false (MovedTable).

**Mutants.** Every property of a passing run has at least one mutated definition, marked `mutant:` in the modules,
that a plausible slip in the code would produce (a broadcast left out, a floor for a ceiling, an unmasked bit) and
that makes the run fail. `OnlyClearUncaches` uses the evicting cache that `docs/REVIEW.md` describes as a defect of
an earlier version.

## 5. Findings

| Run | Where | What happens |
|---|---|---|
| SliceStride | `patches/0019`, line 42 | `GRID_ONESHOT_C` counts slices in `agrid_t` also for iq2_xs, iq2_s and iq1_m, whose packs consist of the larger `agrid16_t`: with two threads and two row tiles the slices of the first fill overlap, and the kernel reads torn tiles |
| MovedTable | `ppc_pack_cache.cpp:127`, 123, 253 | `grow_locked` moves the table under a waiting thread, which goes on reading `ready` in freed memory. The table starts with 256 slots, so this needs the 257th key |
| SharedFill | `ppc_pack_cache.cpp:217` | two operations join one parallel fill, whose count knows the threads of one: the pack is published with slices missing. Needs two contexts multiplying with the same tensor before it is packed |
| PartialRefusal | `ppc_pack_cache.cpp:231` | an allocation fails for one thread of an operation only: the others wait for its slice forever |
| MixedPaths | `patches/0008`, line 42 | the same for a serially packed format: the refused thread works by rows, the served one by columns, and elements are computed by nobody |

Each passing run states the condition under which its properties hold: contexts do not share parallel tensors
(`OwnPar`), allocations do not fail halfway (`AllocMayFail = FALSE`, `RefusalsDiffer = FALSE`), the table does not
grow while somebody waits (`FirstGrowth`), a reload changes a byte the fingerprint samples (`Told`: it
reads 64 of them, so other reloads go unnoticed), slices are counted in the
packed structure (`SliceUnit = TileSize`).

## 6. The proofs

All proofs are from the definitions and the named assumptions of the modules: `KeysAssumption`, `ThreadsAssumption`
and `MemoryAssumption` of `PackCache` (typing of the constants, the sentinels are no values, packs are not empty,
there are finitely many threads, each context numbers its threads from 0), `PingPongAssumption`, and
`SizesAssumption` of `PackedKernels` (a tile has a row and a column under it). The runs that extend the modules
evaluate them.

**`PackCacheProofs`.** `Spec => []TypeOK`, `[]OneSlotPerKey`, `[]BuffersOwned`, `[]BytesAccounted` and
`[]ReadyIsSettled`, for all tensors, threads, contexts, buffers and caps, with reloads and `clear()` at any time,
failing allocations and a moving table. The inductive invariant is

    IInv == TypeOK /\ TableInv /\ PlacesInv

`TableInv` joins the four table properties, since none is inductive alone: a retirement subtracts the bytes of the
slot it found, which is right only if that slot is the only one with the key and owns its buffer; the total stays
under the cap because the bytes subtracted were part of it. It also needs that a serially filled slot never has
slices outstanding, or `publish` would make a slot ready that is not settled. `PlacesInv` says that a thread inside an
operation has a tensor, and that a waiting thread's pointer is inside the table. `TableInv` is a predicate `TableOK`
of a table, a heap and a total, so the proof is four lemmas about what the code does to them (drop slots, grow, fill a
slot, touch its count), and one lemma per kind of step that puts them together: `Refuse` and `Admit` are a drop
followed by a growth, and `Admit` by a fill. The byte total is the cardinality of the set of the single bytes
(`Units`), so that the finite-set theorems apply to it and no induction over the table is needed.

**`PackUseProofs`.** `UsersSeeWholePack`, `OnePathPerOp`, `PendingIsExact`, `OneSerialPacker`, `NoWriteUnderReader`,
`OnlyClearUncaches` and `NobodyWaitsInVain`, for all tensors, contexts, threads, buffers and caps, under `Calm`. `Calm` collects what the code relies on and does not
check: reloads and `clear()` wait for the operations they touch, no allocation fails, the table stays where it is, a
tensor that is filled in parallel belongs to one context, and the fingerprint tells the weights apart. Three parts have
a run that shows what happens without them (`PartialRefusal`, `MovedTable`, `SharedFill`). OneOp and TwoOps
are instances of it, except that their table might move and never has to. The inductive invariant is

    UInv == IInv /\ lost = {} /\ OpsOK /\ OneSerialPacker
            /\ (SlotOK of every used slot) /\ (ThreadOK and Written of every thread)

`ThreadOK` says that a thread past its acquire call has *the* slot of its tensor, with the present fingerprint, or was
turned away and would be again: either the pack is larger than the cap, or there is no slot for the tensor and too
little room, and room only shrinks until the next `clear()` (`NoRoom`). This is what makes all threads of an operation
take one path. It needs that a slot being filled has the present fingerprint (`SlotOK`), so that nobody ever waits for
a stale one (`NoStaleWait`), and that a retirement frees exactly the bytes that it then needs. `SlotOK` says who fills
an unready slot: a thread that packs it (serial), or the threads of one operation that still have to call `slice_done`,
counted (`Outstanding`, parallel). `Written` says that what a thread has packed is there. When the count reaches zero,
all other threads of the operation wait in `slice_done` with their tiles written, and by `EveryTileOnce` the tiles of
all threads are the whole pack (`LastOne`).

`NobodyIsForgotten` proves what safety can say of the waits: a thread in `pthread_cond_wait` has missed no broadcast, and
an awake thread still packs for it or owes a slice. On top of `UInv` it needs that a sleeper's slot is unready
(`SleepersWait`): a retirement, a growth and `clear()` leave unready slots alone (`AdmissionSparesUnready`), and the step
that makes a slot ready wakes everybody (`PublishersWake`). Who is awake then follows from `SlotOK`: the packer of a
serial tensor, or, the count of a parallel fill being above zero, one of the threads it counts. What is missing to
`EveryCallReturns` is that the scheduler lets that thread go on.

The last section of the module has `CacheStepsAreDirect`: under `Calm`, initial states and steps of `PackCache` are those of `DirectPack`,
with `View` as the refinement mapping. From `UsersSeeWholePack`, `View` is the present weights for a thread that
knows what it multiplies with and nothing for the others; the step to this knowledge is the abstract repacking. The one
further assumption says that `Junk` is not a pack. Fairness is left to TwoOps.

**`SlicesProofs`.** `EveryTileOnce` and `EveryRowOnce`: the shares of the threads, and the slices of `ppc_apack_slice`,
cover everything exactly once, for all sizes and numbers of threads. They rest on `CeilDiv` being the least
sufficient quotient; two consecutive shares meet, so two different ones cannot overlap.

**`PingPongProofs`.** `DrainedInOrder` and `NothingLeftBehind` for all slab lengths and depths. The invariant says,
besides the types, how many chunks are drained between slabs and inside one (all of the earlier slabs, and those the
loop has passed), and that after an issue the set to be drained next holds the next chunk.

**`GemmProofs`.** `EveryElementHasOneWriter`: `AllSpec => []OneWriter` for every driver, shape, leading dimension and
number of threads, from `GeometryAssumption`, `OwnKindsAssumption` and the assumption `~RefusalsDiffer`, without which
it is false (run `MixedPaths`). `OneWriter` speaks of the past, so the invariant says what a writer in the history
still is: a thread in its loops, and the owner of the element by its own rule (`WritersOK`, with `Owns`: its rows are
in its row tiles, or its column in its column tiles). It also says that a thread in its loops is at a tile or row of
its share (`LoopOK`), that the path fits the place (`PathOK`), and that all threads divide alike (`OneRule`: the
per-call path excludes the cached ones; by rows or by columns depends on `n` and the team only). The theorem follows:
two owners by one rule are one thread (`EveryTileOnce`), and an address is that of one row and column, since
`ldc >= m` (`OneAddress`). The action lemmas come down to two: a register tile lies in the share (`TileInShare`), and
so does a store of rows `I0 .. I1 - 1` (`StoreInShare`).

**`GemmResultProofs`.** The remaining invariants of `GemmOp`, for every driver (cached, per call, the own ones of
`UncachedOp`), shape, leading dimension and number of threads: `AllSpec => []TypeOK` (`PlacesHold`),
`[]NoElementMissed` (`NothingIsMissed`) and `[]EveryStoreIsTheProduct` (`StoresAreProducts`). On top of the invariant
of `GemmProofs` they need layers, each inductive relative to those before it:

| Layer | What it says | Why it is needed |
|---|---|---|
| `FillOK` | the slot fits the places of the threads; in a parallel fill `pending` is the number of threads that have not counted down (`Owing`); a serial fill has one packer | a thread in its loops finds a whole pack or uses none; the fill ends at the count-down of the last thread and not before |
| `ShapeOK` | the depth is not empty; a driver of its own never meets the cache | the first slab starts every sum |
| `MemoryOK` | the designs that go slab by slab hold in their accumulators the products of exactly the slabs they have passed | the value a last slab stores is the whole product |
| `CoverOK` | a thread has written every element it owns that lies before its place in its loops | at the end of the loops that is its whole share; some thread owns every element (`SomeOwner`, from `EveryTileOnce` and `EveryRowOnce`) |
| `WrittenOK` | an element somebody wrote is not `Junk` | with `CoverOK` it is `NoElementMissed` |
| `PackOK` | the cells of every thread through with packing are those of a finished pack, and a whole pack has no others | the threads that wait have packed their tiles; when the last one counts down, their tiles are all tiles |
| `PrivateOK` | from its first column tile on, the private pack is that of the row tile the thread is at | the pack made at column tile 0 is reused for the others |
| `StoredOK` | an untouched element is `Junk`; a written one is the product of the row and column whose address it is | implies `EveryStoreIsTheProduct` |

The step of `PackOK` is where the addresses are: the cell that `Apack` writes for a row tile of its slice is, in the
whole pack, the cell of that tile, slab and line (`CellOfSlice`, `CellOfSlab`), and clamping to the rows of the slice
is clamping to the rows of the matrix (`SliceTile`), since slices start at multiples of the tile and only the last is
ragged. The step of `StoredOK` is the reading of the same cells by the tile loop.

Three hypotheses are not the code's doing. `~RefusalsDiffer`: the threads of one operation get one answer from the
cache, which `OnePathPerOp` proves of `PackCache` under `Calm`; without it even `OneWriter` is false (`MixedPaths`).
`JunkIsNoProduct`, in `NothingIsMissed` only: the symbol for what an allocation leaves is not itself a sum of
products, without which "missed" could not be told from "stored"; any value that is no function, such as the model
value of the runs, satisfies it. `OneStructure`, in `StoresAreProducts` only: the caller counts slices in the structure its pack has
(`SliceUnit = TileSize`). All drivers do but those of iq2_xs, iq2_s and iq1_m (`grid16`), for which `SliceStride`
gives the counterexample; `Kinds` leaves them out of this theorem and only of this one.

**`PackedKernelProofs` and `KernelProofs`.** `EveryKernelIsItsReference` and `StoredLanesAreWhole`: `Spec =>
[]EveryLaneIsReference` and `Spec => []StoredIsWhole`, for every kernel, variant of its format, length of the slab,
size of the edge tile and lane, from `SizesAssumption` alone. The data stays symbolic, so this is for every content of
the blocks as well. `EveryLaneIsReference` compares the chunk added last; the inductive invariant `LaneInv` says what
all of `fin` is, namely the contributions of the chunks up to now in their order and nothing else, so that no chunk is
left out, repeated or overwritten; `SlabInv`, on top of it, that nothing is added behind the slab and nothing stored
before its end. With these the theorems are a statement about values: `Contribution = Reference` for any chunk
(`ChunkIsReference`), which is where the work is.

| Part | Argument |
|---|---|
| Sums | a bag of products is determined by how often each value occurs, so a sum does not depend on the order of its terms (`Reordered`, by a bijection of the indices); sums over disjoint indices add up; a sum times a scale, and the part of a product that a correction keeps, go through it |
| Tiles | `PackTile` puts word `s % 4` of vector `s \div 4` of a lane where outer product `s` looks for it (`PackedLane`, from `Transposed`: the merges and permutations transpose four words); hence an accumulator holds the sum over the depth of row times column (`Sum16x8OfTiles`, `Sum8x8OfTiles`), and lanes beyond the edge are those of the last row or column (`ClampIsLast`) |
| Bias | the activations enter with the sign bit flipped, and the correction takes out exactly the 128 times the codes of the lane (`UnbiasedLane`) |
| Bits | masks, shifts and ors of symbolic bytes, by position: what the repacker's and the reference's expressions take from a byte (`Nibbles`, `BitPairs`, `BitMerged`, `BitsMerged`) |
| Formats | one section per kernel: the codes, the scales, the activations and their sums, then the lane |
| Loop | `ChunkIsReference` by cases over the kernels, `LaneInvHolds`, `SlabInvHolds`, the theorems |

An instance of a format module carries its own copy of the vocabulary of `MmaTile`; the first lemma of every section
(`Vocabulary_...`) says once that the two agree. The slab enters only through the number of the chunk, so no induction
over data is needed. The lemmas showed that three definitions could be simpler without meaning something else (the
cardinality of a set of copies instead of a fold in `PartsOf`, `ByBits` and `MinusBias`; one bag instead of a union of
bags in `MinTerms`). These two modules take two thirds of the time of all proofs, about half an hour.

**Only model-checked.** Liveness (`EveryCallReturns`, and the fairness in `DirectPack`): temporal reasoning with
ENABLED is beyond the installed provers; its safety part is `NobodyIsForgotten`. `DecodeIsGgml` of the decoders: it has no parameter, but compares two evaluations over
fixed block layouts and over every scale, so that TLC's run is already all there is to it.

## 7. Not modelled

- Dispatch guards of `sgemm.cpp`: stateless, and GemmOp covers more than they let through.
- Rounding, the order of additions and the range of the accumulators are left to the test programs.
- The entries of the tables in `iq_grids.h`: constant data, named by table, index and place, and compared byte by byte in
  `xcheck_grid.cpp`.
- A reload that changes no sampled byte: see `Told` above.
- `xcheck_cache.cpp`, a scripted test of the cache; what it promises is quoted at the properties.
- `ppc_apack_cache_stats`, messages, and the parsing of `PPC_MMA_PACK_CACHE_MB`.
- `GGML_ABORT` when a driver cannot allocate its activation pack: the process ends.
- Prefetching, compiler compatibility, scripts and test drivers. The verdict of `validate-on-power.sh` is worth reading
  with care: a candidate that is not among the five reported ones counts as a gap of 0 (lines 175 and 176), where the
  comment above asks for a candidate within the tolerance in both runs.
