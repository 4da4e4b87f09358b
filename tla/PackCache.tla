----------------------------- MODULE PackCache ------------------------------
(***************************************************************************)
(* The tensor-keyed weight-pack cache, src/src/ppc_pack_cache.cpp, driven  *)
(* by the threads of ggml operations the way the generated one-shot        *)
(* drivers of patches/0019 drive it.                                       *)
(*                                                                         *)
(* Every entry point takes the mutex g_mu, and gives it up only in         *)
(* pthread_cond_wait or on return, so one action is one stretch of code    *)
(* between two of these points.  A thread in a cond_wait is "asleep": it   *)
(* runs again only after a broadcast on g_cv or a spurious wakeup, and     *)
(* then tests its `while (!slot->ready)' through the slot POINTER it took  *)
(* before it slept.                                                        *)
(*                                                                         *)
(* A Tensor stands for a whole key (data pointer, m, k, variant).  The     *)
(* variant decides which of the two protocols serves the tensor: acquire / *)
(* publish (Serial) or acquire_par / slice_done (all others).              *)
(***************************************************************************)
EXTENDS Integers, FiniteSets, Slices

CONSTANTS
    Tensor,        \* cache keys
    Serial,        \* the keys whose driver packs on one thread
    Bytes,         \* [Tensor -> size of the pack]
    Content,       \* what the weights at a key's address can be
    Fp,            \* [Content -> fingerprint]
    Tiles,         \* row tiles of one pack
    Ctx,           \* ggml contexts, each running one operation at a time
    Thread, CtxOf, Ith,   \* worker threads, their context, their index in it
    Uses,          \* [Ctx -> the tensors its graph multiplies with]
    Buf,           \* addresses aligned_alloc can return
    Cap,           \* g_cap, in bytes; 0 disables the cache
    FirstGrowth,   \* size of the first slot table (256 in the code)
    MaxOps,        \* bound: operations started
    AllocMayFail,  \* aligned_alloc and realloc may return NULL
    TableMayMove,  \* realloc may return another address
    InFlight,      \* which of "clear", "reload" may hit a running operation
    NoTensor, NoBuf, NoFp, Junk

Threads(c) == {t \in Thread : CtxOf[t] = c}
Nth(c)     == Cardinality(Threads(c))
Par        == Tensor \ Serial
FpValue    == {Fp[d] : d \in Content}

ASSUME KeysAssumption ==
    /\ Serial \subseteq Tensor
    /\ NoTensor \notin Tensor
    /\ Bytes \in [Tensor -> Nat \ {0}]
    /\ Junk \notin Content
    /\ NoFp \notin FpValue
    /\ Fp \in [Content -> FpValue]
    /\ Tiles \in Nat \ {0}

ASSUME ThreadsAssumption ==
    /\ IsFiniteSet(Thread)
    /\ CtxOf \in [Thread -> Ctx]
    /\ Ith \in [Thread -> Nat]
    /\ \A c \in Ctx : {Ith[t] : t \in Threads(c)} = 0 .. Nth(c) - 1
    /\ Uses \in [Ctx -> SUBSET Tensor]

ASSUME MemoryAssumption ==
    /\ NoBuf \notin Buf
    /\ Cap \in Nat
    /\ FirstGrowth \in Nat \ {0}
    /\ MaxOps \in Nat
    /\ AllocMayFail \in BOOLEAN
    /\ TableMayMove \in BOOLEAN
    /\ InFlight \subseteq {"clear", "reload"}

VARIABLES
    slots,      \* g_slots: the slot table, 1 .. nslots
    nslots,     \* g_nslots
    total,      \* g_total
    admitted,   \* g_admitted
    refused,    \* g_refused
    live,       \* buffers aligned_alloc returned and nobody freed
    mem,        \* tiles written in each buffer, and from which content
    content,    \* the weights now at each key's address
    op,         \* the tensor each context's operation multiplies with
    ops,        \* operations started so far
    pc, buf, fp, ptr,  \* per thread: place, pack, fingerprint, slot pointer
    asleep,     \* threads inside pthread_cond_wait
    lost        \* waiting threads whose slot pointer realloc invalidated

cacheVars  == <<slots, nslots, total, admitted, refused, live>>
threadVars == <<pc, buf, fp, ptr, asleep, lost>>
vars == <<cacheVars, mem, content, op, ops, threadVars>>

Places == {"idle", "acquire", "stale_wait", "hit_wait", "pack", "packed",
           "slice_wait", "use", "fallback", "done"}
Waits  == {"stale_wait", "hit_wait", "slice_wait"}

\* slot_t, and the slot that memset(.., 0, ..) leaves.
Slot == [used : BOOLEAN, tensor : Tensor \cup {NoTensor}, fp : FpValue \cup {NoFp},
         buf : Buf \cup {NoBuf}, bytes : Nat, ready : BOOLEAN, pending : Nat]
Empty == [used |-> FALSE, tensor |-> NoTensor, fp |-> NoFp, buf |-> NoBuf,
          bytes |-> 0, ready |-> FALSE, pending |-> 0]

Blank == [k \in 0 .. Tiles - 1 |-> Junk]
Whole(d) == [k \in 0 .. Tiles - 1 |-> d]

Init ==
    /\ slots = [i \in 1 .. 0 |-> Empty]
    /\ nslots = 0
    /\ total = 0 /\ admitted = 0 /\ refused = 0
    /\ live = {}
    /\ mem = [b \in Buf |-> Blank]
    /\ content \in [Tensor -> Content]
    /\ op = [c \in Ctx |-> NoTensor]
    /\ ops = 0
    /\ pc = [t \in Thread |-> "idle"]
    /\ buf = [t \in Thread |-> NoBuf]
    /\ fp = [t \in Thread |-> NoFp]
    /\ ptr = [t \in Thread |-> 0]
    /\ asleep = {} /\ lost = {}

-----------------------------------------------------------------------------
(* What one scan of the slot table sees.                                    *)

TensorOf(t) == op[CtxOf[t]]
MatchesWhenReady(x) ==  \* mutant: a slot being packed is not a match
    {i \in 1 .. nslots : slots[i].used /\ slots[i].tensor = x /\ slots[i].ready}
Matches(x)  == {i \in 1 .. nslots : slots[i].used /\ slots[i].tensor = x}
First(S)    == CHOOSE i \in S : \A j \in S : i <= j
MatchOf(t)  == First(Matches(TensorOf(t)))

\* acquire computes the fingerprint once, before its retry loop.
FpOf(t) == IF pc[t] = "acquire" THEN Fp[content[TensorOf(t)]] ELSE fp[t]

\* The bytes of the packs in slots S of a table, counted one by one.
Units(tab, S) == UNION {{i} \X (1 .. tab[i].bytes) : i \in S}
Weight(S)     == Cardinality(Units(slots, S))

\* A thread re-tests its wait condition after a wakeup.  Through a pointer
\* into a freed table it reads whatever is there now.
Woken(t)     == pc[t] \in Waits /\ t \notin asleep
MayBeReady(t) == t \in lost \/ slots[ptr[t]].ready
MayBeUnready(t) == t \in lost \/ ~slots[ptr[t]].ready

\* Where the admission loop is (re)entered: on the call, after the checks
\* against the cap, and after the wait for a stale slot's filler.
Scanning(t) ==
    \/ pc[t] = "acquire" /\ Cap # 0 /\ Bytes[TensorOf(t)] <= Cap
    \/ pc[t] = "stale_wait" /\ Woken(t) /\ MayBeReady(t)

HitsByKey(t) == Matches(TensorOf(t)) # {}  \* mutant: the fingerprint is not compared
Hits(t) == /\ Matches(TensorOf(t)) # {}
           /\ slots[MatchOf(t)].fp = FpOf(t)
Stale(t) == /\ Matches(TensorOf(t)) # {}
            /\ slots[MatchOf(t)].fp # FpOf(t)

\* What free() and the reset of a slot do to the table, the heap and g_total.
Emptied(S)  == [i \in 1 .. nslots |-> IF i \in S THEN Empty ELSE slots[i]]
NoBufsOf(S) == {}  \* mutant: the slot is reset but its pack not freed
BufsOf(S)   == {slots[i].buf : i \in S}
Scrubbed(S) == [b \in Buf |-> IF b \in BufsOf(S) THEN Blank ELSE mem[b]]
TotalKept(S)    == total  \* mutant: g_total is not reduced
TotalWithout(S) == total - Weight(S)

\* pthread_cond_broadcast(&g_cv): the threads still asleep after it.
SleepersKept   == asleep  \* mutant: the broadcast is missing
AfterBroadcast == {}

\* Thread t leaves the cache with pack b (NoBuf: refused) and goes on at p.
Return(t, p, b) ==
    /\ pc' = [pc EXCEPT ![t] = p]
    /\ buf' = [buf EXCEPT ![t] = b]
    /\ fp' = [fp EXCEPT ![t] = NoFp]
    /\ ptr' = [ptr EXCEPT ![t] = 0]

\* Thread t sleeps on g_cv holding a pointer to slot i.
Sleep(t, p, i) ==
    /\ pc' = [pc EXCEPT ![t] = p]
    /\ fp' = [fp EXCEPT ![t] = FpOf(t)]
    /\ ptr' = [ptr EXCEPT ![t] = i]
    /\ asleep' = asleep \cup {t}
    /\ lost' = lost \ {t}

-----------------------------------------------------------------------------
(* ppc_apack_cache_acquire and ppc_apack_cache_acquire_par.                 *)

\* The early return: cache disabled (not counted) or pack larger than the cap.
Bypass(t) ==
    /\ pc[t] = "acquire"
    /\ Cap = 0 \/ Bytes[TensorOf(t)] > Cap
    /\ refused' = IF Cap = 0 THEN refused ELSE refused + 1
    /\ Return(t, "fallback", NoBuf)
    /\ UNCHANGED <<slots, nslots, total, admitted, live, mem, content, op, ops,
                   asleep, lost>>

\* The pack is there and whole; both protocols return it with fresh = 0.
Hit(t) ==
    /\ Scanning(t) /\ Hits(t) /\ slots[MatchOf(t)].ready
    /\ Return(t, "use", slots[MatchOf(t)].buf)
    /\ lost' = lost \ {t}
    /\ UNCHANGED <<cacheVars, mem, content, op, ops, asleep>>

\* acquire waits for the thread that is packing.
WaitForPack(t) ==
    /\ Scanning(t) /\ Hits(t) /\ ~slots[MatchOf(t)].ready
    /\ TensorOf(t) \in Serial
    /\ Sleep(t, "hit_wait", MatchOf(t))
    /\ UNCHANGED <<cacheVars, mem, content, op, ops, buf>>

\* acquire_par never waits here: the caller joins the fill (fresh = 1).
Join(t) ==
    /\ Scanning(t) /\ Hits(t) /\ ~slots[MatchOf(t)].ready
    /\ TensorOf(t) \in Par
    /\ Return(t, "pack", slots[MatchOf(t)].buf)
    /\ lost' = lost \ {t}
    /\ UNCHANGED <<cacheVars, mem, content, op, ops, asleep>>

\* Old contents, still being packed: wait for the filler, then scan again.
WaitForStale(t) ==
    /\ Scanning(t) /\ Stale(t) /\ ~slots[MatchOf(t)].ready
    /\ Sleep(t, "stale_wait", MatchOf(t))
    /\ UNCHANGED <<cacheVars, mem, content, op, ops, buf>>

\* The loop falls through to admission when nothing matches, or when the match
\* is a finished pack of old contents, which it frees on the way (retirement).
\* (The mutant makes room by evicting, the defect docs/REVIEW.md records.)
RetiredOrEvicted(t) ==
    IF Stale(t) THEN {MatchOf(t)}
    ELSE IF total + Bytes[TensorOf(t)] > Cap
         THEN {i \in 1 .. nslots : slots[i].used /\ slots[i].ready} ELSE {}
Retired(t) == IF Stale(t) THEN {MatchOf(t)} ELSE {}
Vacant(t)  == \/ Matches(TensorOf(t)) = {}
              \/ Stale(t) /\ slots[MatchOf(t)].ready

\* grow_locked: the table doubles when no slot is unused.
Full(tab)  == \A i \in 1 .. nslots : tab[i].used
NextSize(tab) == IF ~Full(tab) THEN nslots
                 ELSE IF nslots = 0 THEN FirstGrowth ELSE 2 * nslots
Grown(tab) == [i \in 1 .. NextSize(tab) |-> IF i <= nslots THEN tab[i] ELSE Empty]
\* A growth may move the table under the threads that wait inside it.
LostAfter(t, tab) ==
    IF Full(tab) /\ TableMayMove
    THEN {lost \ {t}, {u \in Thread : pc[u] \in Waits} \ {t}}
    ELSE {lost \ {t}}

\* refuse_locked and the return of NULL: no table to grow into, no bytes left
\* under the cap, or no memory.  A retirement and a growth before it stay.
Refuse(t) ==
    /\ Scanning(t) /\ Vacant(t)
    /\ LET tab  == Emptied(Retired(t))
           left == TotalWithout(Retired(t))
       IN  /\ \/ /\ Full(tab) /\ AllocMayFail
                 /\ slots' = tab /\ nslots' = nslots
                 /\ lost' = lost \ {t}
              \/ /\ left + Bytes[TensorOf(t)] > Cap \/ AllocMayFail
                 /\ slots' = Grown(tab) /\ nslots' = NextSize(tab)
                 /\ lost' \in LostAfter(t, tab)
           /\ total' = left
    /\ refused' = refused + 1
    /\ live' = live \ BufsOf(Retired(t))
    /\ mem' = Scrubbed(Retired(t))
    /\ Return(t, "fallback", NoBuf)
    /\ UNCHANGED <<admitted, content, op, ops, asleep>>

\* Admission: the first unused slot, a new buffer, fresh = 1.
PendingWithoutMe(t) ==  \* mutant: the creator does not count itself
    IF TensorOf(t) \in Par THEN Nth(CtxOf[t]) - 1 ELSE 0
PendingAtFirst(t) == IF TensorOf(t) \in Par THEN Nth(CtxOf[t]) ELSE 0
NewSlot(t, b) ==
    [used |-> TRUE, tensor |-> TensorOf(t), fp |-> FpOf(t), buf |-> b,
     bytes |-> Bytes[TensorOf(t)], ready |-> FALSE,
     pending |-> PendingAtFirst(t)]

Admit(t) ==
    /\ Scanning(t) /\ Vacant(t)
    /\ LET tab  == Emptied(Retired(t))
           left == TotalWithout(Retired(t))
           dst  == First({i \in 1 .. NextSize(tab) : ~Grown(tab)[i].used})
       IN  /\ left + Bytes[TensorOf(t)] <= Cap
           /\ \E b \in Buf \ (live \ BufsOf(Retired(t))) :
                 /\ slots' = [Grown(tab) EXCEPT ![dst] = NewSlot(t, b)]
                 /\ live' = (live \ BufsOf(Retired(t))) \cup {b}
                 /\ Return(t, "pack", b)
           /\ nslots' = NextSize(tab)
           /\ total' = left + Bytes[TensorOf(t)]
           /\ lost' \in LostAfter(t, tab)
    /\ admitted' = admitted + 1
    /\ mem' = Scrubbed(Retired(t))
    /\ UNCHANGED <<refused, content, op, ops, asleep>>

-----------------------------------------------------------------------------
(* Packing, publication, and the end of the waits.                          *)

\* The repack call of the driver: the whole matrix, or this thread's slice.
Mine(t) == IF TensorOf(t) \in Serial THEN 0 .. Tiles - 1
           ELSE ThreadTiles(Tiles, Ith[t], Nth(CtxOf[t]))
Pack(t) ==
    /\ pc[t] = "pack"
    /\ mem' = [mem EXCEPT ![buf[t]] =
                 [k \in 0 .. Tiles - 1 |->
                     IF k \in Mine(t) THEN content[TensorOf(t)] ELSE @[k]]]
    /\ pc' = [pc EXCEPT ![t] = "packed"]
    /\ UNCHANGED <<cacheVars, content, op, ops, buf, fp, ptr, asleep, lost>>

\* ppc_apack_cache_publish: it looks the slot up by key alone.
Publish(t) ==
    /\ pc[t] = "packed" /\ TensorOf(t) \in Serial
    /\ slots' = IF Matches(TensorOf(t)) = {} THEN slots
                ELSE [slots EXCEPT ![MatchOf(t)].ready = TRUE]
    /\ asleep' = AfterBroadcast
    /\ pc' = [pc EXCEPT ![t] = "use"]
    /\ UNCHANGED <<nslots, total, admitted, refused, live, mem, content, op, ops,
                   buf, fp, ptr, lost>>

\* `s->pending > 0 && --s->pending == 0'.
CountUnguarded(n) == n - 1  \* mutant: counts below zero
CountDown(n) == IF n > 0 THEN n - 1 ELSE 0
AnySlice(n)  == n >= 1  \* mutant: the first slice publishes
LastSlice(n) == n = 1

\* ppc_apack_cache_slice_done up to its return or its first wait.
SliceDone(t) ==
    /\ pc[t] = "packed" /\ TensorOf(t) \in Par
    /\ \/ /\ Matches(TensorOf(t)) = {}
          /\ pc' = [pc EXCEPT ![t] = "use"]
          /\ UNCHANGED <<slots, ptr, asleep>>
       \/ /\ Matches(TensorOf(t)) # {}
          /\ LET i     == MatchOf(t)
                 last  == LastSlice(slots[i].pending)
                 ready == slots[i].ready \/ last
             IN  /\ slots' = [slots EXCEPT
                       ![i].pending = CountDown(@), ![i].ready = ready]
                 /\ asleep' = (IF last THEN AfterBroadcast ELSE asleep)
                              \cup (IF ready THEN {} ELSE {t})
                 /\ pc' = [pc EXCEPT ![t] = IF ready THEN "use" ELSE "slice_wait"]
                 /\ ptr' = [ptr EXCEPT ![t] = IF ready THEN 0 ELSE i]
    /\ UNCHANGED <<nslots, total, admitted, refused, live, mem, content, op, ops,
                   buf, fp, lost>>

\* A woken thread finds its condition true: acquire returns hit->buf ...
WakeHit(t) ==
    /\ pc[t] = "hit_wait" /\ Woken(t) /\ MayBeReady(t)
    /\ \E b \in IF t \in lost THEN Buf ELSE {slots[ptr[t]].buf} : Return(t, "use", b)
    /\ lost' = lost \ {t}
    /\ UNCHANGED <<cacheVars, mem, content, op, ops, asleep>>

\* ... and slice_done returns to the caller, which holds its pack already.
WakeSlice(t) ==
    /\ pc[t] = "slice_wait" /\ Woken(t) /\ MayBeReady(t)
    /\ Return(t, "use", buf[t])
    /\ lost' = lost \ {t}
    /\ UNCHANGED <<cacheVars, mem, content, op, ops, asleep>>

\* It finds it false and sleeps again.
SleepAgain(t) ==
    /\ Woken(t) /\ MayBeUnready(t)
    /\ asleep' = asleep \cup {t}
    /\ UNCHANGED <<cacheVars, mem, content, op, ops, pc, buf, fp, ptr, lost>>

\* POSIX lets pthread_cond_wait return without a broadcast.
SpuriousWakeup(t) ==
    /\ t \in asleep
    /\ asleep' = asleep \ {t}
    /\ UNCHANGED <<cacheVars, mem, content, op, ops, pc, buf, fp, ptr, lost>>

\* The multiplication with the pack, or with tiles repacked for this call.
Multiply(t) ==
    /\ pc[t] \in {"use", "fallback"}
    /\ Return(t, "done", buf[t])
    /\ UNCHANGED <<cacheVars, mem, content, op, ops, asleep, lost>>

-----------------------------------------------------------------------------
(* The callers: ggml runs a graph node on all threads of a context and lets *)
(* them meet at a barrier before the next node.                             *)

StartOp(c, x) ==
    /\ op[c] = NoTensor /\ x \in Uses[c] /\ ops < MaxOps
    /\ op' = [op EXCEPT ![c] = x]
    /\ ops' = ops + 1
    /\ pc' = [t \in Thread |-> IF CtxOf[t] = c THEN "acquire" ELSE pc[t]]
    /\ UNCHANGED <<cacheVars, mem, content, buf, fp, ptr, asleep, lost>>

EndOp(c) ==
    /\ op[c] # NoTensor
    /\ \A t \in Threads(c) : pc[t] = "done"
    /\ op' = [op EXCEPT ![c] = NoTensor]
    /\ pc' = [t \in Thread |-> IF CtxOf[t] = c THEN "idle" ELSE pc[t]]
    /\ buf' = [t \in Thread |-> IF CtxOf[t] = c THEN NoBuf ELSE buf[t]]
    /\ UNCHANGED <<cacheVars, mem, content, ops, fp, ptr, asleep, lost>>

\* The embedder loads another model over the weights of x.
Reload(x) ==
    /\ "reload" \in InFlight \/ \A c \in Ctx : op[c] # x
    /\ \E d \in Content \ {content[x]} : content' = [content EXCEPT ![x] = d]
    /\ UNCHANGED <<cacheVars, mem, op, ops, threadVars>>

\* ppc_apack_cache_clear: frees the finished packs and wakes nobody.
Clear ==
    /\ "clear" \in InFlight \/ \A c \in Ctx : op[c] = NoTensor
    /\ LET gone == {i \in 1 .. nslots : slots[i].used /\ slots[i].ready}
       IN  /\ slots' = Emptied(gone)
           /\ total' = TotalWithout(gone)
           /\ live' = live \ BufsOf(gone)
           /\ mem' = Scrubbed(gone)
    /\ UNCHANGED <<nslots, admitted, refused, content, op, ops, threadVars>>

ThreadStep(t) ==
    \/ Bypass(t) \/ Hit(t) \/ WaitForPack(t) \/ Join(t) \/ WaitForStale(t)
    \/ Refuse(t) \/ Admit(t)
    \/ Pack(t) \/ Publish(t) \/ SliceDone(t)
    \/ WakeHit(t) \/ WakeSlice(t) \/ SleepAgain(t)
    \/ Multiply(t)

Next ==
    \/ \E t \in Thread : ThreadStep(t) \/ SpuriousWakeup(t)
    \/ \E c \in Ctx : EndOp(c) \/ \E x \in Tensor : StartOp(c, x)
    \/ \E x \in Tensor : Reload(x)
    \/ Clear

Spec == Init /\ [][Next]_vars

\* The scheduler runs every runnable thread; nobody has to start operations,
\* reload models or clear the cache, and no spurious wakeup need ever come.
FairSpec == Spec /\ \A t \in Thread : WF_vars(ThreadStep(t))

-----------------------------------------------------------------------------
(* Correctness of the slot table, whatever the callers and the allocator do. *)

\* Type invariant.
TypeOK ==
    /\ nslots \in Nat
    /\ slots \in [1 .. nslots -> Slot]
    /\ total \in Int /\ admitted \in Nat /\ refused \in Nat
    /\ live \subseteq Buf
    /\ mem \in [Buf -> [0 .. Tiles - 1 -> Content \cup {Junk}]]
    /\ content \in [Tensor -> Content]
    /\ op \in [Ctx -> Tensor \cup {NoTensor}]
    /\ ops \in 0 .. MaxOps
    /\ pc \in [Thread -> Places]
    /\ buf \in [Thread -> Buf \cup {NoBuf}]
    /\ fp \in [Thread -> FpValue \cup {NoFp}]
    /\ ptr \in [Thread -> 0 .. nslots]
    /\ asleep \subseteq Thread /\ lost \subseteq Thread

Used == {i \in 1 .. nslots : slots[i].used}

\* Two acquires of one key can never both be admitted: at most one slot per key,
\* although publish and slice_done look slots up without the fingerprint.
OneSlotPerKey == \A i, j \in Used : slots[i].tensor = slots[j].tensor => i = j

\* Every allocated pack belongs to exactly one slot and every used slot owns an
\* allocated pack: nothing leaks and nothing is freed twice.
BuffersOwned ==
    /\ live = {slots[i].buf : i \in Used}
    /\ \A i, j \in Used : slots[i].buf = slots[j].buf => i = j

\* g_total is the sum of the resident packs and never exceeds the cap, across
\* admissions, retirements and clear().
BytesAccounted == total = Weight(Used) /\ total <= Cap

\* A published pack has no slice outstanding: slice_done's count-down can not
\* reach zero a second time for the same fill.
ReadyIsSettled == \A i \in Used : slots[i].ready => slots[i].pending = 0

-----------------------------------------------------------------------------
(* Correctness as the operations see it.                                    *)

\* "returning from slice_done means the WHOLE pack is ready", and so does a hit:
\* a multiplication reads an allocated pack, complete, of the present weights.
UsersSeeWholePack ==
    \A t \in Thread : pc[t] = "use" =>
        /\ buf[t] \in live
        /\ mem[buf[t]] = Whole(content[TensorOf(t)])

\* All threads of an operation that know their pack have the same one, or all
\* have none: the drivers split the result by columns or by rows accordingly,
\* so a mixture leaves elements of the result unwritten.
OnePathPerOp ==
    \A t, u \in Thread :
        /\ CtxOf[t] = CtxOf[u]
        /\ {pc[t], pc[u]} \subseteq {"pack", "packed", "slice_wait", "use", "fallback", "done"}
        => buf[t] = buf[u]

\* A parallel fill is counted exactly: the slices outstanding are those of the
\* threads of the one filling operation that have not yet called slice_done.
PendingIsExact ==
    \A i \in Used : slots[i].tensor \in Par /\ ~slots[i].ready =>
        \E c \in Ctx :
            /\ op[c] = slots[i].tensor
            /\ slots[i].pending = Cardinality(
                   {t \in Threads(c) : pc[t] \in {"acquire", "pack", "packed"}})

\* DESIGN.md's "let other threads wait rather than duplicate work": at most one
\* thread is packing a serial tensor.
OneSerialPacker ==
    \A t, u \in Thread :
        /\ {pc[t], pc[u]} \subseteq {"pack", "packed"}
        /\ TensorOf(t) = TensorOf(u) /\ TensorOf(t) \in Serial
        => t = u

\* No lost wakeup and no circular wait, whatever the scheduler does: a thread in
\* pthread_cond_wait has not missed the broadcast that makes its condition true,
\* and some thread that is awake still owes its tensor the packing, or the slice,
\* that leads to the next one.
NobodyWaitsInVain ==
    \A t \in asleep :
        /\ ~slots[ptr[t]].ready
        /\ \E u \in Thread \ asleep :
              /\ TensorOf(u) = TensorOf(t)
              /\ \/ pc[u] \in {"pack", "packed"}
                 \/ pc[u] = "acquire" /\ TensorOf(t) \in Par

\* Nobody writes into or frees a pack while a multiplication reads it.
NoWriteUnderReader ==
    [][\A t \in Thread : pc[t] = "use" /\ pc'[t] = "use" =>
          mem'[buf[t]] = mem[buf[t]] /\ buf[t] \in live']_vars

\* "The cache's effect is monotonic": a tensor that has a pack keeps one (perhaps
\* repacked after a reload) until clear() is called.
OnlyClearUncaches ==
    [][(\E x \in Tensor : Matches(x) # {} /\ Matches(x)' = {}) => Clear]_vars

\* Every thread of a started operation gets its pack, or the refusal, and
\* finishes: no acquire, publish or slice_done waits forever.
EveryCallReturns == \A t \in Thread : pc[t] = "acquire" ~> pc[t] = "done"

\* What the multiplications read, for the comparison with DirectPack.
View == [t \in Thread |->
           CASE pc[t] = "use" -> mem[buf[t]]
             [] pc[t] \in {"fallback", "done"} -> Whole(content[TensorOf(t)])
             [] OTHER -> Junk]
=============================================================================
