----------------------------- MODULE DirectPack -----------------------------
(***************************************************************************)
(* What the pack cache promises its callers: the per-call path of the      *)
(* drivers, with no cache at all.  Each thread of an operation multiplies  *)
(* with a complete pack of the weights the operation was started on, and   *)
(* every thread gets there ("never wrong, only slower", docs/DESIGN.md).   *)
(***************************************************************************)
EXTENDS Integers

CONSTANTS Tensor, Content, Tiles, Ctx, Thread, CtxOf, Uses, NoTensor, NoView

VARIABLES content, op, view
vars == <<content, op, view>>

Whole(d)   == [k \in 0 .. Tiles - 1 |-> d]
Threads(c) == {t \in Thread : CtxOf[t] = c}

Init ==
    /\ content \in [Tensor -> Content]
    /\ op = [c \in Ctx |-> NoTensor]
    /\ view = [t \in Thread |-> NoView]

StartOp(c, x) ==
    /\ op[c] = NoTensor /\ x \in Uses[c]
    /\ op' = [op EXCEPT ![c] = x]
    /\ UNCHANGED <<content, view>>

\* The thread repacks what it needs and multiplies.
Repack(t) ==
    /\ op[CtxOf[t]] # NoTensor /\ view[t] = NoView
    /\ view' = [view EXCEPT ![t] = Whole(content[op[CtxOf[t]]])]
    /\ UNCHANGED <<content, op>>

EndOp(c) ==
    /\ op[c] # NoTensor
    /\ \A t \in Threads(c) : view[t] # NoView
    /\ op' = [op EXCEPT ![c] = NoTensor]
    /\ view' = [t \in Thread |-> IF CtxOf[t] = c THEN NoView ELSE view[t]]
    /\ UNCHANGED content

Reload(x, d) ==
    /\ \A c \in Ctx : op[c] # x
    /\ content' = [content EXCEPT ![x] = d]
    /\ UNCHANGED <<op, view>>

Next ==
    \/ \E c \in Ctx : EndOp(c) \/ \E x \in Tensor : StartOp(c, x)
    \/ \E t \in Thread : Repack(t)
    \/ \E x \in Tensor, d \in Content : Reload(x, d)

Spec == Init /\ [][Next]_vars /\ \A t \in Thread : WF_vars(Repack(t))
=============================================================================
