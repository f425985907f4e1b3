----------------------------- MODULE MemControl -----------------------------
(***************************************************************************)
(* The reference-count control of src/core/acore_mem.c, as operators on    *)
(* the control table.  A table m is a function from objects (the data      *)
(* pointers) to control blocks: m[o].bound says that mem_tree has a node   *)
(* for o, and ref and des are the fields of struct core_mem.  An operator  *)
(* returns the table after one complete call, the erase from the tree and  *)
(* the clear call-back included: MemThreads takes the same calls apart.    *)
(***************************************************************************)
EXTENDS Integers

(* A counter that would go below zero unbinds its block, so none is stored. *)
Block == [bound : BOOLEAN, ref : Nat, des : BOOLEAN]

Unbound == [bound |-> FALSE, ref |-> 0, des |-> FALSE]
Fresh   == [bound |-> TRUE,  ref |-> 0, des |-> FALSE]

(* _acore_mem_init: an empty tree over the objects S. *)
EmptyTable(S) == [o \in S |-> Unbound]

IsBound(m, o) == m[o].bound

IsAvailable(m, o) == m[o].bound /\ ~m[o].des

-----------------------------------------------------------------------------
(* Faulty variants, each a plausible slip in the C code. *)

AddRefTwice(m, o) == [m EXCEPT ![o].ref = @ + 2]

DroppedAtZero(b) ==
    IF b.ref - 1 <= 0 THEN Unbound ELSE [b EXCEPT !.ref = @ - 1]

DroppedLate(b) ==
    IF b.ref < -1 THEN Unbound ELSE [b EXCEPT !.ref = @ - 1]

MaskKeepsReference(m, o) ==
    IF IsAvailable(m, o) THEN [m EXCEPT ![o].des = TRUE] ELSE m

-----------------------------------------------------------------------------
(* acore_mem_bind: binding a bound object succeeds and changes nothing. *)
Bind(m, o) == IF m[o].bound THEN m ELSE [m EXCEPT ![o] = Fresh]

(* acore_mem_add_ref does not look at des: its callers check availability. *)
AddRef(m, o) == IF m[o].bound THEN [m EXCEPT ![o].ref = @ + 1] ELSE m

(* One reference fewer; below zero the block leaves the tree and its clear *)
(* call-back runs.                                                         *)
Dropped(b) == IF b.ref - 1 < 0 THEN Unbound ELSE [b EXCEPT !.ref = @ - 1]

DecRef(m, o) == IF m[o].bound THEN [m EXCEPT ![o] = Dropped(@)] ELSE m

(* acore_mem_mask_destroy gives up the owner's own reference, once. *)
MaskDestroy(m, o) ==
    IF IsAvailable(m, o)
    THEN [m EXCEPT ![o] = Dropped([@ EXCEPT !.des = TRUE])]
    ELSE m

(* The clear call-back of o runs in the call that takes table m to table n. *)
Cleared(m, n, o) == m[o].bound /\ ~n[o].bound
=============================================================================
