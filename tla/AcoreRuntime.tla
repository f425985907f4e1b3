---------------------------- MODULE AcoreRuntime ----------------------------
(***************************************************************************)
(* The API registry of src/core/acore_runtime.c over the reference-count   *)
(* control of src/core/acore_mem.c.  A module registers an API under a     *)
(* name, clients get clones of it and release them, and the owner may      *)
(* unregister it while clones are out.  Every call is one step here (the   *)
(* callers are serialised); MemThreads interleaves their statements.       *)
(***************************************************************************)
EXTENDS MemControl, FiniteSets

CONSTANTS
    Api,      \* the m_api records, one for each registered name
    Handle    \* the clones that clients may hold at the same time

ASSUME HandleAssumption == IsFiniteSet(Handle)

VARIABLES
    mtree,    \* the APIs found by name
    mem,      \* the control table, over Api
    held      \* the clones taken and not yet released, for each API

vars == <<mtree, mem, held>>

Init ==
    /\ mtree = {}
    /\ mem = EmptyTable(Api)
    /\ held = [a \in Api |-> {}]

-----------------------------------------------------------------------------
(* Faulty variants. *)

GetCloneUnchecked(a, h) ==
    /\ a \in mtree
    /\ h \notin UNION {held[b] : b \in Api}
    /\ mem' = AddRef(mem, a)
    /\ held' = [held EXCEPT ![a] = @ \cup {h}]
    /\ UNCHANGED mtree

-----------------------------------------------------------------------------
(* clear_api: the node of a cleared API leaves the registry. *)
ClearApi(a) == IF Cleared(mem, mem', a) THEN mtree \ {a} ELSE mtree

(* acore_runtime_register_api, under a name that is free. *)
RegisterApi(a) ==
    /\ a \notin mtree
    /\ mtree' = mtree \cup {a}
    /\ mem' = Bind(mem, a)
    /\ UNCHANGED held

(* acore_runtime_unregister_api of the m_api that registering returned; a  *)
(* second call finds the block marked and changes nothing.                 *)
UnregisterApi(a) ==
    /\ a \in mtree
    /\ mem' = MaskDestroy(mem, a)
    /\ mtree' = ClearApi(a)
    /\ UNCHANGED held

(* acore_runtime_get_clone: found by name, available, then one reference. *)
GetClone(a, h) ==
    /\ a \in mtree
    /\ IsAvailable(mem, a)
    /\ h \notin UNION {held[b] : b \in Api}
    /\ mem' = AddRef(mem, a)
    /\ held' = [held EXCEPT ![a] = @ \cup {h}]
    /\ UNCHANGED mtree

(* acore_runtime_release_clone, once for each clone. *)
ReleaseClone(a, h) ==
    /\ h \in held[a]
    /\ mem' = DecRef(mem, a)
    /\ held' = [held EXCEPT ![a] = @ \ {h}]
    /\ mtree' = ClearApi(a)

Next ==
    \E a \in Api :
        \/ RegisterApi(a)
        \/ UnregisterApi(a)
        \/ \E h \in Handle : GetClone(a, h) \/ ReleaseClone(a, h)

Spec == Init /\ [][Next]_vars

(* A client that holds a clone releases it some day. *)
FairSpec ==
    Spec /\ \A a \in Api, h \in Handle : WF_vars(ReleaseClone(a, h))

-----------------------------------------------------------------------------
(* The shape of the state. *)
TypeOK ==
    /\ mtree \in SUBSET Api
    /\ mem \in [Api -> Block]
    /\ held \in [Api -> SUBSET Handle]

(* The counter of a bound block is the number of clones out, one less once *)
(* the owner has given up its own reference (acore_mem.c: ref starts at 0  *)
(* and the block goes at -1).                                              *)
RefCountsHandles ==
    \A a \in Api : mem[a].bound =>
        mem[a].ref = Cardinality(held[a]) - (IF mem[a].des THEN 1 ELSE 0)

(* No API is cleared while a clone of it is out: mem.h:13-14, "use it to   *)
(* avoid error when delete data is using".                                 *)
NoClearWhileHeld == \A a \in Api : held[a] # {} => mem[a].bound

(* An API its owner gave up is there only for the clones still out: the    *)
(* release of the last one clears it.                                      *)
NoZombie == \A a \in Api : mem[a].bound /\ mem[a].des => held[a] # {}

(* A name is found exactly as long as its control block is bound, so the   *)
(* registry never leads to a cleared API.                                  *)
RegistryMatchesTree == mtree = {a \in Api : mem[a].bound}

(* From unregistering on, an API accepts no new clone until it has been    *)
(* cleared (mem.h:53-54: acore_mem_is_available "always returns false").   *)
NoCloneAfterUnregister ==
    [][\A a \in Api : mem[a].bound /\ mem[a].des =>
          /\ held'[a] \subseteq held[a]
          /\ mem'[a].bound => mem'[a].des]_vars

(* Once unregistered, an API is cleared as soon as its clients are done. *)
UnregisteredIsCleared ==
    \A a \in Api : (mem[a].bound /\ mem[a].des) ~> ~mem[a].bound

-----------------------------------------------------------------------------
(* The abstract object that an API implements. *)
phase ==
    [a \in Api |-> IF ~mem[a].bound THEN "absent"
                   ELSE IF mem[a].des THEN "doomed" ELSE "live"]

Shared == INSTANCE SharedObject WITH Obj <- Api

(* The registry implements the contract of a shared object. *)
ImplementsSharedObject == Shared!Spec
=============================================================================
