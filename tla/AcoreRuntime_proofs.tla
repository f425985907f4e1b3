------------------------ MODULE AcoreRuntime_proofs -------------------------
(***************************************************************************)
(* Proofs about AcoreRuntime for every set of APIs and every finite set of *)
(* handles: its invariants, and that it implements SharedObject.           *)
(***************************************************************************)
EXTENDS AcoreRuntime, FiniteSetTheorems, TLAPS

(* What the operators of MemControl do to one block of a table: a call on  *)
(* object o leaves the other blocks alone and yields a table again.        *)
LEMMA BindFacts ==
    ASSUME NEW S, NEW m \in [S -> Block], NEW o \in S
    PROVE  /\ Bind(m, o) \in [S -> Block]
           /\ \A p \in S \ {o} : Bind(m, o)[p] = m[p]
           /\ Bind(m, o)[o] = IF m[o].bound THEN m[o] ELSE Fresh
  BY DEF Bind, Block, Fresh

(* acore_mem_add_ref raises the counter of a bound block by one.           *)
LEMMA AddRefFacts ==
    ASSUME NEW S, NEW m \in [S -> Block], NEW o \in S, m[o].bound
    PROVE  /\ AddRef(m, o) \in [S -> Block]
           /\ \A p \in S \ {o} : AddRef(m, o)[p] = m[p]
           /\ AddRef(m, o)[o].bound
           /\ AddRef(m, o)[o].ref = m[o].ref + 1
           /\ AddRef(m, o)[o].des = m[o].des
  BY DEF AddRef, Block

(* One reference fewer unbinds a block whose counter is 0 and lowers any   *)
(* other counter.                                                          *)
LEMMA DroppedFacts ==
    ASSUME NEW b \in Block, b.bound
    PROVE  /\ Dropped(b) \in Block
           /\ b.ref <= 0 => Dropped(b) = Unbound
           /\ b.ref > 0 => /\ Dropped(b).bound
                           /\ Dropped(b).ref = b.ref - 1
                           /\ Dropped(b).des = b.des
  BY DEF Dropped, Block, Unbound

(* acore_mem_dec_ref drops one reference of a bound block.                 *)
LEMMA DecRefFacts ==
    ASSUME NEW S, NEW m \in [S -> Block], NEW o \in S, m[o].bound
    PROVE  /\ DecRef(m, o) \in [S -> Block]
           /\ \A p \in S \ {o} : DecRef(m, o)[p] = m[p]
           /\ DecRef(m, o)[o] = Dropped(m[o])
<1>1. m[o] \in Block
  OBVIOUS
<1>2. Dropped(m[o]) \in Block
  BY <1>1, DroppedFacts
<1>. QED
  BY <1>2 DEF DecRef

(* acore_mem_mask_destroy dooms a live block and drops its owner's         *)
(* reference; a doomed block stays as it is.                               *)
LEMMA MaskDestroyFacts ==
    ASSUME NEW S, NEW m \in [S -> Block], NEW o \in S, m[o].bound
    PROVE  /\ MaskDestroy(m, o) \in [S -> Block]
           /\ \A p \in S \ {o} : MaskDestroy(m, o)[p] = m[p]
           /\ m[o].des => MaskDestroy(m, o)[o] = m[o]
           /\ ~m[o].des /\ m[o].ref <= 0 => MaskDestroy(m, o)[o] = Unbound
           /\ ~m[o].des /\ m[o].ref > 0 =>
                /\ MaskDestroy(m, o)[o].bound
                /\ MaskDestroy(m, o)[o].ref = m[o].ref - 1
                /\ MaskDestroy(m, o)[o].des
<1> DEFINE b == [m[o] EXCEPT !.des = TRUE]
<1>1. b \in Block /\ b.bound /\ b.ref = m[o].ref /\ b.des
  BY DEF Block
<1>2. /\ Dropped(b) \in Block
      /\ b.ref <= 0 => Dropped(b) = Unbound
      /\ b.ref > 0 => /\ Dropped(b).bound
                      /\ Dropped(b).ref = b.ref - 1
                      /\ Dropped(b).des = b.des
  BY <1>1, DroppedFacts
<1>3. CASE m[o].des
  BY <1>3 DEF MaskDestroy, IsAvailable
<1>4. CASE ~m[o].des
  <2>1. MaskDestroy(m, o) = [m EXCEPT ![o] = Dropped(b)]
    BY <1>4 DEF MaskDestroy, IsAvailable
  <2>2. MaskDestroy(m, o)[o] = Dropped(b)
    BY <2>1
  <2>. HIDE DEF b
  <2>3. m[o].ref \in Int
    BY DEF Block
  <2>. QED
    BY <2>1, <2>2, <2>3, <1>1, <1>2, <1>4
<1>. QED
  BY <1>3, <1>4 DEF Block

-----------------------------------------------------------------------------
(* The safety invariants taken together are inductive: the counter alone   *)
(* does not tell that a doomed block is still held, nor the registry that  *)
(* a found API is bound.                                                   *)
IInv ==
    /\ TypeOK
    /\ RefCountsHandles
    /\ NoClearWhileHeld
    /\ NoZombie
    /\ RegistryMatchesTree

(* IInv read at one API: the counter is a natural number minus at most one *)
(* and the set of clones it counts is finite.                              *)
LEMMA AtOneApi ==
    ASSUME IInv, NEW a \in Api
    PROVE  /\ mem[a] \in Block
           /\ held[a] \in SUBSET Handle
           /\ IsFiniteSet(held[a])
           /\ Cardinality(held[a]) \in Nat
           /\ Cardinality(held[a]) = 0 <=> held[a] = {}
<1>1. mem[a] \in Block /\ held[a] \in SUBSET Handle
  BY DEF IInv, TypeOK
<1>2. IsFiniteSet(held[a])
  BY <1>1, FS_Subset, HandleAssumption
<1>. QED
  BY <1>1, <1>2, FS_CardinalityType, FS_EmptySet

(* A step that keeps the types and touches the block and the clones of one *)
(* API only preserves IInv when it does so at that API.                    *)
LEMMA OneApiSuffices ==
    ASSUME IInv, NEW a \in Api, TypeOK',
           \A b \in Api \ {a} : mem'[b] = mem[b] /\ held'[b] = held[b],
           mtree' \ {a} = mtree \ {a},
           a \in mtree' <=> mem'[a].bound,
           mem'[a].bound =>
             /\ mem'[a].ref = Cardinality(held'[a]) - (IF mem'[a].des THEN 1 ELSE 0)
             /\ mem'[a].des => held'[a] # {},
           held'[a] # {} => mem'[a].bound
    PROVE  IInv'
<1>1. RefCountsHandles'
  <2>. SUFFICES ASSUME NEW b \in Api, mem'[b].bound
                PROVE  mem'[b].ref = Cardinality(held'[b]) - (IF mem'[b].des THEN 1 ELSE 0)
    BY DEF RefCountsHandles
  <2>1. CASE b = a
    BY <2>1
  <2>2. CASE b # a
    BY <2>2 DEF IInv, RefCountsHandles
  <2>. QED
    BY <2>1, <2>2
<1>2. NoClearWhileHeld'
  BY DEF IInv, NoClearWhileHeld
<1>3. NoZombie'
  BY DEF IInv, NoZombie
<1>4. RegistryMatchesTree'
  <2>1. mtree' \in SUBSET Api
    BY DEF TypeOK
  <2>2. \A b \in Api : b \in mtree' <=> mem'[b].bound
    BY DEF IInv, RegistryMatchesTree
  <2>. QED
    BY <2>1, <2>2 DEF RegistryMatchesTree
<1>. QED
  BY <1>1, <1>2, <1>3, <1>4 DEF IInv

(* An empty registry satisfies the inductive invariant.                    *)
LEMMA InitIInv == Init => IInv
<1>. SUFFICES ASSUME Init
              PROVE  IInv
  OBVIOUS
<1>1. mem = [a \in Api |-> Unbound] /\ held = [a \in Api |-> {}] /\ mtree = {}
  BY DEF Init, EmptyTable
<1>. QED
  BY <1>1 DEF IInv, TypeOK, RefCountsHandles, NoClearWhileHeld, NoZombie,
              RegistryMatchesTree, Block, Unbound

(* Registering an API under a free name preserves it.                      *)
LEMMA RegisterApiIInv ==
    ASSUME IInv, NEW a \in Api, RegisterApi(a)
    PROVE  IInv'
<1>1. ~mem[a].bound /\ held[a] = {}
  BY DEF RegisterApi, IInv, RegistryMatchesTree, NoClearWhileHeld
<1>2. /\ mem' \in [Api -> Block]
      /\ \A b \in Api \ {a} : mem'[b] = mem[b]
      /\ mem'[a] = Fresh
  BY <1>1, BindFacts DEF RegisterApi, IInv, TypeOK
<1>3. TypeOK'
  BY <1>2 DEF RegisterApi, IInv, TypeOK
<1>4. held' = held /\ held'[a] = {}
  BY <1>1 DEF RegisterApi
<1>5. mem'[a].bound /\ mem'[a].ref = 0 /\ ~mem'[a].des
  BY <1>2 DEF Fresh
<1>6. a \in mtree' /\ mtree' \ {a} = mtree \ {a}
  BY DEF RegisterApi
<1>7. mem'[a].ref = Cardinality(held'[a]) - (IF mem'[a].des THEN 1 ELSE 0)
  <2>1. Cardinality(held'[a]) = 0
    BY <1>4, FS_EmptySet
  <2>2. (IF mem'[a].des THEN 1 ELSE 0) = 0
    BY <1>5
  <2>3. Cardinality(held'[a]) - (IF mem'[a].des THEN 1 ELSE 0) = 0 - 0
    BY <2>1, <2>2, Zenon
  <2>. QED
    BY <1>5, <2>3
<1>8. \A b \in Api \ {a} : mem'[b] = mem[b] /\ held'[b] = held[b]
  BY <1>2, <1>4
<1>9. /\ a \in mtree' <=> mem'[a].bound
      /\ mem'[a].des => held'[a] # {}
      /\ held'[a] # {} => mem'[a].bound
  BY <1>5, <1>6
<1>. QED
  BY <1>3, <1>6, <1>7, <1>8, <1>9, OneApiSuffices

(* Giving up the owner's reference: nothing when it is already given up,   *)
(* the clear call-back when nobody holds a clone, a doomed block otherwise. *)
LEMMA UnregisterApiCases ==
    ASSUME IInv, NEW a \in Api, UnregisterApi(a)
    PROVE  /\ TypeOK'
           /\ mem[a].bound
           /\ held' = held
           /\ \A b \in Api \ {a} : mem'[b] = mem[b]
           /\ mtree' \ {a} = mtree \ {a}
           /\ a \in mtree' <=> mem'[a].bound
           /\ \/ mem[a].des /\ mem'[a] = mem[a]
              \/ ~mem[a].des /\ held[a] = {} /\ mem'[a] = Unbound
              \/ /\ ~mem[a].des
                 /\ held[a] # {}
                 /\ mem'[a].bound
                 /\ mem'[a].des
                 /\ mem'[a].ref = mem[a].ref - 1
<1>1. a \in mtree /\ mem[a].bound
  BY DEF UnregisterApi, IInv, RegistryMatchesTree
<1>2. mem \in [Api -> Block] /\ mem' = MaskDestroy(mem, a)
  BY DEF UnregisterApi, IInv, TypeOK
<1>3. mem' \in [Api -> Block] /\ \A b \in Api \ {a} : mem'[b] = mem[b]
  BY <1>1, <1>2, MaskDestroyFacts
<1>4. mtree' \ {a} = mtree \ {a} /\ (a \in mtree' <=> mem'[a].bound)
  BY <1>1 DEF UnregisterApi, ClearApi, Cleared
<1>5. TypeOK'
  BY <1>3 DEF UnregisterApi, ClearApi, IInv, TypeOK
<1>6. /\ mem[a].ref = Cardinality(held[a]) - (IF mem[a].des THEN 1 ELSE 0)
      /\ Cardinality(held[a]) \in Nat
      /\ Cardinality(held[a]) = 0 <=> held[a] = {}
  BY <1>1, AtOneApi DEF IInv, RefCountsHandles
<1>7. CASE mem[a].des
  <2>1. mem'[a] = mem[a]
    BY <1>1, <1>2, <1>7, MaskDestroyFacts
  <2>. QED
    BY <1>1, <1>3, <1>4, <1>5, <1>7, <2>1 DEF UnregisterApi
<1>8. CASE ~mem[a].des
  <2>1. mem[a].ref = Cardinality(held[a])
    BY <1>6, <1>8
  <2>2. CASE held[a] = {}
    <3>1. mem'[a] = Unbound
      BY <1>1, <1>2, <1>6, <1>8, <2>1, <2>2, MaskDestroyFacts
    <3>. QED
      BY <1>1, <1>3, <1>4, <1>5, <1>8, <2>2, <3>1 DEF UnregisterApi
  <2>3. CASE held[a] # {}
    <3>1. mem[a].ref > 0
      BY <1>6, <2>1, <2>3
    <3>2. mem'[a].bound /\ mem'[a].des /\ mem'[a].ref = mem[a].ref - 1
      BY <1>1, <1>2, <1>8, <3>1, MaskDestroyFacts
    <3>. QED
      BY <1>1, <1>3, <1>4, <1>5, <1>8, <2>3, <3>2 DEF UnregisterApi
  <2>. QED
    BY <2>2, <2>3
<1>. QED
  BY <1>7, <1>8

(* Unregistering preserves it, whether it clears the API or not.           *)
LEMMA UnregisterApiIInv ==
    ASSUME IInv, NEW a \in Api, UnregisterApi(a)
    PROVE  IInv'
<1>1. /\ mem[a].ref = Cardinality(held[a]) - (IF mem[a].des THEN 1 ELSE 0)
      /\ mem[a].des => held[a] # {}
      /\ mem[a].bound
      /\ Cardinality(held[a]) \in Nat
  BY UnregisterApiCases, AtOneApi DEF IInv, RefCountsHandles, NoZombie
<1>2. CASE mem[a].des /\ mem'[a] = mem[a]
  BY <1>1, <1>2, UnregisterApiCases, OneApiSuffices
<1>3. CASE ~mem[a].des /\ held[a] = {} /\ mem'[a] = Unbound
  <2>1. ~mem'[a].bound
    BY <1>3 DEF Unbound
  <2>. QED
    BY <1>3, <2>1, UnregisterApiCases, OneApiSuffices
<1>4. CASE /\ ~mem[a].des /\ held[a] # {} /\ mem'[a].bound
           /\ mem'[a].des /\ mem'[a].ref = mem[a].ref - 1
  <2>1. mem'[a].ref = Cardinality(held[a]) - 1
    BY <1>1, <1>4
  <2>. QED
    BY <1>4, <2>1, UnregisterApiCases, OneApiSuffices
<1>. QED
  BY <1>2, <1>3, <1>4, UnregisterApiCases

(* Taking a clone preserves it: the counter and the set of clones grow by  *)
(* one.                                                                    *)
LEMMA GetCloneIInv ==
    ASSUME IInv, NEW a \in Api, NEW h \in Handle, GetClone(a, h)
    PROVE  IInv'
<1>1. mem[a].bound /\ ~mem[a].des /\ h \notin held[a]
  BY DEF GetClone, IsAvailable
<1>2. /\ mem' \in [Api -> Block]
      /\ \A b \in Api \ {a} : mem'[b] = mem[b]
      /\ mem'[a].bound /\ ~mem'[a].des /\ mem'[a].ref = mem[a].ref + 1
  BY <1>1, AddRefFacts DEF GetClone, IInv, TypeOK
<1>3. /\ held' \in [Api -> SUBSET Handle]
      /\ \A b \in Api \ {a} : held'[b] = held[b]
      /\ held'[a] = held[a] \cup {h}
  BY DEF GetClone, IInv, TypeOK
<1>4. TypeOK'
  BY <1>2, <1>3 DEF GetClone, IInv, TypeOK
<1>5. /\ Cardinality(held'[a]) = Cardinality(held[a]) + 1
      /\ Cardinality(held[a]) \in Nat
  <2>1. IsFiniteSet(held[a]) /\ Cardinality(held[a]) \in Nat
    BY AtOneApi
  <2>2. Cardinality(held[a] \cup {h}) = Cardinality(held[a]) + 1
    BY <1>1, <2>1, FS_AddElement
  <2>. QED
    BY <1>3, <2>1, <2>2
<1>6. mem[a].ref = Cardinality(held[a])
  BY <1>1, <1>5 DEF IInv, RefCountsHandles
<1>7. mtree' = mtree /\ a \in mtree
  BY DEF GetClone
<1>8. mem'[a].ref = Cardinality(held'[a]) - (IF mem'[a].des THEN 1 ELSE 0)
  BY <1>2, <1>5, <1>6
<1>9. \A b \in Api \ {a} : mem'[b] = mem[b] /\ held'[b] = held[b]
  BY <1>2, <1>3
<1>. QED
  BY <1>2, <1>4, <1>7, <1>8, <1>9, OneApiSuffices

(* Releasing a clone: the block goes with the last clone of a doomed API   *)
(* and in no other case.                                                   *)
LEMMA ReleaseCloneCases ==
    ASSUME IInv, NEW a \in Api, NEW h \in Handle, ReleaseClone(a, h)
    PROVE  /\ TypeOK'
           /\ mem[a].bound
           /\ h \in held[a]
           /\ held'[a] = held[a] \ {h}
           /\ Cardinality(held'[a]) = Cardinality(held[a]) - 1
           /\ \A b \in Api \ {a} : mem'[b] = mem[b] /\ held'[b] = held[b]
           /\ mtree' \ {a} = mtree \ {a}
           /\ a \in mtree' <=> mem'[a].bound
           /\ \/ mem[a].des /\ held[a] = {h} /\ mem'[a] = Unbound
              \/ /\ mem[a].des => held[a] # {h}
                 /\ mem'[a].bound
                 /\ mem'[a].des = mem[a].des
                 /\ mem'[a].ref = mem[a].ref - 1
<1>1. h \in held[a] /\ mem[a].bound /\ a \in mtree
  BY DEF ReleaseClone, IInv, NoClearWhileHeld, RegistryMatchesTree
<1>2. /\ mem \in [Api -> Block]
      /\ mem' = DecRef(mem, a)
      /\ mem'[a] = Dropped(mem[a])
      /\ mem' \in [Api -> Block]
      /\ \A b \in Api \ {a} : mem'[b] = mem[b]
  BY <1>1, DecRefFacts DEF ReleaseClone, IInv, TypeOK
<1>3. /\ held' \in [Api -> SUBSET Handle]
      /\ \A b \in Api \ {a} : held'[b] = held[b]
      /\ held'[a] = held[a] \ {h}
  BY DEF ReleaseClone, IInv, TypeOK
<1>4. mtree' \ {a} = mtree \ {a} /\ (a \in mtree' <=> mem'[a].bound)
  BY <1>1 DEF ReleaseClone, ClearApi, Cleared
<1>5. TypeOK'
  BY <1>2, <1>3 DEF ReleaseClone, ClearApi, IInv, TypeOK
<1>6. /\ IsFiniteSet(held[a])
      /\ Cardinality(held[a]) \in Nat
      /\ Cardinality(held'[a]) = Cardinality(held[a]) - 1
      /\ Cardinality(held[a]) # 0
  <2>1. /\ IsFiniteSet(held[a])
        /\ Cardinality(held[a]) \in Nat
        /\ Cardinality(held[a]) = 0 <=> held[a] = {}
    BY AtOneApi
  <2>2. Cardinality(held[a] \ {h}) = Cardinality(held[a]) - 1
    BY <1>1, <2>1, FS_RemoveElement
  <2>. QED
    BY <1>1, <1>3, <2>1, <2>2
<1>7. mem[a].ref = Cardinality(held[a]) - (IF mem[a].des THEN 1 ELSE 0)
  BY <1>1 DEF IInv, RefCountsHandles
<1>8. Cardinality(held[a]) = 1 <=> held[a] = {h}
  <2>1. IsFiniteSet(held[a] \ {h})
    BY <1>6, FS_RemoveElement
  <2>2. Cardinality(held[a] \ {h}) = 0 <=> held[a] \ {h} = {}
    BY <2>1, FS_EmptySet
  <2>. QED
    BY <1>1, <1>3, <1>6, <2>2
<1>9. mem[a] \in Block /\ mem[a].ref \in Int
  BY <1>2 DEF Block
<1>10. CASE mem[a].des /\ held[a] = {h}
  <2>1. mem[a].ref <= 0
    BY <1>6, <1>7, <1>8, <1>10
  <2>2. mem'[a] = Unbound
    BY <1>1, <1>2, <1>9, <2>1, DroppedFacts
  <2>. QED
    BY <1>1, <1>2, <1>3, <1>4, <1>5, <1>6, <1>10, <2>2
<1>11. CASE ~(mem[a].des /\ held[a] = {h})
  <2>1. mem[a].ref > 0
    BY <1>6, <1>7, <1>8, <1>11
  <2>2. /\ mem'[a].bound
        /\ mem'[a].des = mem[a].des
        /\ mem'[a].ref = mem[a].ref - 1
    BY <1>1, <1>2, <1>9, <2>1, DroppedFacts
  <2>. QED
    BY <1>1, <1>2, <1>3, <1>4, <1>5, <1>6, <1>11, <2>2
<1>. QED
  BY <1>10, <1>11

(* Releasing a clone preserves it, whether it clears the API or not.       *)
LEMMA ReleaseCloneIInv ==
    ASSUME IInv, NEW a \in Api, NEW h \in Handle, ReleaseClone(a, h)
    PROVE  IInv'
<1>1. /\ mem[a].ref = Cardinality(held[a]) - (IF mem[a].des THEN 1 ELSE 0)
      /\ Cardinality(held[a]) \in Nat
  BY ReleaseCloneCases, AtOneApi DEF IInv, RefCountsHandles
<1>2. CASE mem[a].des /\ held[a] = {h} /\ mem'[a] = Unbound
  <2>1. ~mem'[a].bound /\ held'[a] = {}
    BY <1>2, ReleaseCloneCases DEF Unbound
  <2>. QED
    BY <2>1, ReleaseCloneCases, OneApiSuffices
<1>3. CASE /\ mem[a].des => held[a] # {h}
           /\ mem'[a].bound
           /\ mem'[a].des = mem[a].des
           /\ mem'[a].ref = mem[a].ref - 1
  <2>1. mem'[a].ref = Cardinality(held'[a]) - (IF mem'[a].des THEN 1 ELSE 0)
    BY <1>1, <1>3, ReleaseCloneCases
  <2>2. mem'[a].des => held'[a] # {}
    BY <1>3, ReleaseCloneCases
  <2>. QED
    BY <1>3, <2>1, <2>2, ReleaseCloneCases, OneApiSuffices
<1>. QED
  BY <1>2, <1>3, ReleaseCloneCases

(* Every step of the registry preserves it.                                *)
LEMMA NextIInv == IInv /\ [Next]_vars => IInv'
<1>. SUFFICES ASSUME IInv, [Next]_vars
              PROVE  IInv'
  OBVIOUS
<1>1. ASSUME NEW a \in Api, RegisterApi(a)
      PROVE  IInv'
  BY <1>1, RegisterApiIInv
<1>2. ASSUME NEW a \in Api, UnregisterApi(a)
      PROVE  IInv'
  BY <1>2, UnregisterApiIInv
<1>3. ASSUME NEW a \in Api, NEW h \in Handle, GetClone(a, h)
      PROVE  IInv'
  BY <1>3, GetCloneIInv
<1>4. ASSUME NEW a \in Api, NEW h \in Handle, ReleaseClone(a, h)
      PROVE  IInv'
  BY <1>4, ReleaseCloneIInv
<1>5. CASE UNCHANGED vars
  BY <1>5 DEF vars, IInv, TypeOK, RefCountsHandles, NoClearWhileHeld, NoZombie,
              RegistryMatchesTree
<1>. QED
  BY <1>1, <1>2, <1>3, <1>4, <1>5 DEF Next

(* Every reachable state satisfies the inductive invariant.                *)
THEOREM InductiveInvariant == Spec => []IInv
<1>1. Init => IInv
  BY InitIInv
<1>2. IInv /\ [Next]_vars => IInv'
  BY NextIInv
<1>. QED
  BY <1>1, <1>2, PTL DEF Spec

(* The type invariant holds for any APIs and handles.                      *)
THEOREM TypeCorrect == Spec => []TypeOK
<1>1. IInv => TypeOK
  BY DEF IInv
<1>. QED
  BY <1>1, InductiveInvariant, PTL

(* The reference counter counts the clones out (acore_mem.c:115-179), so   *)
(* neither a lost nor a spare reference can build up over any number of    *)
(* calls.                                                                  *)
THEOREM CounterCorrect == Spec => []RefCountsHandles
<1>1. IInv => RefCountsHandles
  BY DEF IInv
<1>. QED
  BY <1>1, InductiveInvariant, PTL

(* The clear call-back never runs under a client's clone (mem.h:13-14).    *)
THEOREM HeldIsNotCleared == Spec => []NoClearWhileHeld
<1>1. IInv => NoClearWhileHeld
  BY DEF IInv
<1>. QED
  BY <1>1, InductiveInvariant, PTL

(* An unregistered API does not outlive its last clone.                    *)
THEOREM NoZombieLeft == Spec => []NoZombie
<1>1. IInv => NoZombie
  BY DEF IInv
<1>. QED
  BY <1>1, InductiveInvariant, PTL

(* A name found in the registry leads to a bound control block             *)
(* (acore_runtime.c:27-33, 53-64).                                         *)
THEOREM RegistryIsSound == Spec => []RegistryMatchesTree
<1>1. IInv => RegistryMatchesTree
  BY DEF IInv
<1>. QED
  BY <1>1, InductiveInvariant, PTL

-----------------------------------------------------------------------------
(* The step of one API seen through phase: the other APIs keep theirs.     *)
LEMMA PhaseOfOthers ==
    ASSUME NEW a \in Api, NEW ph,
           \A b \in Api \ {a} : mem'[b] = mem[b],
           phase'[a] = ph
    PROVE  phase' = [phase EXCEPT ![a] = ph]
<1>1. \A b \in Api \ {a} : phase'[b] = phase[b]
  BY DEF phase
<1>2. phase' = [b \in Api |-> phase'[b]] /\ DOMAIN phase = Api
  BY DEF phase
<1>. HIDE DEF phase
<1>. QED
  BY <1>1, <1>2

(* Every step of the registry is a step of the abstract object, or a       *)
(* stutter.                                                                *)
LEMMA StepRefines == IInv /\ [Next]_vars => [Shared!Next]_(Shared!vars)
<1>. SUFFICES ASSUME IInv, [Next]_vars
              PROVE  [Shared!Next]_(Shared!vars)
  OBVIOUS
<1>1. ASSUME NEW a \in Api, RegisterApi(a)
      PROVE  Shared!Publish(a)
  <2>1. ~mem[a].bound
    BY <1>1 DEF RegisterApi, IInv, RegistryMatchesTree
  <2>2. /\ \A b \in Api \ {a} : mem'[b] = mem[b]
        /\ mem'[a] = Fresh
    BY <1>1, <2>1, BindFacts DEF RegisterApi, IInv, TypeOK
  <2>3. phase[a] = "absent" /\ phase'[a] = "live"
    BY <2>1, <2>2 DEF phase, Fresh
  <2>4. phase' = [phase EXCEPT ![a] = "live"]
    BY <2>2, <2>3, PhaseOfOthers
  <2>. QED
    BY <1>1, <2>3, <2>4 DEF RegisterApi, Shared!Publish
<1>2. ASSUME NEW a \in Api, UnregisterApi(a)
      PROVE  Shared!Doom(a) \/ UNCHANGED Shared!vars
  <2>1. mem[a].bound /\ held' = held /\ \A b \in Api \ {a} : mem'[b] = mem[b]
    BY <1>2, UnregisterApiCases
  <2>2. CASE mem[a].des /\ mem'[a] = mem[a]
    <3>1. phase'[a] = phase[a]
      BY <2>2 DEF phase
    <3>2. phase' = [phase EXCEPT ![a] = phase[a]]
      BY <2>1, <3>1, PhaseOfOthers
    <3>3. phase' = phase
      BY <3>2 DEF phase
    <3>. QED
      BY <2>1, <3>3 DEF Shared!vars
  <2>3. CASE ~mem[a].des /\ held[a] = {} /\ mem'[a] = Unbound
    <3>1. phase[a] = "live" /\ phase'[a] = "absent"
      BY <2>1, <2>3 DEF phase, Unbound
    <3>2. phase' = [phase EXCEPT ![a] = "absent"]
      BY <2>1, <3>1, PhaseOfOthers
    <3>. QED
      BY <2>1, <2>3, <3>1, <3>2 DEF Shared!Doom
  <2>4. CASE ~mem[a].des /\ held[a] # {} /\ mem'[a].bound /\ mem'[a].des
    <3>1. phase[a] = "live" /\ phase'[a] = "doomed"
      BY <2>1, <2>4 DEF phase
    <3>2. phase' = [phase EXCEPT ![a] = "doomed"]
      BY <2>1, <3>1, PhaseOfOthers
    <3>. QED
      BY <2>1, <2>4, <3>1, <3>2 DEF Shared!Doom
  <2>. QED
    BY <1>2, <2>2, <2>3, <2>4, UnregisterApiCases
<1>3. ASSUME NEW a \in Api, NEW h \in Handle, GetClone(a, h)
      PROVE  Shared!Take(a, h)
  <2>1. mem[a].bound /\ ~mem[a].des /\ h \notin held[a]
    BY <1>3 DEF GetClone, IsAvailable
  <2>2. /\ \A b \in Api \ {a} : mem'[b] = mem[b]
        /\ mem'[a].bound /\ mem'[a].des = mem[a].des
    BY <1>3, <2>1, AddRefFacts DEF GetClone, IInv, TypeOK
  <2>3. phase[a] = "live" /\ phase'[a] = phase[a]
    BY <2>1, <2>2 DEF phase
  <2>4. phase' = [phase EXCEPT ![a] = phase[a]]
    BY <2>2, <2>3, PhaseOfOthers
  <2>5. phase' = phase
    BY <2>4 DEF phase
  <2>. QED
    BY <1>3, <2>1, <2>3, <2>5 DEF GetClone, Shared!Take
<1>4. ASSUME NEW a \in Api, NEW h \in Handle, ReleaseClone(a, h)
      PROVE  Shared!Drop(a, h)
  <2>1. /\ h \in held[a]
        /\ mem[a].bound
        /\ \A b \in Api \ {a} : mem'[b] = mem[b]
        /\ held' = [held EXCEPT ![a] = @ \ {h}]
    BY <1>4, ReleaseCloneCases DEF ReleaseClone
  <2>2. CASE mem[a].des /\ held[a] = {h} /\ mem'[a] = Unbound
    <3>1. phase[a] = "doomed" /\ phase'[a] = "absent"
      BY <2>1, <2>2 DEF phase, Unbound
    <3>2. phase' = [phase EXCEPT ![a] = "absent"]
      BY <2>1, <3>1, PhaseOfOthers
    <3>. QED
      BY <2>1, <2>2, <3>1, <3>2 DEF Shared!Drop
  <2>3. CASE /\ mem[a].des => held[a] # {h}
             /\ mem'[a].bound
             /\ mem'[a].des = mem[a].des
    <3>1. phase'[a] = phase[a] /\ ~(phase[a] = "doomed" /\ held[a] = {h})
      BY <2>1, <2>3 DEF phase
    <3>2. phase' = [phase EXCEPT ![a] = phase[a]]
      BY <2>1, <3>1, PhaseOfOthers
    <3>3. phase' = phase
      BY <3>2 DEF phase
    <3>. QED
      BY <2>1, <3>1, <3>3 DEF Shared!Drop
  <2>. QED
    BY <1>4, <2>2, <2>3, ReleaseCloneCases
<1>5. CASE UNCHANGED vars
  BY <1>5 DEF vars, phase, Shared!vars
<1>. QED
  BY <1>1, <1>2, <1>3, <1>4, <1>5 DEF Next, Shared!Next

(* acore_runtime.c over acore_mem.c implements the contract of a shared    *)
(* object: for every set of APIs and every finite set of clones, an API is *)
(* reclaimed exactly when it is unregistered and its last clone is back.   *)
THEOREM Refinement == Spec => ImplementsSharedObject
<1>1. Init => Shared!Init
  BY DEF Init, Shared!Init, phase, EmptyTable, Unbound
<1>2. IInv /\ [Next]_vars => [Shared!Next]_(Shared!vars)
  BY StepRefines
<1>. QED
  BY <1>1, <1>2, InductiveInvariant, PTL
     DEF Spec, Shared!Spec, ImplementsSharedObject

(* An unregistered API hands out no clone and never becomes available      *)
(* again before it has been cleared (mem.h:53-54).                         *)
THEOREM DoomIsFinal == Spec => NoCloneAfterUnregister
<1> DEFINE Final(a) == mem[a].bound /\ mem[a].des =>
                          /\ held'[a] \subseteq held[a]
                          /\ mem'[a].bound => mem'[a].des
<1>1. ASSUME IInv, [Next]_vars, NEW c \in Api
      PROVE  Final(c)
  <2>1. ASSUME NEW a \in Api, RegisterApi(a)
        PROVE  Final(c)
    <3>1. ~mem[a].bound
      BY <1>1, <2>1 DEF RegisterApi, IInv, RegistryMatchesTree
    <3>2. \A b \in Api \ {a} : mem'[b] = mem[b]
      BY <1>1, <2>1, <3>1, BindFacts DEF RegisterApi, IInv, TypeOK
    <3>. QED
      BY <2>1, <3>1, <3>2 DEF RegisterApi
  <2>2. ASSUME NEW a \in Api, UnregisterApi(a)
        PROVE  Final(c)
    BY <1>1, <2>2, UnregisterApiCases DEF Unbound
  <2>3. ASSUME NEW a \in Api, NEW h \in Handle, GetClone(a, h)
        PROVE  Final(c)
    <3>1. mem[a].bound /\ ~mem[a].des
      BY <2>3 DEF GetClone, IsAvailable
    <3>2. \A b \in Api \ {a} : mem'[b] = mem[b] /\ held'[b] = held[b]
      BY <1>1, <2>3, <3>1, AddRefFacts DEF GetClone, IInv, TypeOK
    <3>. QED
      BY <3>1, <3>2
  <2>4. ASSUME NEW a \in Api, NEW h \in Handle, ReleaseClone(a, h)
        PROVE  Final(c)
    BY <1>1, <2>4, ReleaseCloneCases DEF Unbound
  <2>5. CASE UNCHANGED vars
    BY <2>5 DEF vars
  <2>. QED
    BY <1>1, <2>1, <2>2, <2>3, <2>4, <2>5 DEF Next
<1>2. IInv /\ [Next]_vars => [\A a \in Api : Final(a)]_vars
  BY <1>1
<1>. QED
  BY <1>2, InductiveInvariant, PTL DEF Spec, NoCloneAfterUnregister
=============================================================================
