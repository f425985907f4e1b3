--------------------------- MODULE MediaWav_proofs --------------------------
(***************************************************************************)
(* Proofs about MediaWav for every finite set of ports and any number of   *)
(* API calls: the counters are exact and the ports whole, and nothing is   *)
(* freed under a user.  And, in the second part, about SoundControl, which *)
(* makes and uses such ports, for every set of factories and with or       *)
(* without a clock of its own.                                             *)
(***************************************************************************)
EXTENDS MediaWav, FiniteSetTheorems, SequencesExt, SequenceTheorems, TLAPS

(* The tables of the shared objects; a name keeps their blocks out of the  *)
(* provers' sight.                                                         *)
Tables == [Shared -> Block]

(* Whether a block is bound, and whether it is marked, as numbers: the     *)
(* accounts add them up.                                                   *)
Here(b) == IF b.bound THEN 1 ELSE 0
Mark(b) == IF b.des THEN 1 ELSE 0

LEMMA BlockFacts ==
    ASSUME NEW b \in Block
    PROVE  Here(b) \in {0, 1} /\ Mark(b) \in {0, 1} /\ b.ref \in Nat
  BY DEF Block, Here, Mark

(* The two special blocks.                                                 *)
LEMMA FreshFacts ==
    /\ Fresh \in Block /\ Here(Fresh) = 1 /\ Mark(Fresh) = 0 /\ Fresh.ref = 0
    /\ Unbound \in Block /\ Here(Unbound) = 0
  BY DEF Block, Here, Mark, Fresh, Unbound

(* Every block of a table is one, and available when it is bound and not   *)
(* marked.                                                                 *)
LEMMA TableFacts ==
    ASSUME NEW m \in Tables, NEW o \in Shared
    PROVE  /\ m[o] \in Block
           /\ Here(m[o]) \in {0, 1} /\ Mark(m[o]) \in {0, 1} /\ m[o].ref \in Nat
           /\ IsAvailable(m, o) <=> Here(m[o]) = 1 /\ Mark(m[o]) = 0
<1>1. m[o] \in Block
  BY DEF Tables
<1>2. IsAvailable(m, o) <=> Here(m[o]) = 1 /\ Mark(m[o]) = 0
  BY DEF IsAvailable, Here, Mark
<1>. QED
  BY <1>1, <1>2, BlockFacts

(* k references fewer; below zero the block is unbound.                    *)
LEMMA DroppedFacts ==
    ASSUME NEW b \in Block, NEW k \in Nat
    PROVE  /\ DroppedBy(b, k) \in Block
           /\ b.ref < k => Here(DroppedBy(b, k)) = 0
           /\ b.ref >= k => /\ Here(DroppedBy(b, k)) = Here(b)
                            /\ DroppedBy(b, k).ref = b.ref - k
                            /\ Mark(DroppedBy(b, k)) = Mark(b)
<1>1. b.ref \in Nat /\ b.bound \in BOOLEAN /\ b.des \in BOOLEAN
  BY DEF Block
<1>2. CASE b.ref < k
  <2>1. DroppedBy(b, k) = Unbound
    BY <1>2 DEF DroppedBy
  <2>. QED
    BY <1>1, <1>2, <2>1, FreshFacts
<1>3. CASE b.ref >= k
  <2>1. b.ref - k \in Nat
    BY <1>1, <1>3
  <2>2. b = [bound |-> b.bound, ref |-> b.ref, des |-> b.des]
    BY DEF Block
  <2>3. DroppedBy(b, k) = [b EXCEPT !.ref = b.ref - k]
    BY <1>1, <1>3 DEF DroppedBy
  <2>4. DroppedBy(b, k) \in Block
    BY <2>1, <2>3 DEF Block
  <2>5. DroppedBy(b, k).ref = b.ref - k
    BY <2>2, <2>3
  <2>6. DroppedBy(b, k).bound = b.bound
    BY <2>2, <2>3
  <2>7. DroppedBy(b, k).des = b.des
    BY <2>2, <2>3
  <2>8. Here(DroppedBy(b, k)) = Here(b) /\ Mark(DroppedBy(b, k)) = Mark(b)
    BY <2>6, <2>7 DEF Here, Mark
  <2>. QED
    BY <1>1, <1>3, <2>4, <2>5, <2>8
<1>4. b.ref < k \/ b.ref >= k
  BY <1>1
<1>. QED
  BY <1>2, <1>3, <1>4, Zenon

(* One reference fewer.                                                    *)
LEMMA DroppedOne ==
    ASSUME NEW b \in Block
    PROVE  /\ Dropped(b) \in Block
           /\ b.ref = 0 => Here(Dropped(b)) = 0
           /\ b.ref > 0 => /\ Here(Dropped(b)) = Here(b)
                           /\ Dropped(b).ref = b.ref - 1
                           /\ Mark(Dropped(b)) = Mark(b)
<1>1. b.ref \in Nat
  BY DEF Block
<1>2. Dropped(b) = DroppedBy(b, 1)
  BY <1>1 DEF Dropped, DroppedBy
<1>3. /\ DroppedBy(b, 1) \in Block
      /\ b.ref < 1 => Here(DroppedBy(b, 1)) = 0
      /\ b.ref >= 1 => /\ Here(DroppedBy(b, 1)) = Here(b)
                       /\ DroppedBy(b, 1).ref = b.ref - 1
                       /\ Mark(DroppedBy(b, 1)) = Mark(b)
  BY DroppedFacts
<1>. QED
  BY <1>1, <1>2, <1>3

-----------------------------------------------------------------------------
(* What the operators of MemControl do to one block of a table; all other  *)
(* blocks stay as they are, and a call on an unbound object changes        *)
(* nothing.                                                                *)
LEMMA BindFacts ==
    ASSUME NEW m \in Tables, NEW o \in Shared
    PROVE  /\ Bind(m, o) \in Tables
           /\ \A p \in Shared : p # o => Bind(m, o)[p] = m[p]
           /\ Here(m[o]) = 0 => Bind(m, o)[o] = Fresh
  BY FreshFacts DEF Tables, Bind, Here

(* acore_mem_add_ref counts one reference more.                            *)
LEMMA AddRefFacts ==
    ASSUME NEW m \in Tables, NEW o \in Shared
    PROVE  /\ AddRef(m, o) \in Tables
           /\ \A p \in Shared : p # o => AddRef(m, o)[p] = m[p]
           /\ Here(AddRef(m, o)[o]) = Here(m[o])
           /\ Mark(AddRef(m, o)[o]) = Mark(m[o])
           /\ AddRef(m, o)[o].ref = m[o].ref + Here(m[o])
<1>1. m[o] \in Block /\ m[o].ref \in Nat
  BY TableFacts
<1>2. CASE Here(m[o]) = 0
  <2>1. AddRef(m, o) = m
    BY <1>2 DEF AddRef, Here
  <2>. QED
    BY <1>1, <1>2, <2>1
<1>3. CASE Here(m[o]) = 1
  <2>. DEFINE b == [m[o] EXCEPT !.ref = m[o].ref + 1]
  <2>1. AddRef(m, o) = [m EXCEPT ![o] = b]
    BY <1>3 DEF AddRef, Here
  <2>2. b \in Block
    BY <1>1 DEF Block
  <2>3. b.ref = m[o].ref + 1
    BY <1>1 DEF Block
  <2>4. b.bound = m[o].bound
    BY <1>1 DEF Block
  <2>5. b.des = m[o].des
    BY <1>1 DEF Block
  <2>6. Here(b) = Here(m[o]) /\ Mark(b) = Mark(m[o])
    BY <2>4, <2>5 DEF Here, Mark
  <2>. HIDE DEF b
  <2>7. /\ AddRef(m, o) \in Tables /\ AddRef(m, o)[o] = b
        /\ \A p \in Shared : p # o => AddRef(m, o)[p] = m[p]
    BY <2>1, <2>2 DEF Tables
  <2>. QED
    BY <1>3, <2>3, <2>6, <2>7
<1>. QED
  BY <1>2, <1>3, TableFacts

(* acore_mem_dec_ref drops one reference of a bound block.                 *)
LEMMA DecRefFacts ==
    ASSUME NEW m \in Tables, NEW o \in Shared
    PROVE  /\ DecRef(m, o) \in Tables
           /\ \A p \in Shared : p # o => DecRef(m, o)[p] = m[p]
           /\ Here(DecRef(m, o)[o]) = IF m[o].ref = 0 THEN 0 ELSE Here(m[o])
           /\ Here(DecRef(m, o)[o]) = 1 => /\ DecRef(m, o)[o].ref = m[o].ref - 1
                                           /\ Mark(DecRef(m, o)[o]) = Mark(m[o])
<1>1. m[o] \in Block /\ m[o].ref \in Nat
  BY TableFacts
<1>2. /\ Dropped(m[o]) \in Block
      /\ m[o].ref = 0 => Here(Dropped(m[o])) = 0
      /\ m[o].ref > 0 => /\ Here(Dropped(m[o])) = Here(m[o])
                         /\ Dropped(m[o]).ref = m[o].ref - 1
                         /\ Mark(Dropped(m[o])) = Mark(m[o])
  BY <1>1, DroppedOne
<1>3. CASE Here(m[o]) = 0
  <2>1. DecRef(m, o) = m
    BY <1>3 DEF DecRef, Here
  <2>. QED
    BY <1>3, <2>1
<1>4. CASE Here(m[o]) = 1
  <2>1. DecRef(m, o) = [m EXCEPT ![o] = Dropped(m[o])]
    BY <1>4 DEF DecRef, Here
  <2>2. /\ DecRef(m, o) \in Tables /\ DecRef(m, o)[o] = Dropped(m[o])
        /\ \A p \in Shared : p # o => DecRef(m, o)[p] = m[p]
    BY <1>2, <2>1 DEF Tables
  <2>. QED
    BY <1>1, <1>2, <1>4, <2>2
<1>. QED
  BY <1>3, <1>4, TableFacts

(* acore_mem_mask_destroy marks an available block and drops the reference *)
(* of its owner.                                                           *)
LEMMA MaskDestroyFacts ==
    ASSUME NEW m \in Tables, NEW o \in Shared
    PROVE  /\ MaskDestroy(m, o) \in Tables
           /\ \A p \in Shared : p # o => MaskDestroy(m, o)[p] = m[p]
           /\ Here(m[o]) = 0 \/ Mark(m[o]) = 1 => MaskDestroy(m, o) = m
           /\ Here(m[o]) = 1 /\ Mark(m[o]) = 0 =>
                /\ Here(MaskDestroy(m, o)[o]) = IF m[o].ref = 0 THEN 0 ELSE 1
                /\ Here(MaskDestroy(m, o)[o]) = 1 =>
                     /\ MaskDestroy(m, o)[o].ref = m[o].ref - 1
                     /\ Mark(MaskDestroy(m, o)[o]) = 1
<1>1. m[o] \in Block /\ m[o].ref \in Nat
  BY TableFacts
<1>2. CASE Here(m[o]) = 0 \/ Mark(m[o]) = 1
  <2>1. MaskDestroy(m, o) = m
    BY <1>2 DEF MaskDestroy, IsAvailable, Here, Mark
  <2>. QED
    BY <1>2, <2>1
<1>3. CASE Here(m[o]) = 1 /\ Mark(m[o]) = 0
  <2>. DEFINE b == [m[o] EXCEPT !.des = TRUE]
  <2>1. MaskDestroy(m, o) = [m EXCEPT ![o] = Dropped(b)]
    BY <1>3 DEF MaskDestroy, IsAvailable, Here, Mark
  <2>2. b \in Block
    BY <1>1 DEF Block
  <2>3. b.ref = m[o].ref
    BY <1>1 DEF Block
  <2>4. b.bound = m[o].bound
    BY <1>1 DEF Block
  <2>5. b.des
    BY <1>1 DEF Block
  <2>6. Here(b) = 1 /\ Mark(b) = 1
    BY <1>3, <2>4, <2>5 DEF Here, Mark
  <2>. HIDE DEF b
  <2>7. /\ Dropped(b) \in Block
        /\ b.ref = 0 => Here(Dropped(b)) = 0
        /\ b.ref > 0 => /\ Here(Dropped(b)) = Here(b)
                        /\ Dropped(b).ref = b.ref - 1
                        /\ Mark(Dropped(b)) = Mark(b)
    BY <2>2, DroppedOne
  <2>8. /\ MaskDestroy(m, o) \in Tables /\ MaskDestroy(m, o)[o] = Dropped(b)
        /\ \A p \in Shared : p # o => MaskDestroy(m, o)[p] = m[p]
    BY <2>1, <2>7 DEF Tables
  <2>. QED
    BY <1>1, <1>3, <2>3, <2>6, <2>7, <2>8
<1>. QED
  BY <1>2, <1>3, TableFacts

(* k releases of the wav module at once: it is there with k references     *)
(* fewer, or gone.                                                         *)
LEMMA DropWavFacts ==
    ASSUME NEW m \in Tables, NEW k \in Nat
    PROVE  /\ DropWav(m, k) \in Tables
           /\ \A o \in Shared : o # "wav" => DropWav(m, k)[o] = m[o]
           /\ Here(DropWav(m, k)["wav"]) = IF m["wav"].ref < k THEN 0 ELSE Here(m["wav"])
           /\ Here(DropWav(m, k)["wav"]) = 1 =>
                /\ DropWav(m, k)["wav"].ref = m["wav"].ref - k
                /\ Mark(DropWav(m, k)["wav"]) = Mark(m["wav"])
<1>0. "wav" \in Shared
  BY DEF Shared
<1>1. m["wav"] \in Block /\ m["wav"].ref \in Nat
  BY <1>0, TableFacts
<1>2. /\ DroppedBy(m["wav"], k) \in Block
      /\ m["wav"].ref < k => Here(DroppedBy(m["wav"], k)) = 0
      /\ m["wav"].ref >= k => /\ Here(DroppedBy(m["wav"], k)) = Here(m["wav"])
                              /\ DroppedBy(m["wav"], k).ref = m["wav"].ref - k
                              /\ Mark(DroppedBy(m["wav"], k)) = Mark(m["wav"])
  BY <1>1, DroppedFacts
<1>3. CASE Here(m["wav"]) = 0
  <2>1. DropWav(m, k) = m
    BY <1>3 DEF DropWav, Here
  <2>. QED
    BY <1>3, <2>1
<1>4. CASE Here(m["wav"]) = 1
  <2>1. DropWav(m, k) = [m EXCEPT !["wav"] = DroppedBy(m["wav"], k)]
    BY <1>4 DEF DropWav, Here
  <2>2. /\ DropWav(m, k) \in Tables /\ DropWav(m, k)["wav"] = DroppedBy(m["wav"], k)
        /\ \A o \in Shared : o # "wav" => DropWav(m, k)[o] = m[o]
    BY <1>0, <1>2, <2>1 DEF Tables
  <2>. QED
    BY <1>1, <1>2, <1>4, <2>2
<1>. QED
  BY <1>0, <1>3, <1>4, TableFacts

-----------------------------------------------------------------------------
(* The invariant.  Types are kept because the calls of the API are counted *)
(* against MaxApi.                                                         *)
Types == TypeOK /\ api.open + api.failed + api.cleared <= MaxApi

(* The parts a port has by its phase; each has its owner's reference only, *)
(* so that marking it releases it.                                         *)
Holds(p) ==
    IF phase[p] \in {"made", "open"}
    THEN IF dir[p] = "full" THEN Part ELSE {dir[p]}
    ELSE IF phase[p] = "half" THEN {"in"} ELSE {}

Only(X) == [o \in Part |-> IF o \in X THEN Fresh ELSE Unbound]

Whole ==
    \A p \in Port : /\ phase[p] = "half" => dir[p] = "full"
                    /\ part[p] = Only(Holds(p))

(* The ports that hold the factory, and those that hold the media system.  *)
FacUsers == In({"open", "destroyed"})
MediaUsers == In(InUse)

(* A refused factory, as a number.                                         *)
Refusal == IF facNull THEN 1 ELSE 0

(* The account of each counter; the module's has one reference for the     *)
(* factory, there or refused, and never both.                              *)
WavExact ==
    Here(mem["wav"]) = 1 =>
        mem["wav"].ref = 1 + Refusal + Here(mem["fac"]) + Cardinality(Parts)
                           + api.failed - api.cleared - Mark(mem["wav"])
FacExact ==
    /\ Here(mem["fac"]) = 1 => mem["fac"].ref = FacUsers - Mark(mem["fac"])
    /\ FacUsers > 0 => Here(mem["fac"]) = 1
SysExact ==
    /\ Here(mem["msys"]) = 1 => mem["msys"].ref = MediaUsers - Mark(mem["msys"])
    /\ MediaUsers > 0 => Here(mem["msys"]) = 1
Refused == Refusal + Here(mem["fac"]) <= 1

(* Before wav_module_init nothing of the module is there.                  *)
Untouched ==
    module = "new" =>
        /\ Here(mem["wav"]) = 0 /\ Here(mem["fac"]) = 0 /\ Here(mem["api"]) = 0
        /\ Refusal = 0
        /\ api.open = 0 /\ api.failed = 0 /\ api.cleared = 0
        /\ \A p \in Port : phase[p] = "none"

Open(o) == Here(mem[o]) = 1 /\ Mark(mem[o]) = 0

(* While a port is made, nothing that it is about to refer to is closed.   *)
MadeInTime ==
    (\E p \in Port : phase[p] \in Creating) => Open("msys") /\ Open("fac")

(* Only the API can take the module away early, by clearing more ports     *)
(* than have failed.                                                       *)
FreedEarly == Here(mem["wav"]) = 0 => module = "new" \/ api.cleared > api.failed

(* Closing the module closes its factory, and the media system is closed   *)
(* when the module is.                                                     *)
Closing ==
    /\ module = "closed" => ~Open("fac")
    /\ MediaLast /\ ~Open("msys") => ~Open("fac")

Exact == WavExact /\ FacExact /\ SysExact /\ Refused

IInv ==
    /\ Types /\ Whole /\ Exact
    /\ Untouched /\ MadeInTime /\ FreedEarly /\ Closing

-----------------------------------------------------------------------------
(* Sets of ports and of parts can be counted.                              *)
LEMMA CountFacts ==
    /\ IsFiniteSet(Part)
    /\ \A S : IsFiniteSet({p \in Port : phase[p] \in S}) /\ In(S) \in Nat
    /\ \A S : In(S) = 0 <=> \A p \in Port : phase[p] \notin S
    /\ IsFiniteSet(Parts) /\ Cardinality(Parts) \in Nat
<1>1. IsFiniteSet(Part)
  <2>1. Part = ({"in"} \cup {"out"}) \cup {"main"}
    BY DEF Part
  <2>. QED
    BY <2>1, FS_Singleton, FS_AddElement
<1>2. ASSUME NEW S
      PROVE  /\ IsFiniteSet({p \in Port : phase[p] \in S}) /\ In(S) \in Nat
             /\ In(S) = 0 <=> \A p \in Port : phase[p] \notin S
  <2>1. IsFiniteSet({p \in Port : phase[p] \in S})
    BY MediaAssumption, FS_Subset
  <2>2. In(S) = 0 <=> {p \in Port : phase[p] \in S} = {}
    BY <2>1, FS_EmptySet DEF In
  <2>. QED
    BY <2>1, <2>2, FS_CardinalityType DEF In
<1>3. IsFiniteSet(Parts)
  <2>1. IsFiniteSet(Port \X Part)
    BY <1>1, MediaAssumption, FS_Product
  <2>2. Parts \in SUBSET (Port \X Part)
    BY DEF Parts
  <2>. QED
    BY <2>1, <2>2, FS_Subset
<1>. QED
  BY <1>1, <1>2, <1>3, FS_CardinalityType

(* A port that goes to another phase leaves the count of the old one and   *)
(* joins that of the new one.                                              *)
LEMMA GotoCounts ==
    ASSUME TypeOK, NEW p \in Port, NEW from, NEW to, Goto(p, from, to), NEW S
    PROVE  In(S)' = In(S) - (IF from \in S THEN 1 ELSE 0) + (IF to \in S THEN 1 ELSE 0)
<1> DEFINE now == {q \in Port : phase[q] \in S}
           then == {q \in Port : phase'[q] \in S}
           rest == now \ {p}
<1>1. phase[p] = from /\ phase'[p] = to /\ \A q \in Port \ {p} : phase'[q] = phase[q]
  BY DEF Goto, TypeOK
<1>2. IsFiniteSet(now) /\ Cardinality(now) \in Nat /\ In(S) = Cardinality(now)
  BY CountFacts DEF In
<1>3. then = IF to \in S THEN rest \cup {p} ELSE rest
  BY <1>1
<1>6. In(S)' = Cardinality(then)
  BY DEF In
<1>7. (p \in now <=> from \in S) /\ p \notin rest
  BY <1>1
<1>. HIDE DEF now, then
<1>4. IsFiniteSet(rest) /\ Cardinality(rest) = Cardinality(now) - (IF from \in S THEN 1 ELSE 0)
  BY <1>2, <1>7, FS_RemoveElement
<1>. HIDE DEF rest
<1>5. Cardinality(rest \cup {p}) = Cardinality(rest) + 1
  BY <1>4, <1>7, FS_AddElement
<1>. QED
  BY <1>2, <1>3, <1>4, <1>5, <1>6

(* The parts of one port are counted apart from those of the others.       *)
LEMMA CountApart ==
    ASSUME NEW A, NEW X, NEW p, IsFiniteSet(A), IsFiniteSet(X), A \cap ({p} \X X) = {}
    PROVE  /\ Cardinality(A \cup ({p} \X X)) = Cardinality(A) + Cardinality(X)
           /\ Cardinality(A) \in Nat /\ Cardinality(X) \in Nat
<1>1. IsFiniteSet({p}) /\ Cardinality({p}) = 1
  BY FS_Singleton
<1>2. Cardinality(A) \in Nat /\ Cardinality(X) \in Nat
  BY FS_CardinalityType
<1>3. IsFiniteSet({p} \X X) /\ Cardinality({p} \X X) = Cardinality({p}) * Cardinality(X)
  BY <1>1, FS_Product
<1>4. Cardinality({p} \X X) = Cardinality(X)
  BY <1>1, <1>2, <1>3
<1>5. Cardinality(A \cap ({p} \X X)) = 0
  BY FS_EmptySet
<1>6. Cardinality(A \cup ({p} \X X))
        = Cardinality(A) + Cardinality({p} \X X) - Cardinality(A \cap ({p} \X X))
  BY <1>3, FS_Union
<1>. QED
  BY <1>2, <1>4, <1>5, <1>6

(* When one port changes, the number of parts changes by that port's.      *)
LEMMA PartCounts ==
    ASSUME NEW p \in Port, \A q \in Port \ {p} : part'[q] = part[q]
    PROVE  /\ Cardinality(Live(p)) \in Nat /\ Cardinality(Live(p)') \in Nat
           /\ Cardinality(Parts) \in Nat /\ Cardinality(Parts') \in Nat
           /\ Cardinality(Parts') + Cardinality(Live(p))
                = Cardinality(Parts) + Cardinality(Live(p)')
<1>1. PICK others \in SUBSET (Port \X Part) : others = {x \in Parts : x[1] # p}
  BY DEF Parts
<1>2. /\ Parts = others \cup ({p} \X Live(p)) /\ others \cap ({p} \X Live(p)) = {}
      /\ Live(p) \in SUBSET Part
  BY <1>1 DEF Parts, Live
<1>3. /\ Parts' = others \cup ({p} \X Live(p)') /\ others \cap ({p} \X Live(p)') = {}
      /\ Live(p)' \in SUBSET Part
  BY <1>1 DEF Parts, Live
<1>4. IsFiniteSet(others)
  BY <1>1, CountFacts, FS_Subset
<1>5. IsFiniteSet(Live(p)) /\ IsFiniteSet(Live(p)')
  BY <1>2, <1>3, CountFacts, FS_Subset
<1>6. /\ Cardinality(others \cup ({p} \X Live(p))) = Cardinality(others) + Cardinality(Live(p))
      /\ Cardinality(others) \in Nat /\ Cardinality(Live(p)) \in Nat
  BY <1>2, <1>4, <1>5, CountApart
<1>7. /\ Cardinality(others \cup ({p} \X Live(p)')) = Cardinality(others) + Cardinality(Live(p)')
      /\ Cardinality(Live(p)') \in Nat
  BY <1>3, <1>4, <1>5, CountApart
<1>8. /\ Cardinality(Parts) = Cardinality(others) + Cardinality(Live(p))
      /\ Cardinality(Parts') = Cardinality(others) + Cardinality(Live(p)')
  BY <1>2, <1>3, <1>6, <1>7
<1>. QED
  BY <1>6, <1>7, <1>8

(* How many parts a port has.                                              *)
LEMMA FewParts ==
    /\ Cardinality({}) = 0 /\ Cardinality({"in"}) = 1 /\ Cardinality({"out"}) = 1
    /\ Cardinality(Part) = 3
<1>1. Part = ({"in"} \cup {"out"}) \cup {"main"}
  BY DEF Part
<1>2. IsFiniteSet({"in"}) /\ Cardinality({"in"}) = 1
  BY FS_Singleton
<1>3. IsFiniteSet({"in"} \cup {"out"}) /\ Cardinality({"in"} \cup {"out"}) = 2
  BY <1>2, FS_AddElement
<1>4. Cardinality(({"in"} \cup {"out"}) \cup {"main"}) = 3
  BY <1>3, FS_AddElement
<1>. QED
  BY <1>1, <1>2, <1>4, FS_EmptySet, FS_Singleton

-----------------------------------------------------------------------------
(* The shared objects and the counts, as the lemmas read them.             *)
LEMMA Names == "wav" \in Shared /\ "fac" \in Shared /\ "msys" \in Shared /\ "api" \in Shared
  BY DEF Shared

LEMMA BlocksOf ==
    ASSUME NEW m \in Tables
    PROVE  /\ Here(m["wav"]) \in {0, 1} /\ Mark(m["wav"]) \in {0, 1} /\ m["wav"].ref \in Nat
           /\ Here(m["fac"]) \in {0, 1} /\ Mark(m["fac"]) \in {0, 1} /\ m["fac"].ref \in Nat
           /\ Here(m["msys"]) \in {0, 1} /\ Mark(m["msys"]) \in {0, 1} /\ m["msys"].ref \in Nat
  BY TableFacts, Names

LEMMA Reading ==
    ASSUME IInv
    PROVE  /\ mem \in Tables
           /\ MaxApi \in Nat /\ api.open \in Nat /\ api.failed \in Nat /\ api.cleared \in Nat
           /\ FacUsers \in Nat /\ MediaUsers \in Nat /\ Cardinality(Parts) \in Nat
           /\ Refusal \in {0, 1}
<1>1. mem \in Tables
  BY DEF IInv, Types, TypeOK, Tables
<1>2. MaxApi \in Nat /\ api.open \in Nat /\ api.failed \in Nat /\ api.cleared \in Nat
  BY MediaAssumption DEF IInv, Types, TypeOK
<1>3. FacUsers \in Nat /\ MediaUsers \in Nat /\ Cardinality(Parts) \in Nat
  BY CountFacts DEF FacUsers, MediaUsers
<1>4. Refusal \in {0, 1}
  BY DEF Refusal
<1>. QED
  BY <1>1, <1>2, <1>3, <1>4

(* What holds of the ports is kept by a call that leaves them alone.       *)
LEMMA PortsKept ==
    ASSUME Whole, UNCHANGED <<part, phase, dir>>
    PROVE  /\ Whole' /\ Cardinality(Parts') = Cardinality(Parts)
           /\ FacUsers' = FacUsers /\ MediaUsers' = MediaUsers
<1>1. \A p \in Port : Live(p)' = Live(p) /\ Holds(p)' = Holds(p)
  BY DEF Live, Holds
<1>2. Parts' = Parts
  BY <1>1 DEF Parts
<1>3. \A S : In(S)' = In(S)
  BY DEF In
<1>. QED
  BY <1>1, <1>2, <1>3 DEF Whole, FacUsers, MediaUsers

-----------------------------------------------------------------------------
(* The tables of the ports.                                                *)
LEMMA HoldsParts ==
    ASSUME TypeOK, NEW p \in Port
    PROVE  Holds(p) \in SUBSET Part
<1>1. dir[p] \in {"in", "out", "full"}
  BY DEF TypeOK, Dir
<1>. QED
  BY <1>1 DEF Holds, Part

LEMMA OnlyFacts ==
    ASSUME NEW X \in SUBSET Part
    PROVE  /\ Only(X) \in [Part -> Block]
           /\ \A o \in Part : Only(X)[o].bound <=> o \in X
<1>1. \A o \in Part : Only(X)[o] = IF o \in X THEN Fresh ELSE Unbound
  BY DEF Only
<1>2. Fresh.bound /\ ~Unbound.bound
  BY DEF Fresh, Unbound
<1>3. \A o \in Part : Only(X)[o].bound <=> o \in X
  BY <1>1, <1>2
<1>. QED
  BY <1>3, FreshFacts DEF Only

(* Binding a part adds it, and marking it or dropping its reference takes  *)
(* it away.                                                                *)
LEMMA OnlyChanges ==
    ASSUME NEW X \in SUBSET Part, NEW o \in Part
    PROVE  /\ Bind(Only(X), o) = Only(X \cup {o})
           /\ MaskDestroy(Only(X), o) = Only(X \ {o})
           /\ DecRef(Only(X), o) = Only(X \ {o})
<1>1. Dropped(Fresh) = Unbound /\ Dropped([Fresh EXCEPT !.des = TRUE]) = Unbound
  BY DEF Dropped, Fresh
<1>2. /\ Only(X)[o] = IF o \in X THEN Fresh ELSE Unbound
      /\ Fresh.bound /\ ~Fresh.des /\ ~Unbound.bound
  BY DEF Only, Fresh, Unbound
<1>3. Bind(Only(X), o) = Only(X \cup {o})
  BY <1>2 DEF Bind, Only
<1>4. MaskDestroy(Only(X), o) = Only(X \ {o})
  BY <1>1, <1>2 DEF MaskDestroy, IsAvailable, Only
<1>5. DecRef(Only(X), o) = Only(X \ {o})
  BY <1>1, <1>2 DEF DecRef, Only
<1>. QED
  BY <1>3, <1>4, <1>5

(* A part is there when the port holds it.                                 *)
LEMMA LiveIsHeld ==
    ASSUME NEW p \in Port, TypeOK, Whole
    PROVE  Live(p) = Holds(p)
<1>1. part[p] = Only(Holds(p)) /\ Holds(p) \in SUBSET Part
  BY HoldsParts DEF Whole
<1>2. \A o \in Part : part[p][o].bound <=> o \in Holds(p)
  BY <1>1, OnlyFacts
<1>. QED
  BY <1>1, <1>2 DEF Live

(* Destroying a whole port, or the one half of it that was made, leaves    *)
(* nothing of it, and gives back one reference for each part.              *)
LEMMA PortGone ==
    ASSUME NEW o \in Part, NEW X, X = {} \/ X = {o} \/ (X = Part /\ o = "main")
    PROVE  /\ DestroyPart(Only(X), o) = Only({})
           /\ PartsGone(Only(X), Only({})) = Cardinality(X)
<1>1. X \in SUBSET Part /\ "in" \in Part /\ "out" \in Part /\ "main" \in Part
  BY DEF Part
<1>2. /\ \A a \in Part : Only(X)[a].bound <=> a \in X
      /\ \A a \in Part : ~Only({})[a].bound
      /\ MaskDestroy(Only(X), o) = Only(X \ {o})
  <2>1. \A a \in Part : Only(X)[a].bound <=> a \in X
    BY <1>1, OnlyFacts
  <2>2. \A a \in Part : Only({})[a].bound <=> a \in {}
    <3>1. {} \in SUBSET Part
      OBVIOUS
    <3>. QED
      BY <3>1, OnlyFacts
  <2>3. MaskDestroy(Only(X), o) = Only(X \ {o})
    BY <1>1, OnlyChanges
  <2>. QED
    BY <2>1, <2>2, <2>3
<1>3. PartsGone(Only(X), Only({})) = Cardinality(X)
  <2>1. {a \in Part : Cleared(Only(X), Only({}), a)} = X
    BY <1>1, <1>2 DEF Cleared
  <2>. QED
    BY <2>1 DEF PartsGone
<1>4. DestroyPart(Only(X), o) = Only({})
  <2>1. CASE X = Part /\ o = "main"
    <3>1. Cleared(Only(X), Only(X \ {o}), "main")
      <4>1. X \ {o} \in SUBSET Part
        BY <1>1
      <4>2. ~Only(X \ {o})["main"].bound
        BY <1>1, <2>1, <4>1, OnlyFacts
      <4>. QED
        BY <1>1, <1>2, <2>1, <4>2 DEF Cleared
    <3>2. DestroyPart(Only(X), o) = DecRef(DecRef(Only(X \ {o}), "in"), "out")
      BY <1>2, <3>1 DEF DestroyPart
    <3>3. DecRef(Only(X \ {o}), "in") = Only((X \ {o}) \ {"in"})
      BY <1>1, OnlyChanges
    <3>4. DecRef(Only((X \ {o}) \ {"in"}), "out") = Only(((X \ {o}) \ {"in"}) \ {"out"})
      BY <1>1, OnlyChanges
    <3>5. ((X \ {o}) \ {"in"}) \ {"out"} = {}
      BY <2>1 DEF Part
    <3>. QED
      BY <3>2, <3>3, <3>4, <3>5
  <2>2. CASE X = {} \/ (X = {o} /\ o # "main")
    <3>1. X \ {o} = {}
      BY <2>2
    <3>2. ~Only(X)["main"].bound
      BY <1>1, <1>2, <2>2
    <3>. QED
      BY <1>2, <3>1, <3>2 DEF DestroyPart, Cleared
  <2>3. CASE X = {o} /\ o = "main"
    <3>1. X \ {o} = {}
      BY <2>3
    <3>2. DecRef(Only({}), "in") = Only({}) /\ DecRef(Only({}), "out") = Only({})
      <4>1. {} \in SUBSET Part /\ {} \ {"in"} = {} /\ {} \ {"out"} = {}
        OBVIOUS
      <4>. QED
        BY <1>1, <4>1, OnlyChanges
    <3>. QED
      BY <1>2, <3>1, <3>2 DEF DestroyPart
  <2>. QED
    BY <2>1, <2>2, <2>3
<1>. QED
  BY <1>3, <1>4

(* A port that goes to another phase with the parts it holds there.        *)
LEMMA PortStep ==
    ASSUME IInv, NEW p \in Port, NEW from, NEW to \in {"none"} \cup Creating \cup InUse,
           Goto(p, from, to), dir' \in [Port -> Dir], \A q \in Port \ {p} : dir'[q] = dir[q],
           part' = [part EXCEPT ![p] = Only(Holds(p)')],
           to = "half" => dir'[p] = "full"
    PROVE  /\ Whole'
           /\ part' \in [Port -> [Part -> Block]]
           /\ phase' \in [Port -> {"none"} \cup Creating \cup InUse]
           /\ phase[p] = from /\ phase'[p] = to
           /\ \A q \in Port \ {p} : phase'[q] = phase[q]
           /\ Cardinality(Parts') + Cardinality(Holds(p))
                = Cardinality(Parts) + Cardinality(Holds(p)')
           /\ FacUsers' = FacUsers - (IF from \in {"open", "destroyed"} THEN 1 ELSE 0)
                                   + (IF to \in {"open", "destroyed"} THEN 1 ELSE 0)
           /\ MediaUsers' = MediaUsers - (IF from \in InUse THEN 1 ELSE 0)
                                       + (IF to \in InUse THEN 1 ELSE 0)
           /\ Cardinality(Parts') \in Nat
<1>1. TypeOK /\ Whole
  BY DEF IInv, Types
<1>2. /\ phase' \in [Port -> {"none"} \cup Creating \cup InUse]
      /\ phase[p] = from /\ phase'[p] = to
      /\ \A q \in Port \ {p} : phase'[q] = phase[q]
  BY <1>1 DEF Goto, TypeOK
<1>3. Holds(p) \in SUBSET Part /\ Holds(p)' \in SUBSET Part
  <2>1. dir'[p] \in {"in", "out", "full"}
    BY DEF Dir
  <2>. QED
    BY <1>1, <2>1, HoldsParts DEF Holds, Part
<1>4. \A q \in Port \ {p} : Holds(q)' = Holds(q)
  BY <1>2 DEF Holds
<1>5. \A q \in Port \ {p} : part'[q] = part[q]
  BY <1>1 DEF TypeOK
<1>6. part'[p] = Only(Holds(p)')
  BY <1>1 DEF TypeOK
<1>7. part' \in [Port -> [Part -> Block]]
  BY <1>1, <1>3, OnlyFacts DEF TypeOK
<1>8. Whole'
  <2>. SUFFICES ASSUME NEW q \in Port
                PROVE  /\ phase'[q] = "half" => dir'[q] = "full"
                       /\ part'[q] = Only(Holds(q)')
    BY DEF Whole, Only
  <2>. QED
    BY <1>1, <1>2, <1>4, <1>5, <1>6 DEF Whole
<1>9. Live(p) = Holds(p) /\ Live(p)' = Holds(p)'
  <2>1. \A o \in Part : part'[p][o].bound <=> o \in Holds(p)'
    BY <1>3, <1>6, OnlyFacts
  <2>. QED
    BY <1>1, <1>3, <2>1, LiveIsHeld DEF Live
<1>10. /\ Cardinality(Parts') \in Nat
       /\ Cardinality(Parts') + Cardinality(Live(p))
            = Cardinality(Parts) + Cardinality(Live(p)')
  BY <1>5, PartCounts
<1>11. /\ FacUsers' = FacUsers - (IF from \in {"open", "destroyed"} THEN 1 ELSE 0)
                              + (IF to \in {"open", "destroyed"} THEN 1 ELSE 0)
       /\ MediaUsers' = MediaUsers - (IF from \in InUse THEN 1 ELSE 0)
                                   + (IF to \in InUse THEN 1 ELSE 0)
  BY <1>1, GotoCounts DEF FacUsers, MediaUsers
<1>. QED
  BY <1>2, <1>7, <1>8, <1>9, <1>10, <1>11

-----------------------------------------------------------------------------
(* Nothing is there at the start but the media system.                     *)
LEMMA InitIInv ==
    ASSUME Init
    PROVE  IInv
<1>1. /\ mem \in Tables /\ mem["msys"] = Fresh
      /\ mem["wav"] = Unbound /\ mem["fac"] = Unbound /\ mem["api"] = Unbound
  BY FreshFacts DEF Init, EmptyTable, Shared, Tables
<1>2. /\ \A p \in Port : phase[p] = "none" /\ dir[p] = "in"
      /\ phase \in [Port -> {"none"}] /\ dir \in [Port -> {"in"}]
      /\ module = "new" /\ facNull = FALSE
      /\ api = [open |-> 0, failed |-> 0, cleared |-> 0]
  BY DEF Init
<1>3. \A p \in Port : Holds(p) = {}
  BY <1>2 DEF Holds
<1>4. \A p \in Port : part[p] = Only({})
  BY DEF Init, EmptyTable, Only
<1>5. part \in [Port -> [Part -> Block]]
  BY FreshFacts DEF Init, EmptyTable
<1>6. Types
  <2>1. 0 \in 0..MaxApi /\ MaxApi \in Nat
    BY MediaAssumption
  <2>2. api \in [open : 0..MaxApi, failed : 0..MaxApi, cleared : 0..MaxApi]
    BY <1>2, <2>1
  <2>3. api.open + api.failed + api.cleared <= MaxApi
    BY <1>2, <2>1
  <2>4. phase \in [Port -> {"none"} \cup Creating \cup InUse] /\ dir \in [Port -> Dir]
    BY <1>2 DEF Dir
  <2>5. mem \in [Shared -> Block]
    BY <1>1 DEF Tables
  <2>. QED
    BY <1>2, <1>5, <2>2, <2>3, <2>4, <2>5 DEF Types, TypeOK
<1>7. Whole
  BY <1>2, <1>3, <1>4 DEF Whole
<1>8. FacUsers = 0 /\ MediaUsers = 0
  <2>1. \A S : "none" \notin S => In(S) = 0
    BY <1>2, CountFacts
  <2>2. "none" \notin {"open", "destroyed"} /\ "none" \notin InUse
    BY DEF InUse
  <2>. QED
    BY <2>1, <2>2 DEF FacUsers, MediaUsers
<1>9. /\ Here(mem["msys"]) = 1 /\ Mark(mem["msys"]) = 0 /\ mem["msys"].ref = 0
      /\ Here(mem["wav"]) = 0 /\ Here(mem["fac"]) = 0 /\ Here(mem["api"]) = 0
      /\ Refusal = 0
  BY <1>1, <1>2, FreshFacts DEF Refusal
<1>10. Exact
  BY <1>8, <1>9 DEF Exact, WavExact, FacExact, SysExact, Refused
<1>11. Untouched /\ MadeInTime /\ FreedEarly /\ Closing
  BY <1>2, <1>9 DEF Untouched, MadeInTime, FreedEarly, Closing, Creating, Open
<1>. QED
  BY <1>6, <1>7, <1>10, <1>11 DEF IInv

(* wav_module_init: the two references of the module on itself.            *)
LEMMA WavModuleInitKeepsIInv ==
    ASSUME IInv, WavModuleInit
    PROVE  IInv'
<1>1. /\ module = "new" /\ module' = "running" /\ UNCHANGED <<part, phase, dir, api>>
      /\ facNull' = ~IsAvailable(mem, "msys")
  BY DEF WavModuleInit
<1>2. /\ Here(mem["wav"]) = 0 /\ Here(mem["fac"]) = 0 /\ Here(mem["api"]) = 0
      /\ Refusal = 0
      /\ api.open = 0 /\ api.failed = 0 /\ api.cleared = 0
      /\ \A p \in Port : phase[p] = "none"
  BY <1>1 DEF IInv, Untouched
<1>3. Refusal' = IF Open("msys") THEN 0 ELSE 1
  BY <1>1, Reading, Names, TableFacts DEF Refusal, Open
<1>4. /\ mem' \in Tables /\ mem'["msys"] = mem["msys"]
      /\ Here(mem'["wav"]) = 1 /\ Mark(mem'["wav"]) = 0 /\ mem'["wav"].ref = 2
      /\ Refusal' = 1 => mem'["fac"] = mem["fac"]
      /\ Refusal' = 0 => mem'["fac"] = Fresh
  <2>. DEFINE a == Bind(mem, "wav")
              b == AddRef(a, "wav")
              c == Bind(b, "api")
              d == IF facNull' THEN c ELSE Bind(c, "fac")
  <2>1. mem' = AddRef(d, "wav")
    BY DEF WavModuleInit
  <2>2. /\ a \in Tables /\ a["wav"] = Fresh
        /\ a["fac"] = mem["fac"] /\ a["msys"] = mem["msys"]
    BY <1>2, Reading, Names, BindFacts
  <2>. HIDE DEF a
  <2>3. /\ b \in Tables /\ b["fac"] = mem["fac"] /\ b["msys"] = mem["msys"]
        /\ Here(b["wav"]) = 1 /\ Mark(b["wav"]) = 0 /\ b["wav"].ref = 1
    <3>1. /\ Here(b["wav"]) = Here(a["wav"]) /\ Mark(b["wav"]) = Mark(a["wav"])
          /\ b["wav"].ref = a["wav"].ref + Here(a["wav"])
      BY <2>2, Names, AddRefFacts
    <3>2. /\ Here(a["wav"]) = 1 /\ Mark(a["wav"]) = 0 /\ a["wav"].ref = 0
      BY <2>2, FreshFacts
    <3>3. b \in Tables /\ b["fac"] = a["fac"] /\ b["msys"] = a["msys"]
      BY <2>2, Names, AddRefFacts
    <3>. QED
      BY <2>2, <3>1, <3>2, <3>3
  <2>. HIDE DEF b
  <2>4. /\ c \in Tables /\ c["wav"] = b["wav"]
        /\ c["fac"] = mem["fac"] /\ c["msys"] = mem["msys"]
    BY <2>3, Names, BindFacts
  <2>. HIDE DEF c
  <2>5. /\ d \in Tables /\ d["wav"] = b["wav"] /\ d["msys"] = mem["msys"]
        /\ facNull' => d["fac"] = mem["fac"]
        /\ ~facNull' => d["fac"] = Fresh
    <3>1. CASE facNull'
      BY <2>4, <3>1
    <3>2. CASE ~facNull'
      <4>1. Here(c["fac"]) = 0 /\ d = Bind(c, "fac")
        BY <1>2, <2>4, <3>2
      <4>. QED
        BY <2>4, <3>2, <4>1, Names, BindFacts
    <3>. QED
      BY <3>1, <3>2
  <2>6. facNull' <=> Refusal' = 1
    BY DEF Refusal
  <2>. HIDE DEF d
  <2>7. mem' \in Tables /\ mem'["msys"] = d["msys"] /\ mem'["fac"] = d["fac"]
    BY <2>1, <2>5, Names, AddRefFacts
  <2>8. Here(mem'["wav"]) = 1 /\ Mark(mem'["wav"]) = 0 /\ mem'["wav"].ref = 2
    <3>1. /\ Here(mem'["wav"]) = Here(d["wav"]) /\ Mark(mem'["wav"]) = Mark(d["wav"])
          /\ mem'["wav"].ref = d["wav"].ref + Here(d["wav"])
      BY <2>1, <2>5, Names, AddRefFacts
    <3>. QED
      BY <2>3, <2>5, <3>1
  <2>. QED
    BY <1>3, <2>5, <2>6, <2>7, <2>8
<1>5. Cardinality(Parts) = 0
  <2>1. \A p \in Port : Live(p) = {}
    BY <1>2, LiveIsHeld DEF IInv, Types, Holds
  <2>2. Parts = {}
    BY <2>1 DEF Parts
  <2>. QED
    BY <2>2, FS_EmptySet
<1>6. /\ Whole' /\ Cardinality(Parts') = 0
      /\ FacUsers' = 0 /\ MediaUsers' = MediaUsers
  <2>1. FacUsers = 0
    BY <1>2, CountFacts DEF FacUsers
  <2>. QED
    BY <1>1, <1>5, <2>1, PortsKept DEF IInv
<1>7. Types'
  BY <1>1, <1>4 DEF IInv, Types, TypeOK, Tables
<1>8. Here(mem'["fac"]) = 1 - Refusal' /\ (Refusal' = 0 => Mark(mem'["fac"]) = 0 /\ mem'["fac"].ref = 0)
  BY <1>2, <1>3, <1>4, FreshFacts
<1>9. WavExact' /\ Refused'
  BY <1>1, <1>2, <1>3, <1>4, <1>6, <1>8 DEF WavExact, Refused
<1>10. FacExact'
  BY <1>3, <1>6, <1>8 DEF FacExact
<1>11. SysExact'
  BY <1>4, <1>6 DEF SysExact, IInv, Exact
<1>12. Untouched' /\ FreedEarly'
  BY <1>1, <1>4 DEF Untouched, FreedEarly
<1>13. MadeInTime' /\ Closing'
  BY <1>1, <1>2, <1>3, <1>4, <1>8 DEF MadeInTime, Closing, Open, Creating
<1>. QED
  BY <1>6, <1>7, <1>9, <1>10, <1>11, <1>12, <1>13 DEF IInv, Exact

-----------------------------------------------------------------------------
(* release_audio gives the reference of the factory back when the factory  *)
(* goes: the account of the module is exact again, and the module goes     *)
(* with it only when the API has cleared too much.                         *)
LEMMA FactoryReleased ==
    ASSUME IInv, NEW n \in Tables, \A o \in Shared : o # "fac" => n[o] = mem[o],
           Here(n["fac"]) <= Here(mem["fac"]),
           NEW r, r = ReleaseAudio(mem, n)
    PROVE  /\ r \in Tables
           /\ r["fac"] = n["fac"] /\ r["msys"] = mem["msys"]
           /\ Here(r["wav"]) = 1 =>
                /\ Mark(r["wav"]) = Mark(mem["wav"])
                /\ r["wav"].ref = 1 + Refusal + Here(n["fac"]) + Cardinality(Parts)
                                    + api.failed - api.cleared - Mark(mem["wav"])
           /\ Here(r["wav"]) = 0 => Here(mem["wav"]) = 0 \/ api.cleared > api.failed
<1>1. /\ mem \in Tables /\ Cardinality(Parts) \in Nat /\ Refusal \in {0, 1}
      /\ api.failed \in Nat /\ api.cleared \in Nat
  BY Reading
<1>2. /\ n["wav"] = mem["wav"] /\ n["msys"] = mem["msys"]
      /\ Here(mem["wav"]) \in {0, 1} /\ Mark(mem["wav"]) \in {0, 1}
      /\ Here(mem["fac"]) \in {0, 1} /\ Here(n["fac"]) \in {0, 1}
      /\ mem["wav"].ref \in Nat
  BY <1>1, Names, BlocksOf
<1>3. /\ Here(mem["wav"]) = 1 =>
           mem["wav"].ref = 1 + Refusal + Here(mem["fac"]) + Cardinality(Parts)
                              + api.failed - api.cleared - Mark(mem["wav"])
      /\ Refusal + Here(mem["fac"]) <= 1
  BY DEF IInv, Exact, WavExact, Refused
<1>4. Cleared(mem, n, "fac") <=> Here(mem["fac"]) = 1 /\ Here(n["fac"]) = 0
  BY DEF Cleared, Here
<1>5. CASE Cleared(mem, n, "fac")
  <2>1. Here(mem["fac"]) = 1 /\ Here(n["fac"]) = 0 /\ r = DropWav(n, 1) /\ Refusal = 0
    BY <1>1, <1>3, <1>4, <1>5 DEF ReleaseAudio
  <2>2. /\ r \in Tables /\ r["fac"] = n["fac"] /\ r["msys"] = n["msys"]
    BY <2>1, Names, DropWavFacts
  <2>3. /\ Here(r["wav"]) = IF n["wav"].ref < 1 THEN 0 ELSE Here(n["wav"])
        /\ Here(r["wav"]) = 1 => /\ r["wav"].ref = n["wav"].ref - 1
                                 /\ Mark(r["wav"]) = Mark(n["wav"])
    BY <2>1, DropWavFacts
  <2>4. Here(r["wav"]) = 1 => Here(mem["wav"]) = 1
    BY <1>2, <2>3
  <2>5. Here(r["wav"]) = 1 =>
                /\ Mark(r["wav"]) = Mark(mem["wav"])
                /\ r["wav"].ref = 1 + Refusal + Here(n["fac"]) + Cardinality(Parts)
                                    + api.failed - api.cleared - Mark(mem["wav"])
    BY <1>1, <1>2, <1>3, <2>1, <2>3, <2>4
  <2>6. Here(r["wav"]) = 0 => Here(mem["wav"]) = 0 \/ api.cleared > api.failed
    BY <1>1, <1>2, <1>3, <2>1, <2>3
  <2>. QED
    BY <1>2, <2>2, <2>5, <2>6
<1>6. CASE ~Cleared(mem, n, "fac")
  <2>1. r = n /\ Here(mem["fac"]) = Here(n["fac"])
    BY <1>2, <1>4, <1>6 DEF ReleaseAudio
  <2>. QED
    BY <1>2, <1>3, <2>1
<1>. QED
  BY <1>5, <1>6

(* wav_module_close                                                        *)
LEMMA WavModuleCloseKeepsIInv ==
    ASSUME IInv, WavModuleClose
    PROVE  IInv'
<1>1. /\ module = "running" /\ module' = "closed" /\ UNCHANGED <<part, phase, dir, facNull, api>>
      /\ \A p \in Port : phase[p] \notin Creating
  BY DEF WavModuleClose, Quiet
<1>2. /\ mem \in Tables /\ Cardinality(Parts) \in Nat /\ FacUsers \in Nat /\ MediaUsers \in Nat
      /\ api.failed \in Nat /\ api.cleared \in Nat /\ Refusal \in {0, 1}
  BY Reading
<1> DEFINE n == MaskDestroy(mem, "fac")
           r == ReleaseAudio(mem, n)
<1>3. mem' = MaskDestroy(r, "wav")
  BY DEF WavModuleClose
<1>4. n \in Tables /\ \A o \in Shared : o # "fac" => n[o] = mem[o]
  BY <1>2, Names, MaskDestroyFacts
<1>5. /\ Here(mem["fac"]) = 0 \/ Mark(mem["fac"]) = 1 => n = mem
      /\ Here(mem["fac"]) = 1 /\ Mark(mem["fac"]) = 0 =>
           /\ Here(n["fac"]) = IF mem["fac"].ref = 0 THEN 0 ELSE 1
           /\ Here(n["fac"]) = 1 =>
                n["fac"].ref = mem["fac"].ref - 1 /\ Mark(n["fac"]) = 1
  BY <1>2, Names, MaskDestroyFacts
<1>. HIDE DEF n
<1>6. Here(n["fac"]) <= Here(mem["fac"])
  <2>1. Here(mem["fac"]) \in {0, 1} /\ Mark(mem["fac"]) \in {0, 1} /\ Here(n["fac"]) \in {0, 1}
    BY <1>2, <1>4, BlocksOf
  <2>. QED
    BY <1>5, <2>1
<1>7. /\ r \in Tables /\ r["fac"] = n["fac"] /\ r["msys"] = mem["msys"]
      /\ Here(r["wav"]) = 1 =>
           /\ Mark(r["wav"]) = Mark(mem["wav"])
           /\ r["wav"].ref = 1 + Refusal + Here(n["fac"]) + Cardinality(Parts)
                               + api.failed - api.cleared - Mark(mem["wav"])
      /\ Here(r["wav"]) = 0 => Here(mem["wav"]) = 0 \/ api.cleared > api.failed
  BY <1>4, <1>6, FactoryReleased
<1>. HIDE DEF r
<1>8. mem' \in Tables /\ mem'["fac"] = n["fac"] /\ mem'["msys"] = mem["msys"]
  BY <1>3, <1>7, Names, MaskDestroyFacts
<1>9. /\ Here(r["wav"]) = 0 \/ Mark(r["wav"]) = 1 => mem' = r
      /\ Here(r["wav"]) = 1 /\ Mark(r["wav"]) = 0 =>
           /\ Here(mem'["wav"]) = IF r["wav"].ref = 0 THEN 0 ELSE 1
           /\ Here(mem'["wav"]) = 1 =>
                mem'["wav"].ref = r["wav"].ref - 1 /\ Mark(mem'["wav"]) = 1
  BY <1>3, <1>7, Names, MaskDestroyFacts
<1>10. /\ Whole' /\ Cardinality(Parts') = Cardinality(Parts)
       /\ FacUsers' = FacUsers /\ MediaUsers' = MediaUsers
       /\ Refusal' = Refusal
  BY <1>1, PortsKept DEF IInv, Refusal
<1>11. /\ Here(r["wav"]) \in {0, 1} /\ Mark(r["wav"]) \in {0, 1} /\ r["wav"].ref \in Nat
  BY <1>7, BlocksOf
<1>12. /\ Here(mem["fac"]) \in {0, 1} /\ Mark(mem["fac"]) \in {0, 1} /\ mem["fac"].ref \in Nat
       /\ Here(mem'["fac"]) \in {0, 1} /\ Mark(mem'["fac"]) \in {0, 1}
  BY <1>2, <1>8, BlocksOf
<1>13. WavExact'
  <2>. SUFFICES ASSUME Here(mem'["wav"]) = 1
                PROVE  mem'["wav"].ref = 1 + Refusal + Here(n["fac"]) + Cardinality(Parts)
                                           + api.failed - api.cleared - Mark(mem'["wav"])
    BY <1>1, <1>8, <1>10 DEF WavExact
  <2>1. Here(r["wav"]) = 1
    BY <1>9, <1>11
  <2>2. CASE Mark(r["wav"]) = 1
    BY <1>7, <1>9, <2>1, <2>2
  <2>3. CASE Mark(r["wav"]) = 0
    BY <1>2, <1>7, <1>8, <1>9, <1>11, <1>12, <2>1, <2>3
  <2>. QED
    BY <1>11, <2>2, <2>3
<1>14. FacExact'
  <2>1. /\ Here(mem["fac"]) = 1 => mem["fac"].ref = FacUsers - Mark(mem["fac"])
        /\ FacUsers > 0 => Here(mem["fac"]) = 1
    BY DEF IInv, Exact, FacExact
  <2>2. /\ Here(n["fac"]) = 1 => n["fac"].ref = FacUsers - Mark(n["fac"])
        /\ FacUsers > 0 => Here(n["fac"]) = 1
    BY <1>2, <1>5, <1>12, <2>1
  <2>. QED
    BY <1>8, <1>10, <2>2 DEF FacExact
<1>15. SysExact' /\ Refused'
  BY <1>2, <1>6, <1>8, <1>10, <1>12 DEF IInv, Exact, SysExact, Refused
<1>16. FreedEarly'
  <2>. SUFFICES ASSUME Here(mem'["wav"]) = 0 PROVE api.cleared > api.failed
    BY <1>1 DEF FreedEarly
  <2>1. CASE Here(r["wav"]) = 0
    BY <1>1, <1>7, <2>1 DEF IInv, FreedEarly
  <2>2. CASE Here(r["wav"]) = 1
    <3>1. Mark(r["wav"]) = 0 /\ r["wav"].ref = 0
      BY <1>9, <1>11, <2>2
    <3>. QED
      BY <1>2, <1>7, <1>8, <1>12, <2>2, <3>1
  <2>. QED
    BY <1>11, <2>1, <2>2
<1>17. Types'
  BY <1>1, <1>8 DEF IInv, Types, TypeOK, Tables
<1>18. ~Open("fac")'
  BY <1>5, <1>8, <1>12 DEF Open
<1>. QED
  BY <1>1, <1>10, <1>13, <1>14, <1>15, <1>16, <1>17, <1>18
     DEF IInv, Exact, Untouched, MadeInTime, Closing

(* acore_media_close                                                       *)
LEMMA MediaCloseKeepsIInv ==
    ASSUME IInv, MediaClose
    PROVE  IInv'
<1>1. /\ mem' = MaskDestroy(mem, "msys") /\ UNCHANGED <<part, phase, dir, module, facNull, api>>
      /\ MediaLast => module # "running"
      /\ \A p \in Port : phase[p] \notin Creating
      /\ IsAvailable(mem, "msys")
  BY DEF MediaClose, Quiet
<1>2. mem \in Tables /\ MediaUsers \in Nat
  BY Reading
<1>3. /\ mem' \in Tables /\ mem'["wav"] = mem["wav"] /\ mem'["fac"] = mem["fac"]
      /\ mem'["api"] = mem["api"]
  BY <1>1, <1>2, Names, MaskDestroyFacts
<1>4. Here(mem["msys"]) = 1 /\ Mark(mem["msys"]) = 0
  BY <1>1, <1>2, Names, TableFacts
<1>5. /\ Here(mem'["msys"]) = IF mem["msys"].ref = 0 THEN 0 ELSE 1
      /\ Here(mem'["msys"]) = 1 =>
           mem'["msys"].ref = mem["msys"].ref - 1 /\ Mark(mem'["msys"]) = 1
  BY <1>1, <1>2, <1>4, Names, MaskDestroyFacts
<1>6. /\ Whole' /\ Cardinality(Parts') = Cardinality(Parts)
      /\ FacUsers' = FacUsers /\ MediaUsers' = MediaUsers /\ Refusal' = Refusal
  BY <1>1, PortsKept DEF IInv, Refusal
<1>7. WavExact' /\ FacExact' /\ Refused'
  BY <1>1, <1>3, <1>6 DEF IInv, Exact, WavExact, FacExact, Refused
<1>8. SysExact'
  <2>1. mem["msys"].ref = MediaUsers
    BY <1>2, <1>4 DEF IInv, Exact, SysExact
  <2>. QED
    BY <1>2, <1>5, <1>6, <2>1 DEF SysExact
<1>9. Types'
  BY <1>1, <1>3 DEF IInv, Types, TypeOK, Tables
<1>10. Closing'
  <2>1. CASE module = "new"
    BY <1>3, <2>1 DEF IInv, Untouched, Closing, Open
  <2>2. CASE module # "new"
    <3>1. MediaLast => module = "closed"
      BY <1>1, <2>2 DEF IInv, Types, TypeOK
    <3>. QED
      BY <1>1, <1>3, <3>1 DEF IInv, Closing, Open
  <2>. QED
    BY <2>1, <2>2
<1>11. Untouched' /\ FreedEarly' /\ MadeInTime'
  BY <1>1, <1>3, <1>6 DEF IInv, Untouched, FreedEarly, MadeInTime, Refusal
<1>. QED
  BY <1>6, <1>7, <1>8, <1>9, <1>10, <1>11 DEF IInv, Exact

-----------------------------------------------------------------------------
(* The calls of the API leave the ports and everything but the module      *)
(* alone, and none is made before the module is there.                     *)
LEMMA ApiKeeps ==
    ASSUME IInv, UNCHANGED <<part, phase, dir, module, facNull>>,
           mem' \in Tables, \A o \in Shared : o # "wav" => mem'[o] = mem[o],
           api' \in [open : Nat, failed : Nat, cleared : Nat],
           api'.open + api'.failed + api'.cleared <= MaxApi,
           module = "new" => mem' = mem /\ api' = api
    PROVE  /\ Types' /\ Whole' /\ FacExact' /\ SysExact' /\ Refused'
           /\ Untouched' /\ MadeInTime' /\ Closing'
           /\ Refusal' = Refusal /\ Cardinality(Parts') = Cardinality(Parts)
           /\ mem'["fac"] = mem["fac"]
<1>1. mem'["fac"] = mem["fac"] /\ mem'["msys"] = mem["msys"] /\ mem'["api"] = mem["api"]
  BY Names
<1>2. /\ Whole' /\ Cardinality(Parts') = Cardinality(Parts)
      /\ FacUsers' = FacUsers /\ MediaUsers' = MediaUsers /\ Refusal' = Refusal
  BY PortsKept DEF IInv, Refusal
<1>3. Types'
  <2>1. api' \in [open : 0..MaxApi, failed : 0..MaxApi, cleared : 0..MaxApi]
    <3>1. api'.open \in 0..MaxApi /\ api'.failed \in 0..MaxApi /\ api'.cleared \in 0..MaxApi
      BY MediaAssumption
    <3>. QED
      BY <3>1
  <2>. QED
    BY <2>1 DEF IInv, Types, TypeOK, Tables
<1>4. FacExact' /\ SysExact' /\ Refused'
  BY <1>1, <1>2 DEF IInv, Exact, FacExact, SysExact, Refused
<1>5. Untouched' /\ MadeInTime' /\ Closing'
  BY <1>1, <1>2 DEF IInv, Untouched, MadeInTime, Closing, Open
<1>. QED
  BY <1>1, <1>2, <1>3, <1>4, <1>5

(* wav_api_create_input, wav_api_create_output and the port_destroy of the *)
(* API                                                                     *)
LEMMA ApiKeepsIInv ==
    ASSUME IInv, ApiCreate \/ ApiCreateFails \/ ApiClearPort
    PROVE  IInv'
<1>1. /\ mem \in Tables /\ Cardinality(Parts) \in Nat /\ Refusal \in {0, 1}
      /\ MaxApi \in Nat /\ api.open \in Nat /\ api.failed \in Nat /\ api.cleared \in Nat
  BY Reading
<1>2. /\ Here(mem["wav"]) \in {0, 1} /\ Mark(mem["wav"]) \in {0, 1} /\ mem["wav"].ref \in Nat
      /\ Here(mem["fac"]) \in {0, 1}
  BY <1>1, BlocksOf
<1>3. api = [open |-> api.open, failed |-> api.failed, cleared |-> api.cleared]
  BY DEF IInv, Types, TypeOK
<1>4. UNCHANGED <<part, phase, dir, module, facNull>>
  BY DEF ApiCreate, ApiCreateFails, ApiClearPort
<1>5. IsAvailable(mem, "wav") => Here(mem["wav"]) = 1 /\ module # "new"
  BY <1>1, Names, TableFacts DEF IInv, Untouched
<1>6. CASE ApiCreate
  <2>1. /\ api' = [api EXCEPT !.open = api.open + 1] /\ mem' = mem /\ module # "new"
        /\ api.open + api.failed + api.cleared < MaxApi
    BY <1>5, <1>6 DEF ApiCreate
  <2>2. api'.open = api.open + 1 /\ api'.failed = api.failed /\ api'.cleared = api.cleared
    BY <1>3, <2>1
  <2>3. api' \in [open : Nat, failed : Nat, cleared : Nat]
    BY <1>1, <1>3, <2>1
  <2>4. /\ Types' /\ Whole' /\ FacExact' /\ SysExact' /\ Refused'
        /\ Untouched' /\ MadeInTime' /\ Closing'
        /\ Refusal' = Refusal /\ Cardinality(Parts') = Cardinality(Parts)
        /\ mem'["fac"] = mem["fac"]
    <3>1. api'.open + api'.failed + api'.cleared <= MaxApi
      BY <1>1, <2>1, <2>2
    <3>. QED
      BY <1>1, <1>4, <2>1, <2>3, <3>1, ApiKeeps
  <2>5. WavExact' /\ FreedEarly'
    BY <1>4, <2>1, <2>2, <2>4 DEF IInv, Exact, WavExact, FreedEarly
  <2>. QED
    BY <2>4, <2>5 DEF IInv, Exact
<1>7. CASE ApiCreateFails
  <2>1. /\ api' = [api EXCEPT !.failed = api.failed + 1] /\ mem' = AddRef(mem, "wav")
        /\ module # "new" /\ Here(mem["wav"]) = 1
        /\ api.open + api.failed + api.cleared < MaxApi
    BY <1>5, <1>7 DEF ApiCreateFails
  <2>2. api'.open = api.open /\ api'.failed = api.failed + 1 /\ api'.cleared = api.cleared
    BY <1>3, <2>1
  <2>3. api' \in [open : Nat, failed : Nat, cleared : Nat]
    BY <1>1, <1>3, <2>1
  <2>4. /\ mem' \in Tables /\ \A o \in Shared : o # "wav" => mem'[o] = mem[o]
    BY <1>1, <2>1, Names, AddRefFacts
  <2>5. /\ Here(mem'["wav"]) = Here(mem["wav"]) /\ Mark(mem'["wav"]) = Mark(mem["wav"])
        /\ mem'["wav"].ref = mem["wav"].ref + Here(mem["wav"])
    BY <1>1, <2>1, Names, AddRefFacts
  <2>6. /\ Types' /\ Whole' /\ FacExact' /\ SysExact' /\ Refused'
        /\ Untouched' /\ MadeInTime' /\ Closing'
        /\ Refusal' = Refusal /\ Cardinality(Parts') = Cardinality(Parts)
        /\ mem'["fac"] = mem["fac"]
    <3>1. api'.open + api'.failed + api'.cleared <= MaxApi
      BY <1>1, <2>1, <2>2
    <3>. QED
      BY <1>4, <2>1, <2>3, <2>4, <3>1, ApiKeeps
  <2>7. WavExact'
    BY <1>1, <1>2, <2>1, <2>2, <2>5, <2>6 DEF IInv, Exact, WavExact
  <2>8. FreedEarly'
    BY <2>1, <2>5 DEF FreedEarly
  <2>. QED
    BY <2>6, <2>7, <2>8 DEF IInv, Exact
<1>8. CASE ApiClearPort
  <2>1. /\ api' = [api EXCEPT !.open = api.open - 1, !.cleared = api.cleared + 1]
        /\ mem' = DropWav(mem, 1) /\ api.open > 0
    BY <1>8 DEF ApiClearPort
  <2>2. module # "new"
    BY <2>1 DEF IInv, Untouched
  <2>3. api'.open = api.open - 1 /\ api'.failed = api.failed /\ api'.cleared = api.cleared + 1
    BY <1>3, <2>1
  <2>4. api' \in [open : Nat, failed : Nat, cleared : Nat]
    <3>1. api.open - 1 \in Nat /\ api.cleared + 1 \in Nat
      BY <1>1, <2>1
    <3>. QED
      BY <1>1, <1>3, <2>1, <3>1
  <2>5. /\ mem' \in Tables /\ \A o \in Shared : o # "wav" => mem'[o] = mem[o]
    <3>1. 1 \in Nat /\ mem \in Tables /\ mem' = DropWav(mem, 1)
      BY <1>1, <2>1
    <3>. QED
      BY <3>1, DropWavFacts
  <2>6. /\ Here(mem'["wav"]) = IF mem["wav"].ref < 1 THEN 0 ELSE Here(mem["wav"])
        /\ Here(mem'["wav"]) = 1 =>
             mem'["wav"].ref = mem["wav"].ref - 1 /\ Mark(mem'["wav"]) = Mark(mem["wav"])
    BY <1>1, <2>1, DropWavFacts
  <2>7. /\ Types' /\ Whole' /\ FacExact' /\ SysExact' /\ Refused'
        /\ Untouched' /\ MadeInTime' /\ Closing'
        /\ Refusal' = Refusal /\ Cardinality(Parts') = Cardinality(Parts)
        /\ mem'["fac"] = mem["fac"]
    <3>1. api'.open + api'.failed + api'.cleared <= MaxApi
      BY <1>1, <2>3 DEF IInv, Types
    <3>. QED
      BY <1>4, <2>2, <2>4, <2>5, <3>1, ApiKeeps
  <2>8. /\ Here(mem["wav"]) = 1 =>
             mem["wav"].ref = 1 + Refusal + Here(mem["fac"]) + Cardinality(Parts)
                                + api.failed - api.cleared - Mark(mem["wav"])
        /\ Here(mem["wav"]) = 0 => api.cleared > api.failed
    BY <2>2 DEF IInv, Exact, WavExact, FreedEarly
  <2>9. WavExact'
    BY <1>1, <1>2, <2>3, <2>6, <2>7, <2>8 DEF WavExact
  <2>10. FreedEarly'
    BY <1>1, <1>2, <2>3, <2>6, <2>8 DEF FreedEarly
  <2>. QED
    BY <2>7, <2>9, <2>10 DEF IInv, Exact
<1>. QED
  BY <1>6, <1>7, <1>8

-----------------------------------------------------------------------------
(* The step of one port: what holds of the ports is kept, and the counts   *)
(* follow.                                                                 *)
LEMMA PortKeeps ==
    ASSUME IInv, NEW p \in Port, NEW from, NEW to \in {"none"} \cup Creating \cup InUse,
           Goto(p, from, to), dir' \in [Port -> Dir], \A q \in Port \ {p} : dir'[q] = dir[q],
           part' = [part EXCEPT ![p] = Only(Holds(p)')],
           to = "half" => dir'[p] = "full",
           UNCHANGED <<module, facNull, api>>, module # "new", mem' \in Tables
    PROVE  /\ Types' /\ Whole' /\ Untouched' /\ Refusal' = Refusal
           /\ phase'[p] = to /\ \A q \in Port \ {p} : phase'[q] = phase[q]
<1>1. /\ Whole'
      /\ part' \in [Port -> [Part -> Block]]
      /\ phase' \in [Port -> {"none"} \cup Creating \cup InUse]
      /\ phase'[p] = to /\ \A q \in Port \ {p} : phase'[q] = phase[q]
  BY PortStep
<1>2. Types'
  BY <1>1 DEF IInv, Types, TypeOK, Tables
<1>3. Untouched' /\ Refusal' = Refusal
  BY DEF Untouched, Refusal
<1>. QED
  BY <1>1, <1>2, <1>3

(* A step that changes only the account of the module: as many references  *)
(* as parts come and go.                                                   *)
LEMMA WavSettles ==
    ASSUME IInv, NEW p \in Port, NEW from, NEW to \in {"none"} \cup Creating \cup InUse,
           Goto(p, from, to), dir' \in [Port -> Dir], \A q \in Port \ {p} : dir'[q] = dir[q],
           part' = [part EXCEPT ![p] = Only(Holds(p)')],
           to = "half" => dir'[p] = "full",
           UNCHANGED <<module, facNull, api>>, module # "new",
           mem' \in Tables, \A o \in Shared : o # "wav" => mem'[o] = mem[o],
           from \in {"open", "destroyed"} <=> to \in {"open", "destroyed"},
           from \in InUse <=> to \in InUse,
           to \in Creating => Open("msys") /\ Open("fac"),
           Here(mem'["wav"]) = 1 =>
             /\ Here(mem["wav"]) = 1 /\ Mark(mem'["wav"]) = Mark(mem["wav"])
             /\ mem'["wav"].ref + Cardinality(Holds(p))
                  = mem["wav"].ref + Cardinality(Holds(p)'),
           Here(mem'["wav"]) = 0 =>
             \/ Here(mem["wav"]) = 0
             \/ mem["wav"].ref + Cardinality(Holds(p)') < Cardinality(Holds(p))
    PROVE  IInv'
<1>1. /\ Types' /\ Whole' /\ Untouched' /\ Refusal' = Refusal
      /\ phase'[p] = to /\ \A q \in Port \ {p} : phase'[q] = phase[q]
  BY PortKeeps
<1>2. /\ Cardinality(Parts') + Cardinality(Holds(p))
           = Cardinality(Parts) + Cardinality(Holds(p)')
      /\ FacUsers' = FacUsers - (IF from \in {"open", "destroyed"} THEN 1 ELSE 0)
                              + (IF to \in {"open", "destroyed"} THEN 1 ELSE 0)
      /\ MediaUsers' = MediaUsers - (IF from \in InUse THEN 1 ELSE 0)
                                  + (IF to \in InUse THEN 1 ELSE 0)
      /\ Cardinality(Parts') \in Nat
  BY PortStep
<1>3. /\ mem \in Tables /\ Cardinality(Parts) \in Nat /\ Refusal \in {0, 1}
      /\ api.failed \in Nat /\ api.cleared \in Nat
      /\ FacUsers \in Nat /\ MediaUsers \in Nat
  BY Reading
<1>4. FacUsers' = FacUsers /\ MediaUsers' = MediaUsers
  BY <1>2, <1>3
<1>5. mem'["fac"] = mem["fac"] /\ mem'["msys"] = mem["msys"] /\ mem'["api"] = mem["api"]
  BY Names
<1>6. FacExact' /\ SysExact' /\ Refused' /\ Closing'
  BY <1>1, <1>4, <1>5 DEF IInv, Exact, FacExact, SysExact, Refused, Closing, Open
<1>7. MadeInTime'
  BY <1>1, <1>5 DEF IInv, MadeInTime, Open
<1>8. Cardinality(Holds(p)) \in Nat /\ Cardinality(Holds(p)') \in Nat
  <2>1. Holds(p) \in SUBSET Part
    BY HoldsParts DEF IInv, Types
  <2>2. Holds(p)' \in SUBSET Part
    BY <1>1 DEF Types, TypeOK, Holds, Dir, Part
  <2>. QED
    BY <2>1, <2>2, CountFacts, FS_Subset, FS_CardinalityType
<1>9. /\ Here(mem["wav"]) \in {0, 1} /\ Mark(mem["wav"]) \in {0, 1} /\ mem["wav"].ref \in Nat
      /\ Here(mem["fac"]) \in {0, 1} /\ Here(mem'["wav"]) \in {0, 1}
      /\ mem'["wav"].ref \in Nat
  BY <1>3, BlocksOf
<1>10. Here(mem["wav"]) = 1 =>
         mem["wav"].ref = 1 + Refusal + Here(mem["fac"]) + Cardinality(Parts)
                            + api.failed - api.cleared - Mark(mem["wav"])
  BY DEF IInv, Exact, WavExact
<1>11. WavExact'
  <2>. SUFFICES ASSUME Here(mem'["wav"]) = 1
                PROVE  mem'["wav"].ref = 1 + Refusal + Here(mem["fac"]) + Cardinality(Parts')
                                           + api.failed - api.cleared - Mark(mem["wav"])
    BY <1>1, <1>5 DEF WavExact
  <2>1. /\ Here(mem["wav"]) = 1
        /\ mem'["wav"].ref + Cardinality(Holds(p)) = mem["wav"].ref + Cardinality(Holds(p)')
    OBVIOUS
  <2>. QED
    BY <1>2, <1>3, <1>8, <1>9, <1>10, <2>1
<1>12. FreedEarly'
  <2>. SUFFICES ASSUME Here(mem'["wav"]) = 0 PROVE api.cleared > api.failed
    BY DEF FreedEarly
  <2>1. CASE Here(mem["wav"]) = 0
    BY <2>1 DEF IInv, FreedEarly
  <2>2. CASE /\ Here(mem["wav"]) = 1
             /\ mem["wav"].ref + Cardinality(Holds(p)') < Cardinality(Holds(p))
    BY <1>2, <1>3, <1>8, <1>9, <1>10, <2>2
  <2>. QED
    BY <1>9, <2>1, <2>2
<1>. QED
  BY <1>1, <1>6, <1>7, <1>11, <1>12 DEF IInv, Exact

-----------------------------------------------------------------------------
(* A port that is being made or in use is one of a running module.         *)
LEMMA ModuleIsOld ==
    ASSUME IInv, NEW p \in Port, phase[p] # "none"
    PROVE  module # "new"
  BY DEF IInv, Untouched

(* The phases, as the steps of a port use them.                            *)
LEMMA Phases ==
    ASSUME IInv, NEW p \in Port, NEW from, NEW to, Goto(p, from, to)
    PROVE  /\ phase[p] = from /\ phase'[p] = to
           /\ dir \in [Port -> Dir] /\ part[p] = Only(Holds(p))
           /\ part = [part EXCEPT ![p] = Only(Holds(p))]
           /\ Creating = {"checked", "half", "made"}
           /\ InUse = {"open", "destroyed", "released"}
<1>1. phase[p] = from /\ phase'[p] = to
  BY DEF IInv, Types, TypeOK, Goto
<1>2. part[p] = Only(Holds(p)) /\ dir \in [Port -> Dir]
  BY DEF IInv, Types, TypeOK, Whole
<1>3. part = [part EXCEPT ![p] = Only(Holds(p))]
  BY <1>2 DEF IInv, Types, TypeOK
<1>. QED
  BY <1>1, <1>2, <1>3 DEF Creating, InUse

(* acore_media_audio_create finds the media system and the factory.        *)
LEMMA StartCreateKeepsIInv ==
    ASSUME IInv, NEW p \in Port, NEW d \in Dir, StartCreate(p, d)
    PROVE  IInv'
<1>1. /\ Goto(p, "none", "checked") /\ dir' = [dir EXCEPT ![p] = d]
      /\ UNCHANGED <<mem, part, module, facNull, api>>
      /\ IsAvailable(mem, "msys") /\ IsAvailable(mem, "fac")
  BY DEF StartCreate
<1>2. mem \in Tables
  BY Reading
<1>3. Open("msys") /\ Open("fac") /\ module # "new"
  <2>1. Open("msys") /\ Open("fac")
    BY <1>1, <1>2, Names, TableFacts DEF Open
  <2>. QED
    BY <2>1 DEF IInv, Untouched, Open
<1>4. /\ phase[p] = "none" /\ phase'[p] = "checked"
      /\ dir \in [Port -> Dir] /\ part = [part EXCEPT ![p] = Only(Holds(p))]
      /\ Creating = {"checked", "half", "made"} /\ InUse = {"open", "destroyed", "released"}
  BY <1>1, Phases
<1>5. Holds(p) = {} /\ Holds(p)' = {}
  BY <1>4 DEF Holds
<1>6. /\ dir' \in [Port -> Dir] /\ \A q \in Port \ {p} : dir'[q] = dir[q]
  BY <1>1, <1>4
<1>7. part' = [part EXCEPT ![p] = Only(Holds(p)')]
  BY <1>1, <1>4, <1>5
<1>8. mem' \in Tables /\ \A o \in Shared : mem'[o] = mem[o]
  BY <1>1, <1>2
<1>9. Here(mem["wav"]) \in {0, 1} /\ mem'["wav"] = mem["wav"]
  BY <1>1, <1>2, BlocksOf
<1>. QED
  BY <1>1, <1>3, <1>4, <1>5, <1>6, <1>7, <1>8, <1>9, WavSettles

(* A creation that ends without a part.                                    *)
LEMMA CreateEndsKeepsIInv ==
    ASSUME IInv, NEW p \in Port, CreateRefused(p) \/ CreateInputFails(p)
    PROVE  IInv'
<1>1. /\ Goto(p, "checked", "none")
      /\ UNCHANGED <<mem, part, dir, module, facNull, api>>
  BY DEF CreateRefused, CreateInputFails
<1>2. mem \in Tables
  BY Reading
<1>4. /\ phase[p] = "checked" /\ phase'[p] = "none"
      /\ dir \in [Port -> Dir] /\ part = [part EXCEPT ![p] = Only(Holds(p))]
      /\ Creating = {"checked", "half", "made"} /\ InUse = {"open", "destroyed", "released"}
  BY <1>1, Phases
<1>5. Holds(p) = {} /\ Holds(p)' = {} /\ module # "new"
  BY <1>4, ModuleIsOld DEF Holds
<1>7. part' = [part EXCEPT ![p] = Only(Holds(p)')]
  BY <1>1, <1>4, <1>5
<1>8. mem' \in Tables /\ \A o \in Shared : mem'[o] = mem[o]
  BY <1>1, <1>2
<1>9. Here(mem["wav"]) \in {0, 1} /\ mem'["wav"] = mem["wav"]
  BY <1>1, <1>2, BlocksOf
<1>. QED
  BY <1>1, <1>4, <1>5, <1>7, <1>8, <1>9, WavSettles

(* The input port is made.                                                 *)
LEMMA CreateInputKeepsIInv ==
    ASSUME IInv, NEW p \in Port, CreateInput(p)
    PROVE  IInv'
<1> DEFINE to == IF dir[p] = "full" THEN "half" ELSE "made"
<1>1. /\ Goto(p, "checked", to) /\ dir[p] # "out"
      /\ part' = [part EXCEPT ![p] = Bind(part[p], "in")]
      /\ mem' = AddRef(mem, "wav") /\ IsAvailable(mem, "wav")
      /\ UNCHANGED <<dir, module, facNull, api>>
  BY DEF CreateInput
<1>2. mem \in Tables
  BY Reading
<1>3. /\ phase[p] = "checked" /\ phase'[p] = to
      /\ dir \in [Port -> Dir] /\ part[p] = Only(Holds(p))
      /\ Creating = {"checked", "half", "made"} /\ InUse = {"open", "destroyed", "released"}
  BY <1>1, Phases
<1>4. Holds(p) = {} /\ Holds(p)' = {"in"} /\ module # "new"
  <2>1. dir[p] \in {"in", "full"}
    BY <1>1, <1>3 DEF Dir
  <2>. QED
    BY <1>1, <1>3, <2>1, ModuleIsOld DEF Holds
<1>5. part' = [part EXCEPT ![p] = Only(Holds(p)')]
  <2>1. Bind(Only({}), "in") = Only({} \cup {"in"})
    <3>1. {} \in SUBSET Part /\ "in" \in Part
      BY DEF Part
    <3>. QED
      BY <3>1, OnlyChanges
  <2>2. {} \cup {"in"} = {"in"}
    OBVIOUS
  <2>. QED
    BY <1>1, <1>3, <1>4, <2>1, <2>2
<1>6. /\ mem' \in Tables /\ \A o \in Shared : o # "wav" => mem'[o] = mem[o]
      /\ Here(mem'["wav"]) = Here(mem["wav"]) /\ Mark(mem'["wav"]) = Mark(mem["wav"])
      /\ mem'["wav"].ref = mem["wav"].ref + Here(mem["wav"])
  BY <1>1, <1>2, Names, AddRefFacts
<1>7. Here(mem["wav"]) = 1 /\ mem["wav"].ref \in Nat
  BY <1>1, <1>2, Names, TableFacts
<1>8. Open("msys") /\ Open("fac")
  BY <1>3 DEF IInv, MadeInTime
<1>9. /\ Here(mem'["wav"]) = 1
      /\ mem'["wav"].ref + Cardinality(Holds(p)) = mem["wav"].ref + Cardinality(Holds(p)')
  BY <1>4, <1>6, <1>7, FewParts
<1>10. /\ to \in {"none"} \cup Creating \cup InUse
       /\ to = "half" => dir'[p] = "full"
       /\ "checked" \in {"open", "destroyed"} <=> to \in {"open", "destroyed"}
       /\ "checked" \in InUse <=> to \in InUse
       /\ dir' = dir
  BY <1>1, <1>3
<1>. HIDE DEF to
<1>. QED
  BY <1>1, <1>3, <1>4, <1>5, <1>6, <1>7, <1>8, <1>9, <1>10, WavSettles

(* The output port is made, and with the input port the bidirectional one. *)
LEMMA CreateOutputKeepsIInv ==
    ASSUME IInv, NEW p \in Port, CreateOutput(p)
    PROVE  IInv'
<1> DEFINE from == IF dir[p] = "full" THEN "half" ELSE "checked"
<1>1. /\ Goto(p, from, "made") /\ dir[p] # "in"
      /\ part' = [part EXCEPT ![p] = Bind(Bind(part[p], "out"), MainPart(p))]
      /\ mem' = IF dir[p] = "full" THEN AddRef(AddRef(mem, "wav"), "wav")
                ELSE AddRef(mem, "wav")
      /\ UNCHANGED <<dir, module, facNull, api>>
  BY DEF CreateOutput
<1>2. mem \in Tables /\ Here(mem["wav"]) \in {0, 1} /\ mem["wav"].ref \in Nat
  BY Reading, BlocksOf
<1>3. /\ phase[p] = from /\ phase'[p] = "made"
      /\ dir \in [Port -> Dir] /\ part[p] = Only(Holds(p))
      /\ Creating = {"checked", "half", "made"} /\ InUse = {"open", "destroyed", "released"}
  BY <1>1, Phases
<1>4. dir[p] \in {"out", "full"} /\ module # "new"
  BY <1>1, <1>3, ModuleIsOld DEF Dir
<1>5. Open("msys") /\ Open("fac")
  BY <1>3 DEF IInv, MadeInTime
<1>6. "in" \in Part /\ "out" \in Part /\ "main" \in Part
  BY DEF Part
<1>7. /\ "made" \in {"none"} \cup Creating \cup InUse
      /\ from \in {"open", "destroyed"} <=> "made" \in {"open", "destroyed"}
      /\ from \in InUse <=> "made" \in InUse
      /\ dir' = dir
  BY <1>1, <1>3
<1>8. CASE dir[p] = "out"
  <2>1. Holds(p) = {} /\ Holds(p)' = {"out"}
    BY <1>1, <1>3, <1>8 DEF Holds
  <2>2. Bind(Bind(Only({}), "out"), "out") = Only({"out"})
    <3>1. {} \in SUBSET Part /\ {"out"} \in SUBSET Part
      BY <1>6
    <3>2. Bind(Only({}), "out") = Only({} \cup {"out"}) /\ {} \cup {"out"} = {"out"}
      BY <1>6, <3>1, OnlyChanges
    <3>3. Bind(Only({"out"}), "out") = Only({"out"} \cup {"out"})
          /\ {"out"} \cup {"out"} = {"out"}
      BY <1>6, <3>1, OnlyChanges
    <3>. QED
      BY <3>2, <3>3
  <2>3. part' = [part EXCEPT ![p] = Only(Holds(p)')]
    BY <1>1, <1>3, <1>8, <2>1, <2>2 DEF MainPart
  <2>4. mem' = AddRef(mem, "wav")
    BY <1>1, <1>8
  <2>5. /\ mem' \in Tables /\ \A o \in Shared : o # "wav" => mem'[o] = mem[o]
        /\ Here(mem'["wav"]) = Here(mem["wav"]) /\ Mark(mem'["wav"]) = Mark(mem["wav"])
        /\ mem'["wav"].ref = mem["wav"].ref + Here(mem["wav"])
    BY <1>2, <2>4, Names, AddRefFacts
  <2>6. Here(mem'["wav"]) = 1 =>
          mem'["wav"].ref + Cardinality(Holds(p)) = mem["wav"].ref + Cardinality(Holds(p)')
    BY <1>2, <2>1, <2>5, FewParts
  <2>. HIDE DEF from
  <2>. QED
    BY <1>1, <1>3, <1>4, <1>5, <1>7, <2>3, <2>5, <2>6, WavSettles
<1>9. CASE dir[p] = "full"
  <2>1. Holds(p) = {"in"} /\ Holds(p)' = Part
    BY <1>1, <1>3, <1>9 DEF Holds
  <2>2. Bind(Bind(Only({"in"}), "out"), "main") = Only(Part)
    <3>1. {"in"} \in SUBSET Part /\ {"in", "out"} \in SUBSET Part
      BY <1>6
    <3>2. Bind(Only({"in"}), "out") = Only({"in"} \cup {"out"})
          /\ {"in"} \cup {"out"} = {"in", "out"}
      BY <1>6, <3>1, OnlyChanges
    <3>3. Bind(Only({"in", "out"}), "main") = Only({"in", "out"} \cup {"main"})
      BY <1>6, <3>1, OnlyChanges
    <3>4. {"in", "out"} \cup {"main"} = Part
      BY DEF Part
    <3>. QED
      BY <3>2, <3>3, <3>4
  <2>3. part' = [part EXCEPT ![p] = Only(Holds(p)')]
    BY <1>1, <1>3, <1>9, <2>1, <2>2 DEF MainPart
  <2>. DEFINE n == AddRef(mem, "wav")
  <2>4. mem' = AddRef(n, "wav")
    BY <1>1, <1>9
  <2>5. /\ n \in Tables /\ \A o \in Shared : o # "wav" => n[o] = mem[o]
        /\ Here(n["wav"]) = Here(mem["wav"]) /\ Mark(n["wav"]) = Mark(mem["wav"])
        /\ n["wav"].ref = mem["wav"].ref + Here(mem["wav"])
    BY <1>2, Names, AddRefFacts
  <2>. HIDE DEF n
  <2>6. /\ mem' \in Tables /\ \A o \in Shared : o # "wav" => mem'[o] = n[o]
        /\ Here(mem'["wav"]) = Here(n["wav"]) /\ Mark(mem'["wav"]) = Mark(n["wav"])
        /\ mem'["wav"].ref = n["wav"].ref + Here(n["wav"])
    BY <2>4, <2>5, Names, AddRefFacts
  <2>7. \A o \in Shared : o # "wav" => mem'[o] = mem[o]
    BY <2>5, <2>6
  <2>8. Here(mem'["wav"]) = 1 =>
          /\ Here(mem["wav"]) = 1 /\ Mark(mem'["wav"]) = Mark(mem["wav"])
          /\ mem'["wav"].ref + Cardinality(Holds(p)) = mem["wav"].ref + Cardinality(Holds(p)')
    BY <1>2, <2>1, <2>5, <2>6, FewParts
  <2>9. Here(mem'["wav"]) = 0 => Here(mem["wav"]) = 0
    BY <2>5, <2>6
  <2>. HIDE DEF from
  <2>. QED
    BY <1>1, <1>3, <1>4, <1>5, <1>7, <2>3, <2>6, <2>7, <2>8, <2>9, WavSettles
<1>. QED
  BY <1>4, <1>8, <1>9

(* A port that goes with all the parts it has drops one reference on the   *)
(* module for each.                                                        *)
LEMMA PartsGoKeepsIInv ==
    ASSUME IInv, NEW p \in Port, NEW from, NEW to \in {"none"} \cup Creating \cup InUse,
           Goto(p, from, to), to \notin Creating \cup {"open"}, from # "none",
           from \in {"open", "destroyed"} <=> to \in {"open", "destroyed"},
           from \in InUse <=> to \in InUse,
           NEW o \in Part, Destroyed(p, o),
           Holds(p) = {} \/ Holds(p) = {o} \/ (Holds(p) = Part /\ o = "main"),
           UNCHANGED <<dir, module, facNull, api>>
    PROVE  IInv'
<1>1. /\ phase[p] = from /\ phase'[p] = to
      /\ dir \in [Port -> Dir] /\ part[p] = Only(Holds(p))
      /\ Creating = {"checked", "half", "made"} /\ InUse = {"open", "destroyed", "released"}
  BY Phases
<1>2. mem \in Tables /\ Here(mem["wav"]) \in {0, 1} /\ mem["wav"].ref \in Nat
  BY Reading, BlocksOf
<1>3. Holds(p)' = {} /\ module # "new"
  BY <1>1, ModuleIsOld DEF Holds
<1>4. /\ DestroyPart(Only(Holds(p)), o) = Only({})
      /\ PartsGone(Only(Holds(p)), Only({})) = Cardinality(Holds(p))
  BY PortGone
<1>5. /\ part' = [part EXCEPT ![p] = Only(Holds(p)')]
      /\ mem' = DropWav(mem, Cardinality(Holds(p)))
  BY <1>1, <1>3, <1>4 DEF Destroyed
<1>6. Cardinality(Holds(p)) \in Nat /\ Cardinality(Holds(p)') = 0
  <2>1. Holds(p) \in SUBSET Part
    BY HoldsParts DEF IInv, Types
  <2>. QED
    BY <1>3, <2>1, CountFacts, FS_Subset, FS_CardinalityType, FewParts
<1>7. /\ mem' \in Tables /\ \A x \in Shared : x # "wav" => mem'[x] = mem[x]
      /\ Here(mem'["wav"]) = IF mem["wav"].ref < Cardinality(Holds(p)) THEN 0
                             ELSE Here(mem["wav"])
      /\ Here(mem'["wav"]) = 1 =>
           /\ mem'["wav"].ref = mem["wav"].ref - Cardinality(Holds(p))
           /\ Mark(mem'["wav"]) = Mark(mem["wav"])
  BY <1>2, <1>5, <1>6, DropWavFacts
<1>8. /\ Here(mem'["wav"]) = 1 =>
           /\ Here(mem["wav"]) = 1 /\ Mark(mem'["wav"]) = Mark(mem["wav"])
           /\ mem'["wav"].ref + Cardinality(Holds(p)) = mem["wav"].ref + Cardinality(Holds(p)')
      /\ Here(mem'["wav"]) = 0 =>
           \/ Here(mem["wav"]) = 0
           \/ mem["wav"].ref + Cardinality(Holds(p)') < Cardinality(Holds(p))
  BY <1>2, <1>6, <1>7
<1>9. to \notin Creating /\ to # "half" /\ dir' = dir
  BY <1>1
<1>. QED
  BY <1>1, <1>3, <1>5, <1>7, <1>8, <1>9, WavSettles

(* Without an output port the input port goes again.                       *)
LEMMA CreateOutputFailsKeepsIInv ==
    ASSUME IInv, NEW p \in Port, CreateOutputFails(p)
    PROVE  IInv'
<1> DEFINE from == IF dir[p] = "full" THEN "half" ELSE "checked"
<1>1. /\ Goto(p, from, "none") /\ Destroyed(p, "in")
      /\ UNCHANGED <<dir, module, facNull, api>>
  BY DEF CreateOutputFails
<1>2. /\ phase[p] = from
      /\ Creating = {"checked", "half", "made"} /\ InUse = {"open", "destroyed", "released"}
  BY <1>1, Phases
<1>3. "in" \in Part /\ (Holds(p) = {} \/ Holds(p) = {"in"})
  BY <1>2 DEF Holds, Part
<1>4. /\ "none" \in {"none"} \cup Creating \cup InUse
      /\ "none" \notin Creating \cup {"open"} /\ from # "none"
      /\ from \in {"open", "destroyed"} <=> "none" \in {"open", "destroyed"}
      /\ from \in InUse <=> "none" \in InUse
  BY <1>2
<1>. HIDE DEF from
<1>. QED
  BY <1>1, <1>3, <1>4, PartsGoKeepsIInv

(* wav_media_port_destroy                                                  *)
LEMMA PortDestroyKeepsIInv ==
    ASSUME IInv, NEW p \in Port, PortDestroy(p)
    PROVE  IInv'
<1>1. /\ Goto(p, "open", "destroyed") /\ Destroyed(p, MainPart(p))
      /\ UNCHANGED <<dir, module, facNull, api>>
  BY DEF PortDestroy
<1>2. /\ phase[p] = "open" /\ dir \in [Port -> Dir]
      /\ Creating = {"checked", "half", "made"} /\ InUse = {"open", "destroyed", "released"}
  BY <1>1, Phases
<1>3. /\ MainPart(p) \in Part
      /\ \/ Holds(p) = {} \/ Holds(p) = {MainPart(p)}
         \/ (Holds(p) = Part /\ MainPart(p) = "main")
  BY <1>2 DEF Holds, Part, Dir, MainPart
<1>4. /\ "destroyed" \in {"none"} \cup Creating \cup InUse
      /\ "destroyed" \notin Creating \cup {"open"}
      /\ "open" \in InUse <=> "destroyed" \in InUse
  BY <1>2
<1>. QED
  BY <1>1, <1>3, <1>4, PartsGoKeepsIInv

(* The port takes its references on the factory and on the media system.   *)
LEMMA PublishKeepsIInv ==
    ASSUME IInv, NEW p \in Port, Publish(p)
    PROVE  IInv'
<1>1. /\ Goto(p, "made", "open") /\ mem' = AddRef(AddRef(mem, "fac"), "msys")
      /\ UNCHANGED <<part, dir, module, facNull, api>>
  BY DEF Publish
<1>2. /\ mem \in Tables /\ FacUsers \in Nat /\ MediaUsers \in Nat /\ Cardinality(Parts) \in Nat
  BY Reading
<1>3. /\ phase[p] = "made" /\ phase'[p] = "open"
      /\ dir \in [Port -> Dir] /\ part = [part EXCEPT ![p] = Only(Holds(p))]
      /\ Creating = {"checked", "half", "made"} /\ InUse = {"open", "destroyed", "released"}
  BY <1>1, Phases
<1>4. /\ Holds(p)' = Holds(p) /\ module # "new"
      /\ "open" \in {"none"} \cup Creating \cup InUse /\ dir' = dir
  BY <1>1, <1>3, ModuleIsOld DEF Holds
<1>5. Here(mem["msys"]) = 1 /\ Mark(mem["msys"]) = 0 /\ Here(mem["fac"]) = 1 /\ Mark(mem["fac"]) = 0
  BY <1>3 DEF IInv, MadeInTime, Open
<1>6. part' = [part EXCEPT ![p] = Only(Holds(p)')]
  BY <1>1, <1>3, <1>4
<1> DEFINE n == AddRef(mem, "fac")
<1>7. /\ n \in Tables /\ n["wav"] = mem["wav"] /\ n["msys"] = mem["msys"]
      /\ Here(n["fac"]) = Here(mem["fac"]) /\ Mark(n["fac"]) = Mark(mem["fac"])
      /\ n["fac"].ref = mem["fac"].ref + Here(mem["fac"])
  BY <1>2, Names, AddRefFacts
<1>8. mem' = AddRef(n, "msys")
  BY <1>1
<1>. HIDE DEF n
<1>9. /\ mem' \in Tables /\ mem'["wav"] = n["wav"] /\ mem'["fac"] = n["fac"]
      /\ Here(mem'["msys"]) = Here(n["msys"]) /\ Mark(mem'["msys"]) = Mark(n["msys"])
      /\ mem'["msys"].ref = n["msys"].ref + Here(n["msys"])
  BY <1>7, <1>8, Names, AddRefFacts
<1>10. /\ Types' /\ Whole' /\ Untouched' /\ Refusal' = Refusal
  BY <1>1, <1>3, <1>4, <1>6, <1>9, PortKeeps
<1>11. /\ Cardinality(Parts') + Cardinality(Holds(p)) = Cardinality(Parts) + Cardinality(Holds(p))
       /\ FacUsers' = FacUsers + 1 /\ MediaUsers' = MediaUsers + 1
       /\ Cardinality(Parts') \in Nat
  <2>1. /\ Cardinality(Parts') + Cardinality(Holds(p)) = Cardinality(Parts) + Cardinality(Holds(p)')
        /\ FacUsers' = FacUsers - (IF "made" \in {"open", "destroyed"} THEN 1 ELSE 0)
                                + (IF "open" \in {"open", "destroyed"} THEN 1 ELSE 0)
        /\ MediaUsers' = MediaUsers - (IF "made" \in InUse THEN 1 ELSE 0)
                                    + (IF "open" \in InUse THEN 1 ELSE 0)
        /\ Cardinality(Parts') \in Nat
    BY <1>1, <1>3, <1>4, <1>6, PortStep
  <2>. QED
    BY <1>2, <1>3, <1>4, <2>1
<1>12. Cardinality(Parts') = Cardinality(Parts)
  <2>1. Cardinality(Holds(p)) \in Nat
    <3>1. Holds(p) \in SUBSET Part
      BY HoldsParts DEF IInv, Types
    <3>. QED
      BY <3>1, CountFacts, FS_Subset, FS_CardinalityType
  <2>. QED
    BY <1>2, <1>11, <2>1
<1>13. WavExact' /\ Refused'
  BY <1>1, <1>7, <1>9, <1>10, <1>12 DEF IInv, Exact, WavExact, Refused
<1>14. FacExact' /\ SysExact'
  <2>1. mem["fac"].ref = FacUsers /\ mem["msys"].ref = MediaUsers
    BY <1>2, <1>5 DEF IInv, Exact, FacExact, SysExact
  <2>. QED
    BY <1>2, <1>5, <1>7, <1>9, <1>11, <2>1 DEF FacExact, SysExact
<1>15. MadeInTime' /\ Closing' /\ FreedEarly'
  BY <1>1, <1>5, <1>7, <1>9 DEF IInv, MadeInTime, Closing, FreedEarly, Open
<1>. QED
  BY <1>10, <1>13, <1>14, <1>15 DEF IInv, Exact

(* The ports that still hold something are counted.                        *)
LEMMA UsersAreCounted ==
    ASSUME NEW p \in Port, NEW S, phase[p] \in S
    PROVE  In(S) > 0
<1>1. In(S) \in Nat /\ In(S) # 0
  BY CountFacts
<1>. QED
  BY <1>1

(* The factory is released, and with its last port it goes.                *)
LEMMA ReleaseFactoryKeepsIInv ==
    ASSUME IInv, NEW p \in Port, ReleaseFactory(p)
    PROVE  IInv'
<1> DEFINE n == DecRef(mem, "fac")
<1>1. /\ Goto(p, "destroyed", "released") /\ mem' = ReleaseAudio(mem, n)
      /\ UNCHANGED <<part, dir, module, facNull, api>>
  BY DEF ReleaseFactory
<1>2. /\ mem \in Tables /\ FacUsers \in Nat /\ MediaUsers \in Nat /\ Cardinality(Parts) \in Nat
      /\ Refusal \in {0, 1} /\ api.failed \in Nat /\ api.cleared \in Nat
  BY Reading
<1>3. /\ phase[p] = "destroyed" /\ phase'[p] = "released"
      /\ dir \in [Port -> Dir] /\ part = [part EXCEPT ![p] = Only(Holds(p))]
      /\ Creating = {"checked", "half", "made"} /\ InUse = {"open", "destroyed", "released"}
  BY <1>1, Phases
<1>4. /\ Holds(p) = {} /\ Holds(p)' = {} /\ module # "new"
      /\ "released" \in {"none"} \cup Creating \cup InUse /\ dir' = dir
  BY <1>1, <1>3, ModuleIsOld DEF Holds
<1>5. part' = [part EXCEPT ![p] = Only(Holds(p)')]
  BY <1>1, <1>3, <1>4
<1>6. FacUsers > 0
  BY <1>3, UsersAreCounted DEF FacUsers
<1>7. /\ Here(mem["fac"]) = 1 /\ mem["fac"].ref = FacUsers - Mark(mem["fac"])
      /\ Mark(mem["fac"]) \in {0, 1}
  BY <1>2, <1>6, BlocksOf DEF IInv, Exact, FacExact
<1>8. /\ n \in Tables /\ \A o \in Shared : o # "fac" => n[o] = mem[o]
      /\ Here(n["fac"]) = IF mem["fac"].ref = 0 THEN 0 ELSE Here(mem["fac"])
      /\ Here(n["fac"]) = 1 => /\ n["fac"].ref = mem["fac"].ref - 1
                               /\ Mark(n["fac"]) = Mark(mem["fac"])
  BY <1>2, Names, DecRefFacts
<1>. HIDE DEF n
<1>9. /\ mem' \in Tables /\ mem'["fac"] = n["fac"] /\ mem'["msys"] = mem["msys"]
      /\ Here(mem'["wav"]) = 1 =>
           /\ Mark(mem'["wav"]) = Mark(mem["wav"])
           /\ mem'["wav"].ref = 1 + Refusal + Here(n["fac"]) + Cardinality(Parts)
                                  + api.failed - api.cleared - Mark(mem["wav"])
      /\ Here(mem'["wav"]) = 0 => Here(mem["wav"]) = 0 \/ api.cleared > api.failed
  <2>1. Here(n["fac"]) <= Here(mem["fac"])
    BY <1>7, <1>8
  <2>. QED
    BY <1>1, <1>8, <2>1, FactoryReleased
<1>10. /\ Types' /\ Whole' /\ Untouched' /\ Refusal' = Refusal
       /\ phase'[p] = "released" /\ \A q \in Port \ {p} : phase'[q] = phase[q]
  BY <1>1, <1>3, <1>4, <1>5, <1>9, PortKeeps
<1>11. /\ Cardinality(Parts') = Cardinality(Parts)
       /\ FacUsers' = FacUsers - 1 /\ MediaUsers' = MediaUsers
  <2>1. /\ Cardinality(Parts') + Cardinality(Holds(p)) = Cardinality(Parts) + Cardinality(Holds(p)')
        /\ FacUsers' = FacUsers - (IF "destroyed" \in {"open", "destroyed"} THEN 1 ELSE 0)
                                + (IF "released" \in {"open", "destroyed"} THEN 1 ELSE 0)
        /\ MediaUsers' = MediaUsers - (IF "destroyed" \in InUse THEN 1 ELSE 0)
                                    + (IF "released" \in InUse THEN 1 ELSE 0)
        /\ Cardinality(Parts') \in Nat
    BY <1>1, <1>3, <1>4, <1>5, PortStep
  <2>. QED
    BY <1>2, <1>3, <1>4, <2>1, FewParts
<1>12. FacExact'
  BY <1>2, <1>6, <1>7, <1>8, <1>9, <1>11 DEF FacExact
<1>13. SysExact'
  BY <1>9, <1>11 DEF IInv, Exact, SysExact
<1>14. Refused' /\ WavExact'
  <2>1. Refused'
    BY <1>2, <1>7, <1>8, <1>9, <1>10 DEF IInv, Exact, Refused
  <2>2. WavExact'
    BY <1>1, <1>9, <1>10, <1>11 DEF WavExact
  <2>. QED
    BY <2>1, <2>2
<1>15. FreedEarly'
  BY <1>1, <1>9 DEF IInv, FreedEarly
<1>16. Open("fac")' <=> Open("fac")
  BY <1>2, <1>6, <1>7, <1>8, <1>9 DEF Open
<1>17. MadeInTime' /\ Closing'
  BY <1>1, <1>3, <1>9, <1>10, <1>16 DEF IInv, MadeInTime, Closing, Open
<1>. QED
  BY <1>10, <1>12, <1>13, <1>14, <1>15, <1>17 DEF IInv, Exact

(* The port gives its reference on the media system back.                  *)
LEMMA ReleaseMediaKeepsIInv ==
    ASSUME IInv, NEW p \in Port, ReleaseMedia(p)
    PROVE  IInv'
<1>1. /\ Goto(p, "released", "none") /\ mem' = DecRef(mem, "msys")
      /\ UNCHANGED <<part, dir, module, facNull, api>>
  BY DEF ReleaseMedia
<1>2. /\ mem \in Tables /\ FacUsers \in Nat /\ MediaUsers \in Nat /\ Cardinality(Parts) \in Nat
  BY Reading
<1>3. /\ phase[p] = "released" /\ phase'[p] = "none"
      /\ dir \in [Port -> Dir] /\ part = [part EXCEPT ![p] = Only(Holds(p))]
      /\ Creating = {"checked", "half", "made"} /\ InUse = {"open", "destroyed", "released"}
  BY <1>1, Phases
<1>4. /\ Holds(p) = {} /\ Holds(p)' = {} /\ module # "new"
      /\ "none" \in {"none"} \cup Creating \cup InUse /\ dir' = dir
  BY <1>1, <1>3, ModuleIsOld DEF Holds
<1>5. part' = [part EXCEPT ![p] = Only(Holds(p)')]
  BY <1>1, <1>3, <1>4
<1>6. MediaUsers > 0
  BY <1>3, UsersAreCounted DEF MediaUsers
<1>7. /\ Here(mem["msys"]) = 1 /\ mem["msys"].ref = MediaUsers - Mark(mem["msys"])
      /\ Mark(mem["msys"]) \in {0, 1}
  BY <1>2, <1>6, BlocksOf DEF IInv, Exact, SysExact
<1>8. /\ mem' \in Tables /\ mem'["fac"] = mem["fac"] /\ mem'["wav"] = mem["wav"]
      /\ Here(mem'["msys"]) = IF mem["msys"].ref = 0 THEN 0 ELSE Here(mem["msys"])
      /\ Here(mem'["msys"]) = 1 => /\ mem'["msys"].ref = mem["msys"].ref - 1
                                   /\ Mark(mem'["msys"]) = Mark(mem["msys"])
  BY <1>1, <1>2, Names, DecRefFacts
<1>9. /\ Types' /\ Whole' /\ Untouched' /\ Refusal' = Refusal
      /\ phase'[p] = "none" /\ \A q \in Port \ {p} : phase'[q] = phase[q]
  BY <1>1, <1>3, <1>4, <1>5, <1>8, PortKeeps
<1>10. /\ Cardinality(Parts') = Cardinality(Parts)
       /\ FacUsers' = FacUsers /\ MediaUsers' = MediaUsers - 1
  <2>1. /\ Cardinality(Parts') + Cardinality(Holds(p)) = Cardinality(Parts) + Cardinality(Holds(p)')
        /\ FacUsers' = FacUsers - (IF "released" \in {"open", "destroyed"} THEN 1 ELSE 0)
                                + (IF "none" \in {"open", "destroyed"} THEN 1 ELSE 0)
        /\ MediaUsers' = MediaUsers - (IF "released" \in InUse THEN 1 ELSE 0)
                                    + (IF "none" \in InUse THEN 1 ELSE 0)
        /\ Cardinality(Parts') \in Nat
    BY <1>1, <1>3, <1>4, <1>5, PortStep
  <2>. QED
    BY <1>2, <1>3, <1>4, <2>1, FewParts
<1>11. SysExact'
  BY <1>2, <1>6, <1>7, <1>8, <1>10 DEF SysExact
<1>12. FacExact' /\ WavExact' /\ Refused' /\ FreedEarly'
  BY <1>1, <1>8, <1>9, <1>10 DEF IInv, Exact, FacExact, WavExact, Refused, FreedEarly
<1>13. Open("msys")' <=> Open("msys")
  BY <1>2, <1>6, <1>7, <1>8 DEF Open
<1>14. MadeInTime' /\ Closing'
  BY <1>1, <1>3, <1>8, <1>9, <1>13 DEF IInv, MadeInTime, Closing, Open
<1>. QED
  BY <1>9, <1>11, <1>12, <1>14 DEF IInv, Exact

-----------------------------------------------------------------------------
(* Every step keeps the invariant.                                         *)
LEMMA NextIInv ==
    ASSUME IInv, [Next]_vars
    PROVE  IInv'
<1>1. ASSUME NEW p \in Port, CreateStep(p) PROVE IInv'
  BY <1>1, CreateEndsKeepsIInv, CreateInputKeepsIInv, CreateOutputKeepsIInv,
     CreateOutputFailsKeepsIInv, PublishKeepsIInv DEF CreateStep
<1>2. ASSUME NEW p \in Port, DestroyStep(p) PROVE IInv'
  BY <1>2, PortDestroyKeepsIInv, ReleaseFactoryKeepsIInv, ReleaseMediaKeepsIInv
     DEF DestroyStep
<1>3. CASE UNCHANGED vars
  <2>1. UNCHANGED <<mem, part, phase, dir, module, facNull, api>>
    BY <1>3 DEF vars
  <2>2. /\ Whole' /\ Cardinality(Parts') = Cardinality(Parts)
        /\ FacUsers' = FacUsers /\ MediaUsers' = MediaUsers /\ Refusal' = Refusal
    BY <2>1, PortsKept DEF IInv, Refusal
  <2>3. Exact'
    BY <2>1, <2>2 DEF IInv, Exact, WavExact, FacExact, SysExact, Refused
  <2>. QED
    BY <2>1, <2>2, <2>3
       DEF IInv, Types, TypeOK, Untouched, MadeInTime, FreedEarly, Closing, Open
<1>. QED
  BY <1>1, <1>2, <1>3, WavModuleInitKeepsIInv, WavModuleCloseKeepsIInv,
     MediaCloseKeepsIInv, ApiKeepsIInv, StartCreateKeepsIInv DEF Next

(* The invariant holds in every reachable state.                           *)
THEOREM InductiveInvariant == Spec => []IInv
<1>1. Init => IInv
  BY InitIInv
<1>2. IInv /\ [Next]_vars => IInv'
  BY NextIInv
<1>. QED
  BY <1>1, <1>2, PTL DEF Spec

-----------------------------------------------------------------------------
(* The accounts as the model states them.                                  *)
LEMMA AccountsRead ==
    ASSUME IInv
    PROVE  Accounts
<1>1. mem \in Tables
  BY Reading
<1>2. /\ \A o \in {"wav", "fac", "msys"} : mem[o].bound <=> Here(mem[o]) = 1
      /\ \A o \in {"wav", "fac", "msys"} : Marked(o) = Mark(mem[o])
  BY DEF Here, Mark, Marked
<1>3. TypeOK
  BY DEF IInv, Types
<1>4. WavAccount
  <2>. SUFFICES ASSUME mem["wav"].bound
                PROVE  mem["wav"].ref = 1 + (IF facNull \/ mem["fac"].bound THEN 1 ELSE 0)
                                          + Cardinality(Parts) + api.failed - api.cleared
                                          - Marked("wav")
    BY DEF WavAccount
  <2>1. Here(mem["wav"]) = 1 /\ Marked("wav") = Mark(mem["wav"])
    BY <1>2
  <2>2. mem["wav"].ref = 1 + Refusal + Here(mem["fac"]) + Cardinality(Parts)
                           + api.failed - api.cleared - Mark(mem["wav"])
    BY <2>1 DEF IInv, Exact, WavExact
  <2>3. Refusal + Here(mem["fac"]) = IF facNull \/ mem["fac"].bound THEN 1 ELSE 0
    <3>1. Refusal \in {0, 1} /\ Here(mem["fac"]) \in {0, 1} /\ Refusal + Here(mem["fac"]) <= 1
      BY <1>1, Reading, BlocksOf DEF IInv, Exact, Refused
    <3>2. (Refusal = 1 <=> facNull) /\ (Here(mem["fac"]) = 1 <=> mem["fac"].bound)
      BY DEF Refusal, Here
    <3>. QED
      BY <3>1, <3>2
  <2>4. Refusal \in {0, 1} /\ Here(mem["fac"]) \in {0, 1} /\ Cardinality(Parts) \in Nat
        /\ api.failed \in Nat /\ api.cleared \in Nat /\ Mark(mem["wav"]) \in {0, 1}
    BY <1>1, Reading, BlocksOf
  <2>. QED
    BY <2>1, <2>2, <2>3, <2>4
<1>5. MediaAccount
  BY <1>2 DEF IInv, Exact, FacExact, SysExact, MediaAccount, FacUsers, MediaUsers
<1>6. PortIsWhole
  <2>. SUFFICES ASSUME NEW p \in Port
                PROVE  /\ phase[p] \in {"made", "open"} =>
                            Live(p) = IF dir[p] = "full" THEN Part ELSE {dir[p]}
                       /\ phase[p] \notin {"half", "made", "open"} => Live(p) = {}
    BY DEF PortIsWhole
  <2>1. Live(p) = Holds(p)
    BY LiveIsHeld DEF IInv, Types
  <2>. QED
    BY <2>1 DEF Holds
<1>. QED
  BY <1>3, <1>4, <1>5, <1>6 DEF Accounts

(* Every counter is exact and every port whole: for any ports, any number  *)
(* of API calls, and whether the application closes the media system last  *)
(* or not.                                                                 *)
THEOREM AccountsAreExact == Spec => []Accounts
<1>1. IInv => Accounts
  BY AccountsRead
<1>. QED
  BY <1>1, InductiveInvariant, PTL

(* The module lives while something uses it, unless the API has cleared    *)
(* too much.                                                               *)
LEMMA WavLives ==
    ASSUME IInv, api.cleared <= api.failed
    PROVE  WavLivesWhileUsed
<1>. SUFFICES ASSUME ~mem["wav"].bound
              PROVE  ~mem["api"].bound /\ ~mem["fac"].bound /\ \A p \in Port : Live(p) = {}
  BY DEF WavLivesWhileUsed
<1>1. module = "new"
  <2>1. Here(mem["wav"]) = 0
    BY DEF Here
  <2>2. api.cleared \in Nat /\ api.failed \in Nat
    BY Reading
  <2>. QED
    BY <2>1, <2>2 DEF IInv, FreedEarly
<1>2. Here(mem["api"]) = 0 /\ Here(mem["fac"]) = 0 /\ \A p \in Port : phase[p] = "none"
  BY <1>1 DEF IInv, Untouched
<1>3. \A p \in Port : Live(p) = {}
  BY <1>2, LiveIsHeld DEF IInv, Types, Holds
<1>. QED
  BY <1>2, <1>3 DEF Here

(* A marked factory still has a port, which holds the media system too; an *)
(* open one has an open media system.                                      *)
LEMMA SysLives ==
    ASSUME IInv, MediaLast, mem["fac"].bound
    PROVE  mem["msys"].bound
<1>1. Here(mem["fac"]) = 1
  BY DEF Here
<1>2. /\ mem \in Tables /\ FacUsers \in Nat
      /\ mem["fac"].ref \in Nat /\ Mark(mem["fac"]) \in {0, 1}
  BY Reading, BlocksOf
<1>3. Here(mem["msys"]) = 1
  <2>1. CASE Mark(mem["fac"]) = 0
    BY <1>1, <2>1 DEF IInv, Closing, Open
  <2>2. CASE Mark(mem["fac"]) = 1
    <3>1. FacUsers # 0
      BY <1>1, <1>2, <2>2 DEF IInv, Exact, FacExact
    <3>2. PICK p \in Port : phase[p] \in {"open", "destroyed"}
      BY <3>1, CountFacts DEF FacUsers
    <3>3. In(InUse) > 0
      <4>1. phase[p] \in InUse
        BY <3>2 DEF InUse
      <4>. QED
        BY <4>1, UsersAreCounted
    <3>. QED
      BY <3>3 DEF IInv, Exact, SysExact, MediaUsers
  <2>. QED
    BY <1>2, <2>1, <2>2
<1>. QED
  BY <1>3 DEF Here

(* Nothing is freed under a user when the modules are closed before the    *)
(* media system, as the application does.                                  *)
THEOREM NothingIsFreedInUse ==
    ASSUME MediaLast
    PROVE  Spec => []NothingFreedInUse
<1>1. IInv => NothingFreedInUse
  BY WavLives, SysLives DEF NothingFreedInUse
<1>. QED
  BY <1>1, InductiveInvariant, PTL

-----------------------------------------------------------------------------
(* The second part: the control that makes and uses such ports,            *)
(* SoundControl.                                                           *)
CONSTANTS Factory, ThreadMulti
VARIABLES mode, op, todo, held, going, cb, taken, mute, late

S == INSTANCE SoundControl

(* The driver that takes the frames of the source.                         *)
Source(m) ==
    CASE m \in {"snd_full", "mix_playback"} -> "rec"
      [] m \in {"mod_full", "mod_mix"}      -> "clock"
      [] m = "mix_capture" -> IF ThreadMulti THEN "clock" ELSE "play"

RunsIn(m)  == S!ToSet(S!Runs(m))
PortsIn(m) == S!ToSet(S!Ports(m))

(* What the call under way still does.                                     *)
Due(c, r) == \E i \in 1..Len(todo) : todo[i] = <<c, r>>

MoveOf == [dir : {"in", "out"}, via : S!Resource]

(* A move via its own device or a port, from the source only if d is the   *)
(* driver that takes from it.                                              *)
Fits(x, d) ==
    /\ x.via \in {S!Of(d)} \cup PortsIn(mode)
    /\ x.dir = "in" => d = Source(mode)

(* A driver that calls back is of a device that the mode starts.           *)
Framing ==
    \A d \in S!Driver :
        /\ taken[d] # "nothing" => cb[d] # <<>>
        /\ cb[d] # <<>> => S!Of(d) \in RunsIn(mode)
        /\ \A i \in 1..Len(cb[d]) : Fits(cb[d][i], d)

(* A frame of the source was taken as sound and is not handed on yet.      *)
Sounding(d) == taken[d] = "sound" /\ cb[d] # <<>> /\ Head(cb[d]).dir = "in"

Heard ==
    /\ late <= 1
    /\ mute /\ late = 1 => \A d \in S!Driver : ~Sounding(d)

(* The first k parts are made and the others still to be, except that the  *)
(* input of mod_mix may have failed.                                       *)
BeingMade ==
    op = "create" =>
        \E k \in 0..Len(S!Makes(mode)) :
            /\ Len(todo) = Len(S!Makes(mode)) - k
            /\ \A i \in 1..Len(todo) : todo[i] = <<"make", S!Makes(mode)[k + i]>>
            /\ \/ held = {S!Makes(mode)[i] : i \in 1..k}
               \/ mode = "mod_mix" /\ k = 1 /\ held = {}

(* Tasks that take down the resources in X, of which some in D call back   *)
(* and P are ports: each is freed, once; what is stopped is in D and comes *)
(* before it and the ports are freed.                                      *)
Task == {"make", "free", "start", "stop"} \X S!Resource

TakesDown(q, X, D, P) ==
    /\ q \in Seq(Task)
    /\ \A i \in 1..Len(q) : \/ q[i][1] = "stop" /\ q[i][2] \in D
                            \/ q[i][1] = "free"
    /\ \A r \in S!Resource : r \in X <=> \E i \in 1..Len(q) : q[i] = <<"free", r>>
    /\ \A i, j \in 1..Len(q) : q[i] = q[j] => i = j
    /\ \A i \in 1..Len(q) : q[i][1] = "stop" =>
         \A r \in {q[i][2]} \cup P : \E j \in 1..Len(q) : i < j /\ q[j] = <<"free", r>>

(* What is taken down, while whatever calls back is still to be stopped.   *)
TakenDown ==
    op \in {"undo", "destroy"} =>
        /\ TakesDown(todo, held, RunsIn(mode), PortsIn(mode))
        /\ \A r \in going : Due("stop", r)
        /\ \A d \in S!Driver : cb[d] # <<>> => Due("stop", S!Of(d))

Working ==
    op \in {"idle", "start", "stop"} =>
        /\ held = S!ToSet(S!Makes(mode))
        /\ going \subseteq RunsIn(mode)
        /\ \A i \in 1..Len(todo) :
             todo[i][1] \in {"start", "stop"} /\ todo[i][2] \in RunsIn(mode)

Still ==
    /\ op \in {"none", "create"} => going = {} /\ \A d \in S!Driver : cb[d] = <<>>
    /\ op \in {"none", "idle"} => todo = <<>>
    /\ op = "none" => held = {}

SIInv ==
    /\ S!TypeOK
    /\ Framing
    /\ Heard
    /\ BeingMade
    /\ TakenDown
    /\ Working
    /\ Still

-----------------------------------------------------------------------------
(* FlattenSeq of one and of two lists.                                     *)
LEMMA FlattenOne ==
    ASSUME NEW T, NEW a \in Seq(T), NEW q \in Seq(Seq(T)), Len(q) = 1, q[1] = a
    PROVE  S!FlattenSeq(q) = a
<1> DEFINE F(f) == f = [i \in 1..Len(q) |-> IF i = 1 THEN q[i] ELSE f[i - 1] \o q[i]]
           g == [i \in 1..1 |-> a]
<1>1. F(g)
  <2>1. \A i \in 1..Len(q) : i = 1
    OBVIOUS
  <2>2. [i \in 1..Len(q) |-> IF i = 1 THEN q[i] ELSE g[i - 1] \o q[i]] = [i \in 1..Len(q) |-> a]
    BY <2>1
  <2>. QED
    BY <2>2
<1>2. F(CHOOSE f : F(f))
  BY <1>1
<1>3. S!FlattenSeq(q) = (CHOOSE f : F(f))[1]
  BY DEF S!FlattenSeq
<1>4. (CHOOSE f : F(f))[1] = a
  BY <1>2
<1>. QED
  BY <1>3, <1>4

LEMMA FlattenTwo ==
    ASSUME NEW T, NEW q \in Seq(Seq(T)), Len(q) = 2
    PROVE  S!FlattenSeq(q) = q[1] \o q[2]
<1> DEFINE F(f) == f = [i \in 1..Len(q) |-> IF i = 1 THEN q[i] ELSE f[i - 1] \o q[i]]
           g == [i \in 1..2 |-> IF i = 1 THEN q[1] ELSE q[1] \o q[2]]
<1>1. F(g)
  <2>1. \A i \in 1..Len(q) : i = 1 \/ (i = 2 /\ i - 1 = 1)
    OBVIOUS
  <2>2. \A i \in 1..Len(q) : (IF i = 1 THEN q[i] ELSE g[i - 1] \o q[i]) = IF i = 1 THEN q[1] ELSE q[1] \o q[2]
    BY <2>1
  <2>. QED
    BY <2>2
<1>2. F(CHOOSE f : F(f))
  BY <1>1
<1> HIDE DEF g
<1>3. S!FlattenSeq(q) = (CHOOSE f : F(f))[2]
  BY DEF S!FlattenSeq
<1> DEFINE h == CHOOSE f : F(f)
<1> HIDE DEF h
<1>4. h[1] = q[1] /\ h[2] = h[1] \o q[2]
  <2>1. h = [i \in 1..Len(q) |-> IF i = 1 THEN q[i] ELSE h[i - 1] \o q[i]]
    BY <1>2 DEF h
  <2>2. h[1] = q[1]
    BY <2>1
  <2>3. h[2] = h[2 - 1] \o q[2]
    BY <2>1
  <2>4. 2 - 1 = 1
    OBVIOUS
  <2>. QED
    BY <2>2, <2>3, <2>4
<1>. QED
  BY <1>3, <1>4 DEF h

-----------------------------------------------------------------------------
(* The lists of tasks.                                                     *)

LEMMA CallsAre ==
    ASSUME NEW s \in Seq(S!Resource), NEW c \in {"make", "free", "start", "stop"}
    PROVE  /\ S!Calls(c, s) \in Seq(Task) /\ Len(S!Calls(c, s)) = Len(s)
           /\ \A i \in 1..Len(s) : S!Calls(c, s)[i] = <<c, s[i]>>
<1>1. DOMAIN s = 1..Len(s) /\ Len(s) \in Nat /\ \A i \in 1..Len(s) : s[i] \in S!Resource
  BY LenProperties, ElementOfSeq
<1>2. S!Calls(c, s) = [i \in 1..Len(s) |-> <<c, s[i]>>]
  BY <1>1 DEF S!Calls
<1>3. \A i \in 1..Len(s) : <<c, s[i]>> \in Task
  BY <1>1 DEF Task
<1> HIDE DEF Task
<1>. QED
  BY <1>1, <1>2, <1>3, IsASeq

LEMMA EndsAre ==
    ASSUME NEW s \in Seq(S!Resource), Len(s) \in {1, 2}
    PROVE  /\ S!Ends(s) \in Seq(Task) /\ Len(S!Ends(s)) = 2 * Len(s)
           /\ S!Ends(s)[1] = <<"stop", s[1]>> /\ S!Ends(s)[2] = <<"free", s[1]>>
           /\ Len(s) = 2 => /\ S!Ends(s)[3] = <<"stop", s[2]>>
                            /\ S!Ends(s)[4] = <<"free", s[2]>>
<1> DEFINE e(i) == <<<<"stop", s[i]>>, <<"free", s[i]>>>>
           q == [i \in 1..Len(s) |-> e(i)]
<1>1. DOMAIN s = 1..Len(s) /\ Len(s) \in Nat /\ \A i \in 1..Len(s) : s[i] \in S!Resource
  BY LenProperties, ElementOfSeq
<1>2. S!Ends(s) = S!FlattenSeq(q)
  BY <1>1 DEF S!Ends
<1>3. \A i \in 1..Len(s) : /\ e(i) \in Seq(Task) /\ Len(e(i)) = 2
                           /\ e(i)[1] = <<"stop", s[i]>> /\ e(i)[2] = <<"free", s[i]>>
  <2>1. \A i \in 1..Len(s) : <<"stop", s[i]>> \in Task /\ <<"free", s[i]>> \in Task
    BY <1>1 DEF Task
  <2> HIDE DEF Task
  <2>. QED
    BY <2>1
<1> HIDE DEF Task, e
<1>4. q \in Seq(Seq(Task)) /\ Len(q) = Len(s) /\ \A i \in 1..Len(s) : q[i] = e(i)
  BY <1>1, <1>3, IsASeq
<1> HIDE DEF q
<1>5. CASE Len(s) = 1
  <2>1. S!FlattenSeq(q) = e(1)
    BY <1>3, <1>4, <1>5, FlattenOne
  <2>. QED
    BY <1>2, <1>3, <1>5, <2>1
<1>6. CASE Len(s) = 2
  <2>1. S!FlattenSeq(q) = e(1) \o e(2)
    <3>1. q[1] = e(1) /\ q[2] = e(2) /\ Len(q) = 2
      BY <1>4, <1>6
    <3>. QED
      BY <1>4, <3>1, FlattenTwo
  <2>2. e(1) \in Seq(Task) /\ e(2) \in Seq(Task) /\ Len(e(1)) = 2 /\ Len(e(2)) = 2
    BY <1>3, <1>6
  <2>3. /\ e(1) \o e(2) \in Seq(Task) /\ Len(e(1) \o e(2)) = 4
        /\ (e(1) \o e(2))[1] = e(1)[1] /\ (e(1) \o e(2))[2] = e(1)[2]
        /\ (e(1) \o e(2))[3] = e(2)[1] /\ (e(1) \o e(2))[4] = e(2)[2]
    BY <2>2, ConcatProperties
  <2>. QED
    BY <1>2, <1>3, <1>6, <2>1, <2>3
<1>. QED
  BY <1>5, <1>6

(* A list with one task or part behind it.                                *)
LEMMA Joined ==
    ASSUME NEW T, NEW s \in Seq(T), NEW a \in T, NEW r \in Seq(T), Len(r) = Len(s) + 1,
           \A i \in 1..Len(s) : r[i] = s[i], r[Len(s) + 1] = a
    PROVE  s \o <<a>> = r
<1>1. <<a>> \in Seq(T) /\ Len(<<a>>) = 1 /\ <<a>>[1] = a /\ Len(s) \in Nat
  OBVIOUS
<1> DEFINE b == <<a>>
<1> HIDE DEF b
<1>2. b \in Seq(T) /\ Len(b) = 1 /\ b[1] = a
  BY <1>1 DEF b
<1> DEFINE q == s \o b
<1>3. /\ q \in Seq(T) /\ Len(q) = Len(s) + 1
      /\ \A i \in 1..Len(s) + 1 : q[i] = IF i <= Len(s) THEN s[i] ELSE b[i - Len(s)]
  <2>1. /\ q \in Seq(T) /\ Len(q) = Len(s) + Len(b)
        /\ \A i \in 1..Len(s) + Len(b) : q[i] = IF i <= Len(s) THEN s[i] ELSE b[i - Len(s)]
    BY <1>2, ConcatProperties
  <2>. QED
    BY <1>2, <2>1
<1> HIDE DEF q
<1>4. \A i \in 1..Len(q) : q[i] = r[i]
  <2> TAKE i \in 1..Len(q)
  <2>1. CASE i \in 1..Len(s)
    BY <1>1, <1>3, <2>1
  <2>2. CASE i = Len(s) + 1
    BY <1>1, <1>2, <1>3, <2>2
  <2>. QED
    BY <1>1, <1>3, <2>1, <2>2
<1>5. q = r
  BY <1>3, <1>4, SeqEqual
<1>. QED
  BY <1>5 DEF q, b

LEMMA TwoJoined ==
    ASSUME NEW a, NEW b
    PROVE  <<a>> \o <<b>> = <<a, b>>
<1> DEFINE T == {a, b}
           s == <<a>>
           r == <<a, b>>
<1>1. s \in Seq(T) /\ r \in Seq(T) /\ Len(s) = 1 /\ Len(r) = 2 /\ s[1] = a /\ r[1] = a /\ r[2] = b /\ b \in T
  OBVIOUS
<1> HIDE DEF T, s, r
<1>2. Len(r) = Len(s) + 1 /\ r[Len(s) + 1] = b /\ \A i \in 1..Len(s) : r[i] = s[i]
  BY <1>1
<1>3. s \o <<b>> = r
  BY <1>1, <1>2, Joined
<1>. QED
  BY <1>3 DEF s, r

LEMMA ThreeJoined ==
    ASSUME NEW a, NEW b, NEW c
    PROVE  <<a, b>> \o <<c>> = <<a, b, c>>
<1> DEFINE T == {a, b, c}
           s == <<a, b>>
           r == <<a, b, c>>
<1>1. s \in Seq(T) /\ r \in Seq(T) /\ Len(s) = 2 /\ Len(r) = 3 /\ c \in T
      /\ s[1] = a /\ s[2] = b /\ r[1] = a /\ r[2] = b /\ r[3] = c
  OBVIOUS
<1> HIDE DEF T, s, r
<1>2. Len(r) = Len(s) + 1 /\ r[Len(s) + 1] = c /\ \A i \in 1..Len(s) : r[i] = s[i]
  BY <1>1
<1>3. s \o <<c>> = r
  BY <1>1, <1>2, Joined
<1>. QED
  BY <1>3 DEF s, r

(* What each mode makes, runs and has for ports.                           *)
LEMMA MakesAre ==
    ASSUME NEW m \in S!Mode
    PROVE  /\ S!Makes(m) \in Seq(S!Resource) /\ S!Runs(m) \in Seq(S!Device)
           /\ S!Runs(m) \in Seq(S!Resource) /\ S!Ports(m) \in Seq(S!Resource)
           /\ Len(S!Runs(m)) \in {1, 2} /\ Len(S!Ports(m)) \in {0, 1, 2}
           /\ \A i, j \in 1..Len(S!Makes(m)) : S!Makes(m)[i] = S!Makes(m)[j] => i = j
           /\ \A i, j \in 1..Len(S!Runs(m)) : S!Runs(m)[i] = S!Runs(m)[j] => i = j
           /\ \A i, j \in 1..Len(S!Ports(m)) : S!Ports(m)[i] = S!Ports(m)[j] => i = j
           /\ RunsIn(m) \cap PortsIn(m) = {}
           /\ RunsIn(m) \subseteq S!Device
           /\ S!ToSet(S!Makes(m)) = RunsIn(m) \cup PortsIn(m)
<1> USE DEF S!Combined
<1>1. CASE m = "snd_full"
  <2>1. S!Ports(m) = <<>> /\ S!Runs(m) = <<"aud">> /\ S!Makes(m) = <<"aud">>
    BY <1>1 DEF S!Ports, S!Runs, S!Makes
  <2>. QED
    BY <2>1 DEF RunsIn, PortsIn, S!ToSet, S!Resource, S!Device
<1>2. CASE m = "mod_full"
  <2>1. S!Ports(m) = <<"media">> /\ S!Runs(m) = <<"clock">>
    BY <1>2 DEF S!Ports, S!Runs
  <2>2. S!Makes(m) = S!Ports(m) \o <<"clock">>
    BY <1>2 DEF S!Makes
  <2>3. S!Makes(m) = <<"media", "clock">>
    BY <2>1, <2>2, TwoJoined
  <2>. QED
    BY <2>1, <2>3 DEF RunsIn, PortsIn, S!ToSet, S!Resource, S!Device
<1>3. CASE m = "mod_mix"
  <2>1. S!Ports(m) = <<"input", "output">> /\ S!Runs(m) = <<"clock">>
    BY <1>3 DEF S!Ports, S!Runs, S!OwnClock
  <2>2. S!Makes(m) = S!Ports(m) \o <<"clock">>
    BY <1>3 DEF S!Makes, S!OwnClock
  <2>3. S!Makes(m) = <<"input", "output", "clock">>
    BY <2>1, <2>2, ThreeJoined
  <2>. QED
    BY <2>1, <2>3 DEF RunsIn, PortsIn, S!ToSet, S!Resource, S!Device
<1>4. CASE m \in S!Combined /\ ThreadMulti
  <2>1. S!Ports(m) = <<"lport">> /\ S!Runs(m) = <<"clock">> \o <<"strm">>
    BY <1>4 DEF S!Ports, S!Runs, S!OwnClock
  <2>2. S!Makes(m) = S!Ports(m) \o <<"strm">> \o <<"clock">>
    BY <1>4 DEF S!Makes, S!OwnClock
  <2>3. S!Makes(m) = <<"lport", "strm", "clock">>
    <3>1. <<"lport">> \o <<"strm">> = <<"lport", "strm">>
      BY TwoJoined
    <3>2. <<"lport", "strm">> \o <<"clock">> = <<"lport", "strm", "clock">>
      BY ThreeJoined
    <3>. QED
      BY <2>1, <2>2, <3>1, <3>2
  <2>4. S!Runs(m) = <<"clock", "strm">>
    BY <2>1, TwoJoined
  <2>. QED
    BY <2>1, <2>3, <2>4 DEF RunsIn, PortsIn, S!ToSet, S!Resource, S!Device
<1>5. CASE m \in S!Combined /\ ~ThreadMulti
  <2>1. S!Ports(m) = <<"lport">> /\ S!Runs(m) = <<"strm">>
    BY <1>5 DEF S!Ports, S!Runs, S!OwnClock
  <2>2. S!Makes(m) = S!Ports(m) \o <<"strm">>
    BY <1>5 DEF S!Makes, S!OwnClock
  <2>3. S!Makes(m) = <<"lport", "strm">>
    BY <2>1, <2>2, TwoJoined
  <2>. QED
    BY <2>1, <2>3 DEF RunsIn, PortsIn, S!ToSet, S!Resource, S!Device
<1>. QED
  BY <1>1, <1>2, <1>3, <1>4, <1>5 DEF S!Mode

(* A list of calls that free distinct resources.                           *)
LEMMA CallsTakeDown ==
    ASSUME NEW s \in Seq(S!Resource), \A i, j \in 1..Len(s) : s[i] = s[j] => i = j
    PROVE  \A D, P : TakesDown(S!Calls("free", s), S!ToSet(s), D, P)
<1> DEFINE q == S!Calls("free", s)
<1>1. q \in Seq(Task) /\ Len(q) = Len(s) /\ \A i \in 1..Len(s) : q[i] = <<"free", s[i]>>
  BY CallsAre
<1>2. DOMAIN s = 1..Len(s) /\ S!ToSet(s) = {s[i] : i \in 1..Len(s)}
  BY LenProperties DEF S!ToSet
<1> HIDE DEF q
<1>3. \A i \in 1..Len(q) : q[i][1] = "free" /\ q[i][2] = s[i]
  BY <1>1
<1>4. \A r : r \in S!ToSet(s) <=> \E i \in 1..Len(q) : q[i] = <<"free", r>>
  <2> TAKE r
  <2>1. ASSUME r \in S!ToSet(s) PROVE \E i \in 1..Len(q) : q[i] = <<"free", r>>
    BY <1>1, <1>2, <2>1
  <2>2. ASSUME NEW i \in 1..Len(q), q[i] = <<"free", r>> PROVE r \in S!ToSet(s)
    <3>1. s[i] = r
      BY <1>3, <2>2
    <3>. QED
      BY <1>1, <1>2, <3>1
  <2>. QED
    BY <2>1, <2>2
<1>5. \A i, j \in 1..Len(q) : q[i] = q[j] => i = j
  BY <1>1, <1>3
<1>6. \A D, P : TakesDown(q, S!ToSet(s), D, P)
  BY <1>1, <1>3, <1>4, <1>5 DEF TakesDown
<1>. QED
  BY <1>6 DEF q

(* The way acore_media_sound_destroy takes a control down, as a list.      *)
LEMMA FreesAre ==
    ASSUME NEW m \in S!Mode, NEW R, R = S!Runs(m), NEW P, P = S!Ports(m), NEW q, q = S!Frees(m)
    PROVE  /\ q \in Seq(Task) /\ Len(q) = 2 * Len(R) + Len(P)
           /\ q[1] = <<"stop", R[1]>> /\ q[2] = <<"free", R[1]>>
           /\ Len(R) = 2 => q[3] = <<"stop", R[2]>> /\ q[4] = <<"free", R[2]>>
           /\ \A i \in 1..Len(P) : q[2 * Len(R) + i] = <<"free", P[i]>>
<1>1. R \in Seq(S!Resource) /\ Len(R) \in {1, 2} /\ P \in Seq(S!Resource) /\ Len(P) \in Nat
  BY MakesAre
<1> DEFINE e == S!Ends(R)
           f == S!Calls("free", P)
<1>2. /\ e \in Seq(Task) /\ Len(e) = 2 * Len(R)
      /\ e[1] = <<"stop", R[1]>> /\ e[2] = <<"free", R[1]>>
      /\ Len(R) = 2 => e[3] = <<"stop", R[2]>> /\ e[4] = <<"free", R[2]>>
  BY <1>1, EndsAre
<1>3. f \in Seq(Task) /\ Len(f) = Len(P) /\ \A i \in 1..Len(P) : f[i] = <<"free", P[i]>>
  BY <1>1, CallsAre
<1>4. q = e \o f
  BY DEF S!Frees
<1> HIDE DEF e, f
<1>5. /\ q \in Seq(Task) /\ Len(q) = Len(e) + Len(f)
      /\ \A i \in 1..Len(e) + Len(f) : q[i] = IF i <= Len(e) THEN e[i] ELSE f[i - Len(e)]
  <2>1. e \in Seq(Task) /\ f \in Seq(Task)
    BY <1>2, <1>3
  <2>2. /\ e \o f \in Seq(Task) /\ Len(e \o f) = Len(e) + Len(f)
        /\ \A i \in 1..Len(e) + Len(f) :
             (e \o f)[i] = IF i <= Len(e) THEN e[i] ELSE f[i - Len(e)]
    BY <2>1, ConcatProperties
  <2>. QED
    BY <1>4, <2>2
<1>6. \A i \in 1..Len(P) : q[2 * Len(R) + i] = <<"free", P[i]>>
  <2> TAKE i \in 1..Len(P)
  <2> DEFINE k == 2 * Len(R) + i
  <2>1. k \in 1..Len(e) + Len(f) /\ ~(k <= Len(e)) /\ k - Len(e) = i
    BY <1>1, <1>2, <1>3
  <2> HIDE DEF k
  <2>2. q[k] = f[k - Len(e)]
    BY <1>5, <2>1
  <2>3. q[k] = <<"free", P[i]>>
    BY <1>3, <2>1, <2>2
  <2>. QED
    BY <2>3 DEF k
<1>7. CASE Len(R) = 1
  <2>1. q[1] = e[1] /\ q[2] = e[2]
    BY <1>1, <1>2, <1>3, <1>5, <1>7
  <2>. QED
    BY <1>2, <1>3, <1>5, <1>6, <1>7, <2>1
<1>8. CASE Len(R) = 2
  <2>1. q[1] = e[1] /\ q[2] = e[2] /\ q[3] = e[3] /\ q[4] = e[4]
    BY <1>1, <1>2, <1>3, <1>5, <1>8
  <2>. QED
    BY <1>2, <1>3, <1>5, <1>6, <1>8, <2>1
<1>. QED
  BY <1>1, <1>7, <1>8

LEMMA FreesTakeDown ==
    ASSUME NEW m \in S!Mode
    PROVE  /\ TakesDown(S!Frees(m), S!ToSet(S!Makes(m)), RunsIn(m), PortsIn(m))
           /\ \A r \in RunsIn(m) :
                \E i \in 1..Len(S!Frees(m)) : S!Frees(m)[i] = <<"stop", r>>
<1> DEFINE R == S!Runs(m)
           P == S!Ports(m)
           q == S!Frees(m)
<1>1. /\ q \in Seq(Task) /\ Len(q) = 2 * Len(R) + Len(P)
      /\ q[1] = <<"stop", R[1]>> /\ q[2] = <<"free", R[1]>>
      /\ Len(R) = 2 => q[3] = <<"stop", R[2]>> /\ q[4] = <<"free", R[2]>>
      /\ \A i \in 1..Len(P) : q[2 * Len(R) + i] = <<"free", P[i]>>
  BY FreesAre
<1>2. /\ R \in Seq(S!Resource) /\ Len(R) \in {1, 2} /\ P \in Seq(S!Resource) /\ Len(P) \in Nat
      /\ \A i, j \in 1..Len(R) : R[i] = R[j] => i = j
      /\ \A i, j \in 1..Len(P) : P[i] = P[j] => i = j
      /\ RunsIn(m) \cap PortsIn(m) = {}
      /\ S!ToSet(S!Makes(m)) = RunsIn(m) \cup PortsIn(m)
  BY MakesAre
<1>3. RunsIn(m) = {R[i] : i \in 1..Len(R)} /\ PortsIn(m) = {P[i] : i \in 1..Len(P)}
  BY <1>2, LenProperties DEF RunsIn, PortsIn, S!ToSet
<1> DEFINE D == RunsIn(m)
           O == PortsIn(m)
           n == Len(R)
<1> HIDE DEF R, P, q, D, O
<1>4. D \cap O = {} /\ D = {R[i] : i \in 1..n} /\ O = {P[i] : i \in 1..Len(P)}
  BY <1>2, <1>3 DEF D, O
<1>5. \A i \in 1..Len(q) :
         i > 2 * n \/ (n = 1 /\ i \in {1, 2}) \/ (n = 2 /\ i \in {1, 2, 3, 4})
  <2>1. CASE n = 1
    BY <2>1
  <2>2. CASE n = 2
    BY <2>2
  <2>. QED
    BY <1>2, <2>1, <2>2
<1>6. \A i \in 1..Len(q) :
        \/ q[i][1] = "stop" /\ q[i][2] \in D /\ i <= 2 * n
        \/ q[i][1] = "free" /\ q[i][2] \in D /\ i <= 2 * n
        \/ q[i][1] = "free" /\ q[i][2] \in O /\ i > 2 * n
  <2> TAKE i \in 1..Len(q)
  <2>1. CASE i > 2 * n
    <3>1. i - 2 * n \in 1..Len(P) /\ 2 * n + (i - 2 * n) = i
      BY <1>1, <1>2, <2>1
    <3>2. q[i] = <<"free", P[i - 2 * n]>>
      BY <1>1, <3>1
    <3>. QED
      BY <1>4, <2>1, <3>1, <3>2
  <2>2. CASE n = 1 /\ i \in {1, 2}
    BY <1>1, <1>4, <2>2
  <2>3. CASE n = 2 /\ i \in {1, 2, 3, 4}
    BY <1>1, <1>4, <2>3
  <2>4. i > 2 * n \/ (n = 1 /\ i \in {1, 2}) \/ (n = 2 /\ i \in {1, 2, 3, 4})
    BY <1>5
  <2>. QED
    BY <2>1, <2>2, <2>3, <2>4
<1>7. \A i \in 1..Len(q) : i > 2 * n => ~(i <= 2 * n)
  BY <1>2
<1>8. \A i, j \in 1..Len(q) : q[i] = q[j] => i = j
  <2> SUFFICES ASSUME NEW i \in 1..Len(q), NEW j \in 1..Len(q), q[i] = q[j] PROVE i = j
    OBVIOUS
  <2>1. CASE i > 2 * n \/ j > 2 * n
    <3> DEFINE a == i - 2 * n
               b == j - 2 * n
    <3>1. i > 2 * n /\ j > 2 * n
      <4>1. q[i][2] = q[j][2]
        OBVIOUS
      <4>2. (i > 2 * n <=> q[i][2] \in O) /\ (j > 2 * n <=> q[j][2] \in O)
        BY <1>4, <1>6, <1>7
      <4>. QED
        BY <2>1, <4>1, <4>2
    <3>2. /\ a \in 1..Len(P) /\ 2 * n + a = i
          /\ b \in 1..Len(P) /\ 2 * n + b = j
      BY <1>1, <1>2, <3>1
    <3> HIDE DEF a, b
    <3>3. q[i] = <<"free", P[a]>> /\ q[j] = <<"free", P[b]>>
      BY <1>1, <3>2
    <3>4. P[a] = P[b]
      <4>1. q[i][2] = P[a]
        BY <3>3
      <4>2. q[j][2] = P[b]
        BY ONLY <3>3
      <4>. QED
        BY <4>1, <4>2
    <3>5. a = b
      BY <1>2, <3>2, <3>4
    <3>. QED
      BY <3>2, <3>5
  <2>2. CASE n = 1 /\ i \in {1, 2} /\ j \in {1, 2}
    BY <1>1, <2>2
  <2>3. CASE n = 2 /\ i \in {1, 2, 3, 4} /\ j \in {1, 2, 3, 4}
    <3>1. R[1] # R[2]
      BY <1>2, <2>3
    <3>. QED
      BY <1>1, <2>3, <3>1
  <2>. QED
    BY <1>5, <2>1, <2>2, <2>3
<1>9. \A r \in D : \E i, j \in 1..Len(q) :
        i < j /\ j <= 2 * n /\ q[i] = <<"stop", r>> /\ q[j] = <<"free", r>>
  <2> TAKE r \in D
  <2>1. CASE r = R[1]
    <3>1. 1 \in 1..Len(q) /\ 2 \in 1..Len(q) /\ 1 < 2 /\ 2 <= 2 * n
      BY <1>1, <1>2
    <3>. QED
      BY <1>1, <2>1, <3>1
  <2>2. CASE n = 2 /\ r = R[2]
    <3>1. 3 \in 1..Len(q) /\ 4 \in 1..Len(q) /\ 3 < 4 /\ 4 <= 2 * n
      BY <1>1, <1>2, <2>2
    <3>. QED
      BY <1>1, <2>2, <3>1
  <2>3. PICK k \in 1..n : r = R[k]
    BY <1>4
  <2>4. k = 1 \/ (n = 2 /\ k = 2)
    BY <1>2
  <2>. QED
    BY <2>1, <2>2, <2>3, <2>4
<1>10. \A r \in O : \E j \in 1..Len(q) : 2 * n < j /\ q[j] = <<"free", r>>
  <2> TAKE r \in O
  <2>1. PICK k \in 1..Len(P) : r = P[k]
    BY <1>4
  <2>2. 2 * n + k \in 1..Len(q) /\ 2 * n < 2 * n + k
    BY <1>1, <1>2
  <2>. QED
    BY <1>1, <2>1, <2>2
<1>11. \A r \in S!Resource : r \in D \cup O <=> \E i \in 1..Len(q) : q[i] = <<"free", r>>
  <2> TAKE r \in S!Resource
  <2>1. ASSUME NEW i \in 1..Len(q), q[i] = <<"free", r>> PROVE r \in D \cup O
    BY <1>6, <2>1
  <2>. QED
    BY <1>9, <1>10, <2>1
<1>12. \A i \in 1..Len(q) : q[i][1] = "stop" =>
         \A r \in {q[i][2]} \cup O : \E j \in 1..Len(q) : i < j /\ q[j] = <<"free", r>>
  <2> SUFFICES ASSUME NEW i \in 1..Len(q), q[i][1] = "stop", NEW r \in {q[i][2]} \cup O
               PROVE  \E j \in 1..Len(q) : i < j /\ q[j] = <<"free", r>>
    OBVIOUS
  <2>1. q[i][2] \in D /\ i <= 2 * n
    BY <1>6
  <2>2. CASE r \in O
    <3>1. PICK j \in 1..Len(q) : 2 * n < j /\ q[j] = <<"free", r>>
      BY <1>10, <2>2
    <3>2. i < j
      BY <1>2, <2>1, <3>1
    <3>. QED
      BY <3>1, <3>2
  <2>3. CASE r = q[i][2]
    <3>1. PICK k, j \in 1..Len(q) : k < j /\ q[k] = <<"stop", r>> /\ q[j] = <<"free", r>>
      BY <1>9, <2>1, <2>3
    <3>2. q[i] = <<"stop", r>>
      <4>1. q[i] \in Task
        BY <1>1, ElementOfSeq
      <4>. QED
        BY <2>3, <4>1 DEF Task
    <3>3. k = i
      BY <1>8, <3>1, <3>2
    <3>. QED
      BY <3>1, <3>3
  <2>. QED
    BY <2>2, <2>3
<1>13. \A i \in 1..Len(q) : \/ q[i][1] = "stop" /\ q[i][2] \in D
                            \/ q[i][1] = "free"
  BY <1>6
<1>14. \A r \in D : \E i \in 1..Len(q) : q[i] = <<"stop", r>>
  BY <1>9
<1>15. S!ToSet(S!Makes(m)) = D \cup O
  BY <1>2 DEF D, O
<1>16. TakesDown(q, D \cup O, D, O)
  BY <1>1, <1>8, <1>11, <1>12, <1>13, <1>14 DEF TakesDown
<1>. QED
  BY <1>14, <1>15, <1>16 DEF q, D, O

(* The first task is done.                                                 *)
LEMMA TailIs ==
    ASSUME NEW T, NEW s \in Seq(T), s # <<>>
    PROVE  /\ Len(s) \in Nat /\ Len(s) >= 1 /\ Head(s) = s[1]
           /\ Tail(s) \in Seq(T) /\ Len(Tail(s)) = Len(s) - 1
           /\ \A i \in 1..Len(s) - 1 : Tail(s)[i] = s[i + 1]
           /\ \A i \in 1..Len(s) : i = 1 \/ (i - 1 \in 1..Len(s) - 1 /\ s[i] = Tail(s)[i - 1])
<1>1. /\ Len(s) \in Nat /\ Len(s) >= 1 /\ Head(s) = s[1]
      /\ Tail(s) \in Seq(T) /\ Len(Tail(s)) = Len(s) - 1
  BY HeadTailProperties, LenProperties, EmptySeq
<1>2. \A i \in 1..Len(s) - 1 : Tail(s)[i] = s[i + 1]
  BY HeadTailProperties, <1>1
<1>3. \A i \in 1..Len(s) : i = 1 \/ (i - 1 \in 1..Len(s) - 1 /\ s[i] = Tail(s)[i - 1])
  <2> TAKE i \in 1..Len(s)
  <2>1. CASE i = 1
    BY <2>1
  <2>2. CASE i # 1
    <3> DEFINE j == i - 1
    <3>1. j \in 1..Len(s) - 1 /\ j + 1 = i
      BY <1>1, <2>2
    <3> HIDE DEF j
    <3>2. s[i] = Tail(s)[j]
      BY <1>2, <3>1
    <3>. QED
      BY <3>1, <3>2 DEF j
  <2>. QED
    BY <2>1, <2>2
<1>. QED
  BY <1>1, <1>2, <1>3

(* Then what is still to be taken down is less by what that freed.         *)
LEMMA TailTakesDown ==
    ASSUME NEW q, NEW X, NEW D, NEW P, TakesDown(q, X, D, P), q # <<>>,
           NEW Y, Y = IF Head(q)[1] = "free" THEN X \ {Head(q)[2]} ELSE X
    PROVE  /\ TakesDown(Tail(q), Y, D, P)
           /\ \A c, r : /\ \E i \in 1..Len(q) : q[i] = <<c, r>>
                        /\ Head(q) # <<c, r>>
                        => \E i \in 1..Len(Tail(q)) : Tail(q)[i] = <<c, r>>
<1> DEFINE s == Tail(q)
           n == Len(q)
           l == Len(s)
<1>1. /\ n \in Nat /\ n >= 1 /\ Head(q) = q[1] /\ s \in Seq(Task) /\ l = n - 1
      /\ \A i \in 1..l : s[i] = q[i + 1]
      /\ \A i \in 1..n : i = 1 \/ (i - 1 \in 1..l /\ q[i] = s[i - 1])
  BY TailIs DEF TakesDown
<1>2. /\ \A i \in 1..n : q[i] \in Task /\ ((q[i][1] = "stop" /\ q[i][2] \in D) \/ q[i][1] = "free")
      /\ \A r \in S!Resource : r \in X <=> \E i \in 1..n : q[i] = <<"free", r>>
      /\ \A i, j \in 1..n : q[i] = q[j] => i = j
      /\ \A i \in 1..n : q[i][1] = "stop" =>
           \A r \in {q[i][2]} \cup P : \E j \in 1..n : i < j /\ q[j] = <<"free", r>>
  BY ElementOfSeq DEF TakesDown
<1> HIDE DEF s, n
<1>3. \A i \in 1..l : i + 1 \in 1..n /\ i + 1 # 1
  BY <1>1
<1>4. \A c, r : (\E i \in 1..n : q[i] = <<c, r>>) /\ q[1] # <<c, r>> => \E i \in 1..l : s[i] = <<c, r>>
  <2> TAKE c, r
  <2> SUFFICES ASSUME NEW i \in 1..n, q[i] = <<c, r>>, q[1] # <<c, r>>
               PROVE  \E j \in 1..l : s[j] = <<c, r>>
    OBVIOUS
  <2>1. i # 1
    OBVIOUS
  <2>2. i - 1 \in 1..l /\ q[i] = s[i - 1]
    BY <1>1, <2>1
  <2>. QED
    BY <2>2
<1>5. \A i \in 1..l : (s[i][1] = "stop" /\ s[i][2] \in D) \/ s[i][1] = "free"
  <2> TAKE i \in 1..l
  <2>1. i + 1 \in 1..n /\ s[i] = q[i + 1]
    BY <1>1, <1>3
  <2>2. (q[i + 1][1] = "stop" /\ q[i + 1][2] \in D) \/ q[i + 1][1] = "free"
    BY <1>2, <2>1
  <2>. QED
    BY <2>1, <2>2
<1>6. \A i, j \in 1..l : s[i] = s[j] => i = j
  <2> SUFFICES ASSUME NEW i \in 1..l, NEW j \in 1..l, s[i] = s[j] PROVE i = j
    OBVIOUS
  <2>1. i + 1 = j + 1
    BY <1>1, <1>2, <1>3
  <2>. QED
    BY <1>1, <2>1
<1>7. \A r \in S!Resource : r \in Y <=> \E i \in 1..l : s[i] = <<"free", r>>
  <2> TAKE r \in S!Resource
  <2>1. r \in Y <=> r \in X /\ q[1] # <<"free", r>>
    <3>1. q[1] \in Task /\ 1 \in 1..n
      BY <1>1, <1>2
    <3>2. q[1] = <<q[1][1], q[1][2]>>
      BY <3>1 DEF Task
    <3>3. q[1] = <<"free", r>> <=> q[1][1] = "free" /\ q[1][2] = r
      BY <3>2
    <3>. QED
      BY <1>1, <3>3
  <2>2. ASSUME NEW i \in 1..l, s[i] = <<"free", r>> PROVE r \in Y
    <3>1. q[i + 1] = <<"free", r>> /\ i + 1 \in 1..n /\ i + 1 # 1
      BY <1>1, <1>3, <2>2
    <3>2. q[1] # <<"free", r>>
      <4>1. 1 \in 1..n
        BY <1>1
      <4>. QED
        BY <1>2, <3>1, <4>1
    <3>3. r \in X
      BY <1>2, <3>1
    <3>. QED
      BY <2>1, <3>2, <3>3
  <2>3. ASSUME r \in Y PROVE \E i \in 1..l : s[i] = <<"free", r>>
    <3>1. \E i \in 1..n : q[i] = <<"free", r>>
      BY <1>2, <2>1, <2>3
    <3>. QED
      BY <1>4, <2>1, <2>3, <3>1
  <2>. QED
    BY <2>2, <2>3
<1>8. \A i \in 1..l : s[i][1] = "stop" =>
           \A r \in {s[i][2]} \cup P : \E j \in 1..l : i < j /\ s[j] = <<"free", r>>
  <2> SUFFICES ASSUME NEW i \in 1..l, s[i][1] = "stop", NEW r \in {s[i][2]} \cup P
               PROVE  \E j \in 1..l : i < j /\ s[j] = <<"free", r>>
    OBVIOUS
  <2>1. i + 1 \in 1..n /\ s[i] = q[i + 1]
    BY <1>1, <1>3
  <2>2. PICK k \in 1..n : i + 1 < k /\ q[k] = <<"free", r>>
    BY <1>2, <2>1
  <2>3. k # 1 /\ i < k - 1
    BY <1>1, <2>2
  <2>4. k - 1 \in 1..l /\ q[k] = s[k - 1]
    BY <1>1, <2>3
  <2>. QED
    BY <2>2, <2>3, <2>4
<1>9. s \in Seq(Task)
  BY <1>1
<1>10. TakesDown(s, Y, D, P)
  BY ONLY <1>5, <1>6, <1>7, <1>8, <1>9 DEF TakesDown
<1>11. \A c, r : (\E i \in 1..n : q[i] = <<c, r>>) /\ Head(q) # <<c, r>>
                 => \E i \in 1..Len(s) : s[i] = <<c, r>>
  BY <1>1, <1>4
<1>. QED
  BY <1>10, <1>11 DEF s, n

-----------------------------------------------------------------------------
(* The threads that call back.                                             *)
LEMMA FitsIsEnough ==
    ASSUME NEW d, NEW way \in {"in", "out"}, NEW via \in S!Resource,
           via \in {S!Of(d)} \cup PortsIn(mode), way = "in" => d = Source(mode)
    PROVE  S!Move(way, via) \in MoveOf /\ Fits(S!Move(way, via), d)
  BY DEF S!Move, MoveOf, Fits

(* A list of at most two moves that fit.                                   *)
LEMMA MovesFit ==
    ASSUME NEW d, NEW x \in MoveOf, NEW y \in MoveOf, Fits(x, d), Fits(y, d),
           NEW q, q = <<x>> \/ q = <<x, y>>
    PROVE  q \in Seq(MoveOf) /\ q # <<>> /\ \A i \in 1..Len(q) : Fits(q[i], d)
<1> HIDE DEF MoveOf, Fits
<1>1. CASE q = <<x>>
  BY <1>1
<1>2. CASE q = <<x, y>>
  BY <1>2
<1>. QED
  BY <1>1, <1>2

(* What a driver of the mode does in its call-back.                        *)
LEMMA MovesAre ==
    ASSUME NEW d \in S!Driver, mode \in S!Mode, S!Called(d), S!Of(d) \in RunsIn(mode)
    PROVE  /\ S!Moves(d, mode) \in Seq(MoveOf) /\ S!Moves(d, mode) # <<>>
           /\ \A i \in 1..Len(S!Moves(d, mode)) : Fits(S!Moves(d, mode)[i], d)
<1> DEFINE in(v)  == S!Move("in", v)
           out(v) == S!Move("out", v)
           q == S!Moves(d, mode)
<1>1. d \in {"clock", "rec", "play"}
  BY DEF S!Driver
<1>2. CASE mode = "snd_full"
  <2>1. d # "clock" /\ S!Of(d) = "aud"
    <3>1. S!Runs(mode) = <<"aud">>
      BY <1>2 DEF S!Runs
    <3>2. RunsIn(mode) = {"aud"}
      BY <3>1 DEF RunsIn, S!ToSet
    <3>. QED
      BY <1>1, <1>2, <3>2 DEF S!Of, S!Stream
  <2>2. S!ClockMoves(mode) = <<>> /\ S!Stream(mode) = "aud"
    BY <1>2 DEF S!ClockMoves, S!Stream
  <2>3. CASE d = "rec"
    <3>1. q = <<in("aud")>>
      BY <2>2, <2>3 DEF S!Moves
    <3>2. in("aud") \in MoveOf /\ Fits(in("aud"), d)
      BY <1>2, <2>1, <2>3, FitsIsEnough DEF Source, S!Resource, S!Device
    <3>. QED
      BY <3>1, <3>2, MovesFit
  <2>4. CASE d = "play"
    <3>1. q = <<out("aud")>>
      BY <2>2, <2>4 DEF S!Moves
    <3>2. out("aud") \in MoveOf /\ Fits(out("aud"), d)
      BY <2>1, FitsIsEnough DEF S!Resource, S!Device
    <3>. QED
      BY <3>1, <3>2, MovesFit
  <2>. QED
    BY <1>1, <2>1, <2>3, <2>4
<1>3. CASE mode = "mod_full"
  <2>1. d = "clock"
    BY <1>1, <1>3 DEF S!Called
  <2>2. q = <<in("media"), out("media")>>
    <3>1. S!ClockMoves(mode) = <<in("media"), out("media")>>
      BY <1>3 DEF S!ClockMoves
    <3>2. q = S!ClockMoves(mode)
      BY <2>1 DEF S!Moves
    <3>. QED
      BY <3>1, <3>2
  <2>3. S!Ports(mode) = <<"media">>
    BY <1>3 DEF S!Ports, S!Combined
  <2>4. "media" \in PortsIn(mode) /\ d = Source(mode)
    BY <1>3, <2>1, <2>3 DEF PortsIn, S!ToSet, Source
  <2>5. in("media") \in MoveOf /\ Fits(in("media"), d) /\ out("media") \in MoveOf /\ Fits(out("media"), d)
    BY <2>4, FitsIsEnough DEF S!Resource
  <2>. QED
    BY <2>2, <2>5, MovesFit
<1>4. CASE mode = "mod_mix"
  <2>1. d = "clock"
    BY <1>1, <1>4 DEF S!Called
  <2>2. q = <<in("input"), out("output")>>
    <3>1. S!ClockMoves(mode) = <<in("input"), out("output")>>
      BY <1>4 DEF S!ClockMoves
    <3>2. q = S!ClockMoves(mode)
      BY <2>1 DEF S!Moves
    <3>. QED
      BY <3>1, <3>2
  <2>3. S!Ports(mode) = <<"input", "output">>
    BY <1>4 DEF S!Ports, S!Combined
  <2>4. "input" \in PortsIn(mode) /\ "output" \in PortsIn(mode) /\ d = Source(mode)
    BY <1>4, <2>1, <2>3 DEF PortsIn, S!ToSet, Source
  <2>5. in("input") \in MoveOf /\ Fits(in("input"), d) /\ out("output") \in MoveOf /\ Fits(out("output"), d)
    BY <2>4, FitsIsEnough DEF S!Resource
  <2>. QED
    BY <2>2, <2>5, MovesFit
<1>5. ASSUME mode \in S!Combined
      PROVE  /\ "lport" \in PortsIn(mode) /\ S!Stream(mode) = "strm"
             /\ ~ThreadMulti => d # "clock"
             /\ d # "clock" => S!Of(d) = "strm"
  <2>1. S!Ports(mode) = <<"lport">>
    BY <1>5 DEF S!Ports, S!Combined
  <2>2. "lport" \in PortsIn(mode)
    BY <2>1 DEF PortsIn, S!ToSet
  <2>3. S!Stream(mode) = "strm"
    BY <1>5 DEF S!Combined, S!Stream
  <2>4. ~ThreadMulti => RunsIn(mode) = {"strm"}
    <3>1. ~ThreadMulti => S!Runs(mode) = <<"strm">>
      BY <1>5 DEF S!Runs, S!OwnClock, S!Combined
    <3>. QED
      BY <3>1 DEF RunsIn, S!ToSet
  <2>. QED
    BY <2>2, <2>3, <2>4 DEF S!Of
<1>6. CASE mode = "mix_capture"
  <2>1. d \in {"clock", "play"} /\ S!ClockMoves(mode) = <<in("lport")>>
    BY <1>1, <1>6 DEF S!Called, S!ClockMoves
  <2>2. /\ "lport" \in PortsIn(mode) /\ S!Stream(mode) = "strm"
        /\ ~ThreadMulti => d # "clock"
        /\ d # "clock" => S!Of(d) = "strm"
    BY <1>5, <1>6 DEF S!Combined
  <2>3. CASE d = "clock"
    <3>1. q = <<in("lport")>>
      BY <2>1, <2>3 DEF S!Moves
    <3>2. in("lport") \in MoveOf /\ Fits(in("lport"), d)
      BY <1>6, <2>2, <2>3, FitsIsEnough DEF Source, S!Resource
    <3>. QED
      BY <3>1, <3>2, MovesFit
  <2>4. CASE d = "play" /\ ThreadMulti
    <3>1. q = <<out("strm")>>
      BY <2>2, <2>4 DEF S!Moves
    <3>2. out("strm") \in MoveOf /\ Fits(out("strm"), d)
      BY <2>2, <2>4, FitsIsEnough DEF S!Resource, S!Device
    <3>. QED
      BY <3>1, <3>2, MovesFit
  <2>5. CASE d = "play" /\ ~ThreadMulti
    <3>1. q = <<in("lport"), out("strm")>>
      <4>1. q = <<in("lport")>> \o <<out("strm")>>
        BY <2>1, <2>2, <2>5 DEF S!Moves
      <4>. QED
        BY <4>1, TwoJoined
    <3>2. in("lport") \in MoveOf /\ Fits(in("lport"), d)
      BY <1>6, <2>2, <2>5, FitsIsEnough DEF Source, S!Resource
    <3>3. out("strm") \in MoveOf /\ Fits(out("strm"), d)
      BY <2>2, <2>5, FitsIsEnough DEF S!Resource, S!Device
    <3>. QED
      BY <3>1, <3>2, <3>3, MovesFit
  <2>. QED
    BY <2>1, <2>3, <2>4, <2>5
<1>7. CASE mode = "mix_playback"
  <2>1. d \in {"clock", "rec"} /\ S!ClockMoves(mode) = <<out("lport")>>
    BY <1>1, <1>7 DEF S!Called, S!ClockMoves
  <2>2. /\ "lport" \in PortsIn(mode) /\ S!Stream(mode) = "strm"
        /\ ~ThreadMulti => d # "clock"
        /\ d # "clock" => S!Of(d) = "strm"
    BY <1>5, <1>7 DEF S!Combined
  <2>3. CASE d = "clock"
    <3>1. q = <<out("lport")>>
      BY <2>1, <2>3 DEF S!Moves
    <3>2. out("lport") \in MoveOf /\ Fits(out("lport"), d)
      BY <2>2, FitsIsEnough DEF S!Resource
    <3>. QED
      BY <3>1, <3>2, MovesFit
  <2>4. ASSUME d = "rec"
        PROVE  in("strm") \in MoveOf /\ Fits(in("strm"), d)
    BY <1>7, <2>2, <2>4, FitsIsEnough DEF Source, S!Resource, S!Device
  <2>5. CASE d = "rec" /\ ThreadMulti
    <3>1. q = <<in("strm")>>
      BY <2>2, <2>5 DEF S!Moves
    <3>. QED
      BY <2>4, <2>5, <3>1, MovesFit
  <2>6. CASE d = "rec" /\ ~ThreadMulti
    <3>1. q = <<in("strm"), out("lport")>>
      <4>1. q = <<in("strm")>> \o <<out("lport")>>
        BY <2>1, <2>2, <2>6 DEF S!Moves
      <4>. QED
        BY <4>1, TwoJoined
    <3>2. out("lport") \in MoveOf /\ Fits(out("lport"), d)
      BY <2>2, <2>6, FitsIsEnough DEF S!Resource
    <3>. QED
      BY <2>4, <2>6, <3>1, <3>2, MovesFit
  <2>. QED
    BY <2>1, <2>3, <2>5, <2>6
<1>. QED
  BY <1>2, <1>3, <1>4, <1>6, <1>7 DEF S!Mode, S!Combined

(* A call-back begins, ...                                                 *)
LEMMA CallBackKeeps ==
    ASSUME SIInv, NEW d \in S!Driver, S!CallBack(d)
    PROVE  SIInv'
<1> DEFINE q == S!Moves(d, mode)
<1>1. /\ S!Called(d) /\ S!Of(d) \in going /\ cb[d] = <<>> /\ cb' = [cb EXCEPT ![d] = q]
      /\ UNCHANGED <<mode, op, todo, held, going, mute, taken, late>>
  BY DEF S!CallBack, S!app
<1>2. S!Of(d) \in RunsIn(mode)
  <2>1. CASE op \in {"none", "create"}
    BY <1>1, <2>1 DEF SIInv, Still
  <2>2. CASE op \in {"idle", "start", "stop"}
    BY <1>1, <2>2 DEF SIInv, Working
  <2>3. CASE op \in {"undo", "destroy"}
    <3>1. PICK i \in 1..Len(todo) : todo[i] = <<"stop", S!Of(d)>>
      BY <1>1, <2>3 DEF SIInv, TakenDown, Due
    <3>2. todo[i][1] = "stop" /\ todo[i][2] = S!Of(d)
      BY <3>1
    <3>. QED
      BY <2>3, <3>2 DEF SIInv, TakenDown, TakesDown
  <2>. QED
    BY <2>1, <2>2, <2>3 DEF SIInv, S!TypeOK
<1>3. q \in Seq(MoveOf) /\ \A i \in 1..Len(q) : Fits(q[i], d)
  BY <1>1, <1>2, MovesAre DEF SIInv, S!TypeOK
<1> HIDE DEF q
<1>4. cb \in [S!Driver -> Seq(MoveOf)] /\ cb' \in [S!Driver -> Seq(MoveOf)]
      /\ cb'[d] = q /\ \A e \in S!Driver : e # d => cb'[e] = cb[e]
  <2>1. cb \in [S!Driver -> Seq(MoveOf)]
    BY DEF SIInv, S!TypeOK, MoveOf
  <2>. QED
    BY <1>1, <1>3, <2>1
<1>5. S!TypeOK'
  BY <1>1, <1>4 DEF SIInv, S!TypeOK, MoveOf
<1>6. \A e : S!Of(e)' = S!Of(e)
  BY <1>1 DEF S!Of, S!Stream
<1>8. taken[d] = "nothing"
  <2>1. taken[d] # "nothing" => cb[d] # <<>>
    BY DEF SIInv, Framing
  <2>. QED
    BY <1>1, <2>1
<1>9. Framing'
  <2> SUFFICES ASSUME NEW e \in S!Driver
               PROVE  /\ taken'[e] # "nothing" => cb'[e] # <<>>
                      /\ cb'[e] # <<>> => S!Of(e)' \in RunsIn(mode)'
                      /\ \A i \in 1..Len(cb'[e]) : Fits(cb[e][i], e)'
    BY DEF Framing
  <2>1. taken'[e] # "nothing" => cb'[e] # <<>>
    BY <1>1, <1>4, <1>8 DEF SIInv, Framing
  <2>2. cb'[e] # <<>> => S!Of(e) \in RunsIn(mode)
    BY <1>2, <1>4 DEF SIInv, Framing
  <2>3. \A i \in 1..Len(cb'[e]) : Fits(cb'[e][i], e)
    <3>1. CASE e = d
      BY <1>3, <1>4, <3>1
    <3>2. CASE e # d
      BY <1>4, <3>2 DEF SIInv, Framing
    <3>. QED
      BY <3>1, <3>2
  <2>4. \A i \in 1..Len(cb'[e]) : Fits(cb[e][i], e)'
    BY <1>1, <1>6, <2>3 DEF Fits
  <2>. QED
    BY <1>1, <1>6, <2>1, <2>2, <2>4
<1>10. Heard'
  <2>1. \A e \in S!Driver : Sounding(e)' => Sounding(e)
    BY <1>1, <1>4, <1>8 DEF Sounding
  <2>. QED
    BY <1>1, <2>1 DEF SIInv, Heard
<1>11. BeingMade'
  BY <1>1 DEF SIInv, BeingMade
<1>12. TakenDown'
  <2> SUFFICES ASSUME op \in {"undo", "destroy"}
               PROVE  \A e \in S!Driver : cb'[e] # <<>> => Due("stop", S!Of(e))
    BY <1>1, <1>6 DEF SIInv, TakenDown, Due
  <2>. QED
    BY <1>1, <1>4 DEF SIInv, TakenDown
<1>13. Working'
  BY <1>1 DEF SIInv, Working
<1>14. Still'
  <2>1. op \notin {"none", "create"}
    BY <1>1 DEF SIInv, Still
  <2>. QED
    BY <1>1, <2>1 DEF SIInv, Still
<1>. QED
  BY <1>5, <1>9, <1>10, <1>11, <1>12, <1>13, <1>14 DEF SIInv

(* ... asks for a frame ...                                                *)
LEMMA TakeFrameKeeps ==
    ASSUME SIInv, NEW d \in S!Driver, S!TakeFrame(d)
    PROVE  SIInv'
<1>1. /\ cb[d] # <<>> /\ taken[d] = "nothing"
      /\ taken' = [taken EXCEPT ![d] = IF S!Muted(Head(cb[d])) THEN "silence" ELSE "sound"]
      /\ UNCHANGED <<mode, op, todo, held, going, mute, cb, late>>
  BY DEF S!TakeFrame, S!app
<1>2. taken \in [S!Driver -> {"nothing", "sound", "silence"}]
  BY DEF SIInv, S!TypeOK
<1>3. /\ taken' \in [S!Driver -> {"nothing", "sound", "silence"}]
      /\ taken'[d] = IF S!Muted(Head(cb[d])) THEN "silence" ELSE "sound"
      /\ \A e \in S!Driver : e # d => taken'[e] = taken[e]
  BY <1>1, <1>2
<1>4. S!TypeOK'
  BY <1>1, <1>3 DEF SIInv, S!TypeOK
<1>5. Framing'
  <2>1. \A e \in S!Driver : taken'[e] # "nothing" => cb[e] # <<>>
    BY <1>1, <1>3 DEF SIInv, Framing
  <2>2. \A e : S!Of(e)' = S!Of(e)
    BY <1>1 DEF S!Of, S!Stream
  <2>3. \A x, e : Fits(x, e)' <=> Fits(x, e)
    BY <1>1, <2>2 DEF Fits
  <2>. QED
    BY <1>1, <2>1, <2>2, <2>3 DEF SIInv, Framing
<1>6. Heard'
  <2>1. mute => \A e \in S!Driver : Sounding(e)' => Sounding(e)
    <3> SUFFICES ASSUME mute, NEW e \in S!Driver, Sounding(e)' PROVE Sounding(e)
      OBVIOUS
    <3>1. taken'[e] = "sound" /\ cb[e] # <<>> /\ Head(cb[e]).dir = "in"
      BY <1>1 DEF Sounding
    <3>2. e # d
      BY <1>3, <3>1 DEF S!Muted
    <3>. QED
      BY <1>3, <3>1, <3>2 DEF Sounding
  <2>. QED
    BY <1>1, <2>1 DEF SIInv, Heard
<1>7. BeingMade'
  BY <1>1 DEF SIInv, BeingMade
<1>8. TakenDown'
  <2>1. \A e : S!Of(e)' = S!Of(e)
    BY <1>1 DEF S!Of, S!Stream
  <2>. QED
    BY <1>1, <2>1 DEF SIInv, TakenDown, Due
<1>9. Working' /\ Still'
  BY <1>1 DEF SIInv, Working, Still
<1>. QED
  BY <1>4, <1>5, <1>6, <1>7, <1>8, <1>9 DEF SIInv

(* ... and hands it on.                                                    *)
LEMMA GiveFrameKeeps ==
    ASSUME SIInv, NEW d \in S!Driver, S!GiveFrame(d)
    PROVE  SIInv'
<1>1. /\ taken[d] # "nothing"
      /\ taken' = [taken EXCEPT ![d] = "nothing"]
      /\ cb' = [cb EXCEPT ![d] = Tail(@)]
      /\ late' = IF mute /\ taken[d] = "sound" /\ Head(cb[d]).dir = "in"
                 THEN IF late = 2 THEN 2 ELSE late + 1
                 ELSE late
      /\ UNCHANGED <<mode, op, todo, held, going, mute>>
  BY DEF S!GiveFrame, S!app
<1>2. cb[d] # <<>>
  BY <1>1 DEF SIInv, Framing
<1>3. /\ cb \in [S!Driver -> Seq(MoveOf)]
      /\ taken \in [S!Driver -> {"nothing", "sound", "silence"}]
      /\ late \in 0..2
  BY DEF SIInv, S!TypeOK, MoveOf
<1>4. /\ Head(cb[d]) = cb[d][1] /\ 1 \in 1..Len(cb[d])
      /\ Tail(cb[d]) \in Seq(MoveOf)
      /\ \A i \in 1..Len(Tail(cb[d])) : i + 1 \in 1..Len(cb[d]) /\ Tail(cb[d])[i] = cb[d][i + 1]
  <2>1. cb[d] \in Seq(MoveOf)
    BY <1>3
  <2> DEFINE s == cb[d]
  <2> HIDE DEF s
  <2>2. /\ Len(s) \in Nat /\ Len(s) >= 1 /\ Head(s) = s[1]
        /\ Tail(s) \in Seq(MoveOf) /\ Len(Tail(s)) = Len(s) - 1
        /\ \A i \in 1..Len(s) - 1 : Tail(s)[i] = s[i + 1]
    BY <1>2, <2>1, TailIs DEF s
  <2>3. \A i \in 1..Len(Tail(s)) : i + 1 \in 1..Len(s) /\ Tail(s)[i] = s[i + 1]
    BY <2>2
  <2>. QED
    BY <2>2, <2>3 DEF s
<1>5. /\ cb' \in [S!Driver -> Seq(MoveOf)] /\ cb'[d] = Tail(cb[d])
      /\ taken' \in [S!Driver -> {"nothing", "sound", "silence"}] /\ taken'[d] = "nothing"
      /\ \A e \in S!Driver : e # d => cb'[e] = cb[e] /\ taken'[e] = taken[e]
  BY <1>1, <1>3, <1>4
<1>6. \A e \in S!Driver : Sounding(e)' => e # d /\ Sounding(e)
  BY <1>5 DEF Sounding
<1>7. Heard' /\ late' \in 0..2
  <2>1. CASE mute /\ Sounding(d)
    <3>1. \A e \in S!Driver : e # d => ~Sounding(e)
      <4> SUFFICES ASSUME NEW e \in S!Driver, Sounding(e) PROVE e = d
        OBVIOUS
      <4>1. cb[e] \in Seq(MoveOf) /\ cb[e] # <<>> /\ Head(cb[e]).dir = "in" /\ Head(cb[d]).dir = "in"
        BY <1>3, <2>1 DEF Sounding
      <4>2. Len(cb[e]) >= 1 /\ Len(cb[e]) \in Nat /\ Head(cb[e]) = cb[e][1]
        BY <4>1, TailIs
      <4>3. 1 \in 1..Len(cb[e])
        BY <4>2
      <4>4. Fits(cb[e][1], e) /\ Fits(cb[d][1], d)
        BY <1>4, <4>3 DEF SIInv, Framing
      <4>. QED
        BY <1>4, <4>1, <4>2, <4>4 DEF Fits
    <3>2. late = 0
      BY <1>3, <2>1 DEF SIInv, Heard
    <3>3. late' = 1
      BY <1>1, <2>1, <3>2 DEF Sounding
    <3>. QED
      BY <1>6, <3>1, <3>3 DEF Heard
  <2>2. CASE ~(mute /\ Sounding(d))
    <3>1. late' = late
      BY <1>1, <1>2, <2>2 DEF Sounding
    <3>. QED
      BY <1>1, <1>3, <1>6, <3>1 DEF SIInv, Heard
  <2>. QED
    BY <2>1, <2>2
<1>8. S!TypeOK'
  BY <1>1, <1>5, <1>7 DEF SIInv, S!TypeOK, MoveOf
<1>9. \A e : S!Of(e)' = S!Of(e)
  BY <1>1 DEF S!Of, S!Stream
<1>10. \A e \in S!Driver : cb'[e] # <<>> => cb[e] # <<>>
  BY <1>2, <1>5
<1>11. Framing'
  <2> SUFFICES ASSUME NEW e \in S!Driver
               PROVE  /\ taken'[e] # "nothing" => cb'[e] # <<>>
                      /\ cb'[e] # <<>> => S!Of(e)' \in RunsIn(mode)'
                      /\ \A i \in 1..Len(cb'[e]) : Fits(cb[e][i], e)'
    BY DEF Framing
  <2>1. taken'[e] # "nothing" => cb'[e] # <<>>
    <3>1. e = d \/ (taken[e] # "nothing" => cb[e] # <<>>)
      BY DEF SIInv, Framing
    <3>. QED
      BY <1>5, <3>1
  <2>2. cb'[e] # <<>> => S!Of(e) \in RunsIn(mode)
    BY <1>10 DEF SIInv, Framing
  <2>3. \A i \in 1..Len(cb'[e]) : Fits(cb'[e][i], e)
    <3>1. CASE e = d
      <4> TAKE i \in 1..Len(cb'[e])
      <4>1. i + 1 \in 1..Len(cb[d]) /\ cb'[e][i] = cb[d][i + 1]
        BY <1>4, <1>5, <3>1
      <4>2. Fits(cb[d][i + 1], d)
        BY <4>1 DEF SIInv, Framing
      <4>. QED
        BY <3>1, <4>1, <4>2
    <3>2. CASE e # d
      BY <1>5, <3>2 DEF SIInv, Framing
    <3>. QED
      BY <3>1, <3>2
  <2>4. \A i \in 1..Len(cb'[e]) : Fits(cb[e][i], e)'
    BY <1>1, <1>9, <2>3 DEF Fits
  <2>. QED
    BY <1>1, <1>9, <2>1, <2>2, <2>4
<1>12. BeingMade'
  BY <1>1 DEF SIInv, BeingMade
<1>13. TakenDown'
  BY <1>1, <1>9, <1>10 DEF SIInv, TakenDown, Due
<1>14. Working'
  BY <1>1 DEF SIInv, Working
<1>15. Still'
  BY <1>1, <1>2, <1>10 DEF SIInv, Still
<1>. QED
  BY <1>7, <1>8, <1>11, <1>12, <1>13, <1>14, <1>15 DEF SIInv

-----------------------------------------------------------------------------
(* The calls of the application.  They leave the call-backs as they are.   *)
LEMMA FramesStay ==
    ASSUME SIInv, UNCHANGED <<mode, cb, taken, late>>
    PROVE  /\ Framing'
           /\ mute' = mute => Heard'
           /\ \A e : S!Of(e)' = S!Of(e)
<1>1. \A e : S!Of(e)' = S!Of(e)
  BY DEF S!Of, S!Stream
<1>2. Framing'
  BY <1>1 DEF SIInv, Framing, Fits
<1>3. mute' = mute => Heard'
  BY DEF SIInv, Heard, Sounding
<1>. QED
  BY <1>1, <1>2, <1>3

(* What the next task tells of the call.                                   *)
LEMMA DoingFacts ==
    ASSUME SIInv, NEW c, S!Doing(c)
    PROVE  /\ todo \in Seq(Task) /\ todo # <<>>
           /\ Len(todo) \in Nat /\ 1 \in 1..Len(todo)
           /\ Head(todo) = todo[1] /\ todo[1] = <<c, S!It>> /\ S!It \in S!Resource
           /\ Tail(todo) \in Seq(Task) /\ Len(Tail(todo)) = Len(todo) - 1
           /\ \A i \in 1..Len(todo) - 1 : i + 1 \in 1..Len(todo) /\ Tail(todo)[i] = todo[i + 1]
           /\ op \notin {"none", "idle"}
           /\ c = "make" => op = "create"
           /\ c = "free" => op \in {"undo", "destroy"}
           /\ c = "start" => op \in {"start", "stop"}
           /\ c = "stop" => op \in {"start", "stop", "undo", "destroy"}
<1>1. todo \in Seq(Task) /\ todo # <<>> /\ Head(todo)[1] = c
  BY DEF S!Doing, SIInv, S!TypeOK, Task
<1>2. /\ Len(todo) \in Nat /\ Len(todo) >= 1 /\ Head(todo) = todo[1]
      /\ Tail(todo) \in Seq(Task) /\ Len(Tail(todo)) = Len(todo) - 1
      /\ \A i \in 1..Len(todo) - 1 : Tail(todo)[i] = todo[i + 1]
  BY <1>1, TailIs
<1>3. 1 \in 1..Len(todo) /\ \A i \in 1..Len(todo) - 1 : i + 1 \in 1..Len(todo)
  BY <1>2
<1>4. todo[1] \in Task
  BY <1>1, <1>3, ElementOfSeq
<1>5. todo[1] = <<c, S!It>> /\ S!It \in S!Resource
  BY <1>1, <1>2, <1>4 DEF Task, S!It
<1>6. todo[1][1] = c
  BY <1>5
<1>7. op \notin {"none", "idle"}
  BY <1>1 DEF SIInv, Still
<1>8. op = "create" => c = "make"
  BY <1>3, <1>6 DEF SIInv, BeingMade
<1>9. op \in {"undo", "destroy"} => c \in {"stop", "free"}
  BY <1>3, <1>6 DEF SIInv, TakenDown, TakesDown
<1>10. op \in {"start", "stop"} => c \in {"start", "stop"}
  BY <1>3, <1>6 DEF SIInv, Working
<1>11. op \in {"none", "create", "undo", "idle", "start", "stop", "destroy"}
  BY DEF SIInv, S!TypeOK
<1>. QED
  BY <1>1, <1>2, <1>3, <1>5, <1>7, <1>8, <1>9, <1>10, <1>11

LEMMA CreateKeeps ==
    ASSUME SIInv, NEW source, NEW player, S!Create(source, player)
    PROVE  SIInv'
<1>1. /\ op = "none" /\ op' = "create" /\ mode' = S!ModeOf(source, player)
      /\ todo' = S!Calls("make", S!Makes(mode')) /\ mute' = FALSE /\ late' = 0
      /\ UNCHANGED <<held, going, cb, taken>>
  BY DEF S!Create
<1>2. mode' \in S!Mode
  BY <1>1 DEF S!ModeOf, S!Mode, S!Combined
<1>3. held = {} /\ going = {} /\ \A d \in S!Driver : cb[d] = <<>> /\ Len(cb[d]) = 0
  BY <1>1 DEF SIInv, Still
<1> DEFINE m == mode'
           s == S!Makes(m)
<1>4. s \in Seq(S!Resource)
  BY <1>2, MakesAre
<1>5. /\ todo' \in Seq(Task) /\ Len(todo') = Len(s)
      /\ \A i \in 1..Len(s) : todo'[i] = <<"make", s[i]>>
  BY <1>1, <1>4, CallsAre
<1>6. S!TypeOK'
  <2>1. mode' \in S!Mode /\ todo' \in Seq(Task)
    BY <1>2, <1>5
  <2>2. op' = "create" /\ late' = 0 /\ UNCHANGED <<held, going, cb, taken>>
    BY <1>1
  <2>3. mute' \in BOOLEAN
    BY <1>1
  <2>4. /\ held \in SUBSET S!Resource /\ going \in SUBSET S!Device
        /\ cb \in [S!Driver -> Seq([dir : {"in", "out"}, via : S!Resource])]
        /\ taken \in [S!Driver -> {"nothing", "sound", "silence"}]
    BY DEF SIInv, S!TypeOK
  <2>5. /\ held' \in SUBSET S!Resource /\ going' \in SUBSET S!Device
        /\ cb' \in [S!Driver -> Seq([dir : {"in", "out"}, via : S!Resource])]
        /\ taken' \in [S!Driver -> {"nothing", "sound", "silence"}]
    BY ONLY <2>2, <2>4
  <2>6. op' \in {"none", "create", "undo", "idle", "start", "stop", "destroy"} /\ late' \in 0..2
    BY ONLY <2>2
  <2>7. todo' \in Seq({"make", "free", "start", "stop"} \X S!Resource)
    BY ONLY <2>1 DEF Task
  <2>. QED
    BY ONLY <2>1, <2>3, <2>5, <2>6, <2>7 DEF S!TypeOK
<1>7. Framing'
  BY <1>1, <1>3 DEF SIInv, Framing
<1>8. Heard'
  BY <1>1 DEF Heard
<1>9. BeingMade'
  <2>1. Len(s) \in Nat
    BY <1>4, LenProperties
  <2>2. 0 \in 0..Len(s) /\ Len(todo') = Len(s) - 0 /\ {s[i] : i \in 1..0} = {}
    BY <1>5, <2>1
  <2>3. \A i \in 1..Len(todo') : todo'[i] = <<"make", s[0 + i]>>
    BY <1>5
  <2>4. held' = {s[i] : i \in 1..0}
    BY <1>1, <1>3, <2>2
  <2>. QED
    BY <2>2, <2>3, <2>4 DEF BeingMade
<1>10. TakenDown' /\ Working' /\ Still'
  BY <1>1, <1>3 DEF TakenDown, Working, Still
<1>. QED
  BY <1>6, <1>7, <1>8, <1>9, <1>10 DEF SIInv

(* The parts of one mode, by name.                                         *)
LEMMA MakesByName ==
    ASSUME NEW m \in S!Mode
    PROVE  /\ m = "snd_full" => S!Makes(m) = <<"aud">>
           /\ m = "mod_full" => S!Makes(m) = <<"media", "clock">>
           /\ m = "mod_mix" => S!Makes(m) = <<"input", "output", "clock">>
           /\ m \in S!Combined => \/ S!Makes(m) = <<"lport", "strm">>
                                  \/ S!Makes(m) = <<"lport", "strm", "clock">>
<1>1. S!Ports("mod_full") = <<"media">> /\ S!Ports("mod_mix") = <<"input", "output">>
  BY DEF S!Ports, S!Combined
<1>2. m \in S!Combined => S!Ports(m) = <<"lport">>
  BY DEF S!Ports, S!Combined
<1>3. m = "snd_full" => S!Makes(m) = <<"aud">>
  BY DEF S!Makes, S!Combined
<1>4. m = "mod_full" => S!Makes(m) = <<"media", "clock">>
  <2>1. m = "mod_full" => S!Makes(m) = <<"media">> \o <<"clock">>
    BY <1>1 DEF S!Makes, S!Combined
  <2>. QED
    BY <2>1, TwoJoined
<1>5. m = "mod_mix" => S!Makes(m) = <<"input", "output", "clock">>
  <2>1. m = "mod_mix" => S!Makes(m) = <<"input", "output">> \o <<"clock">>
    BY <1>1 DEF S!Makes, S!Combined
  <2>. QED
    BY <2>1, ThreeJoined
<1>6. ASSUME m \in S!Combined
      PROVE  S!Makes(m) = <<"lport", "strm">> \/ S!Makes(m) = <<"lport", "strm", "clock">>
  <2>1. S!Makes(m) = S!Ports(m) \o <<"strm">> \o S!OwnClock
    BY <1>6 DEF S!Makes, S!Combined
  <2>2. S!Makes(m) = <<"lport", "strm">> \o S!OwnClock
    <3>1. <<"lport">> \o <<"strm">> = <<"lport", "strm">>
      BY TwoJoined
    <3>. QED
      BY <1>2, <1>6, <2>1, <3>1
  <2>3. CASE ThreadMulti
    <3>1. S!OwnClock = <<"clock">>
      BY <2>3 DEF S!OwnClock
    <3>2. <<"lport", "strm">> \o <<"clock">> = <<"lport", "strm", "clock">>
      BY ThreeJoined
    <3>. QED
      BY <2>2, <3>1, <3>2
  <2>4. CASE ~ThreadMulti
    <3>1. S!OwnClock = <<>>
      BY <2>4 DEF S!OwnClock
    <3>2. <<"lport", "strm">> \in Seq({"lport", "strm"})
      OBVIOUS
    <3>3. <<"lport", "strm">> \o <<>> = <<"lport", "strm">>
      BY <3>2, ConcatEmptySeq
    <3>. QED
      BY <2>2, <3>1, <3>3
  <2>. QED
    BY <2>3, <2>4
<1>. QED
  BY <1>3, <1>4, <1>5, <1>6

(* What is held when part k + 1 is to be made is just what is given back   *)
(* if that fails.                                                          *)
LEMMA GivesBackHeld ==
    ASSUME mode \in S!Mode, NEW k \in Nat, k + 1 \in 1..Len(S!Makes(mode)),
           NEW r, r = S!Makes(mode)[k + 1], r # "input",
           \/ held = {S!Makes(mode)[i] : i \in 1..k}
           \/ mode = "mod_mix" /\ k = 1 /\ held = {}
    PROVE  /\ S!GivesBack(mode, r) \in Seq(S!Resource)
           /\ S!ToSet(S!GivesBack(mode, r)) = held
           /\ \A i, j \in 1..Len(S!GivesBack(mode, r)) :
                S!GivesBack(mode, r)[i] = S!GivesBack(mode, r)[j] => i = j
<1> DEFINE s == S!Makes(mode)
           g == S!GivesBack(mode, r)
           h == {s[i] : i \in 1..k}
<1>1. /\ k = 0 => h = {}
      /\ k = 1 => h = {s[1]}
      /\ k = 2 => h = {s[1], s[2]}
  <2>1. k = 0 => 1..k = {}
    OBVIOUS
  <2>2. k = 1 => 1..k = {1}
    OBVIOUS
  <2>3. k = 2 => 1..k = {1, 2}
    OBVIOUS
  <2>. QED
    BY <2>1, <2>2, <2>3
<1> DEFINE Good == /\ g \in Seq(S!Resource) /\ S!ToSet(g) = held
                   /\ \A i, j \in 1..Len(g) : g[i] = g[j] => i = j
<1> HIDE DEF g, h
<1>2. /\ g = <<>> /\ held = {} => Good
      /\ \A x \in S!Resource : g = <<x>> /\ held = {x} => Good
      /\ g = <<"input", "output">> /\ held = {"input", "output"} => Good
      /\ g = <<"lport", "strm">> /\ held = {"lport", "strm"} => Good
  <2>1. g = <<>> /\ held = {} => Good
    BY DEF S!ToSet
  <2>2. \A x \in S!Resource : g = <<x>> /\ held = {x} => Good
    BY DEF S!ToSet
  <2>3. g = <<"input", "output">> /\ held = {"input", "output"} => Good
    BY DEF S!ToSet, S!Resource
  <2>4. g = <<"lport", "strm">> /\ held = {"lport", "strm"} => Good
    BY DEF S!ToSet, S!Resource, S!Device
  <2>. QED
    BY <2>1, <2>2, <2>3, <2>4
<1> HIDE DEF Good
<1>3. /\ mode = "snd_full" => s = <<"aud">>
      /\ mode = "mod_full" => s = <<"media", "clock">>
      /\ mode = "mod_mix" => s = <<"input", "output", "clock">>
      /\ mode \in S!Combined => s = <<"lport", "strm">> \/ s = <<"lport", "strm", "clock">>
  BY MakesByName
<1>4. held = h \/ (mode = "mod_mix" /\ k = 1 /\ held = {})
  BY DEF h
<1>5. ASSUME mode = "snd_full" PROVE Good
  <2>1. Len(s) = 1 /\ k = 0 /\ r = "aud"
    BY <1>3, <1>5
  <2>2. g = <<>>
    BY <1>5, <2>1 DEF g, S!GivesBack, S!Combined
  <2>. QED
    BY <1>1, <1>2, <1>4, <1>5, <2>1, <2>2
<1>6. ASSUME mode = "mod_full" PROVE Good
  <2>1. s[1] = "media" /\ s[2] = "clock" /\ (k = 0 \/ k = 1)
    BY <1>3, <1>6
  <2>2. k = 0 => g = <<>>
    BY <1>6, <2>1 DEF g, S!GivesBack, S!Combined
  <2>3. k = 1 => g = <<"media">>
    BY <1>6, <2>1 DEF g, S!GivesBack, S!Combined
  <2>4. "media" \in S!Resource
    BY DEF S!Resource
  <2>. QED
    BY <1>1, <1>2, <1>4, <1>6, <2>1, <2>2, <2>3, <2>4
<1>7. ASSUME mode = "mod_mix" PROVE Good
  <2>1. s[1] = "input" /\ s[2] = "output" /\ s[3] = "clock" /\ (k = 1 \/ k = 2)
    BY <1>3, <1>7
  <2>2. k = 1 => g = IF "input" \in held THEN <<"input">> ELSE <<>>
    BY <1>7, <2>1 DEF g, S!GivesBack, S!Combined
  <2>3. k = 2 => g = <<"input", "output">>
    BY <1>7, <2>1 DEF g, S!GivesBack, S!Combined
  <2>4. "input" \in S!Resource
    BY DEF S!Resource
  <2>5. k = 1 => Good
    BY <1>1, <1>2, <1>4, <2>1, <2>2, <2>4
  <2>6. k = 2 => Good
    BY <1>1, <1>2, <1>4, <2>1, <2>3
  <2>. QED
    BY <2>1, <2>5, <2>6
<1>8. ASSUME mode \in S!Combined PROVE Good
  <2>1. s[1] = "lport" /\ s[2] = "strm" /\ (k = 0 \/ k = 1 \/ (k = 2 /\ s[3] = "clock"))
    <3>1. CASE s = <<"lport", "strm">>
      BY <3>1
    <3>2. CASE s = <<"lport", "strm", "clock">>
      BY <3>2
    <3>. QED
      BY <1>3, <1>8, <3>1, <3>2
  <2>2. k = 0 => g = <<>>
    BY <1>8, <2>1 DEF g, S!GivesBack, S!Combined
  <2>3. k = 1 => g = <<"lport">>
    BY <1>8, <2>1 DEF g, S!GivesBack, S!Combined
  <2>4. k = 2 => g = <<"lport", "strm">>
    BY <1>8, <2>1 DEF g, S!GivesBack, S!Combined
  <2>5. "lport" \in S!Resource /\ mode # "mod_mix"
    BY <1>8 DEF S!Resource, S!Combined
  <2>6. held = h
    BY <1>4, <2>5
  <2>7. k = 0 => Good
    BY <1>1, <1>2, <2>2, <2>6
  <2>8. k = 1 => Good
    BY <1>1, <1>2, <2>1, <2>3, <2>5, <2>6
  <2>9. k = 2 => Good
    BY <1>1, <1>2, <2>1, <2>4, <2>6
  <2>. QED
    BY <2>1, <2>7, <2>8, <2>9
<1>9. Good
  BY <1>5, <1>6, <1>7, <1>8 DEF S!Mode
<1>. QED
  BY <1>9 DEF g, Good

(* A control is given up: all that is held is freed, nothing is going.     *)
LEMMA GiveUpKeeps ==
    ASSUME SIInv, op = "create", NEW g \in Seq(S!Resource), S!ToSet(g) = held',
           \A i, j \in 1..Len(g) : g[i] = g[j] => i = j,
           S!GiveUp(g), held' \subseteq S!Resource, UNCHANGED <<mode, going, mute, cb, taken, late>>
    PROVE  SIInv'
<1>1. op' = "undo" /\ todo' = S!Calls("free", g)
  BY DEF S!GiveUp
<1>2. going = {} /\ \A d \in S!Driver : cb[d] = <<>>
  BY DEF SIInv, Still
<1>3. TakesDown(S!Calls("free", g), S!ToSet(g), RunsIn(mode), PortsIn(mode))
  BY CallsTakeDown
<1>4. todo' \in Seq(Task)
  BY <1>1, <1>3 DEF TakesDown
<1>5. S!TypeOK'
  BY <1>1, <1>4 DEF SIInv, S!TypeOK, Task
<1>6. Framing' /\ Heard'
  BY FramesStay
<1>7. TakenDown'
  BY <1>1, <1>2, <1>3 DEF TakenDown
<1>8. BeingMade' /\ Working' /\ Still'
  BY <1>1 DEF BeingMade, Working, Still
<1>. QED
  BY <1>5, <1>6, <1>7, <1>8 DEF SIInv

(* Making goes on with the part after the next.                            *)
LEMMA MakingGoesOn ==
    ASSUME SIInv, S!Doing("make"), NEW k \in 0..Len(S!Makes(mode)),
           Len(todo) = Len(S!Makes(mode)) - k,
           \A i \in 1..Len(todo) : todo[i] = <<"make", S!Makes(mode)[k + i]>>,
           todo' = Tail(todo), UNCHANGED <<mode, op, going, mute, cb, taken, late>>,
           held' \subseteq S!Resource,
           \/ held' = {S!Makes(mode)[i] : i \in 1..k + 1}
           \/ mode = "mod_mix" /\ k = 0 /\ held' = {}
    PROVE  SIInv'
<1> DEFINE s == S!Makes(mode)
           n == Len(todo)
<1>1. /\ n \in Nat /\ 1 \in 1..n /\ op = "create"
      /\ Tail(todo) \in Seq(Task) /\ Len(Tail(todo)) = n - 1
      /\ \A i \in 1..n - 1 : i + 1 \in 1..n /\ Tail(todo)[i] = todo[i + 1]
  BY DoingFacts
<1>2. S!TypeOK'
  BY <1>1 DEF SIInv, S!TypeOK, Task
<1>3. Framing' /\ Heard'
  BY FramesStay
<1>4. Len(s) \in Nat
  BY MakesAre, LenProperties DEF SIInv, S!TypeOK
<1> HIDE DEF s
<1>5. k + 1 \in 0..Len(s) /\ n - 1 = Len(s) - (k + 1)
  BY <1>1, <1>4 DEF s
<1>6. \A i \in 1..n - 1 : Tail(todo)[i] = <<"make", s[(k + 1) + i]>>
  <2> TAKE i \in 1..n - 1
  <2>1. Tail(todo)[i] = todo[i + 1] /\ i + 1 \in 1..n /\ k + (i + 1) = (k + 1) + i
    BY <1>1, <1>4
  <2>2. todo[i + 1] = <<"make", s[k + (i + 1)]>>
    BY <2>1 DEF s
  <2>. QED
    BY <2>1, <2>2
<1>7. \/ held' = {s[i] : i \in 1..k + 1}
      \/ mode = "mod_mix" /\ k + 1 = 1 /\ held' = {}
  BY DEF s
<1>8. mode' = mode /\ op' = op /\ todo' = Tail(todo) /\ going' = going /\ cb' = cb
  OBVIOUS
<1>9. BeingMade'
  <2>1. /\ Len(todo') = Len(s) - (k + 1)
        /\ \A i \in 1..Len(todo') : todo'[i] = <<"make", s[(k + 1) + i]>>
    BY <1>1, <1>5, <1>6, <1>8
  <2>2. S!Makes(mode') = s
    BY <1>8 DEF s
  <2>3. \/ held' = {s[i] : i \in 1..k + 1}
        \/ mode' = "mod_mix" /\ k + 1 = 1 /\ held' = {}
    BY <1>7, <1>8
  <2>4. \E l \in 0..Len(S!Makes(mode')) :
          /\ Len(todo') = Len(S!Makes(mode')) - l
          /\ \A i \in 1..Len(todo') : todo'[i] = <<"make", S!Makes(mode')[l + i]>>
          /\ \/ held' = {S!Makes(mode')[i] : i \in 1..l}
             \/ mode' = "mod_mix" /\ l = 1 /\ held' = {}
    <3>1. k + 1 \in 0..Len(S!Makes(mode'))
      BY <1>5, <2>2
    <3> WITNESS k + 1 \in 0..Len(S!Makes(mode'))
    <3>. QED
      BY <2>1, <2>2, <2>3
  <2>. QED
    BY ONLY <2>4 DEF BeingMade
<1>10. TakenDown' /\ Working' /\ Still'
  BY <1>1, <1>8 DEF SIInv, TakenDown, Working, Still
<1>. QED
  BY <1>2, <1>3, <1>9, <1>10 DEF SIInv

(* Where making stands.                                                    *)
LEMMA MakingFacts ==
    ASSUME SIInv, S!Doing("make")
    PROVE  /\ op = "create" /\ mode \in S!Mode
           /\ \E k \in Nat :
                /\ k \in 0..Len(S!Makes(mode)) /\ k + 1 \in 1..Len(S!Makes(mode))
                /\ Len(todo) = Len(S!Makes(mode)) - k
                /\ \A i \in 1..Len(todo) : todo[i] = <<"make", S!Makes(mode)[k + i]>>
                /\ S!It = S!Makes(mode)[k + 1]
                /\ \/ held = {S!Makes(mode)[i] : i \in 1..k}
                   \/ mode = "mod_mix" /\ k = 1 /\ held = {}
<1>1. /\ op = "create" /\ Len(todo) \in Nat /\ 1 \in 1..Len(todo)
      /\ todo[1] = <<"make", S!It>>
  BY DoingFacts
<1>2. mode \in S!Mode
  BY DEF SIInv, S!TypeOK
<1> DEFINE s == S!Makes(mode)
<1>3. Len(s) \in Nat
  BY <1>2, MakesAre, LenProperties
<1>4. PICK k \in 0..Len(s) :
         /\ Len(todo) = Len(s) - k
         /\ \A i \in 1..Len(todo) : todo[i] = <<"make", s[k + i]>>
         /\ \/ held = {s[i] : i \in 1..k}
            \/ mode = "mod_mix" /\ k = 1 /\ held = {}
  BY <1>1 DEF SIInv, BeingMade
<1> HIDE DEF s
<1>5. k \in Nat /\ k + 1 \in 1..Len(s)
  BY <1>1, <1>3, <1>4
<1>6. todo[1] = <<"make", s[k + 1]>>
  BY <1>1, <1>4
<1>7. S!It = s[k + 1]
  <2>1. todo[1][2] = S!It
    BY <1>1
  <2>2. todo[1][2] = s[k + 1]
    BY <1>6
  <2>. QED
    BY <2>1, <2>2
<1>8. \E l \in Nat :
                /\ l \in 0..Len(s) /\ l + 1 \in 1..Len(s)
                /\ Len(todo) = Len(s) - l
                /\ \A i \in 1..Len(todo) : todo[i] = <<"make", s[l + i]>>
                /\ S!It = s[l + 1]
                /\ \/ held = {s[i] : i \in 1..l}
                   \/ mode = "mod_mix" /\ l = 1 /\ held = {}
  BY <1>4, <1>5, <1>7
<1>. QED
  BY <1>1, <1>2, <1>8 DEF s

LEMMA MakeKeeps ==
    ASSUME SIInv, S!Make
    PROVE  SIInv'
<1>1. /\ S!Doing("make") /\ held' = held \cup {S!It}
      /\ IF S!HalfMade(held') THEN S!GiveUp(S!GivesBack(mode, "input"))
         ELSE todo' = Tail(todo) /\ UNCHANGED op
      /\ UNCHANGED <<mode, going, mute, cb, taken, late>>
  BY DEF S!Make, S!frames
<1> DEFINE s == S!Makes(mode)
<1>2. op = "create" /\ mode \in S!Mode
  BY <1>1, MakingFacts
<1>3. PICK k \in Nat :
        /\ k \in 0..Len(s) /\ k + 1 \in 1..Len(s)
        /\ Len(todo) = Len(s) - k
        /\ \A i \in 1..Len(todo) : todo[i] = <<"make", s[k + i]>>
        /\ S!It = s[k + 1]
        /\ \/ held = {s[i] : i \in 1..k}
           \/ mode = "mod_mix" /\ k = 1 /\ held = {}
  BY <1>1, MakingFacts
<1>4. held' \subseteq S!Resource
  <2>1. S!It \in S!Resource
    BY <1>1, DoingFacts
  <2>. QED
    BY <1>1, <2>1 DEF SIInv, S!TypeOK
<1>5. mode = "mod_mix" => s[1] = "input" /\ s[2] = "output"
  <2>1. mode = "mod_mix" => s = <<"input", "output", "clock">>
    BY <1>2, MakesByName
  <2>. QED
    BY <2>1
<1>6. {s[i] : i \in 1..k + 1} = {s[i] : i \in 1..k} \cup {s[k + 1]}
  <2>1. 1..k + 1 = 1..k \cup {k + 1}
    BY <1>3
  <2>. QED
    BY <2>1
<1> HIDE DEF s
<1>7. CASE S!HalfMade(held')
  <2>1. mode = "mod_mix" /\ "input" \notin held'
    BY <1>7 DEF S!HalfMade
  <2>2. held' = {"output"}
    <3>1. CASE held = {s[i] : i \in 1..k}
      <4>1. 1 \in 1..k + 1
        BY <1>3
      <4>2. s[1] \in held'
        BY <1>1, <1>3, <1>6, <3>1, <4>1
      <4>. QED
        BY <1>5, <2>1, <4>2
    <3>2. CASE k = 1 /\ held = {}
      BY <1>1, <1>3, <1>5, <2>1, <3>2
    <3>. QED
      BY <1>3, <3>1, <3>2
  <2> DEFINE g == <<"output">>
  <2>3. S!GivesBack(mode, "input") = g
    BY <2>1 DEF S!GivesBack, S!Combined
  <2>4. /\ g \in Seq(S!Resource) /\ S!ToSet(g) = {"output"}
        /\ \A i, j \in 1..Len(g) : g[i] = g[j] => i = j
    BY DEF S!ToSet, S!Resource
  <2> HIDE DEF g
  <2>5. S!GiveUp(g)
    BY <1>1, <1>7, <2>3
  <2>. QED
    BY <1>1, <1>2, <1>4, <2>2, <2>4, <2>5, GiveUpKeeps
<1>8. CASE ~S!HalfMade(held')
  <2>1. todo' = Tail(todo) /\ op' = op
    BY <1>1, <1>8
  <2>2. held = {s[i] : i \in 1..k}
    <3>1. ~(mode = "mod_mix" /\ k = 1 /\ held = {})
      <4> SUFFICES ASSUME mode = "mod_mix", k = 1, held = {} PROVE FALSE
        OBVIOUS
      <4>1. held' = {"output"}
        BY <1>1, <1>3, <1>5
      <4>. QED
        BY <1>8, <4>1 DEF S!HalfMade
    <3>. QED
      BY <1>3, <3>1
  <2>3. held' = {s[i] : i \in 1..k + 1}
    BY <1>1, <1>3, <1>6, <2>2
  <2>. QED
    BY <1>1, <1>3, <1>4, <2>1, <2>3, MakingGoesOn DEF s
<1>. QED
  BY <1>7, <1>8

LEMMA MakeFailsKeeps ==
    ASSUME SIInv, S!MakeFails
    PROVE  SIInv'
<1>1. /\ S!Doing("make")
      /\ IF S!It = "input" THEN todo' = Tail(todo) /\ UNCHANGED op
         ELSE S!GiveUp(S!GivesBack(mode, S!It))
      /\ UNCHANGED <<mode, held, going, mute, cb, taken, late>>
  BY DEF S!MakeFails, S!frames
<1> DEFINE s == S!Makes(mode)
<1>2. op = "create" /\ mode \in S!Mode /\ held \subseteq S!Resource
  BY <1>1, MakingFacts DEF SIInv, S!TypeOK
<1>3. PICK k \in Nat :
        /\ k \in 0..Len(s) /\ k + 1 \in 1..Len(s)
        /\ Len(todo) = Len(s) - k
        /\ \A i \in 1..Len(todo) : todo[i] = <<"make", s[k + i]>>
        /\ S!It = s[k + 1]
        /\ \/ held = {s[i] : i \in 1..k}
           \/ mode = "mod_mix" /\ k = 1 /\ held = {}
  BY <1>1, MakingFacts
<1>4. CASE S!It = "input"
  <2>1. mode = "mod_mix"
    <3>1. CASE mode = "snd_full"
      <4>1. s = <<"aud">>
        BY <1>2, <3>1, MakesByName
      <4>2. \A i \in 1..Len(s) : s[i] # "input"
        BY ONLY <4>1
      <4>. QED
        BY <1>3, <1>4, <4>2
    <3>2. CASE mode = "mod_full"
      <4>1. s = <<"media", "clock">>
        BY <1>2, <3>2, MakesByName
      <4>2. \A i \in 1..Len(s) : s[i] # "input"
        BY ONLY <4>1
      <4>. QED
        BY <1>3, <1>4, <4>2
    <3>3. CASE mode \in S!Combined
      <4>1. s = <<"lport", "strm">> \/ s = <<"lport", "strm", "clock">>
        BY <1>2, <3>3, MakesByName
      <4>2. \A i \in 1..Len(s) : s[i] # "input"
        BY ONLY <4>1
      <4>. QED
        BY <1>3, <1>4, <4>2
    <3>. QED
      BY <1>2, <3>1, <3>2, <3>3 DEF S!Mode
  <2>2. k = 0
    <3>1. s = <<"input", "output", "clock">>
      BY <1>2, <2>1, MakesByName
    <3>2. \A i \in 1..Len(s) : s[i] = "input" => i = 1
      BY ONLY <3>1
    <3>3. k \in Nat /\ k + 1 \in 1..Len(s) /\ s[k + 1] = "input"
      BY <1>3, <1>4
    <3>4. k + 1 = 1
      BY <3>2, <3>3
    <3>. QED
      BY ONLY <3>3, <3>4
  <2>3. held' = {}
    <3>1. 1..k = {}
      BY <2>2
    <3>. QED
      BY <1>1, <1>3, <2>2, <3>1
  <2>. QED
    BY <1>1, <1>2, <1>3, <1>4, <2>1, <2>2, <2>3, MakingGoesOn
<1>5. CASE S!It # "input"
  <2> DEFINE g == S!GivesBack(mode, S!It)
  <2>1. /\ g \in Seq(S!Resource) /\ S!ToSet(g) = held
        /\ \A i, j \in 1..Len(g) : g[i] = g[j] => i = j
    BY <1>2, <1>3, <1>5, GivesBackHeld
  <2>2. S!GiveUp(g)
    BY <1>1, <1>5
  <2> HIDE DEF g
  <2>. QED
    BY <1>1, <1>2, <2>1, <2>2, GiveUpKeeps
<1>. QED
  BY <1>4, <1>5

(* acore_media_sound_start, _stop and _destroy are called.                 *)
LEMMA StartKeeps ==
    ASSUME SIInv, NEW c \in {"start", "stop"}, S!Start(c, S!Calls(c, S!Runs(mode)))
    PROVE  SIInv'
<1>1. /\ op = "idle" /\ op' = c /\ todo' = S!Calls(c, S!Runs(mode))
      /\ UNCHANGED <<mode, held, going, mute, cb, taken, late>>
  BY DEF S!Start, S!frames
<1> DEFINE s == S!Runs(mode)
<1>2. s \in Seq(S!Resource) /\ DOMAIN s = 1..Len(s)
  BY MakesAre, LenProperties DEF SIInv, S!TypeOK
<1>3. /\ todo' \in Seq(Task) /\ Len(todo') = Len(s)
      /\ \A i \in 1..Len(s) : todo'[i] = <<c, s[i]>>
  BY <1>1, <1>2, CallsAre
<1>4. S!TypeOK'
  BY <1>1, <1>3 DEF SIInv, S!TypeOK, Task
<1>5. Framing' /\ Heard'
  BY <1>1, FramesStay
<1>6. Working'
  <2>1. \A i \in 1..Len(todo') : todo'[i][1] \in {"start", "stop"} /\ todo'[i][2] \in RunsIn(mode)
    <3> TAKE i \in 1..Len(todo')
    <3>1. todo'[i][1] = c /\ todo'[i][2] = s[i] /\ i \in DOMAIN s
      BY <1>2, <1>3
    <3>. QED
      BY <3>1 DEF RunsIn, S!ToSet
  <2>. QED
    BY <1>1, <2>1 DEF SIInv, Working
<1>7. BeingMade' /\ TakenDown' /\ Still'
  BY <1>1 DEF BeingMade, TakenDown, Still
<1>. QED
  BY <1>4, <1>5, <1>6, <1>7 DEF SIInv

LEMMA SoundDestroyKeeps ==
    ASSUME SIInv, S!SoundDestroy
    PROVE  SIInv'
<1>1. /\ op = "idle" /\ op' = "destroy" /\ todo' = S!Frees(mode)
      /\ UNCHANGED <<mode, held, going, mute, cb, taken, late>>
  BY DEF S!SoundDestroy, S!Start, S!frames
<1>2. held = S!ToSet(S!Makes(mode)) /\ going \subseteq RunsIn(mode)
  BY <1>1 DEF SIInv, Working
<1>3. /\ TakesDown(todo', held, RunsIn(mode), PortsIn(mode))
      /\ \A r \in RunsIn(mode) : \E i \in 1..Len(todo') : todo'[i] = <<"stop", r>>
  <2>1. mode \in S!Mode
    BY DEF SIInv, S!TypeOK
  <2>2. /\ TakesDown(S!Frees(mode), S!ToSet(S!Makes(mode)), RunsIn(mode), PortsIn(mode))
        /\ \A r \in RunsIn(mode) :
             \E i \in 1..Len(S!Frees(mode)) : S!Frees(mode)[i] = <<"stop", r>>
    BY <2>1, FreesTakeDown
  <2>. QED
    BY <1>1, <1>2, <2>2
<1>4. S!TypeOK'
  <2>1. todo' \in Seq(Task)
    BY <1>3 DEF TakesDown
  <2>. QED
    BY <1>1, <2>1 DEF SIInv, S!TypeOK, Task
<1>5. Framing' /\ Heard' /\ \A e : S!Of(e)' = S!Of(e)
  BY <1>1, FramesStay
<1>6. TakenDown'
  <2>1. \A r \in going' : Due("stop", r)'
    BY <1>1, <1>2, <1>3 DEF Due
  <2>2. \A d \in S!Driver : cb'[d] # <<>> => Due("stop", S!Of(d))'
    <3> SUFFICES ASSUME NEW d \in S!Driver, cb[d] # <<>> PROVE Due("stop", S!Of(d))'
      BY <1>1
    <3>1. S!Of(d) \in RunsIn(mode)
      BY DEF SIInv, Framing
    <3>. QED
      BY <1>3, <1>5, <3>1 DEF Due
  <2>. QED
    BY <1>1, <1>3, <2>1, <2>2 DEF TakenDown
<1>7. BeingMade' /\ Working' /\ Still'
  BY <1>1 DEF BeingMade, Working, Still
<1>. QED
  BY <1>4, <1>5, <1>6, <1>7 DEF SIInv

(* A task is done while the control works: it is the next one's turn.      *)
LEMMA WorkGoesOn ==
    ASSUME SIInv, op \in {"start", "stop"}, todo # <<>>,
           todo' = Tail(todo), UNCHANGED <<mode, op, held, mute, cb, taken, late>>,
           going' \subseteq RunsIn(mode)
    PROVE  SIInv'
<1>1. /\ Tail(todo) \in Seq(Task)
      /\ \A i \in 1..Len(Tail(todo)) : i + 1 \in 1..Len(todo) /\ Tail(todo)[i] = todo[i + 1]
  <2>1. todo \in Seq(Task)
    BY DEF SIInv, S!TypeOK, Task
  <2>2. /\ Len(todo) \in Nat /\ Tail(todo) \in Seq(Task) /\ Len(Tail(todo)) = Len(todo) - 1
        /\ \A i \in 1..Len(todo) - 1 : Tail(todo)[i] = todo[i + 1]
    BY <2>1, TailIs
  <2>. QED
    BY <2>2
<1>2. RunsIn(mode) \subseteq S!Device
  BY MakesAre DEF SIInv, S!TypeOK
<1>3. S!TypeOK'
  BY <1>1, <1>2 DEF SIInv, S!TypeOK, Task
<1>4. Framing' /\ Heard'
  BY FramesStay
<1>5. Working'
  <2>1. \A i \in 1..Len(todo') :
          todo'[i][1] \in {"start", "stop"} /\ todo'[i][2] \in RunsIn(mode)
    BY <1>1 DEF SIInv, Working
  <2>. QED
    BY <2>1 DEF SIInv, Working
<1>6. BeingMade' /\ TakenDown' /\ Still'
  BY DEF BeingMade, TakenDown, Still
<1>. QED
  BY <1>3, <1>4, <1>5, <1>6 DEF SIInv

LEMMA StartDeviceKeeps ==
    ASSUME SIInv, S!StartDevice
    PROVE  SIInv'
<1>1. /\ S!Doing("start") /\ going' = going \cup {S!It} /\ todo' = Tail(todo)
      /\ UNCHANGED <<mode, op, held, mute, cb, taken, late>>
  BY DEF S!StartDevice, S!frames
<1>2. /\ op \in {"start", "stop"} /\ todo # <<>>
      /\ 1 \in 1..Len(todo) /\ todo[1] = <<"start", S!It>>
  BY <1>1, DoingFacts
<1>3. todo[1][2] = S!It
  BY <1>2
<1>4. going' \subseteq RunsIn(mode)
  BY <1>1, <1>2, <1>3 DEF SIInv, Working
<1>. QED
  BY <1>1, <1>2, <1>4, WorkGoesOn

(* A device that is stopped is not going.                                  *)
LEMMA StopDeviceKeeps ==
    ASSUME SIInv, S!StopDevice
    PROVE  SIInv'
<1>1. /\ S!Doing("stop") /\ going' = going \ {S!It}
      /\ UNCHANGED <<mode, op, todo, held, mute, cb, taken, late>>
  BY DEF S!StopDevice, S!frames
<1>2. op \in {"start", "stop", "undo", "destroy"}
  BY <1>1, DoingFacts
<1>3. S!TypeOK'
  BY <1>1 DEF SIInv, S!TypeOK
<1>4. Framing' /\ Heard' /\ \A e : S!Of(e)' = S!Of(e)
  BY <1>1, FramesStay
<1>5. TakenDown'
  BY <1>1, <1>4 DEF SIInv, TakenDown, Due
<1>6. BeingMade' /\ Working' /\ Still'
  BY <1>1, <1>2 DEF SIInv, BeingMade, Working, Still
<1>. QED
  BY <1>3, <1>4, <1>5, <1>6 DEF SIInv

(* A task is done while the control is taken down.  What was stopped is    *)
(* neither going nor called back any more.                                 *)
LEMMA UndoingGoesOn ==
    ASSUME SIInv, op \in {"undo", "destroy"}, todo # <<>>, todo' = Tail(todo),
           held' = (IF Head(todo)[1] = "free" THEN held \ {S!It} ELSE held),
           going' \subseteq going, UNCHANGED <<mode, op, mute, cb, taken, late>>,
           Head(todo)[1] = "stop" => S!It \notin going' /\ S!Quiet(S!It)
    PROVE  SIInv'
<1>1. TakesDown(todo, held, RunsIn(mode), PortsIn(mode))
  BY DEF SIInv, TakenDown
<1>2. /\ TakesDown(Tail(todo), held', RunsIn(mode), PortsIn(mode))
      /\ \A c, r : /\ \E i \in 1..Len(todo) : todo[i] = <<c, r>>
                   /\ Head(todo) # <<c, r>>
                   => \E i \in 1..Len(Tail(todo)) : Tail(todo)[i] = <<c, r>>
  <2>1. held' = IF Head(todo)[1] = "free" THEN held \ {Head(todo)[2]} ELSE held
    BY DEF S!It
  <2>. QED
    BY <1>1, <2>1, TailTakesDown
<1>3. S!TypeOK'
  <2>1. todo' \in Seq(Task)
    BY <1>2 DEF TakesDown
  <2>. QED
    BY <2>1 DEF SIInv, S!TypeOK, Task
<1>4. Framing' /\ Heard' /\ \A e : S!Of(e)' = S!Of(e)
  BY FramesStay
<1>5. \A r : Due("stop", r) /\ (Head(todo)[1] = "stop" => S!It # r) => Due("stop", r)'
  <2> SUFFICES ASSUME NEW r, Due("stop", r), Head(todo)[1] = "stop" => S!It # r
               PROVE  Due("stop", r)'
    OBVIOUS
  <2>1. Head(todo) # <<"stop", r>>
    <3> SUFFICES ASSUME Head(todo) = <<"stop", r>> PROVE FALSE
      OBVIOUS
    <3>1. Head(todo)[1] = "stop" /\ Head(todo)[2] = r
      OBVIOUS
    <3>. QED
      BY <3>1 DEF S!It
  <2>2. \E i \in 1..Len(Tail(todo)) : Tail(todo)[i] = <<"stop", r>>
    BY <1>2, <2>1 DEF Due
  <2>. QED
    BY <2>2 DEF Due
<1>6. TakenDown'
  <2>1. \A r \in going' : Due("stop", r)'
    BY <1>5 DEF SIInv, TakenDown
  <2>2. \A d \in S!Driver : cb'[d] # <<>> => Due("stop", S!Of(d))'
    <3> SUFFICES ASSUME NEW d \in S!Driver, cb[d] # <<>> PROVE Due("stop", S!Of(d))'
      OBVIOUS
    <3>1. Due("stop", S!Of(d))
      BY DEF SIInv, TakenDown
    <3>2. Head(todo)[1] = "stop" => S!It # S!Of(d)
      BY DEF S!Quiet
    <3> DEFINE r == S!Of(d)
    <3>3. r' = r
      BY <1>4
    <3>4. Due("stop", r) /\ (Head(todo)[1] = "stop" => S!It # r)
      BY <3>1, <3>2
    <3> HIDE DEF r
    <3>5. \E i \in 1..Len(todo') : todo'[i] = <<"stop", r>>
      BY <1>5, <3>3, <3>4 DEF Due
    <3>. QED
      BY <3>3, <3>5 DEF Due, r
  <2>. QED
    BY <1>2, <2>1, <2>2 DEF TakenDown
<1>7. BeingMade' /\ Working' /\ Still'
  BY DEF BeingMade, Working, Still
<1>. QED
  BY <1>3, <1>4, <1>6, <1>7 DEF SIInv

LEMMA StopReturnsKeeps ==
    ASSUME SIInv, S!StopReturns
    PROVE  SIInv'
<1>1. /\ S!Doing("stop") /\ S!It \notin going /\ S!Quiet(S!It) /\ todo' = Tail(todo)
      /\ UNCHANGED <<mode, op, held, going, mute, cb, taken, late>>
  BY DEF S!StopReturns, S!frames
<1>2. todo # <<>> /\ Head(todo)[1] = "stop" /\ op \in {"start", "stop", "undo", "destroy"}
  BY <1>1, DoingFacts DEF S!Doing
<1>3. CASE op \in {"start", "stop"}
  <2>1. going' \subseteq RunsIn(mode)
    BY <1>1, <1>3 DEF SIInv, Working
  <2>. QED
    BY <1>1, <1>2, <1>3, <2>1, WorkGoesOn
<1>4. CASE op \in {"undo", "destroy"}
  BY <1>1, <1>2, <1>4, UndoingGoesOn
<1>. QED
  BY <1>2, <1>3, <1>4

LEMMA FreeKeeps ==
    ASSUME SIInv, S!Free
    PROVE  SIInv'
<1>1. /\ S!Doing("free") /\ held' = held \ {S!It} /\ going' = going \ {S!It}
      /\ todo' = Tail(todo) /\ UNCHANGED <<mode, op, mute, cb, taken, late>>
  BY DEF S!Free, S!frames
<1>2. todo # <<>> /\ Head(todo)[1] = "free" /\ op \in {"undo", "destroy"}
  BY <1>1, DoingFacts DEF S!Doing
<1>. QED
  BY <1>1, <1>2, UndoingGoesOn

(* A call returns when all its tasks are done.                             *)
LEMMA ReturnKeeps ==
    ASSUME SIInv, S!Return
    PROVE  SIInv'
<1>1. /\ op \notin {"none", "idle"} /\ todo = <<>>
      /\ op' = IF op \in {"undo", "destroy"} THEN "none" ELSE "idle"
      /\ UNCHANGED <<mode, todo, held, going, mute, cb, taken, late>>
  BY DEF S!Return, S!frames
<1>2. Len(todo) = 0 /\ 1..Len(todo) = {} /\ mode \in S!Mode
  BY <1>1 DEF SIInv, S!TypeOK
<1>3. S!TypeOK'
  BY <1>1 DEF SIInv, S!TypeOK
<1>4. Framing' /\ Heard'
  BY <1>1, FramesStay
<1>5. op \in {"create", "undo", "start", "stop", "destroy"}
  BY <1>1 DEF SIInv, S!TypeOK
<1>6. CASE op = "create"
  <2> DEFINE s == S!Makes(mode)
  <2>1. /\ Len(s) \in Nat /\ S!ToSet(s) = {s[i] : i \in 1..Len(s)}
        /\ mode = "mod_mix" => Len(s) # 1
    <3>1. s \in Seq(S!Resource)
      BY <1>2, MakesAre
    <3>2. Len(s) \in Nat /\ DOMAIN s = 1..Len(s)
      BY <3>1, LenProperties
    <3>3. mode = "mod_mix" => s = <<"input", "output", "clock">>
      BY <1>2, MakesByName
    <3>. QED
      BY <3>2, <3>3 DEF S!ToSet
  <2>2. PICK k \in 0..Len(s) :
          /\ Len(todo) = Len(s) - k
          /\ \/ held = {s[i] : i \in 1..k}
             \/ mode = "mod_mix" /\ k = 1 /\ held = {}
    BY <1>6 DEF SIInv, BeingMade
  <2> HIDE DEF s
  <2>3. k = Len(s)
    BY <1>2, <2>1, <2>2
  <2>4. held = S!ToSet(s)
    BY <2>1, <2>2, <2>3
  <2>5. going = {} /\ \A d \in S!Driver : cb[d] = <<>>
    BY <1>6 DEF SIInv, Still
  <2>6. Working'
    BY <1>1, <1>2, <1>6, <2>4, <2>5 DEF Working, s
  <2>7. BeingMade' /\ TakenDown' /\ Still'
    BY <1>1, <1>6 DEF BeingMade, TakenDown, Still
  <2>. QED
    BY <1>3, <1>4, <2>6, <2>7 DEF SIInv
<1>7. CASE op \in {"start", "stop"}
  <2>1. Working'
    BY <1>1, <1>7 DEF SIInv, Working
  <2>2. BeingMade' /\ TakenDown' /\ Still'
    BY <1>1, <1>7 DEF BeingMade, TakenDown, Still
  <2>. QED
    BY <1>3, <1>4, <2>1, <2>2 DEF SIInv
<1>8. CASE op \in {"undo", "destroy"}
  <2>1. \A c, r : ~Due(c, r)
    BY <1>2 DEF Due
  <2>2. held = {}
    <3>1. \A r \in S!Resource : r \in held <=> \E i \in 1..Len(todo) : todo[i] = <<"free", r>>
      BY <1>8 DEF SIInv, TakenDown, TakesDown
    <3>. QED
      BY <1>2, <3>1 DEF SIInv, S!TypeOK
  <2>3. going = {} /\ \A d \in S!Driver : cb[d] = <<>>
    BY <1>8, <2>1 DEF SIInv, TakenDown
  <2>4. Still'
    BY <1>1, <1>8, <2>2, <2>3 DEF Still
  <2>5. BeingMade' /\ TakenDown' /\ Working'
    BY <1>1, <1>8 DEF BeingMade, TakenDown, Working
  <2>. QED
    BY <1>3, <1>4, <2>4, <2>5 DEF SIInv
<1>. QED
  BY <1>5, <1>6, <1>7, <1>8

(* Muting again leaves the frame that was under way counted.               *)
LEMMA SoundMuteKeeps ==
    ASSUME SIInv, S!SoundMute
    PROVE  SIInv'
<1>1. /\ op = "idle" /\ mute' = TRUE /\ late' = IF mute THEN late ELSE 0
      /\ UNCHANGED <<mode, op, todo, held, going, cb, taken>>
  BY DEF S!SoundMute
<1>2. late \in 0..2 /\ late <= 1 /\ mute \in BOOLEAN
  BY DEF SIInv, S!TypeOK, Heard
<1>3. late' \in 0..2 /\ late' <= 1 /\ (late' = 1 => mute /\ late = 1)
  BY <1>1, <1>2
<1>4. S!TypeOK'
  <2>1. mute' \in BOOLEAN
    BY <1>1
  <2>. QED
    BY <1>1, <1>3, <2>1 DEF SIInv, S!TypeOK
<1>5. Framing'
  BY <1>1 DEF SIInv, Framing, Fits, S!Of, S!Stream
<1>6. Heard'
  BY <1>1, <1>3 DEF SIInv, Heard, Sounding
<1>7. BeingMade' /\ TakenDown' /\ Working' /\ Still'
  BY <1>1 DEF SIInv, BeingMade, TakenDown, Working, Still
<1>. QED
  BY <1>4, <1>5, <1>6, <1>7 DEF SIInv

LEMMA SoundUnmuteKeeps ==
    ASSUME SIInv, S!SoundUnmute
    PROVE  SIInv'
<1>1. /\ op = "idle" /\ mute' = FALSE
      /\ UNCHANGED <<mode, op, todo, held, going, cb, taken, late>>
  BY DEF S!SoundUnmute, S!frames
<1>2. S!TypeOK'
  <2>1. mute' \in BOOLEAN
    BY <1>1
  <2>. QED
    BY <1>1, <2>1 DEF SIInv, S!TypeOK
<1>3. Framing'
  BY <1>1, FramesStay
<1>4. Heard'
  BY <1>1 DEF SIInv, Heard
<1>5. BeingMade' /\ TakenDown' /\ Working' /\ Still'
  BY <1>1 DEF SIInv, BeingMade, TakenDown, Working, Still
<1>. QED
  BY <1>2, <1>3, <1>4, <1>5 DEF SIInv

-----------------------------------------------------------------------------
(* In every reachable state of a sound control, whatever the factories and *)
(* with or without a clock of its own: what is made while it is created,   *)
(* what is still to be stopped and freed while it is taken down, and which *)
(* moves a call-back has left.                                             *)
THEOREM SoundInvariant == S!Spec => []SIInv
<1>1. S!Init => SIInv
  <2> SUFFICES ASSUME S!Init PROVE SIInv
    OBVIOUS
  <2>1. /\ mode = "snd_full" /\ op = "none" /\ todo = <<>> /\ held = {} /\ going = {}
        /\ cb = [d \in S!Driver |-> <<>>] /\ taken = [d \in S!Driver |-> "nothing"]
        /\ mute = FALSE /\ late = 0
    BY DEF S!Init
  <2>2. S!TypeOK
    <3>1. mute \in BOOLEAN
      BY <2>1
    <3>. QED
      BY <2>1, <3>1 DEF S!TypeOK, S!Mode
  <2>3. Framing
    <3>1. \A d \in S!Driver : cb[d] = <<>> /\ Len(cb[d]) = 0 /\ taken[d] = "nothing"
      BY <2>1
    <3>. QED
      BY <3>1 DEF Framing
  <2>4. Heard /\ BeingMade /\ TakenDown /\ Working /\ Still
    BY <2>1 DEF Heard, BeingMade, TakenDown, Working, Still
  <2>. QED
    BY <2>2, <2>3, <2>4 DEF SIInv
<1>2. SIInv /\ [S!Next]_(S!vars) => SIInv'
  <2> SUFFICES ASSUME SIInv, [S!Next]_(S!vars) PROVE SIInv'
    OBVIOUS
  <2>1. CASE \E source, player \in S!Name : S!Create(source, player)
    BY <2>1, CreateKeeps
  <2>2. CASE S!SoundStart
    BY <2>2, StartKeeps DEF S!SoundStart
  <2>3. CASE S!SoundStop
    BY <2>3, StartKeeps DEF S!SoundStop
  <2>4. CASE S!SoundDestroy
    BY <2>4, SoundDestroyKeeps
  <2>5. CASE S!SoundMute
    BY <2>5, SoundMuteKeeps
  <2>6. CASE S!SoundUnmute
    BY <2>6, SoundUnmuteKeeps
  <2>7. CASE S!Step
    BY <2>7, MakeKeeps, MakeFailsKeeps, FreeKeeps, ReturnKeeps, StartDeviceKeeps,
       StopDeviceKeeps, StopReturnsKeeps DEF S!Step
  <2>8. CASE \E d \in S!Driver : S!CallBack(d) \/ S!TakeFrame(d) \/ S!GiveFrame(d)
    BY <2>8, CallBackKeeps, TakeFrameKeeps, GiveFrameKeeps
  <2>9. CASE UNCHANGED S!vars
    <3>1. UNCHANGED <<mode, op, todo, held, going, cb, taken, mute, late>>
      BY <2>9 DEF S!vars
    <3>2. S!TypeOK'
      BY <3>1 DEF SIInv, S!TypeOK
    <3>3. Framing' /\ Heard' /\ \A e : S!Of(e)' = S!Of(e)
      BY <3>1, FramesStay
    <3>4. BeingMade'
      BY <3>1 DEF SIInv, BeingMade
    <3>5. TakenDown'
      BY <3>1, <3>3 DEF SIInv, TakenDown, Due
    <3>6. Working' /\ Still'
      BY <3>1 DEF SIInv, Working, Still
    <3>. QED
      BY <3>2, <3>3, <3>4, <3>5, <3>6 DEF SIInv
  <2>. QED
    BY <2>1, <2>2, <2>3, <2>4, <2>5, <2>6, <2>7, <2>8, <2>9 DEF S!Next
<1>. QED
  BY <1>1, <1>2, PTL DEF S!Spec

(* A control that was returned has exactly the ports, clock and stream of  *)
(* its mode; one that failed at any point, or was destroyed, leaves        *)
(* nothing behind, and nothing that still runs.                            *)
THEOREM SoundHeldIsExact == S!Spec => []S!HeldIsExact
<1>1. SIInv => S!HeldIsExact
  BY DEF SIInv, Working, Still, S!HeldIsExact
<1>. QED
  BY <1>1, SoundInvariant, PTL

(* What calls back is there and so are all the ports of the mode: they are *)
(* made before anything is started, and while the control is taken down    *)
(* they are freed after its devices are stopped.                           *)
LEMMA CalledIsThere ==
    ASSUME SIInv, NEW d \in S!Driver, cb[d] # <<>>
    PROVE  S!Of(d) \in held /\ PortsIn(mode) \subseteq held
<1>1. S!Of(d) \in RunsIn(mode) /\ S!Of(d) \in S!Resource
  BY DEF SIInv, Framing, S!Of, S!Stream, S!Resource, S!Device
<1>2. mode \in S!Mode
  BY DEF SIInv, S!TypeOK
<1>3. CASE op \in {"idle", "start", "stop"}
  <2>1. held = RunsIn(mode) \cup PortsIn(mode)
    BY <1>2, <1>3, MakesAre DEF SIInv, Working
  <2>. QED
    BY <1>1, <2>1
<1>4. CASE op \in {"undo", "destroy"}
  <2>1. PICK i \in 1..Len(todo) : todo[i] = <<"stop", S!Of(d)>>
    BY <1>4 DEF SIInv, TakenDown, Due
  <2>2. todo[i][1] = "stop" /\ todo[i][2] = S!Of(d)
    BY <2>1
  <2>3. \A r \in {S!Of(d)} \cup PortsIn(mode) : \E j \in 1..Len(todo) : todo[j] = <<"free", r>>
    BY <1>4, <2>2 DEF SIInv, TakenDown, TakesDown
  <2>4. \A r \in S!Resource : r \in held <=> \E j \in 1..Len(todo) : todo[j] = <<"free", r>>
    BY <1>4 DEF SIInv, TakenDown, TakesDown
  <2>5. PortsIn(mode) \subseteq S!Resource
    <3>1. S!Ports(mode) \in Seq(S!Resource)
      BY <1>2, MakesAre
    <3>2. DOMAIN S!Ports(mode) = 1..Len(S!Ports(mode))
      BY <3>1, LenProperties
    <3>. QED
      BY <3>1, <3>2, ElementOfSeq DEF PortsIn, S!ToSet
  <2>. QED
    BY <1>1, <2>3, <2>4, <2>5
<1>. QED
  BY <1>3, <1>4 DEF SIInv, S!TypeOK, Still

(* A call-back never works on a port, clock or stream that is destroyed:   *)
(* in each of the modes the control is taken down in an order that its     *)
(* threads survive, wherever they are in their call-backs.                 *)
THEOREM OnlyLiveIsCalled == S!Spec => []S!OnlyLiveUsed
<1>1. ASSUME SIInv PROVE S!OnlyLiveUsed
  <2> SUFFICES ASSUME NEW d \in S!Driver, NEW i \in DOMAIN cb[d]
               PROVE  S!Of(d) \in held /\ cb[d][i].via \in held
    BY DEF S!OnlyLiveUsed
  <2>1. i \in 1..Len(cb[d]) /\ cb[d] # <<>>
    <3>1. cb[d] \in Seq(MoveOf)
      BY <1>1 DEF SIInv, S!TypeOK, MoveOf
    <3>2. DOMAIN cb[d] = 1..Len(cb[d])
      BY <3>1, LenProperties
    <3>. QED
      BY <3>2
  <2>2. S!Of(d) \in held /\ PortsIn(mode) \subseteq held
    BY <1>1, <2>1, CalledIsThere
  <2>3. cb[d][i].via \in {S!Of(d)} \cup PortsIn(mode)
    BY <1>1, <2>1 DEF SIInv, Framing, Fits
  <2>. QED
    BY <2>2, <2>3
<1>2. SIInv => S!OnlyLiveUsed
  BY <1>1
<1>. QED
  BY <1>2, SoundInvariant, PTL

(* After acore_media_sound_mute at most the one frame that was under way   *)
(* is heard: in every mode one thread alone takes the frames of the        *)
(* source, and it asks for the flag before each.                           *)
THEOREM MuteHolds == S!Spec => []S!MuteBites
<1>1. SIInv => S!MuteBites
  BY DEF SIInv, Heard, S!MuteBites
<1>. QED
  BY <1>1, SoundInvariant, PTL
=============================================================================
