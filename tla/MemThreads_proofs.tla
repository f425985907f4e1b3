------------------------- MODULE MemThreads_proofs --------------------------
(***************************************************************************)
(* Proofs about MemThreads for any finite set of clients, under the two    *)
(* conditions that the parameters state: the library is built with         *)
(* ACORE_MEM_LOCK, and unregistering waits for, and shuts out, get_clone.  *)
(* Without either, TLC finds the object cleared under a client.            *)
(***************************************************************************)
EXTENDS MemThreads, FiniteSetTheorems, TLAPS

(* The statements between _mbegin and _mend.                               *)
Locked == {"addRead", "addWrite", "addLeave", "decRead", "decWrite", "decTest",
           "erase", "clear", "leave", "maskTest", "maskDes"}

(* Where a client stands that owns a reference.                            *)
Holding == {"addLeave", "using", "decLock", "decRead", "decWrite"}

(* Where the owner stands once it has given its own reference up.          *)
Given == {"maskDes", "decTest", "erase", "clear", "leave", "done"}

ClientPc == Cloning \cup Holding \cup {"idle", "decTest", "erase", "clear", "leave"}
OwnerPc  == Given \cup {"new", "idle", "maskLock", "maskTest", "decRead", "decWrite"}

(* Where a thread relies on what find_mem returned to it.                  *)
Relying == Deref \cup {"addLock", "decLock", "maskLock"}

Roles ==
    /\ pc \in [Thread -> ClientPc \cup OwnerPc]
    /\ pc[Owner] \in OwnerPc
    /\ \A c \in Client : pc[c] \in ClientPc

Shape ==
    /\ inTree \in BOOLEAN
    /\ des \in BOOLEAN
    /\ ref \in Int
    /\ cleared \in 0..1
    /\ lock \in Thread \cup {Nobody}
    /\ cmd \in [Thread -> BOOLEAN]
    /\ reg \in [Thread -> Int]
    /\ hold \in SUBSET Client

(* The lock excludes: whoever stands in the section holds it.              *)
Mutex == \A t \in Thread : pc[t] \in Locked <=> lock = t

(* Nobody clones before the object is bound or once it is being given up.  *)
QuietEnd ==
    \A c \in Client : /\ pc[c] \in Cloning => pc[Owner] = "idle"
                      /\ pc[Owner] = "new" => pc[c] = "idle"

HoldIsPc == hold = {c \in Client : pc[c] \in Holding}

(* The counter is exact after every single statement.                      *)
Counter == ref = Cardinality(hold) - (IF pc[Owner] \in Given THEN 1 ELSE 0)

DesIsPc == des <=> pc[Owner] \in Given \ {"maskDes"}

(* What a thread has read or computed is what is in memory.                *)
RegIsRef ==
    \A t \in Thread :
        pc[t] \in {"addWrite", "decWrite", "decTest", "maskDes"} => reg[t] = ref

(* A block that a thread has found is there, until its counter is below    *)
(* zero, and from then on only one thread stands on it, to clear it.       *)
BlockLives ==
    /\ \A t \in Thread : pc[t] \in Relying => cmd[t]
    /\ ref >= 0 /\ pc[Owner] # "new" => inTree
    /\ \A t \in Thread : pc[t] \in {"erase", "clear"} => ref < 0
    /\ cleared > 0 => ref < 0 /\ \A t \in Thread : pc[t] \notin Deref

Control ==
    /\ Shape
    /\ Roles
    /\ Mutex
    /\ QuietEnd
    /\ HoldIsPc
    /\ DesIsPc
    /\ RegIsRef
    /\ BlockLives

IInv == Control /\ Counter

-----------------------------------------------------------------------------
(* The counter read against the clients that hold a reference: it falls    *)
(* below zero exactly when nobody holds one any more.                      *)
LEMMA CounterFacts ==
    ASSUME IInv
    PROVE  /\ IsFiniteSet(hold)
           /\ Cardinality(hold) \in Nat
           /\ Cardinality(hold) <= Cardinality(Client)
           /\ Cardinality(Client) \in Nat
           /\ ref < 0 => hold = {} /\ pc[Owner] \in Given
           /\ hold = {} /\ pc[Owner] \in Given => ref = -1
           /\ ref >= -1
<1>1. /\ IsFiniteSet(hold)
      /\ Cardinality(hold) \in Nat
      /\ Cardinality(hold) <= Cardinality(Client)
      /\ Cardinality(Client) \in Nat
  BY ThreadAssumption, FS_Subset, FS_CardinalityType DEF IInv, Control, Shape
<1>2. Cardinality(hold) = 0 <=> hold = {}
  BY <1>1, FS_EmptySet
<1>3. ref = Cardinality(hold) - (IF pc[Owner] \in Given THEN 1 ELSE 0)
  BY DEF IInv, Counter
<1>. QED
  BY <1>1, <1>2, <1>3

(* Before the object is bound nothing is there and nobody acts.            *)
LEMMA InitIInv == Init => IInv
<1>. SUFFICES ASSUME Init
              PROVE  IInv
  OBVIOUS
<1>. USE ThreadAssumption
<1>1. pc[Owner] = "new" /\ \A c \in Client : pc[c] = "idle"
  BY DEF Init, Thread
<1>2. Shape
  <2>1. cmd \in [Thread -> BOOLEAN] /\ reg \in [Thread -> Int]
    BY DEF Init
  <2>2. inTree \in BOOLEAN /\ des \in BOOLEAN
    BY DEF Init
  <2>. QED
    BY <2>1, <2>2 DEF Init, Shape
<1>3. DesIsPc
  BY <1>1 DEF Init, DesIsPc, Given
<1>4. Roles
  BY <1>1 DEF Init, Roles, ClientPc, OwnerPc, Thread
<1>5. Mutex /\ RegIsRef /\ BlockLives
  BY <1>1 DEF Init, Mutex, RegIsRef, BlockLives, Locked, Relying, Deref, Thread
<1>6. QuietEnd /\ HoldIsPc
  BY <1>1 DEF Init, QuietEnd, HoldIsPc, Cloning, Holding
<1>7. Counter
  BY <1>1, FS_EmptySet DEF Init, Counter, Given
<1>. QED
  BY <1>2, <1>3, <1>4, <1>5, <1>6, <1>7 DEF IInv, Control

(* Every statement preserves it.                                           *)
LEMMA NextIInv ==
    ASSUME MemLock, Quiescent, IInv, [Next]_vars
    PROVE  IInv'
<1>. USE ThreadAssumption
     DEF Thread, Goto, block, ClientPc, OwnerPc, Cloning, Holding, Given, Locked,
         Relying, Deref
<1>1. CASE Bind
  <2>1. Control'
    BY <1>1, CounterFacts
       DEF IInv, Control, Bind, Shape, Roles, Mutex, QuietEnd, HoldIsPc,
            DesIsPc, RegIsRef, BlockLives
  <2>2. Counter'
    BY <1>1 DEF IInv, Control, Bind, Counter, Roles, BlockLives
  <2>. QED
    BY <2>1, <2>2 DEF IInv
<1>2. CASE MaskFind
  <2>1. Control'
    BY <1>2, CounterFacts
       DEF IInv, Control, MaskFind, Find, Shape, Roles, Mutex, QuietEnd, HoldIsPc,
            DesIsPc, RegIsRef, BlockLives
  <2>2. Counter'
    BY <1>2 DEF IInv, Control, MaskFind, Counter, Roles, BlockLives
  <2>. QED
    BY <2>1, <2>2 DEF IInv
<1>3. CASE MaskLock
  <2>1. Control'
    BY <1>3, CounterFacts
       DEF IInv, Control, MaskLock, Acquire, Shape, Roles, Mutex, QuietEnd, HoldIsPc,
            DesIsPc, RegIsRef, BlockLives
  <2>2. Counter'
    BY <1>3 DEF IInv, Control, MaskLock, Counter, Roles, BlockLives
  <2>. QED
    BY <2>1, <2>2 DEF IInv
<1>4. CASE MaskTest
  <2>1. Control'
    BY <1>4, CounterFacts
       DEF IInv, Control, MaskTest, Shape, Roles, Mutex, QuietEnd, HoldIsPc,
            DesIsPc, RegIsRef, BlockLives
  <2>2. Counter'
    BY <1>4 DEF IInv, Control, MaskTest, Counter, Roles, DesIsPc, BlockLives
  <2>. QED
    BY <2>1, <2>2 DEF IInv
<1>5. CASE MaskDes
  <2>1. Control'
    BY <1>5, CounterFacts
       DEF IInv, Control, MaskDes, Shape, Roles, Mutex, QuietEnd, HoldIsPc,
            DesIsPc, RegIsRef, BlockLives
  <2>2. Counter'
    BY <1>5 DEF IInv, Control, MaskDes, Counter, Roles, BlockLives
  <2>. QED
    BY <2>1, <2>2 DEF IInv
<1>6. ASSUME NEW t \in Client, StartClone(t)
      PROVE  IInv'
  <2>1. Control'
    BY <1>6, CounterFacts
       DEF IInv, Control, StartClone, Find, Shape, Roles, Mutex, QuietEnd, HoldIsPc,
            DesIsPc, RegIsRef, BlockLives
  <2>2. Counter'
    BY <1>6 DEF IInv, Control, StartClone, Counter, Roles, BlockLives
  <2>. QED
    BY <2>1, <2>2 DEF IInv
<1>7. ASSUME NEW t \in Client, TestAvailable(t)
      PROVE  IInv'
  <2>1. Control'
    BY <1>7, CounterFacts
       DEF IInv, Control, TestAvailable, Shape, Roles, Mutex, QuietEnd, HoldIsPc,
            DesIsPc, RegIsRef, BlockLives
  <2>2. Counter'
    BY <1>7 DEF IInv, Control, TestAvailable, Counter, Roles, BlockLives
  <2>. QED
    BY <2>1, <2>2 DEF IInv
<1>8. ASSUME NEW t \in Client, AddFind(t)
      PROVE  IInv'
  <2>1. Control'
    BY <1>8, CounterFacts
       DEF IInv, Control, AddFind, Find, Shape, Roles, Mutex, QuietEnd, HoldIsPc,
            DesIsPc, RegIsRef, BlockLives
  <2>2. Counter'
    BY <1>8 DEF IInv, Control, AddFind, Counter, Roles, BlockLives
  <2>. QED
    BY <2>1, <2>2 DEF IInv
<1>9. ASSUME NEW t \in Client, AddLock(t)
      PROVE  IInv'
  <2>1. Control'
    BY <1>9, CounterFacts
       DEF IInv, Control, AddLock, Acquire, Shape, Roles, Mutex, QuietEnd, HoldIsPc,
            DesIsPc, RegIsRef, BlockLives
  <2>2. Counter'
    BY <1>9 DEF IInv, Control, AddLock, Counter, Roles, BlockLives
  <2>. QED
    BY <2>1, <2>2 DEF IInv
<1>10. ASSUME NEW t \in Client, AddRead(t)
      PROVE  IInv'
  <2>1. Control'
    BY <1>10, CounterFacts
       DEF IInv, Control, AddRead, Shape, Roles, Mutex, QuietEnd, HoldIsPc,
            DesIsPc, RegIsRef, BlockLives
  <2>2. Counter'
    BY <1>10 DEF IInv, Control, AddRead, Counter, Roles, BlockLives
  <2>. QED
    BY <2>1, <2>2 DEF IInv
<1>11. ASSUME NEW t \in Client, AddWrite(t)
      PROVE  IInv'
  <2>1. Control'
    BY <1>11, CounterFacts
       DEF IInv, Control, AddWrite, Shape, Roles, Mutex, QuietEnd, HoldIsPc,
            DesIsPc, RegIsRef, BlockLives
  <2>2. Cardinality(hold') = Cardinality(hold) + 1
    <3>1. t \notin hold /\ hold' = hold \cup {t}
      BY <1>11 DEF IInv, Control, HoldIsPc, AddWrite
    <3>. QED
      BY <3>1, CounterFacts, FS_AddElement
  <2>3. Counter'
    BY <1>11, <2>2, CounterFacts DEF IInv, Control, Counter, Roles, RegIsRef, AddWrite
  <2>. QED
    BY <2>1, <2>3 DEF IInv
<1>12. ASSUME NEW t \in Client, AddLeave(t)
      PROVE  IInv'
  <2>1. Control'
    BY <1>12, CounterFacts
       DEF IInv, Control, AddLeave, Leave, Shape, Roles, Mutex, QuietEnd, HoldIsPc,
            DesIsPc, RegIsRef, BlockLives
  <2>2. Counter'
    BY <1>12 DEF IInv, Control, AddLeave, Counter, Roles, BlockLives
  <2>. QED
    BY <2>1, <2>2 DEF IInv
<1>13. ASSUME NEW t \in Client, DecFind(t)
      PROVE  IInv'
  <2>1. Control'
    BY <1>13, CounterFacts
       DEF IInv, Control, DecFind, Find, Shape, Roles, Mutex, QuietEnd, HoldIsPc,
            DesIsPc, RegIsRef, BlockLives
  <2>2. Counter'
    BY <1>13 DEF IInv, Control, DecFind, Counter, Roles, BlockLives
  <2>. QED
    BY <2>1, <2>2 DEF IInv
<1>14. ASSUME NEW t \in Thread, DecLock(t)
      PROVE  IInv'
  <2>1. Control'
    BY <1>14, CounterFacts
       DEF IInv, Control, DecLock, Acquire, Shape, Roles, Mutex, QuietEnd, HoldIsPc,
            DesIsPc, RegIsRef, BlockLives
  <2>2. Counter'
    BY <1>14 DEF IInv, Control, DecLock, Counter, Roles, BlockLives
  <2>. QED
    BY <2>1, <2>2 DEF IInv
<1>15. ASSUME NEW t \in Thread, DecRead(t)
      PROVE  IInv'
  <2>1. Control'
    BY <1>15, CounterFacts
       DEF IInv, Control, DecRead, Shape, Roles, Mutex, QuietEnd, HoldIsPc,
            DesIsPc, RegIsRef, BlockLives
  <2>2. Counter'
    BY <1>15 DEF IInv, Control, DecRead, Counter, Roles, BlockLives
  <2>. QED
    BY <2>1, <2>2 DEF IInv
<1>16. ASSUME NEW t \in Thread, DecWrite(t)
      PROVE  IInv'
  <2>1. Control'
    BY <1>16, CounterFacts
       DEF IInv, Control, DecWrite, Shape, Roles, Mutex, QuietEnd, HoldIsPc,
            DesIsPc, RegIsRef, BlockLives
  <2>2. CASE t = Owner
    <3>1. hold' = hold
      BY <1>16, <2>2 DEF IInv, Control, Shape, DecWrite
    <3>. QED
      BY <1>16, <2>1, <2>2, <3>1, CounterFacts
         DEF IInv, Control, Counter, Roles, RegIsRef, DecWrite
  <2>3. CASE t # Owner
    <3>1. t \in hold /\ hold' = hold \ {t}
      BY <1>16, <2>3 DEF IInv, Control, HoldIsPc, DecWrite
    <3>2. Cardinality(hold') = Cardinality(hold) - 1
      BY <3>1, CounterFacts, FS_RemoveElement
    <3>. QED
      BY <1>16, <2>1, <2>3, <3>2, CounterFacts
         DEF IInv, Control, Counter, Roles, RegIsRef, DecWrite
  <2>. QED
    BY <2>2, <2>3
<1>17. ASSUME NEW t \in Thread, DecTest(t)
      PROVE  IInv'
  <2>1. Control'
    BY <1>17, CounterFacts
       DEF IInv, Control, DecTest, Shape, Roles, Mutex, QuietEnd, HoldIsPc,
            DesIsPc, RegIsRef, BlockLives
  <2>2. Counter'
    BY <1>17 DEF IInv, Control, DecTest, Counter, Roles, BlockLives
  <2>. QED
    BY <2>1, <2>2 DEF IInv
<1>18. ASSUME NEW t \in Thread, Erase(t)
      PROVE  IInv'
  <2>1. Shape' /\ Roles' /\ Mutex' /\ QuietEnd' /\ HoldIsPc' /\ DesIsPc' /\ RegIsRef'
    BY <1>18 DEF IInv, Control, Erase, Shape, Roles, Mutex, QuietEnd, HoldIsPc,
            DesIsPc, RegIsRef
  <2>2. BlockLives'
    BY <1>18 DEF IInv, Control, Erase, Shape, Roles, Mutex, BlockLives
  <2>3. Control'
    BY <2>1, <2>2 DEF Control
  <2>4. Counter'
    BY <1>18 DEF IInv, Control, Erase, Counter, Roles
  <2>. QED
    BY <2>3, <2>4 DEF IInv
<1>19. ASSUME NEW t \in Thread, Clear(t)
      PROVE  IInv'
  <2>1. Control'
    BY <1>19, CounterFacts
       DEF IInv, Control, Clear, Shape, Roles, Mutex, QuietEnd, HoldIsPc,
            DesIsPc, RegIsRef, BlockLives
  <2>2. Counter'
    BY <1>19 DEF IInv, Control, Clear, Counter, Roles, BlockLives
  <2>. QED
    BY <2>1, <2>2 DEF IInv
<1>20. ASSUME NEW t \in Thread, Return(t)
      PROVE  IInv'
  <2>1. Control'
    BY <1>20, CounterFacts
       DEF IInv, Control, Return, Leave, Shape, Roles, Mutex, QuietEnd, HoldIsPc,
            DesIsPc, RegIsRef, BlockLives
  <2>2. Counter'
    BY <1>20 DEF IInv, Control, Return, Counter, Roles, BlockLives
  <2>. QED
    BY <2>1, <2>2 DEF IInv
<1>21. CASE UNCHANGED vars
  BY <1>21 DEF vars, IInv, Control, Counter, Shape, Roles, Mutex, QuietEnd, HoldIsPc,
             DesIsPc, RegIsRef, BlockLives
<1>. QED
  BY <1>1, <1>2, <1>3, <1>4, <1>5, <1>6, <1>7, <1>8, <1>9, <1>10, <1>11, <1>12, <1>13, <1>14, <1>15, <1>16, <1>17, <1>18, <1>19, <1>20, <1>21
     DEF Next, MaskStep, CloneStep, DropStep

(* With the lock and quiet callers every reachable state satisfies the     *)
(* inductive invariant.                                                    *)
THEOREM InductiveInvariant ==
    ASSUME MemLock, Quiescent
    PROVE  Spec => []IInv
<1>1. Init => IInv
  BY InitIInv
<1>2. IInv /\ [Next]_vars => IInv'
  BY NextIInv
<1>. QED
  BY <1>1, <1>2, PTL DEF Spec

(* No statement touches a control block or a clone of an object whose      *)
(* clear call-back has run (acore_mem.c:118, 133, 165: the lookup stands   *)
(* before the lock, and is still valid behind it).                         *)
THEOREM BlockIsNotStale ==
    ASSUME MemLock, Quiescent
    PROVE  Spec => []NoStaleBlock
<1>1. IInv => NoStaleBlock
  BY CounterFacts DEF IInv, Control, BlockLives, NoStaleBlock
<1>. QED
  BY <1>1, InductiveInvariant, PTL

(* The counter loses no update, however many clients take and drop clones  *)
(* at once (acore_mem.c:115-179).                                          *)
THEOREM UpdatesAreKept ==
    ASSUME MemLock, Quiescent
    PROVE  Spec => []NoLostUpdate
<1>1. IInv => TypeOK
  <2>. SUFFICES ASSUME IInv
                PROVE  TypeOK
    OBVIOUS
  <2>1. ref \in -1 .. Cardinality(Client)
    <3>1. ref \in Int /\ -1 <= ref
      BY CounterFacts DEF IInv, Control, Shape
    <3>2. ref <= Cardinality(Client)
      BY CounterFacts DEF IInv, Counter
    <3>. QED
      BY <3>1, <3>2, CounterFacts
  <2>2. PcOK
    BY DEF IInv, Control, Roles, PcOK, ClientPc, OwnerPc, Cloning, Holding, Given, Deref
  <2>. QED
    BY <2>1, <2>2 DEF IInv, Control, Shape, TypeOK
<1>2. IInv => NoLostUpdate
  <2>. SUFFICES ASSUME IInv, \A t \in Thread : pc[t] \notin {"addWrite", "decWrite", "maskDes"}
                PROVE  ref = Cardinality(hold) - (IF des THEN 1 ELSE 0)
    BY <1>1 DEF NoLostUpdate
  <2>1. des <=> pc[Owner] \in Given
    BY DEF IInv, Control, DesIsPc, Given, Thread
  <2>. QED
    BY <2>1 DEF IInv, Counter
<1>. QED
  BY <1>2, InductiveInvariant, PTL

(* The clear call-back runs once at most.                                  *)
THEOREM ClearedOnce ==
    ASSUME MemLock, Quiescent
    PROVE  Spec => [](cleared <= 1)
<1>1. IInv => cleared <= 1
  BY DEF IInv, Control, Shape
<1>. QED
  BY <1>1, InductiveInvariant, PTL

-----------------------------------------------------------------------------
(* A statement that moves neither the owner past the binding nor the       *)
(* counter across zero leaves the abstract object alone.                   *)
LEMMA SamePhase ==
    ASSUME pc[Owner] = "new" <=> pc'[Owner] = "new",
           ref < 0 <=> ref' < 0, des' = des
    PROVE  phase' = phase
  BY DEF phase

(* The write of a counter, the binding and the setting of des are steps of *)
(* the abstract object; every other statement is a stutter.                *)
LEMMA StepRefines ==
    ASSUME MemLock, Quiescent, IInv, [Next]_vars
    PROVE  [Shared!Next]_(Shared!vars)
<1>. USE ThreadAssumption DEF Thread, Goto, block
<1>1. CASE Bind
  <2>1. pc[Owner] = "new" /\ pc'[Owner] = "idle" /\ UNCHANGED <<ref, des, hold>>
    BY <1>1 DEF Bind, IInv, Control, Roles
  <2>2. ref \in Int /\ ref >= 0 /\ ~des
    BY <2>1, CounterFacts DEF IInv, Control, DesIsPc, Given, Shape
  <2>3. Shared!Publish("object")
    BY <2>1, <2>2 DEF Shared!Publish, phase, held
  <2>. QED
    BY <2>3 DEF Shared!Next
<1>2. ASSUME NEW t \in Client, AddWrite(t)
      PROVE  [Shared!Next]_(Shared!vars)
  <2>1. pc[Owner] = "idle" /\ pc'[Owner] = "idle"
    BY <1>2 DEF AddWrite, IInv, Control, Roles, QuietEnd, Cloning
  <2>2. ~des /\ des' = des /\ ref \in Int /\ ref >= 0 /\ ref' = ref + 1
    BY <1>2, <2>1, CounterFacts DEF AddWrite, IInv, Control, DesIsPc, RegIsRef, Given, Shape
  <2>3. t \notin hold /\ hold' = hold \cup {t}
    BY <1>2 DEF AddWrite, IInv, Control, HoldIsPc, Holding
  <2>4. phase["object"] = "live" /\ phase' = phase
    BY <2>1, <2>2 DEF phase
  <2>5. Shared!Take("object", t)
    BY <2>3, <2>4 DEF Shared!Take, held
  <2>. QED
    BY <2>5 DEF Shared!Next
<1>3. ASSUME NEW t \in Client, DecWrite(t)
      PROVE  [Shared!Next]_(Shared!vars)
  <2>1. /\ t \in hold /\ hold' = hold \ {t}
        /\ pc'[Owner] = pc[Owner] /\ pc[Owner] # "new"
        /\ des' = des /\ ref' = ref - 1
    BY <1>3 DEF DecWrite, IInv, Control, Roles, HoldIsPc, Holding, RegIsRef, QuietEnd
  <2>2. pc[Owner] # "maskDes"
    BY <1>3 DEF DecWrite, IInv, Control, Mutex, Locked
  <2>3. des <=> pc[Owner] \in Given
    BY <2>2 DEF IInv, Control, DesIsPc
  <2>4. ref >= 0 /\ ref \in Int
    BY <2>1, CounterFacts DEF IInv, Control, Shape
  <2>5. ref' < 0 <=> des /\ hold = {t}
    <3>1. /\ IsFiniteSet(hold \ {t})
          /\ Cardinality(hold \ {t}) = Cardinality(hold) - 1
      BY <2>1, CounterFacts, FS_RemoveElement
    <3>2. Cardinality(hold) = 1 <=> hold = {t}
      BY <2>1, <3>1, CounterFacts, FS_EmptySet
    <3>3. ref = Cardinality(hold) - (IF des THEN 1 ELSE 0)
      BY <2>3 DEF IInv, Counter
    <3>4. Cardinality(hold) \in Nat /\ Cardinality(hold) # 0
      BY <2>1, CounterFacts, FS_EmptySet
    <3>. QED
      BY <2>1, <3>2, <3>3, <3>4
  <2>6. t \in held["object"] /\ held' = [held EXCEPT !["object"] = @ \ {t}]
    BY <2>1 DEF held
  <2>7. phase["object"] = "doomed" <=> des
    BY <2>1, <2>4 DEF phase
  <2>8. CASE des /\ hold = {t}
    <3>1. phase' = [phase EXCEPT !["object"] = "absent"]
      BY <2>5, <2>8 DEF phase
    <3>2. Shared!Drop("object", t)
      BY <2>6, <2>7, <2>8, <3>1 DEF Shared!Drop, held
    <3>. QED
      BY <3>2 DEF Shared!Next
  <2>9. CASE ~(des /\ hold = {t})
    <3>1. phase' = phase
      BY <2>1, <2>4, <2>5, <2>9, SamePhase
    <3>2. Shared!Drop("object", t)
      BY <2>6, <2>7, <2>9, <3>1 DEF Shared!Drop, held
    <3>. QED
      BY <3>2 DEF Shared!Next
  <2>. QED
    BY <2>8, <2>9
<1>4. CASE DecWrite(Owner)
  <2>1. /\ pc[Owner] = "decWrite" /\ pc'[Owner] = "maskDes" /\ hold' = hold
        /\ ~des /\ des' = des /\ ref' = ref - 1
    BY <1>4 DEF DecWrite, IInv, Control, Roles, DesIsPc, RegIsRef, Given, Shape
  <2>2. ref >= 0 /\ ref \in Int
    BY <2>1, CounterFacts DEF IInv, Control, Shape, Given
  <2>3. ref' < 0 <=> hold = {}
    BY <2>1, <2>2, CounterFacts, FS_EmptySet DEF IInv, Counter, Given
  <2>4. CASE hold = {}
    <3>1. Shared!Doom("object")
      BY <2>1, <2>2, <2>3, <2>4 DEF Shared!Doom, phase, held
    <3>. QED
      BY <3>1 DEF Shared!Next
  <2>5. CASE hold # {}
    <3>1. phase' = phase /\ held' = held
      BY <2>1, <2>2, <2>3, <2>5 DEF phase, held
    <3>. QED
      BY <3>1 DEF Shared!vars
  <2>. QED
    BY <2>4, <2>5
<1>5. CASE MaskDes
  <2>1. /\ pc[Owner] = "maskDes" /\ pc'[Owner] = "decTest"
        /\ ~des /\ des' /\ ref' = ref /\ hold' = hold
    BY <1>5 DEF MaskDes, IInv, Control, Roles, DesIsPc
  <2>2. ref < 0 <=> hold = {}
    BY <2>1, CounterFacts DEF Given
  <2>3. CASE hold = {}
    <3>1. phase' = phase /\ held' = held
      BY <2>1, <2>2, <2>3 DEF phase, held
    <3>. QED
      BY <3>1 DEF Shared!vars
  <2>4. CASE hold # {}
    <3>1. Shared!Doom("object")
      BY <2>1, <2>2, <2>4 DEF Shared!Doom, phase, held
    <3>. QED
      BY <3>1 DEF Shared!Next
  <2>. QED
    BY <2>3, <2>4
<1>6. ASSUME UNCHANGED <<ref, des, hold>>, pc[Owner] = "new" <=> pc'[Owner] = "new"
      PROVE  [Shared!Next]_(Shared!vars)
  <2>1. phase' = phase /\ held' = held
    BY <1>6, SamePhase DEF held
  <2>. QED
    BY <2>1 DEF Shared!vars
<1>7. CASE MaskFind \/ MaskLock \/ MaskTest
  BY <1>6, <1>7 DEF MaskFind, MaskLock, MaskTest, IInv, Control, Roles
<1>8. ASSUME NEW t \in Client,
             \/ StartClone(t) \/ TestAvailable(t) \/ AddFind(t) \/ AddRead(t)
             \/ AddLeave(t) \/ DecFind(t)
      PROVE  [Shared!Next]_(Shared!vars)
  BY <1>6, <1>8 DEF StartClone, TestAvailable, AddFind, AddRead, AddLeave, DecFind,
                    IInv, Control, Roles
<1>9. ASSUME NEW t \in Client, AddLock(t) \/ DecLock(t)
      PROVE  [Shared!Next]_(Shared!vars)
  <2>1. cmd[t]
    BY <1>9 DEF AddLock, DecLock, IInv, Control, BlockLives, Relying
  <2>. QED
    BY <1>6, <1>9, <2>1 DEF AddLock, DecLock, IInv, Control, Roles
<1>10. CASE DecLock(Owner)
  BY <1>10 DEF DecLock, IInv, Control, Roles, OwnerPc, Given
<1>11. ASSUME NEW t \in Thread,
              DecRead(t) \/ DecTest(t) \/ Erase(t) \/ Clear(t) \/ Return(t)
       PROVE  [Shared!Next]_(Shared!vars)
  BY <1>6, <1>11 DEF DecRead, DecTest, Erase, Clear, Return, IInv, Control, Roles
<1>12. CASE UNCHANGED vars
  BY <1>6, <1>12 DEF vars
<1>. QED
  BY <1>1, <1>2, <1>3, <1>4, <1>5, <1>7, <1>8, <1>9, <1>10, <1>11, <1>12
     DEF Next, MaskStep, CloneStep, DropStep

(* Under the lock, and with quiet callers, the statements of acore_mem.c   *)
(* taken apart implement the contract of a shared object: the object is    *)
(* reclaimed with the last reference and never before.                     *)
THEOREM Refinement ==
    ASSUME MemLock, Quiescent
    PROVE  Spec => ImplementsSharedObject
<1>1. Init => Shared!Init
  BY DEF Init, Shared!Init, phase, held, Thread
<1>2. IInv /\ [Next]_vars => [Shared!Next]_(Shared!vars)
  BY StepRefines
<1>. QED
  BY <1>1, <1>2, InductiveInvariant, PTL
     DEF Spec, Shared!Spec, ImplementsSharedObject
=============================================================================
