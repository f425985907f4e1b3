--------------------------- MODULE SipCalls_proofs ---------------------------
(***************************************************************************)
(* Proofs about SipCalls for every finite set of modules and sessions and  *)
(* any threads and addresses, where no module is removed by the call-back  *)
(* it runs in or after asip_close: each of these breaks an invariant.  The *)
(* second part is about the commands.                                      *)
(***************************************************************************)
EXTENDS SipCalls, FiniteSetTheorems, SequenceTheorems, TLAPS

-----------------------------------------------------------------------------
(* What the operators of AcoreList do to a list.                           *)

(* InsertAt puts a node at a place and moves those from there on up.       *)
LEMMA InsertAtFacts ==
    ASSUME NEW S, NEW s \in Seq(S), NEW n \in S, NEW i \in 1..(Len(s) + 1)
    PROVE  /\ InsertAt(s, i, n) \in Seq(S)
           /\ Len(InsertAt(s, i, n)) = Len(s) + 1
           /\ \A j \in 1..(Len(s) + 1) :
                InsertAt(s, i, n)[j] = IF j < i THEN s[j]
                                       ELSE IF j = i THEN n ELSE s[j - 1]
<1>. DEFINE a == SubSeq(s, 1, i - 1)
            b == SubSeq(s, i, Len(s))
            ab == a \o <<n>>
<1>1. /\ a \in Seq(S) /\ Len(a) = i - 1
      /\ \A j \in 1..(i - 1) : a[j] = s[j]
  BY ElementOfSeq, SubSeqProperties
<1>2. /\ b \in Seq(S) /\ Len(b) = Len(s) - i + 1
      /\ \A j \in 1..(Len(s) - i + 1) : b[j] = s[i + j - 1]
  BY ElementOfSeq, SubSeqProperties
<1>. HIDE DEF a, b
<1>3. /\ ab \in Seq(S) /\ Len(ab) = i
      /\ \A j \in 1..i : ab[j] = IF j < i THEN s[j] ELSE n
  BY <1>1
<1>4. InsertAt(s, i, n) = ab \o b
  BY DEF InsertAt, a, b
<1>. HIDE DEF ab
<1>5. /\ ab \o b \in Seq(S) /\ Len(ab \o b) = Len(s) + 1
      /\ \A j \in 1..(Len(s) + 1) : (ab \o b)[j] = IF j <= i THEN ab[j] ELSE b[j - i]
  <2>1. /\ ab \o b \in Seq(S) /\ Len(ab \o b) = Len(ab) + Len(b)
        /\ \A j \in 1..(Len(ab) + Len(b)) :
             (ab \o b)[j] = IF j <= Len(ab) THEN ab[j] ELSE b[j - Len(ab)]
    BY <1>2, <1>3, ConcatProperties
  <2>2. Len(s) \in Nat
    BY LenProperties
  <2>. QED
    BY <1>2, <1>3, <2>1, <2>2
<1>. QED
  BY <1>2, <1>3, <1>4, <1>5

(* RemoveAt takes a node out and moves those behind it down.               *)
LEMMA RemoveAtFacts ==
    ASSUME NEW S, NEW s \in Seq(S), NEW i \in 1..Len(s)
    PROVE  /\ RemoveAt(s, i) \in Seq(S)
           /\ Len(RemoveAt(s, i)) = Len(s) - 1
           /\ \A j \in 1..(Len(s) - 1) :
                RemoveAt(s, i)[j] = IF j < i THEN s[j] ELSE s[j + 1]
<1>. DEFINE a == SubSeq(s, 1, i - 1)
            b == SubSeq(s, i + 1, Len(s))
<1>1. /\ a \in Seq(S) /\ Len(a) = i - 1
      /\ \A j \in 1..(i - 1) : a[j] = s[j]
  BY ElementOfSeq, SubSeqProperties
<1>2. /\ b \in Seq(S) /\ Len(b) = Len(s) - i
      /\ \A j \in 1..(Len(s) - i) : b[j] = s[i + j]
  BY ElementOfSeq, SubSeqProperties
<1>3. RemoveAt(s, i) = a \o b
  BY DEF RemoveAt
<1>. HIDE DEF a, b
<1>4. /\ a \o b \in Seq(S) /\ Len(a \o b) = Len(s) - 1
      /\ \A j \in 1..(Len(s) - 1) : (a \o b)[j] = IF j <= i - 1 THEN a[j] ELSE b[j - i + 1]
  <2>1. /\ a \o b \in Seq(S) /\ Len(a \o b) = Len(a) + Len(b)
        /\ \A j \in 1..(Len(a) + Len(b)) :
             (a \o b)[j] = IF j <= Len(a) THEN a[j] ELSE b[j - Len(a)]
    BY <1>1, <1>2, ConcatProperties
  <2>2. Len(s) \in Nat
    BY LenProperties
  <2>. QED
    BY <1>1, <1>2, <2>1, <2>2
<1>. QED
  BY <1>1, <1>2, <1>3, <1>4

(* The first of some places in a list, as Min finds it.                    *)
LEMMA FirstPlace ==
    ASSUME NEW k \in Nat, NEW P \in SUBSET (1..k), P # {}
    PROVE  Min(P) \in P /\ \A i \in P : Min(P) <= i
<1>. DEFINE Below(e) == {f \in P : f < e}
            T == {Below(e) : e \in P}
<1>1. IsFiniteSet(P) /\ \A i \in P : i \in Int
  <2>1. IsFiniteSet(1..k)
    BY FS_Interval
  <2>2. IsFiniteSet(P)
    BY <2>1, FS_Subset
  <2>. QED
    BY <2>2
<1>2. T \subseteq FiniteSubsetsOf(P) /\ T # {}
  <2>1. \A e \in P : IsFiniteSet(Below(e))
    BY <1>1, FS_Subset
  <2>. QED
    BY <2>1 DEF FiniteSubsetsOf
<1>3. PICK B \in T : \A C \in T : <<C, B>> \notin StrictSubsetOrdering(P)
  <2>. HIDE DEF T
  <2>. QED
    BY <1>1, <1>2, FS_StrictSubsetOrderingWellFounded, WFMin
<1>4. PICK e \in P : B = Below(e)
  BY <1>3
<1>5. ASSUME NEW f \in P, f < e
      PROVE  FALSE
  <2>1. Below(f) \in T
    OBVIOUS
  <2>2. Below(f) \subseteq Below(e) /\ f \in Below(e) /\ f \notin Below(f)
    <3>1. e \in Int /\ f \in Int /\ ~(f < f)
      BY <1>1
    <3>2. \A i \in P : i < f => i < e
      BY <1>1, <1>5, <3>1
    <3>. QED
      BY <1>5, <3>1, <3>2
  <2>3. <<Below(f), Below(e)>> \in StrictSubsetOrdering(P)
    BY <2>2 DEF StrictSubsetOrdering
  <2>. QED
    BY <1>3, <1>4, <2>1, <2>3
<1>6. \A f \in P : e <= f
  BY <1>5
<1>. QED
  BY <1>6 DEF Min

(* The order that acore_list_add keeps: each node once, and no node before *)
(* one that ranks below it.                                                *)
OrderedBy(s, rank) ==
    \A i, j \in DOMAIN s : i < j => s[i] # s[j] /\ rank[s[i]] <= rank[s[j]]

(* Erase takes one node out of a list and keeps the order of the others.   *)
LEMMA EraseFacts ==
    ASSUME NEW S, NEW s \in Seq(S), NEW n, NEW rank, OrderedBy(s, rank)
    PROVE  /\ Erase(s, n) \in Seq(S)
           /\ \A x : Contains(Erase(s, n), x) <=> Contains(s, x) /\ x # n
           /\ OrderedBy(Erase(s, n), rank)
<1>1. CASE ~Contains(s, n)
  BY <1>1 DEF Erase
<1>2. CASE Contains(s, n)
  <2>. DEFINE i == PlaceOf(s, n)
              t == Erase(s, n)
  <2>1. i \in 1..Len(s) /\ s[i] = n
    BY <1>2 DEF PlaceOf, Contains
  <2>2. t = RemoveAt(s, i)
    BY <1>2 DEF Erase
  <2>. HIDE DEF i, t
  <2>3. /\ t \in Seq(S) /\ Len(t) = Len(s) - 1 /\ Len(s) \in Nat
        /\ DOMAIN t = 1..(Len(s) - 1) /\ DOMAIN s = 1..Len(s)
        /\ \A j \in 1..(Len(s) - 1) : t[j] = IF j < i THEN s[j] ELSE s[j + 1]
    BY <2>1, <2>2, RemoveAtFacts, LenProperties
  <2>4. \A j \in 1..Len(s) : s[j] = n <=> j = i
    BY <2>1, <2>3 DEF OrderedBy
  <2>5. ASSUME NEW x, Contains(t, x)
        PROVE  Contains(s, x) /\ x # n
    BY <2>1, <2>3, <2>4, <2>5 DEF Contains
  <2>6. ASSUME NEW x, Contains(s, x), x # n
        PROVE  Contains(t, x)
    <3>1. PICK j \in 1..Len(s) : s[j] = x
      BY <2>6 DEF Contains
    <3>2. CASE j < i
      <4>1. j \in 1..(Len(s) - 1) /\ t[j] = x
        BY <2>1, <2>3, <3>1, <3>2
      <4>. QED
        BY <2>3, <4>1 DEF Contains
    <3>3. CASE j > i
      <4>1. j - 1 \in 1..(Len(s) - 1) /\ t[j - 1] = x
        BY <2>1, <2>3, <3>1, <3>3
      <4>. QED
        BY <2>3, <4>1 DEF Contains
    <3>. QED
      BY <2>1, <2>4, <2>6, <3>1, <3>2, <3>3
  <2>7. OrderedBy(t, rank)
    <3>. SUFFICES ASSUME NEW j \in 1..(Len(s) - 1), NEW k \in 1..(Len(s) - 1), j < k
                  PROVE  t[j] # t[k] /\ rank[t[j]] <= rank[t[k]]
      BY <2>3 DEF OrderedBy
    <3>1. PICK h \in 1..Len(s), l \in 1..Len(s) : t[j] = s[h] /\ t[k] = s[l] /\ h < l
      <4>1. t[j] = s[IF j < i THEN j ELSE j + 1] /\ t[k] = s[IF k < i THEN k ELSE k + 1]
        BY <2>3
      <4>2. /\ (IF j < i THEN j ELSE j + 1) \in 1..Len(s)
            /\ (IF k < i THEN k ELSE k + 1) \in 1..Len(s)
            /\ (IF j < i THEN j ELSE j + 1) < (IF k < i THEN k ELSE k + 1)
        BY <2>1, <2>3
      <4>. QED
        BY <4>1, <4>2
    <3>. QED
      BY <2>3, <3>1 DEF OrderedBy
  <2>. QED
    BY <2>3, <2>5, <2>6, <2>7 DEF t
<1>. QED
  BY <1>1, <1>2

(* AddSorted puts a new node where the order asks for it.                  *)
LEMMA AddSortedFacts ==
    ASSUME NEW S, NEW s \in Seq(S), NEW n \in S, NEW rank \in [S -> Int],
           OrderedBy(s, rank), ~Contains(s, n)
    PROVE  /\ AddSorted(s, n, rank) \in Seq(S)
           /\ \A x : Contains(AddSorted(s, n, rank), x) <=> Contains(s, x) \/ x = n
           /\ OrderedBy(AddSorted(s, n, rank), rank)
<1>. DEFINE above == {i \in DOMAIN s : rank[s[i]] >= rank[n]}
            p == IF above = {} THEN Len(s) + 1 ELSE Min(above)
            t == AddSorted(s, n, rank)
<1>1. /\ Len(s) \in Nat /\ DOMAIN s = 1..Len(s)
      /\ \A i \in 1..Len(s) : s[i] \in S /\ s[i] # n
  BY LenProperties, ElementOfSeq DEF Contains
<1>2. /\ p \in 1..(Len(s) + 1)
      /\ \A i \in 1..Len(s) : i < p => rank[s[i]] < rank[n]
      /\ p <= Len(s) => rank[s[p]] >= rank[n]
  <2>1. \A i \in 1..Len(s) : rank[s[i]] \in Int /\ rank[n] \in Int
    BY <1>1
  <2>2. CASE above = {}
    BY <1>1, <2>1, <2>2
  <2>3. CASE above # {}
    <3>1. above \in SUBSET (1..Len(s))
      BY <1>1
    <3>2. Min(above) \in above /\ \A i \in above : Min(above) <= i
      <4>. HIDE DEF above
      <4>. QED
        BY <1>1, <2>3, <3>1, FirstPlace
    <3>3. p = Min(above)
      <4>. HIDE DEF above
      <4>. QED
        BY <2>3
    <3>4. p \in 1..Len(s) /\ rank[s[p]] >= rank[n]
      BY <1>1, <3>2, <3>3
    <3>5. ASSUME NEW i \in 1..Len(s), i < p
          PROVE  rank[s[i]] < rank[n]
      <4>1. i \notin above
        <5>. HIDE DEF above, p
        <5>. QED
          BY <1>1, <3>2, <3>3, <3>4, <3>5
      <4>. QED
        BY <1>1, <2>1, <4>1
    <3>. HIDE DEF p
    <3>. QED
      BY <1>1, <3>4, <3>5
  <2>. QED
    BY <2>2, <2>3
<1>3. t = InsertAt(s, p, n)
  BY DEF AddSorted
<1>. HIDE DEF p, t, above
<1>4. /\ t \in Seq(S) /\ Len(t) = Len(s) + 1 /\ DOMAIN t = 1..(Len(s) + 1)
      /\ \A j \in 1..(Len(s) + 1) :
           t[j] = IF j < p THEN s[j] ELSE IF j = p THEN n ELSE s[j - 1]
  <2>1. /\ t \in Seq(S) /\ Len(t) = Len(s) + 1
        /\ \A j \in 1..(Len(s) + 1) :
             t[j] = IF j < p THEN s[j] ELSE IF j = p THEN n ELSE s[j - 1]
    <3>1. p \in 1..(Len(s) + 1)
      BY <1>2
    <3>2. /\ InsertAt(s, p, n) \in Seq(S)
          /\ Len(InsertAt(s, p, n)) = Len(s) + 1
          /\ \A j \in 1..(Len(s) + 1) :
               InsertAt(s, p, n)[j] = IF j < p THEN s[j]
                                      ELSE IF j = p THEN n ELSE s[j - 1]
      BY ONLY s \in Seq(S), n \in S, <3>1, InsertAtFacts
    <3>. QED
      BY ONLY <1>3, <3>2
  <2>. QED
    BY <2>1, LenProperties
<1>5. ASSUME NEW x, Contains(t, x)
      PROVE  Contains(s, x) \/ x = n
  <2>1. PICK j \in 1..(Len(s) + 1) : t[j] = x
    BY <1>4, <1>5 DEF Contains
  <2>2. j < p => j \in 1..Len(s) /\ s[j] = x
    BY <1>1, <1>2, <1>4, <2>1
  <2>3. j > p => j - 1 \in 1..Len(s) /\ s[j - 1] = x
    BY <1>1, <1>2, <1>4, <2>1
  <2>. QED
    BY <1>2, <1>4, <2>1, <2>2, <2>3 DEF Contains
<1>6. ASSUME NEW x, Contains(s, x) \/ x = n
      PROVE  Contains(t, x)
  <2>1. CASE x = n
    BY <1>1, <1>2, <1>4, <2>1 DEF Contains
  <2>2. CASE Contains(s, x)
    <3>1. PICK j \in 1..Len(s) : s[j] = x
      BY <2>2 DEF Contains
    <3>2. CASE j < p
      <4>1. j \in 1..(Len(s) + 1) /\ t[j] = x
        BY <1>1, <1>4, <3>1, <3>2
      <4>. QED
        BY <1>4, <4>1 DEF Contains
    <3>3. CASE j >= p
      <4>1. j + 1 \in 1..(Len(s) + 1) /\ t[j + 1] = x
        BY <1>1, <1>2, <1>4, <3>1, <3>3
      <4>. QED
        BY <1>4, <4>1 DEF Contains
    <3>. QED
      BY <1>2, <3>2, <3>3
  <2>. QED
    BY <1>6, <2>1, <2>2
<1>7. OrderedBy(t, rank)
  <2>. SUFFICES ASSUME NEW i \in 1..(Len(s) + 1), NEW j \in 1..(Len(s) + 1), i < j
                PROVE  t[i] # t[j] /\ rank[t[i]] <= rank[t[j]]
    BY <1>4 DEF OrderedBy
  <2>1. \A k \in 1..Len(s) : rank[s[k]] \in Int /\ rank[n] \in Int
    BY <1>1
  <2>2. \A k, l \in 1..Len(s) : k < l => s[k] # s[l] /\ rank[s[k]] <= rank[s[l]]
    BY <1>1 DEF OrderedBy
  <2>3. CASE i # p /\ j # p
    <3>1. PICK k \in 1..Len(s), l \in 1..Len(s) : t[i] = s[k] /\ t[j] = s[l] /\ k < l
      <4>1. t[i] = s[IF i < p THEN i ELSE i - 1] /\ t[j] = s[IF j < p THEN j ELSE j - 1]
        BY <1>2, <1>4, <2>3
      <4>2. /\ (IF i < p THEN i ELSE i - 1) \in 1..Len(s)
            /\ (IF j < p THEN j ELSE j - 1) \in 1..Len(s)
            /\ (IF i < p THEN i ELSE i - 1) < (IF j < p THEN j ELSE j - 1)
        BY <1>1, <1>2, <2>3
      <4>. QED
        BY <4>1, <4>2
    <3>. QED
      BY <2>2, <3>1
  <2>4. CASE j = p
    BY <1>1, <1>2, <1>4, <2>1, <2>4
  <2>5. CASE i = p
    <3>1. PICK l \in 1..Len(s) : t[j] = s[l] /\ p <= l
      <4>1. j - 1 \in 1..Len(s) /\ p <= j - 1 /\ t[j] = s[j - 1]
        <5>1. i < j /\ p < j /\ p \in Int /\ j \in Int
          BY <1>1, <1>2, <2>5
        <5>. QED
          BY <1>1, <1>2, <1>4, <5>1
      <4>. QED
        BY <4>1
    <3>2. p \in 1..Len(s) /\ rank[s[p]] <= rank[s[l]]
      <4>1. CASE p = l
        BY <1>1, <2>1, <4>1
      <4>2. CASE p # l
        BY <1>1, <1>2, <2>2, <3>1, <4>2
      <4>. QED
        BY <4>1, <4>2
    <3>. QED
      BY <1>1, <1>2, <1>4, <2>1, <2>5, <3>1, <3>2
  <2>. QED
    BY <2>3, <2>4, <2>5
<1>. QED
  BY <1>4, <1>5, <1>6, <1>7 DEF t

(* Search finds a node of the list that it accepts, or none.               *)
LEMMA SearchFacts ==
    ASSUME NEW S, NEW s \in Seq(S), NEW F, NEW r
    PROVE  LET n == Search(s, F, r) IN n = r \/ (n \in F /\ n \in S /\ Contains(s, n))
<1>. DEFINE hits == {i \in DOMAIN s : s[i] \in F}
<1>1. Len(s) \in Nat /\ DOMAIN s = 1..Len(s) /\ \A i \in 1..Len(s) : s[i] \in S
  BY LenProperties, ElementOfSeq
<1>2. CASE hits # {}
  <2>1. hits \in SUBSET (1..Len(s))
    BY <1>1
  <2>2. Min(hits) \in hits
    <3>. HIDE DEF hits
    <3>. QED
      BY <1>1, <1>2, <2>1, FirstPlace
  <2>. QED
    BY <1>1, <1>2, <2>2 DEF Search, Contains
<1>3. CASE hits = {}
  BY <1>3 DEF Search
<1>. QED
  BY <1>2, <1>3
-----------------------------------------------------------------------------
Place == {"idle", "add", "callLock", "sent", "inviteLock", "incoming", "announce"}

CallRecord ==
    [kind : {"none", "in", "out"}, st : null..complete, mod : Module \cup {None},
     addr : Addr \cup {None}, inv : {"none", "on", "over"}, dlg : Thread \cup {Nobody}]

Point == [at : Place, s : Module \cup Session \cup {None}]
Back  == [at : {"none", "media", "end"}, s : Session \cup {None}]
Holds == [by : Thread \cup {Nobody}, n : Nat]

(* TypeOK, and the types it leaves open.                                   *)
Shape ==
    /\ type_list \in Seq(Module)
    /\ pri \in [Module -> {0, 1}]
    /\ mem \in [Module -> Block]
    /\ cleared \in [Module -> Nat]
    /\ inv_map \in [Addr -> Session \cup {None}]
    /\ call \in [Session -> CallRecord]
    /\ owner \in Holds
    /\ leaks \in [Thread -> Nat]
    /\ pc \in [Thread -> Point]
    /\ cb \in [Thread -> Back]
    /\ closed \in BOOLEAN

(* What each thread is about, which is no other thread's business.         *)
Threads ==
    /\ \A t \in Thread :
         /\ pc[t].at = "add" => pc[t].s \in Module
         /\ pc[t].at \in {"callLock", "sent", "inviteLock", "incoming", "announce"} =>
              pc[t].s \in Session
         /\ pc[t].at = "idle" => pc[t].s = None
         /\ closed => pc[t].at = "idle" /\ cb[t] = NoCallBack
    /\ \A t, u \in Thread : t # u /\ pc[t].s = pc[u].s => pc[t].s = None

(* Between its BEGIN and its END a thread holds the SIP lock, twice when a *)
(* media update comes inside a call that is made or taken.                 *)
InSection(t) == pc[t].at \in {"sent", "incoming"}
InMedia(t)   == cb[t].at = "media"

Locks ==
    /\ \A t \in Thread :
         /\ InSection(t) \/ InMedia(t) => owner.by = t
         /\ InSection(t) /\ InMedia(t) => owner.n > 1
    /\ owner.by # Nobody => owner.n > 0

(* How far the call is that a thread is making or taking.                  *)
Progress ==
    \A t \in Thread :
        /\ pc[t].at \in {"callLock", "inviteLock"} => call[pc[t].s].kind = "none"
        /\ pc[t].at = "incoming" => call[pc[t].s].kind # "none"

(* A call holds a reference on its module, but for one in on_call_incoming,*)
(* which holds the SIP lock instead.                                       *)
Counted(s) ==
    /\ call[s].kind # "none"
    /\ \A t \in Thread : pc[t].at = "incoming" => pc[t].s # s

(* A module that is doomed or has a reference left has a counted call, and *)
(* a counted call has a module of this kind.                               *)
References ==
    /\ \A s \in Session : call[s].kind # "none" =>
         /\ call[s].mod \in Module
         /\ mem[call[s].mod].bound
         /\ Counted(s) => mem[call[s].mod].des \/ mem[call[s].mod].ref > 0
    /\ \A m \in Module : mem[m].bound /\ (mem[m].des \/ mem[m].ref > 0) =>
         \E s \in Session : Counted(s) /\ call[s].mod = m

(* The list is in order and has each bound module once, unless a thread    *)
(* is still adding it; and what is bound has not been cleared.             *)
Listed ==
    /\ OrderedBy(type_list, pri)
    /\ ~closed => \A m \in Module :
         Contains(type_list, m) <=>
             mem[m].bound /\ \A t \in Thread : pc[t].at = "add" => pc[t].s # m
    /\ \A t \in Thread : pc[t].at = "add" => mem[pc[t].s].bound
    /\ \A m \in Module :
         /\ cleared[m] <= 1
         /\ ~closed /\ mem[m].bound => cleared[m] = 0

IInv ==
    /\ Shape
    /\ Threads
    /\ Locks
    /\ Progress
    /\ References
    /\ Listed

(* The records of the calls, as far as the modules are concerned.          *)
SameCall(c, d) == d \in CallRecord /\ d.kind = c.kind /\ d.mod = c.mod
-----------------------------------------------------------------------------
(* What is written into the record of a call: its state, ...               *)
LEMMA StateWritten ==
    ASSUME NEW c \in CallRecord, NEW v \in null..complete
    PROVE  SameCall(c, [c EXCEPT !.st = v])
  BY DEF CallRecord, SameCall

(* ... how its session fares, ...                                          *)
LEMMA InvWritten ==
    ASSUME NEW c \in CallRecord, NEW i \in {"none", "on", "over"}
    PROVE  SameCall(c, [c EXCEPT !.inv = i])
  BY DEF CallRecord, SameCall

(* ... the session that comes in ...                                        *)
LEMMA SessionWritten ==
    ASSUME NEW c \in CallRecord, NEW a \in Addr, NEW t \in Thread
    PROVE  SameCall(c, [c EXCEPT !.addr = a, !.inv = "on", !.dlg = t])
  BY DEF CallRecord, SameCall

(* ... and the call that it becomes.                                        *)
LEMMA IncomingWritten ==
    ASSUME NEW c \in CallRecord, NEW m \in Module
    PROVE  LET d == [c EXCEPT !.kind = "in", !.st = wait, !.mod = m] IN
           d \in CallRecord /\ d.kind = "in" /\ d.mod = m
<1>1. wait \in null..complete
  BY DEF wait, null, complete
<1>. QED
  BY <1>1 DEF CallRecord

(* No call yet, in the fields that tell.                                   *)
LEMMA NoCallFields ==
    /\ NoCall \in CallRecord
    /\ NoCall.kind = "none"
  BY DEF CallRecord, NoCall, null, complete

(* The module that matches is in the list and available.                   *)
LEMMA MatchingFacts ==
    ASSUME Shape, NEW M, Matching(M) # None
    PROVE  /\ Matching(M) \in Module
           /\ Contains(type_list, Matching(M))
           /\ mem[Matching(M)].bound /\ ~mem[Matching(M)].des
<1>. DEFINE m == Search(type_list, M, None)
<1>1. m = None \/ (m \in Module /\ Contains(type_list, m))
  BY SearchFacts DEF Shape
<1>2. m # None /\ IsAvailable(mem, m) /\ Matching(M) = m
  BY DEF Matching
<1>. QED
  BY <1>1, <1>2 DEF IsAvailable

-----------------------------------------------------------------------------
(* Nothing is there at the start.                                          *)
LEMMA InitIInv == Init => IInv
<1>. SUFFICES ASSUME Init
              PROVE  IInv
  OBVIOUS
<1>. USE SipAssumption DEF Init
<1>1. Shape
  BY NoCallFields, EmptySeq DEF Shape, EmptyTable, Block, Unbound, Place, Point, Back,
     Holds, NoCallBack
<1>2. Threads
  BY DEF Threads
<1>3. Locks
  BY DEF Locks, InSection, InMedia, NoCallBack
<1>4. Progress
  BY DEF Progress
<1>5. References
  BY NoCallFields DEF References, Counted, EmptyTable, Unbound
<1>6. Listed
  BY DEF Listed, OrderedBy, Contains, EmptyTable, Unbound
<1>. QED
  BY <1>1, <1>2, <1>3, <1>4, <1>5, <1>6 DEF IInv

(* Where a thread goes.                                                    *)
LEMMA GoFacts ==
    ASSUME pc \in [Thread -> Point], NEW t \in Thread, NEW a \in Place,
           NEW s \in Module \cup Session \cup {None}, Go(t, a, s)
    PROVE  /\ pc' \in [Thread -> Point]
           /\ pc'[t].at = a /\ pc'[t].s = s
           /\ \A u \in Thread : u # t => pc'[u] = pc[u]
  BY DEF Go, Point

(* Taking the SIP lock: only the thread that takes it is inside it then.   *)
LEMMA LockTaken ==
    ASSUME Shape, Locks, NEW t \in Thread, Acquire(t)
    PROVE  /\ owner' \in Holds
           /\ owner'.by = t /\ owner'.n > 0
           /\ owner.by = t => owner'.n > 1
           /\ \A u \in Thread : u # t => ~InSection(u) /\ ~InMedia(u)
<1>1. owner.by \in {Nobody, t} /\ owner.n \in Nat /\ owner' = [by |-> t, n |-> owner.n + 1]
  BY DEF Shape, Holds, Acquire, Free
<1>2. owner.by = t => owner.n > 0
  BY SipAssumption DEF Locks
<1>3. \A u \in Thread : u # t => ~InSection(u) /\ ~InMedia(u)
  BY <1>1, SipAssumption DEF Locks
<1>. QED
  BY <1>1, <1>2, <1>3 DEF Holds

(* Giving the SIP lock back: the last release frees it.                    *)
LEMMA LockGiven ==
    ASSUME Shape, Locks, NEW t \in Thread, owner.by = t, Release
    PROVE  /\ owner' \in Holds
           /\ owner'.by # Nobody => owner'.n > 0
           /\ owner.n > 1 => owner'.by = t
           /\ \A u \in Thread : u # t => ~InSection(u) /\ ~InMedia(u)
<1>1. owner.n \in Nat /\ owner.n > 0 /\ owner.by \in Thread
  BY SipAssumption DEF Shape, Locks, Holds
<1>2. \A u \in Thread : u # t => ~InSection(u) /\ ~InMedia(u)
  BY DEF Locks
<1>3. CASE owner.n = 1
  BY <1>2, <1>3 DEF Release, Holds
<1>4. CASE owner.n # 1
  <2>1. PICK n \in Nat : n = owner.n - 1 /\ n > 0
    BY <1>1, <1>4
  <2>2. owner' = [by |-> t, n |-> n]
    BY <1>4, <2>1 DEF Release, Shape, Holds
  <2>. QED
    BY <1>2, <2>1, <2>2 DEF Holds
<1>. QED
  BY <1>1, <1>3, <1>4

(* A step that changes nothing about the modules and that at most ends     *)
(* what a thread is about.                                                 *)
LEMMA CallsKept ==
    ASSUME IInv, Shape', Locks', NEW t \in Thread,
           \A r \in Session : SameCall(call[r], call'[r]),
           UNCHANGED <<modules, closed>>,
           \A u \in Thread : u # t => pc'[u] = pc[u] /\ cb'[u] = cb[u],
           \/ pc'[t] = pc[t]
           \/ pc[t].at \notin {"add", "incoming"} /\ pc'[t].at = "idle" /\ pc'[t].s = None,
           closed => pc'[t].at = "idle" /\ cb'[t] = NoCallBack
    PROVE  IInv'
<1>. USE DEF modules, SameCall
<1>1. Threads'
  <2>1. \A u \in Thread : pc[u].at \in Place
    BY DEF IInv, Shape, Point
  <2>. QED
    BY <2>1 DEF IInv, Threads
<1>2. Progress'
  <2>1. \A u \in Thread :
          pc'[u].at \in {"callLock", "inviteLock", "incoming"} =>
             pc'[u] = pc[u] /\ pc[u].s \in Session
    BY DEF IInv, Threads
  <2>. QED
    BY <2>1 DEF IInv, Progress
<1>3. References'
  <2>1. \A r \in Session : Counted(r)' <=> Counted(r)
    BY DEF Counted
  <2>2. \A r \in Session : call'[r].kind # "none" =>
          /\ call'[r].mod \in Module /\ mem'[call'[r].mod].bound
          /\ Counted(r)' => mem'[call'[r].mod].des \/ mem'[call'[r].mod].ref > 0
    BY <2>1 DEF IInv, References
  <2>3. \A m \in Module : mem'[m].bound /\ (mem'[m].des \/ mem'[m].ref > 0) =>
          \E r \in Session : Counted(r)' /\ call'[r].mod = m
    BY <2>1 DEF IInv, References
  <2>. QED
    BY <2>2, <2>3 DEF References
<1>4. Listed'
  <2>1. \A u \in Thread : (pc'[u].at = "add" <=> pc[u].at = "add")
                          /\ (pc[u].at = "add" => pc'[u] = pc[u])
    OBVIOUS
  <2>. QED
    BY <2>1 DEF IInv, Listed
<1>. QED
  BY <1>1, <1>2, <1>3, <1>4 DEF IInv

(* A thread starts to make a call, or a session comes in.                  *)
LEMMA CallStartsIInv ==
    ASSUME IInv, NEW t \in Thread, NEW s \in Session,
           StartCall(t, s) \/ \E a \in Addr : Invite(t, s, a)
    PROVE  IInv'
<1>. USE SipAssumption
<1>1. /\ Idle(t) /\ ~closed /\ call[s] = NoCall
      /\ \A u \in Thread : pc[u].s # s
      /\ UNCHANGED <<modules, inv_map, owner, leaks, cb, closed>>
  BY DEF StartCall, Invite
<1>2. PICK p \in {"callLock", "inviteLock"} : Go(t, p, s)
  BY DEF StartCall, Invite
<1>3. /\ pc' \in [Thread -> Point]
      /\ pc'[t].at \in {"callLock", "inviteLock"} /\ pc'[t].s = s
      /\ \A u \in Thread : u # t => pc'[u] = pc[u]
  <2>1. p \in Place /\ s \in Module \cup Session \cup {None}
    BY DEF Place
  <2>. QED
    BY <1>2, <2>1, GoFacts DEF IInv, Shape
<1>4. pc[t].at = "idle" /\ call[s].kind = "none"
  BY <1>1, NoCallFields DEF Idle, At
<1>5. /\ call' \in [Session -> CallRecord]
      /\ \A r \in Session : SameCall(call[r], call'[r])
  <2>1. \A r \in Session : call[r] \in CallRecord /\ SameCall(call[r], call[r])
    BY DEF IInv, Shape, SameCall
  <2>2. CASE StartCall(t, s)
    BY <2>1, <2>2 DEF StartCall, IInv, Shape
  <2>3. ASSUME NEW a \in Addr, Invite(t, s, a)
        PROVE  /\ call' \in [Session -> CallRecord]
               /\ \A r \in Session : SameCall(call[r], call'[r])
    <3>. DEFINE d == [call[s] EXCEPT !.addr = a, !.inv = "on", !.dlg = t]
    <3>1. call[s] \in CallRecord
      BY <2>1
    <3>2. SameCall(call[s], d)
      BY ONLY <3>1, a \in Addr, t \in Thread, SessionWritten
    <3>3. call' = [call EXCEPT ![s] = d]
      BY <2>3 DEF Invite, IInv, Shape
    <3>. HIDE DEF d
    <3>4. d \in CallRecord
      BY <3>2 DEF SameCall
    <3>. QED
      BY <2>1, <3>2, <3>3, <3>4 DEF IInv, Shape
  <2>. QED
    BY <2>2, <2>3
<1>. USE DEF modules
<1>6. Shape'
  BY <1>1, <1>3, <1>5 DEF IInv, Shape
<1>7. Threads'
  <2>1. \A u \in Thread \ {t} : pc'[u].s # pc'[t].s
    BY <1>1, <1>3
  <2>. QED
    BY <1>1, <1>3, <2>1 DEF IInv, Threads
<1>8. Locks'
  BY <1>1, <1>3 DEF IInv, Locks, InSection, InMedia
<1>9. Progress'
  <2>1. \A u \in Thread : pc'[u].at \in {"callLock", "inviteLock", "incoming"} =>
          pc'[u].s \in Session /\ (u = t \/ pc'[u] = pc[u])
    BY <1>3 DEF IInv, Threads
  <2>. QED
    BY <1>3, <1>4, <1>5, <2>1 DEF IInv, Progress, SameCall
<1>10. References'
  <2>1. \A r \in Session : Counted(r)' <=> Counted(r)
    BY <1>3, <1>4, <1>5 DEF Counted, SameCall
  <2>2. \A r \in Session : call'[r].kind # "none" =>
          /\ call'[r].mod \in Module /\ mem'[call'[r].mod].bound
          /\ Counted(r)' => mem'[call'[r].mod].des \/ mem'[call'[r].mod].ref > 0
    BY <1>1, <1>5, <2>1 DEF IInv, References, SameCall
  <2>3. \A m \in Module : mem'[m].bound /\ (mem'[m].des \/ mem'[m].ref > 0) =>
          \E r \in Session : Counted(r)' /\ call'[r].mod = m
    BY <1>1, <1>5, <2>1 DEF IInv, References, SameCall
  <2>. QED
    BY <2>2, <2>3 DEF References
<1>11. Listed'
  BY <1>1, <1>3, <1>4 DEF IInv, Listed
<1>. QED
  BY <1>6, <1>7, <1>8, <1>9, <1>10, <1>11 DEF IInv

(* acore_mem_add_ref on a bound module.                                    *)
LEMMA AddRefFacts ==
    ASSUME mem \in [Module -> Block], NEW m \in Module, mem[m].bound
    PROVE  /\ AddRef(mem, m) \in [Module -> Block]
           /\ \A k \in Module : k # m => AddRef(mem, m)[k] = mem[k]
           /\ AddRef(mem, m)[m].bound
           /\ AddRef(mem, m)[m].ref > 0
           /\ AddRef(mem, m)[m].des <=> mem[m].des
  BY DEF AddRef, Block

(* A call is made: it is entered in inv_map and counted in one step.       *)
LEMMA CallMadeIInv ==
    ASSUME IInv, NEW t \in Thread, NEW M, NEW a \in Addr, NEW v \in null..complete,
           CallMade(t, M, a, v)
    PROVE  IInv'
<1>. USE SipAssumption DEF IInv
<1>0. PICK m \in Module : /\ m = Matching(M) /\ Contains(type_list, m)
                          /\ mem[m].bound /\ ~mem[m].des
  BY MatchingFacts DEF CallMade
<1>1. PICK s \in Session :
        /\ pc[t].at = "callLock" /\ pc[t].s = s /\ call[s].kind = "none" /\ ~closed
        /\ cb[t] = NoCallBack
        /\ Go(t, "sent", s)
        /\ call' = [call EXCEPT ![s] = [NoCall EXCEPT !.kind = "out", !.st = v, !.mod = m,
                                                      !.addr = a, !.inv = "on"]]
        /\ inv_map' = MapSet(a, s)
        /\ mem' = AddRef(mem, m)
        /\ UNCHANGED <<type_list, pri, cleared, leaks, cb, closed>>
  BY <1>0 DEF CallMade, At, Threads, Progress
<1>3. PICK d \in CallRecord :
        /\ d.kind = "out" /\ d.mod = m
        /\ call' = [call EXCEPT ![s] = d]
  <2>. DEFINE e == [NoCall EXCEPT !.kind = "out", !.st = v, !.mod = m, !.addr = a,
                                  !.inv = "on"]
  <2>1. e \in CallRecord /\ e.kind = "out" /\ e.mod = m
    <3>1. m \in Module /\ a \in Addr /\ v \in null..complete
      OBVIOUS
    <3>. QED
      BY ONLY <3>1 DEF CallRecord, NoCall
  <2>. HIDE DEF e
  <2>. QED
    BY <1>1, <2>1 DEF e
<1>4. /\ call' \in [Session -> CallRecord]
      /\ call'[s] = d /\ \A r \in Session : r # s => call'[r] = call[r]
  BY <1>1, <1>3 DEF Shape
<1>6. inv_map' \in [Addr -> Session \cup {None}]
  BY <1>1 DEF MapSet, Shape
<1>7. /\ mem' \in [Module -> Block]
      /\ \A k \in Module : k # m => mem'[k] = mem[k]
      /\ mem'[m].bound /\ mem'[m].ref > 0 /\ (mem'[m].des <=> mem[m].des)
  BY <1>0, <1>1, AddRefFacts DEF Shape
<1>8. /\ owner' \in Holds
      /\ owner'.by = t /\ owner'.n > 0
      /\ \A u \in Thread : u # t => ~InSection(u) /\ ~InMedia(u)
  BY LockTaken DEF CallMade
<1>9. /\ pc' \in [Thread -> Point]
      /\ pc'[t].at = "sent" /\ pc'[t].s = s
      /\ \A u \in Thread : u # t => pc'[u] = pc[u] /\ pc[u].s # s
  <2>1. \A u \in Thread : u # t => pc[u].s # s
    BY <1>1 DEF Threads
  <2>2. "sent" \in Place /\ s \in Module \cup Session \cup {None}
    BY DEF Place
  <2>. QED
    BY <1>1, <2>1, <2>2, GoFacts DEF Shape
<1>10. Shape'
  BY <1>1, <1>4, <1>6, <1>7, <1>8, <1>9 DEF Shape
<1>11. Threads'
  BY <1>1, <1>9 DEF Threads
<1>12. Locks'
  BY <1>1, <1>8, <1>9 DEF Locks, InSection, InMedia, NoCallBack
<1>13. Progress'
  <2>1. \A u \in Thread : u # t /\ pc[u].at \in {"callLock", "inviteLock", "incoming"} =>
          pc'[u] = pc[u] /\ call'[pc[u].s] = call[pc[u].s]
    BY <1>4, <1>9 DEF Threads
  <2>. QED
    BY <1>9, <2>1 DEF Progress
<1>14. References'
  <2>1. Counted(s)'
    BY <1>3, <1>4, <1>9 DEF Counted
  <2>2. \A r \in Session : r # s => (Counted(r)' <=> Counted(r))
    BY <1>1, <1>4, <1>9 DEF Counted
  <2>3. ~Counted(s)
    BY <1>1 DEF Counted
  <2>. QED
    <3>1. \A r \in Session : call'[r].kind # "none" =>
            /\ call'[r].mod \in Module /\ mem'[call'[r].mod].bound
            /\ Counted(r)' => mem'[call'[r].mod].des \/ mem'[call'[r].mod].ref > 0
      BY <1>3, <1>4, <1>7, <2>2 DEF References
    <3>2. \A k \in Module : mem'[k].bound /\ (mem'[k].des \/ mem'[k].ref > 0) =>
            \E r \in Session : Counted(r)' /\ call'[r].mod = k
      BY <1>3, <1>4, <1>7, <2>1, <2>2, <2>3 DEF References
    <3>. QED
      BY <3>1, <3>2 DEF References
<1>15. Listed'
  BY <1>0, <1>1, <1>7, <1>9 DEF Listed, Threads
<1>. QED
  BY <1>10, <1>11, <1>12, <1>13, <1>14, <1>15

(* An invite is accepted; the call is counted only later, and until then   *)
(* its module is safe because no thread can take the SIP lock.             *)
LEMMA InviteAcceptedIInv ==
    ASSUME IInv, NEW t \in Thread, NEW M, InviteAccepted(t, M)
    PROVE  IInv'
<1>. USE SipAssumption DEF IInv
<1>0. PICK m \in Module : m = Matching(M) /\ mem[m].bound
  BY MatchingFacts DEF InviteAccepted
<1>1. PICK s \in Session :
        /\ pc[t].at = "inviteLock" /\ pc[t].s = s /\ call[s].kind = "none" /\ ~closed
        /\ cb[t] = NoCallBack
        /\ Go(t, "incoming", s)
        /\ call' = [call EXCEPT ![s] = [call[s] EXCEPT !.kind = "in", !.st = wait, !.mod = m]]
        /\ inv_map' = MapSet(call[s].addr, s)
        /\ UNCHANGED <<modules, leaks, cb, closed>>
  <2>1. PICK s \in Session : /\ pc[t].at = "inviteLock" /\ pc[t].s = s /\ ~closed
                             /\ call[s].kind = "none" /\ cb[t] = NoCallBack
    BY DEF InviteAccepted, At, Threads, Progress
  <2>2. call' = [call EXCEPT ![s] = [call[s] EXCEPT !.kind = "in", !.st = wait, !.mod = m]]
    BY <1>0, <2>1 DEF InviteAccepted, Shape
  <2>. QED
    BY <2>1, <2>2 DEF InviteAccepted
<1>3. PICK d \in CallRecord :
        /\ d.kind = "in" /\ d.mod = m
        /\ call' = [call EXCEPT ![s] = d]
  <2>. DEFINE e == [call[s] EXCEPT !.kind = "in", !.st = wait, !.mod = m]
  <2>1. e \in CallRecord /\ e.kind = "in" /\ e.mod = m
    <3>1. m \in Module /\ call[s] \in CallRecord
      BY DEF Shape
    <3>. QED
      BY ONLY <3>1, IncomingWritten
  <2>2. call' = [call EXCEPT ![s] = e]
    BY <1>1
  <2>. HIDE DEF e
  <2>. QED
    BY <2>1, <2>2
<1>4. /\ call' \in [Session -> CallRecord]
      /\ call'[s] = d /\ \A r \in Session : r # s => call'[r] = call[r]
  BY <1>3 DEF Shape
<1>5. inv_map' \in [Addr -> Session \cup {None}]
  BY <1>1 DEF MapSet, Shape
<1>6. /\ owner' \in Holds
      /\ owner'.by = t /\ owner'.n > 0
      /\ \A u \in Thread : u # t => ~InSection(u) /\ ~InMedia(u)
  BY LockTaken DEF InviteAccepted
<1>7. /\ pc' \in [Thread -> Point]
      /\ pc'[t].at = "incoming" /\ pc'[t].s = s
      /\ \A u \in Thread : u # t => pc'[u] = pc[u] /\ pc[u].s # s
  <2>1. \A u \in Thread : u # t => pc[u].s # s
    BY <1>1 DEF Threads
  <2>2. "incoming" \in Place /\ s \in Module \cup Session \cup {None}
    BY DEF Place
  <2>. QED
    BY <1>1, <2>1, <2>2, GoFacts DEF Shape
<1>. USE DEF modules
<1>8. Shape'
  BY <1>1, <1>4, <1>5, <1>6, <1>7 DEF Shape
<1>9. Threads'
  BY <1>1, <1>7 DEF Threads
<1>10. Locks'
  BY <1>1, <1>6, <1>7 DEF Locks, InSection, InMedia, NoCallBack
<1>11. Progress'
  <2>1. call'[pc'[t].s].kind # "none"
    BY <1>3, <1>4, <1>7
  <2>2. \A u \in Thread : u # t /\ pc[u].at \in {"callLock", "inviteLock", "incoming"} =>
          pc'[u] = pc[u] /\ call'[pc[u].s] = call[pc[u].s]
    BY <1>4, <1>7 DEF Threads
  <2>. QED
    BY <1>7, <2>1, <2>2 DEF Progress
<1>12. References'
  <2>1. ~Counted(s) /\ ~Counted(s)'
    BY <1>1, <1>7 DEF Counted
  <2>2. \A r \in Session : r # s => (Counted(r)' <=> Counted(r))
    BY <1>1, <1>4, <1>7 DEF Counted
  <2>. QED
    BY <1>0, <1>1, <1>3, <1>4, <2>1, <2>2 DEF References
<1>13. Listed'
  BY <1>1, <1>7 DEF Listed
<1>. QED
  BY <1>8, <1>9, <1>10, <1>11, <1>12, <1>13

(* on_call_incoming has returned, and the call takes its reference.        *)
LEMMA InviteCountedIInv ==
    ASSUME IInv, NEW t \in Thread, InviteCounted(t)
    PROVE  IInv'
<1>. USE SipAssumption DEF IInv
<1>1. PICK s \in Session, m \in Module :
        /\ pc[t].at = "incoming" /\ pc[t].s = s /\ ~closed
        /\ cb[t] = NoCallBack
        /\ call[s].kind # "none" /\ call[s].mod = m /\ mem[m].bound
        /\ Go(t, "announce", s)
        /\ mem' = AddRef(mem, m)
        /\ UNCHANGED <<type_list, pri, cleared, inv_map, call, leaks, cb, closed>>
  BY DEF InviteCounted, At, Threads, Progress, References
<1>2. /\ mem' \in [Module -> Block]
      /\ \A k \in Module : k # m => mem'[k] = mem[k]
      /\ mem'[m].bound /\ mem'[m].ref > 0 /\ (mem'[m].des <=> mem[m].des)
  BY <1>1, AddRefFacts DEF Shape
<1>3. /\ owner' \in Holds
      /\ owner'.by # Nobody => owner'.n > 0
      /\ \A u \in Thread : u # t => ~InSection(u) /\ ~InMedia(u)
  <2>1. owner.by = t /\ Release
    BY <1>1 DEF InviteCounted, Locks, InSection
  <2>. QED
    BY <2>1, LockGiven
<1>4. /\ pc' \in [Thread -> Point]
      /\ pc'[t].at = "announce" /\ pc'[t].s = s
      /\ \A u \in Thread : u # t => pc'[u] = pc[u] /\ pc[u].s # s
  <2>1. \A u \in Thread : u # t => pc[u].s # s
    BY <1>1 DEF Threads
  <2>2. "announce" \in Place /\ s \in Module \cup Session \cup {None}
    BY DEF Place
  <2>. QED
    BY <1>1, <2>1, <2>2, GoFacts DEF Shape
<1>5. Shape'
  BY <1>1, <1>2, <1>3, <1>4 DEF Shape
<1>6. Threads'
  BY <1>1, <1>4 DEF Threads
<1>7. Locks'
  BY <1>1, <1>3, <1>4 DEF Locks, InSection, InMedia, NoCallBack
<1>8. Progress'
  BY <1>1, <1>4 DEF Progress
<1>9. References'
  <2>1. Counted(s)'
    BY <1>1, <1>4 DEF Counted
  <2>2. \A r \in Session : r # s => (Counted(r)' <=> Counted(r))
    BY <1>1, <1>4 DEF Counted
  <2>3. \A r \in Session : call'[r].kind # "none" =>
          /\ call'[r].mod \in Module /\ mem'[call'[r].mod].bound
          /\ Counted(r)' => mem'[call'[r].mod].des \/ mem'[call'[r].mod].ref > 0
    BY <1>1, <1>2, <2>2 DEF References
  <2>4. \A k \in Module : mem'[k].bound /\ (mem'[k].des \/ mem'[k].ref > 0) =>
          \E r \in Session : Counted(r)' /\ call'[r].mod = k
    <3>1. ~Counted(s)
      BY <1>1 DEF Counted
    <3>. QED
      BY <1>1, <1>2, <2>1, <2>2, <3>1 DEF References
  <2>. QED
    BY <2>3, <2>4 DEF References
<1>10. Listed'
  BY <1>1, <1>2, <1>4 DEF Listed, Threads
<1>. QED
  BY <1>5, <1>6, <1>7, <1>8, <1>9, <1>10

-----------------------------------------------------------------------------
(* The state of the call that inv_map has for a session is written, if it  *)
(* has one.                                                                *)
LEMMA StateIsWritten ==
    ASSUME Shape, NEW c, NEW v \in null..complete
    PROVE  LET new == [call EXCEPT ![c].st = v] IN
           /\ new \in [Session -> CallRecord]
           /\ \A r \in Session : SameCall(call[r], new[r])
<1>. DEFINE new == [call EXCEPT ![c].st = v]
<1>1. \A r \in Session : call[r] \in CallRecord /\ SameCall(call[r], call[r])
  BY DEF Shape, SameCall
<1>2. ASSUME NEW r \in Session
      PROVE  SameCall(call[r], new[r])
  <2>1. CASE r = c
    <3>1. new[r] = [call[r] EXCEPT !.st = v]
      BY <2>1 DEF Shape
    <3>2. SameCall(call[r], [call[r] EXCEPT !.st = v])
      BY ONLY <1>1, r \in Session, v \in null..complete, StateWritten
    <3>. QED
      BY <3>1, <3>2
  <2>2. CASE r # c
    BY <1>1, <2>2 DEF Shape
  <2>. QED
    BY <2>1, <2>2
<1>3. new = [r \in Session |-> new[r]]
  BY DEF Shape
<1>. HIDE DEF new
<1>4. new \in [Session -> CallRecord]
  BY <1>2, <1>3 DEF SameCall
<1>. QED
  BY <1>2, <1>4 DEF new

(* The same of how a session fares.                                        *)
LEMMA InvIsWritten ==
    ASSUME Shape, NEW s, NEW i \in {"none", "on", "over"}
    PROVE  LET new == [call EXCEPT ![s].inv = i] IN
           /\ new \in [Session -> CallRecord]
           /\ \A r \in Session : SameCall(call[r], new[r])
<1>. DEFINE new == [call EXCEPT ![s].inv = i]
<1>1. \A r \in Session : call[r] \in CallRecord /\ SameCall(call[r], call[r])
  BY DEF Shape, SameCall
<1>2. ASSUME NEW r \in Session
      PROVE  SameCall(call[r], new[r])
  <2>1. CASE r = s
    <3>1. new[r] = [call[r] EXCEPT !.inv = i]
      BY <2>1 DEF Shape
    <3>2. SameCall(call[r], [call[r] EXCEPT !.inv = i])
      BY ONLY <1>1, r \in Session, i \in {"none", "on", "over"}, InvWritten
    <3>. QED
      BY <3>1, <3>2
  <2>2. CASE r # s
    BY <1>1, <2>2 DEF Shape
  <2>. QED
    BY <2>1, <2>2
<1>3. new = [r \in Session |-> new[r]]
  BY DEF Shape
<1>. HIDE DEF new
<1>4. new \in [Session -> CallRecord]
  BY <1>2, <1>3 DEF SameCall
<1>. QED
  BY <1>2, <1>4 DEF new

(* What a session that ends leaves is a call with the same module.         *)
LEMMA EndedFacts ==
    ASSUME Shape, NEW s
    PROVE  /\ Ended(s) \in [Session -> CallRecord]
           /\ \A r \in Session : SameCall(call[r], Ended(s)[r])
<1>. DEFINE c == FindByInv(s)
            over == [call EXCEPT ![s].inv = "over"]
            new == [over EXCEPT ![c].st = complete]
<1>1. over \in [Session -> CallRecord] /\ \A r \in Session : SameCall(call[r], over[r])
  BY InvIsWritten
<1>2. Ended(s) = IF c = None THEN over ELSE new
  BY DEF Ended
<1>. HIDE DEF over, c
<1>3. ASSUME NEW r \in Session
      PROVE  SameCall(call[r], new[r])
  <2>1. CASE r = c
    <3>1. new[r] = [over[r] EXCEPT !.st = complete]
      BY <1>1, <2>1
    <3>2. complete \in null..complete
      BY DEF null, complete
    <3>3. SameCall(over[r], [over[r] EXCEPT !.st = complete])
      BY ONLY <1>1, <3>2, r \in Session, StateWritten DEF SameCall
    <3>. QED
      BY <1>1, <3>1, <3>3 DEF SameCall
  <2>2. CASE r # c
    BY <1>1, <2>2
  <2>. QED
    BY <2>1, <2>2
<1>4. new = [r \in Session |-> new[r]]
  BY <1>1
<1>. HIDE DEF new
<1>5. new \in [Session -> CallRecord]
  BY <1>3, <1>4 DEF SameCall
<1>. QED
  BY <1>1, <1>2, <1>3, <1>5

(* A thread that leaves: asip_ua_call with the SIP lock or at its end, or  *)
(* the invite it refused or announced.                                     *)
LEMMA LeaveIInv ==
    ASSUME IInv, NEW t \in Thread,
           \/ \E M \in SUBSET Module : \/ CallRefused(t, M) \/ CallFails(t, M)
                                       \/ InviteRefused(t, M)
           \/ CallReturns(t) \/ InviteAnnounced(t)
    PROVE  IInv'
<1>. USE SipAssumption
<1>1. /\ pc[t].at \in {"callLock", "sent", "inviteLock", "announce"}
      /\ cb[t] = NoCallBack
      /\ Go(t, "idle", None)
      /\ UNCHANGED <<modules, inv_map, cb, closed>>
  BY DEF CallRefused, CallFails, InviteRefused, CallReturns, InviteAnnounced, At
<1>2. /\ pc' \in [Thread -> Point]
      /\ pc'[t].at = "idle" /\ pc'[t].s = None
      /\ \A u \in Thread : u # t => pc'[u] = pc[u]
  <2>1. "idle" \in Place /\ None \in Module \cup Session \cup {None}
    BY DEF Place
  <2>. QED
    BY <1>1, <2>1, GoFacts DEF IInv, Shape
<1>3. leaks' \in [Thread -> Nat]
  BY DEF CallRefused, CallFails, InviteRefused, CallReturns, InviteAnnounced, IInv, Shape
<1>4. /\ call' \in [Session -> CallRecord]
      /\ \A r \in Session : SameCall(call[r], call'[r])
  <2>1. CASE UNCHANGED call
    BY <2>1 DEF IInv, Shape, SameCall
  <2>2. CASE CallReturns(t)
    <3>1. call' = [call EXCEPT ![pc[t].s].st = wait]
      BY <2>2 DEF CallReturns
    <3>2. wait \in null..complete
      BY DEF wait, null, complete
    <3>. QED
      BY <3>1, <3>2, StateIsWritten DEF IInv
  <2>3. ASSUME NEW M, InviteRefused(t, M)
        PROVE  /\ call' \in [Session -> CallRecord]
               /\ \A r \in Session : SameCall(call[r], call'[r])
    <3>1. call' = Ended(pc[t].s)
      BY <2>3 DEF InviteRefused
    <3>. QED
      BY <3>1, EndedFacts DEF IInv
  <2>. QED
    BY <2>1, <2>2, <2>3 DEF CallRefused, CallFails, InviteAnnounced
<1>5. owner' \in Holds /\ Locks'
  <2>1. CASE Acquire(t)
    <3>1. /\ owner' \in Holds /\ owner'.by = t /\ owner'.n > 0
          /\ \A u \in Thread : u # t => ~InSection(u) /\ ~InMedia(u)
      BY <2>1, LockTaken DEF IInv
    <3>. QED
      BY <1>1, <1>2, <3>1 DEF Locks, InSection, InMedia, NoCallBack
  <2>2. CASE UNCHANGED owner
    BY <1>1, <1>2, <2>2 DEF IInv, Shape, Locks, InSection, InMedia
  <2>3. CASE CallReturns(t)
    <3>1. owner.by = t /\ Release
      BY <2>3 DEF CallReturns, IInv, Locks, InSection, At
    <3>2. /\ owner' \in Holds /\ (owner'.by # Nobody => owner'.n > 0)
          /\ \A u \in Thread : u # t => ~InSection(u) /\ ~InMedia(u)
      BY <3>1, LockGiven DEF IInv
    <3>. QED
      BY <1>1, <1>2, <3>2 DEF Locks, InSection, InMedia, NoCallBack
  <2>. QED
    BY <2>1, <2>2, <2>3 DEF CallRefused, CallFails, InviteRefused, InviteAnnounced
<1>6. Shape'
  BY <1>1, <1>2, <1>3, <1>4, <1>5 DEF IInv, Shape, modules
<1>7. UNCHANGED <<modules, closed>> /\ (closed => cb'[t] = NoCallBack)
  BY <1>1
<1>8. \A u \in Thread : u # t => pc'[u] = pc[u] /\ cb'[u] = cb[u]
  BY <1>1, <1>2
<1>. QED
  BY <1>1, <1>2, <1>4, <1>5, <1>6, <1>7, <1>8, CallsKept

(* What comes to a thread in a call-back: nothing it is about changes.     *)
LEMMA CallBackIInv ==
    ASSUME IInv, NEW t \in Thread,
           \/ \E s \in Session : \/ TsxCompleted(t, s) \/ MediaUpdate(t, s)
                                 \/ Disconnected(t, s)
           \/ MediaUpdated(t) \/ DisconnectEnds(t)
    PROVE  IInv'
<1>. USE SipAssumption
<1>1. UNCHANGED <<modules, inv_map, leaks, pc, closed>> /\ ~closed
  <2>1. cb[t].at \in {"media", "end"} => ~closed
    BY DEF IInv, Threads, NoCallBack
  <2>. QED
    BY <2>1 DEF TsxCompleted, MediaUpdate, Disconnected, MediaUpdated, DisconnectEnds,
                CanCallBack
<1>2. /\ call' \in [Session -> CallRecord]
      /\ \A r \in Session : SameCall(call[r], call'[r])
  <2>1. CASE UNCHANGED call
    BY <2>1 DEF IInv, Shape, SameCall
  <2>2. ASSUME NEW s \in Session, Disconnected(t, s)
        PROVE  /\ call' \in [Session -> CallRecord]
               /\ \A r \in Session : SameCall(call[r], call'[r])
    <3>1. call' = Ended(s)
      BY <2>2 DEF Disconnected
    <3>. QED
      BY <3>1, EndedFacts DEF IInv
  <2>3. ASSUME NEW c, NEW v \in {incall, handle}, call' = [call EXCEPT ![c].st = v]
        PROVE  /\ call' \in [Session -> CallRecord]
               /\ \A r \in Session : SameCall(call[r], call'[r])
    <3>1. v \in null..complete
      BY DEF incall, handle, null, complete
    <3>. QED
      BY <2>3, <3>1, StateIsWritten DEF IInv
  <2>. QED
    BY <2>1, <2>2, <2>3 DEF TsxCompleted, MediaUpdate, MediaUpdated, DisconnectEnds
<1>3. /\ cb' \in [Thread -> Back]
      /\ \A u \in Thread : u # t => cb'[u] = cb[u]
      /\ (\A s \in Session : ~MediaUpdate(t, s)) => (InMedia(t)' => InMedia(t))
  <2>1. CASE UNCHANGED cb
    BY <2>1 DEF IInv, Shape, InMedia
  <2>2. ASSUME NEW s \in Session, MediaUpdate(t, s)
        PROVE  /\ cb' \in [Thread -> Back]
               /\ \A u \in Thread : u # t => cb'[u] = cb[u]
    <3>1. cb' = [cb EXCEPT ![t] = [at |-> "media", s |-> s]]
      BY <2>2 DEF MediaUpdate, CallBack
    <3>. QED
      BY <3>1 DEF IInv, Shape, Back
  <2>3. CASE CallBackEnds(t)
    <3>1. cb' = [cb EXCEPT ![t] = NoCallBack] /\ NoCallBack \in Back /\ NoCallBack.at = "none"
      BY <2>3 DEF CallBackEnds, NoCallBack, Back
    <3>. QED
      BY <3>1 DEF IInv, Shape, InMedia
  <2>4. ASSUME NEW s \in Session, CallBack(t, "end", s)
        PROVE  /\ cb' \in [Thread -> Back]
               /\ \A u \in Thread : u # t => cb'[u] = cb[u]
               /\ ~InMedia(t)'
    BY <2>4 DEF IInv, Shape, Back, CallBack, InMedia
  <2>. QED
    BY <2>1, <2>2, <2>3, <2>4 DEF TsxCompleted, Disconnected, MediaUpdated, DisconnectEnds
<1>4. owner' \in Holds /\ Locks'
  <2>1. \A u \in Thread : InSection(u)' <=> InSection(u)
    BY <1>1 DEF InSection
  <2>2. \A u \in Thread : u # t => (InMedia(u)' <=> InMedia(u))
    BY <1>3 DEF InMedia
  <2>3. ASSUME NEW s, MediaUpdate(t, s)
        PROVE  owner' \in Holds /\ Locks'
    <3>1. Acquire(t)
      BY <2>3 DEF MediaUpdate
    <3>2. /\ owner' \in Holds /\ owner'.by = t /\ owner'.n > 0
          /\ owner.by = t => owner'.n > 1
          /\ \A u \in Thread : u # t => ~InSection(u) /\ ~InMedia(u)
      BY <3>1, LockTaken DEF IInv
    <3>3. InSection(t) => owner.by = t
      BY DEF IInv, Locks
    <3>. QED
      BY <2>1, <2>2, <3>2, <3>3 DEF Locks
  <2>4. CASE MediaUpdated(t)
    <3>1. owner.by = t /\ Release /\ (InSection(t) => owner.n > 1)
      BY <2>4 DEF MediaUpdated, IInv, Locks, InMedia
    <3>2. /\ owner' \in Holds /\ (owner'.by # Nobody => owner'.n > 0)
          /\ owner.n > 1 => owner'.by = t
          /\ \A u \in Thread : u # t => ~InSection(u) /\ ~InMedia(u)
      BY <3>1, LockGiven DEF IInv
    <3>3. ~InMedia(t)'
      <4>1. cb' = [cb EXCEPT ![t] = NoCallBack]
        BY <2>4 DEF MediaUpdated, CallBackEnds
      <4>. QED
        BY <4>1 DEF IInv, Shape, InMedia, NoCallBack
    <3>. QED
      BY <2>1, <2>2, <3>1, <3>2, <3>3 DEF Locks
  <2>5. CASE UNCHANGED owner /\ \A s \in Session : ~MediaUpdate(t, s)
    BY <1>3, <2>1, <2>2, <2>5 DEF IInv, Locks, Shape
  <2>. QED
    BY <2>3, <2>4, <2>5 DEF TsxCompleted, Disconnected, DisconnectEnds
<1>5. Shape'
  BY <1>1, <1>2, <1>3, <1>4 DEF IInv, Shape, modules
<1>6. pc'[t] = pc[t] /\ ~closed /\ UNCHANGED <<modules, closed>>
  BY <1>1
<1>7. \A u \in Thread : u # t => pc'[u] = pc[u] /\ cb'[u] = cb[u]
  BY <1>1, <1>3
<1>. QED
  BY <1>2, <1>4, <1>5, <1>6, <1>7, CallsKept

(* A session is freed.                                                     *)
LEMMA SessionFreedIInv ==
    ASSUME IInv, NEW s \in Session, SessionFreed(s)
    PROVE  IInv'
<1>1. /\ call' = [call EXCEPT ![s].inv = "none"]
      /\ UNCHANGED <<modules, inv_map, owner, leaks, pc, cb, closed>>
  BY DEF SessionFreed
<1>2. /\ call' \in [Session -> CallRecord]
      /\ \A r \in Session : SameCall(call[r], call'[r])
  BY <1>1, InvIsWritten DEF IInv
<1>. USE <1>1, <1>2 DEF IInv, modules, SameCall
<1>3. Shape'
  BY DEF Shape
<1>4. Threads' /\ Locks'
  BY DEF Threads, Locks, InSection, InMedia
<1>5. Progress'
  BY DEF Progress, Threads
<1>6. References'
  <2>1. \A r \in Session : Counted(r)' <=> Counted(r)
    BY DEF Counted
  <2>. QED
    BY <2>1 DEF References
<1>7. Listed'
  BY DEF Listed
<1>. QED
  BY <1>3, <1>4, <1>5, <1>6, <1>7

-----------------------------------------------------------------------------
(* A module is bound, and listed only in the next step: its priority moves *)
(* before it is in the list.                                               *)
LEMMA AddModuleIInv ==
    ASSUME IInv, NEW t \in Thread, NEW m \in Module, AddModule(t, m)
    PROVE  IInv'
<1>. USE SipAssumption DEF IInv
<1>1. /\ pc[t].at = "idle" /\ ~closed /\ ~mem[m].bound /\ cleared[m] = 0
      /\ \A u \in Thread : pc[u].s # m
      /\ pc' \in [Thread -> Point]
      /\ pc'[t].at = "add" /\ pc'[t].s = m
      /\ \A u \in Thread : u # t => pc'[u] = pc[u]
      /\ UNCHANGED <<type_list, cleared, inv_map, call, owner, leaks, cb, closed>>
  BY DEF AddModule, Go, Idle, At, Shape, Place, Point
<1>2. /\ pri' \in [Module -> {0, 1}]
      /\ \A k \in Module : k # m => pri'[k] = pri[k]
  BY DEF AddModule, Shape
<1>3. /\ mem' \in [Module -> Block]
      /\ \A k \in Module : k # m => mem'[k] = mem[k]
      /\ mem'[m].bound /\ mem'[m].ref = 0 /\ ~mem'[m].des
  BY <1>1 DEF AddModule, Shape, Bind, Fresh, Block
<1>4. /\ ~Contains(type_list, m)
      /\ \A s \in Session : call[s].kind # "none" => call[s].mod \in Module \ {m}
  BY <1>1 DEF Listed, References
<1>5. Shape'
  BY <1>1, <1>2, <1>3 DEF Shape
<1>6. Threads'
  <2>1. \A u \in Thread \ {t} : pc'[u].s # pc'[t].s
    BY <1>1
  <2>. QED
    BY <1>1, <2>1 DEF Threads
<1>7. Progress'
  BY <1>1 DEF Progress
<1>8. Locks'
  BY <1>1 DEF Locks, InSection, InMedia
<1>9. References'
  <2>1. \A s \in Session : Counted(s)' <=> Counted(s)
    BY <1>1 DEF Counted
  <2>2. \A s \in Session : Counted(s) => call[s].kind # "none"
    BY DEF Counted
  <2>. QED
    BY <1>1, <1>3, <1>4, <2>1, <2>2 DEF References
<1>10. Listed'
  <2>1. OrderedBy(type_list, pri')
    <3>1. \A i \in DOMAIN type_list : type_list[i] \in Module /\ type_list[i] # m
      <4>1. /\ type_list \in Seq(Module)
            /\ DOMAIN type_list = 1..Len(type_list)
            /\ \A i \in 1..Len(type_list) : type_list[i] \in Module
        BY LenProperties, ElementOfSeq DEF Shape
      <4>. QED
        BY <1>4, <4>1 DEF Contains
    <3>. QED
      BY <1>2, <3>1 DEF Listed, OrderedBy
  <2>2. \A k \in Module :
          Contains(type_list, k) <=>
             mem'[k].bound /\ \A u \in Thread : pc'[u].at = "add" => pc'[u].s # k
    <3>1. ASSUME NEW k \in Module, k # m
          PROVE  Contains(type_list, k) <=>
                   mem'[k].bound /\ \A u \in Thread : pc'[u].at = "add" => pc'[u].s # k
      BY <1>1, <1>3, <3>1 DEF Listed
    <3>. QED
      BY <1>1, <1>4, <3>1
  <2>3. \A u \in Thread : pc'[u].at = "add" => mem'[pc'[u].s].bound
    BY <1>1, <1>3 DEF Listed, Threads
  <2>4. \A k \in Module : cleared[k] <= 1 /\ (mem'[k].bound => cleared[k] = 0)
    BY <1>1, <1>3 DEF Listed
  <2>. QED
    BY <1>1, <2>1, <2>2, <2>3, <2>4 DEF Listed
<1>. QED
  BY <1>5, <1>6, <1>7, <1>8, <1>9, <1>10

(* The module gets its place in the list.                                  *)
LEMMA LinkModuleIInv ==
    ASSUME IInv, NEW t \in Thread, LinkModule(t)
    PROVE  IInv'
<1>. USE SipAssumption DEF IInv
<1>1. PICK m \in Module :
        /\ pc[t].at = "add" /\ pc[t].s = m /\ ~closed /\ mem[m].bound
        /\ type_list' = AddSorted(type_list, m, pri)
        /\ pc' = [pc EXCEPT ![t] = [at |-> "idle", s |-> None]]
        /\ UNCHANGED <<pri, mem, cleared, inv_map, call, owner, leaks, cb, closed>>
  BY DEF LinkModule, Go, At, Threads, Listed
<1>2. ~Contains(type_list, m)
  BY <1>1 DEF Listed
<1>3. /\ type_list' \in Seq(Module)
      /\ \A x : Contains(type_list', x) <=> Contains(type_list, x) \/ x = m
      /\ OrderedBy(type_list', pri)
  <2>1. pri \in [Module -> Int]
    BY DEF Shape
  <2>. QED
    BY <1>1, <1>2, <2>1, AddSortedFacts DEF Shape, Listed
<1>4. /\ pc' \in [Thread -> Point]
      /\ pc'[t].at = "idle" /\ pc'[t].s = None
      /\ \A u \in Thread : u # t => pc'[u] = pc[u] /\ pc[u].s # m
  <2>1. \A u \in Thread : u # t => pc[u].s # m
    BY <1>1 DEF Threads
  <2>. QED
    BY <1>1, <2>1 DEF Shape, Place, Point
<1>5. Shape'
  BY <1>1, <1>3, <1>4 DEF Shape
<1>6. Threads'
  BY <1>1, <1>4 DEF Threads
<1>7. Progress'
  BY <1>1, <1>4 DEF Progress
<1>8. Locks'
  BY <1>1, <1>4 DEF Locks, InSection, InMedia
<1>9. References'
  <2>1. \A s \in Session : Counted(s)' <=> Counted(s)
    BY <1>1, <1>4 DEF Counted
  <2>. QED
    BY <1>1, <2>1 DEF References
<1>10. Listed'
  <2>1. ASSUME NEW k \in Module
        PROVE  Contains(type_list', k) <=>
                 mem[k].bound /\ \A u \in Thread : pc'[u].at = "add" => pc'[u].s # k
    <3>1. CASE k = m
      BY <1>1, <1>3, <1>4, <3>1
    <3>2. CASE k # m
      BY <1>1, <1>3, <1>4, <3>2 DEF Listed
    <3>. QED
      BY <3>1, <3>2
  <2>2. \A u \in Thread : pc'[u].at = "add" => mem[pc'[u].s].bound
    BY <1>4 DEF Listed
  <2>. QED
    BY <1>1, <1>3, <2>1, <2>2 DEF Listed
<1>. QED
  BY <1>5, <1>6, <1>7, <1>8, <1>9, <1>10

(* acore_mem_mask_destroy of a bound module: it stays as a doomed one when *)
(* it has references, and is cleared when it has none.                     *)
LEMMA MaskDestroyFacts ==
    ASSUME mem \in [Module -> Block], NEW m \in Module, mem[m].bound
    PROVE  LET n == MaskDestroy(mem, m) IN
           /\ n \in [Module -> Block]
           /\ \A k \in Module : k # m => n[k] = mem[k]
           /\ mem[m].des \/ mem[m].ref > 0 => n[m].bound /\ n[m].des
           /\ ~(mem[m].des \/ mem[m].ref > 0) => ~n[m].bound
<1>. DEFINE b == [mem[m] EXCEPT !.des = TRUE]
<1>1. mem[m] \in Block /\ mem[m].ref \in Nat
  BY DEF Block
<1>2. CASE mem[m].des
  BY <1>1, <1>2 DEF MaskDestroy, IsAvailable
<1>3. CASE ~mem[m].des
  <2>1. MaskDestroy(mem, m) = [mem EXCEPT ![m] = Dropped(b)]
    BY <1>3 DEF MaskDestroy, IsAvailable
  <2>2. b \in Block /\ b.bound /\ b.des /\ b.ref = mem[m].ref
    BY DEF Block
  <2>. HIDE DEF b
  <2>3. CASE mem[m].ref > 0
    <3>1. PICK n \in Nat : n = b.ref - 1
      BY <1>1, <2>2, <2>3
    <3>2. Dropped(b) = [b EXCEPT !.ref = n]
      BY <3>1 DEF Dropped
    <3>3. Dropped(b) \in Block /\ Dropped(b).bound /\ Dropped(b).des
      BY <2>2, <3>1, <3>2 DEF Block
    <3>. QED
      BY <2>1, <2>3, <3>3
  <2>4. CASE ~(mem[m].ref > 0)
    <3>1. Dropped(b) = Unbound
      BY <1>1, <2>2, <2>4 DEF Dropped
    <3>2. Dropped(b) \in Block /\ ~Dropped(b).bound
      BY <3>1 DEF Unbound, Block
    <3>. QED
      BY <1>3, <2>1, <2>4, <3>2
  <2>. QED
    BY <2>3, <2>4
<1>. QED
  BY <1>2, <1>3

(* A module is removed: doomed while it has calls, and otherwise taken out *)
(* of the list and cleared.  No thread is in on_call_incoming.             *)
LEMMA RemoveModuleIInv ==
    ASSUME IInv, NEW t \in Thread, NEW m \in Module, ~SelfRemoval, ~LateRemoval,
           RemoveModule(t, m)
    PROVE  IInv'
<1>. USE SipAssumption DEF IInv
<1>1. /\ pc[t].at \in {"idle", "sent", "announce"} /\ ~closed /\ mem[m].bound
      /\ owner.by \in {Nobody, t}
      /\ \A u \in Thread : pc[u].s # m
      /\ mem' = MaskDestroy(mem, m)
      /\ UNCHANGED <<pri, inv_map, call, owner, leaks, pc, cb, closed>>
  BY DEF RemoveModule, Free
<1>2. /\ mem' \in [Module -> Block]
      /\ \A k \in Module : k # m => mem'[k] = mem[k]
      /\ mem[m].des \/ mem[m].ref > 0 => mem'[m].bound /\ mem'[m].des
      /\ ~(mem[m].des \/ mem[m].ref > 0) => ~mem'[m].bound
  BY <1>1, MaskDestroyFacts DEF Shape
<1>3. \A s \in Session : (Counted(s) <=> call[s].kind # "none") /\ (Counted(s)' <=> Counted(s))
  BY <1>1 DEF Locks, InSection, Counted
<1>4. Contains(type_list, m) /\ cleared[m] = 0
  BY <1>1 DEF Listed
<1>5. CASE mem'[m].bound
  <2>1. UNCHANGED <<type_list, cleared>>
    BY <1>5 DEF RemoveModule, Cleared
  <2>2. Shape' /\ Threads' /\ Locks' /\ Progress'
    BY <1>1, <1>2, <2>1 DEF Shape, Threads, Locks, InSection, InMedia, Progress
  <2>3. References'
    BY <1>1, <1>2, <1>3, <1>5 DEF References
  <2>4. Listed'
    BY <1>1, <1>2, <1>5, <2>1 DEF Listed, Threads
  <2>. QED
    BY <2>2, <2>3, <2>4
<1>6. CASE ~mem'[m].bound
  <2>1. type_list' = Erase(type_list, m) /\ cleared' = [cleared EXCEPT ![m] = @ + 1]
    BY <1>1, <1>6 DEF RemoveModule, Cleared
  <2>2. /\ type_list' \in Seq(Module)
        /\ \A x : Contains(type_list', x) <=> Contains(type_list, x) /\ x # m
        /\ OrderedBy(type_list', pri)
    BY <2>1, EraseFacts DEF Shape, Listed
  <2>3. /\ cleared' \in [Module -> Nat] /\ cleared'[m] = 1
        /\ \A k \in Module : k # m => cleared'[k] = cleared[k]
    BY <1>4, <2>1 DEF Shape
  <2>4. \A s \in Session : call[s].kind # "none" => call[s].mod # m
    BY <1>2, <1>3, <1>6 DEF References
  <2>5. Shape'
    BY <1>1, <1>2, <2>2, <2>3 DEF Shape
  <2>6. Threads' /\ Locks' /\ Progress'
    BY <1>1 DEF Threads, Locks, InSection, InMedia, Progress
  <2>7. References'
    BY <1>1, <1>2, <1>3, <1>6, <2>4 DEF References
  <2>8. Listed'
    BY <1>1, <1>2, <1>6, <2>2, <2>3 DEF Listed, Threads
  <2>. QED
    BY <2>5, <2>6, <2>7, <2>8
<1>. QED
  BY <1>5, <1>6

(* asip_close: the map and the list go, and whoever is in the list is      *)
(* cleared.                                                                *)
LEMMA AsipCloseIInv ==
    ASSUME IInv, NEW t \in Thread, AsipClose(t)
    PROVE  IInv'
<1>. USE SipAssumption DEF IInv
<1>1. /\ ~closed /\ closed' /\ \A u \in Thread : pc[u].at = "idle" /\ cb[u] = NoCallBack
      /\ inv_map' = [a \in Addr |-> None] /\ type_list' = <<>>
      /\ UNCHANGED <<pri, mem, call, owner, leaks, pc, cb>>
  BY DEF AsipClose, Idle, At
<1>2. cleared' \in [Module -> Nat] /\ \A m \in Module : cleared'[m] <= 1
  <2>1. \A m \in Module : cleared[m] \in Nat /\ cleared[m] <= 1
                          /\ (Contains(type_list, m) => cleared[m] = 0)
    BY <1>1 DEF Listed, Shape
  <2>. QED
    BY <2>1 DEF AsipClose
<1>3. Shape'
  BY <1>1, <1>2, EmptySeq DEF Shape, AsipClose
<1>4. Threads' /\ Locks' /\ Progress'
  BY <1>1 DEF Threads, Locks, InSection, InMedia, Progress
<1>5. References'
  <2>1. \A s \in Session : Counted(s)' <=> Counted(s)
    BY <1>1 DEF Counted
  <2>. QED
    BY <1>1, <2>1 DEF References
<1>6. Listed'
  BY <1>1, <1>2 DEF Listed, OrderedBy
<1>. QED
  BY <1>3, <1>4, <1>5, <1>6
-----------------------------------------------------------------------------
(* Every step preserves the invariant.                                     *)
LEMMA NextIInv ==
    ASSUME ~SelfRemoval, ~LateRemoval
    PROVE  IInv /\ [Next]_vars => IInv'
<1>. SUFFICES ASSUME IInv, [Next]_vars
              PROVE  IInv'
  OBVIOUS
<1>1. ASSUME NEW t \in Thread, ThreadStep(t)
      PROVE  IInv'
  <2>1. ASSUME NEW m \in Module, AddModule(t, m) \/ RemoveModule(t, m)
        PROVE  IInv'
    BY <2>1, AddModuleIInv, RemoveModuleIInv
  <2>2. CASE LinkModule(t)
    BY <2>2, LinkModuleIInv
  <2>3. ASSUME NEW s \in Session, StartCall(t, s) \/ \E a \in Addr : Invite(t, s, a)
        PROVE  IInv'
    BY <2>3, CallStartsIInv
  <2>4. ASSUME \/ \E s \in Session : \/ TsxCompleted(t, s) \/ MediaUpdate(t, s)
                                     \/ Disconnected(t, s)
               \/ MediaUpdated(t) \/ DisconnectEnds(t)
        PROVE  IInv'
    BY <2>4, CallBackIInv
  <2>5. ASSUME \/ \E M \in SUBSET Module : \/ CallRefused(t, M) \/ CallFails(t, M)
                                           \/ InviteRefused(t, M)
               \/ CallReturns(t) \/ InviteAnnounced(t)
        PROVE  IInv'
    BY <2>5, LeaveIInv
  <2>6. ASSUME NEW M \in SUBSET Module,
               \E a \in Addr, v \in null..complete : CallMade(t, M, a, v)
        PROVE  IInv'
    BY <2>6, CallMadeIInv
  <2>7. ASSUME NEW M \in SUBSET Module, InviteAccepted(t, M)
        PROVE  IInv'
    BY <2>7, InviteAcceptedIInv
  <2>8. CASE InviteCounted(t)
    BY <2>8, InviteCountedIInv
  <2>9. CASE AsipClose(t)
    BY <2>9, AsipCloseIInv
  <2>. QED
    BY <1>1, <2>1, <2>2, <2>3, <2>4, <2>5, <2>6, <2>7, <2>8, <2>9 DEF ThreadStep
<1>2. ASSUME NEW s \in Session, SessionFreed(s)
      PROVE  IInv'
  BY <1>2, SessionFreedIInv
<1>3. CASE UNCHANGED vars
  <2>1. \A s \in Session : Counted(s)' <=> Counted(s)
    BY <1>3 DEF Counted, vars
  <2>. QED
    BY <1>3, <2>1 DEF vars, IInv, Shape, Threads, Locks, InSection, InMedia, Progress,
                      References, Listed
<1>. QED
  BY <1>1, <1>2, <1>3 DEF Next

(* The strengthened invariant holds in every reachable state.              *)
THEOREM InductiveInvariant ==
    ASSUME ~SelfRemoval, ~LateRemoval
    PROVE  Spec => []IInv
<1>1. Init => IInv
  BY InitIInv
<1>2. IInv /\ [Next]_vars => IInv'
  BY NextIInv
<1>. QED
  BY <1>1, <1>2, PTL DEF Spec

(* A call never outlives the module that handles it, which is there as     *)
(* long as on_start_call, on_call_incoming or an event may use it.         *)
THEOREM ModuleLives ==
    ASSUME ~SelfRemoval, ~LateRemoval
    PROVE  Spec => []ModuleOfCallLives
<1>1. IInv => ModuleOfCallLives
  BY DEF IInv, References, ModuleOfCallLives, Made
<1>. QED
  BY <1>1, InductiveInvariant, PTL

(* The list of call modules is in order and without repetition, holds the  *)
(* bound ones until asip_close, and runs each clear call-back once at most.*)
THEOREM ListIsSound ==
    ASSUME ~SelfRemoval, ~LateRemoval
    PROVE  Spec => []ListHoldsModules
<1>1. ASSUME IInv
      PROVE  ListHoldsModules
  <2>. USE <1>1 DEF IInv
  <2>1. TypeOK
    <3>1. \A s \in Session : call[s] \in CallRecord
      BY DEF Shape
    <3>2. \A s \in Session :
            /\ call[s].kind \in {"none", "in", "out"}
            /\ call[s].st \in null..complete
            /\ call[s].mod \in Module \cup {None}
            /\ call[s].addr \in Addr \cup {None}
      BY <3>1 DEF CallRecord
    <3>3. \A t \in Thread : /\ pc[t].s \in Module \cup Session \cup {None}
                            /\ cb[t].s \in Session \cup {None}
      BY DEF Shape, Point, Back
    <3>. QED
      BY <3>2, <3>3 DEF Shape, TypeOK, Holds
  <2>2. ~closed => \A m \in Module :
          Contains(type_list, m) <=>
              mem[m].bound /\ \A t \in Thread : pc[t].at = "add" => pc[t].s # m
    BY DEF Listed
  <2>3. \A i, j \in DOMAIN type_list :
          i < j => type_list[i] # type_list[j] /\ pri[type_list[i]] <= pri[type_list[j]]
    BY DEF Listed, OrderedBy
  <2>4. \A m \in Module :
          /\ cleared[m] <= 1
          /\ mem[m].bound /\ mem[m].des => \E s \in Made : call[s].mod = m
    BY DEF Listed, References, Counted, Made
  <2>. QED
    BY <2>1, <2>2, <2>3, <2>4 DEF ListHoldsModules
<1>. QED
  BY <1>1, InductiveInvariant, PTL

-----------------------------------------------------------------------------
(* The second part: the commands, Commands.  As the call modules do, their *)
(* modules come and go in a list that is searched without a lock.          *)
CONSTANTS Name, Command, Elem, core, help, MaxCalls, MaxDepth, OneWriter, Quiescent
VARIABLES core_ui, name, freed, func_list, parrent, used, stack, calls, up

C == INSTANCE Commands

-----------------------------------------------------------------------------
(* The commands of an array are added one after the other.                 *)
AddAll(s, q) == C!FoldLeft(C!AddUnsorted, s, q)

LEMMA AddedAlone ==
    ASSUME NEW s, NEW a
    PROVE  AddAll(s, <<a>>) = C!AddUnsorted(s, a)
<1> DEFINE add(t, x) == C!AddUnsorted(t, x)
           F(q, f) == f = [T \in SUBSET DOMAIN q |->
                             IF T = {} THEN s ELSE add(f[T \ {C!Max(T)}], q[C!Max(T)])]
<1>1. C!Max({1}) = 1
  BY DEF C!Max
<1>2. \A q : AddAll(s, q) = (CHOOSE f : F(q, f))[DOMAIN q]
  BY DEF AddAll, C!FoldLeft, C!MapThenFoldSet
<1> HIDE DEF add
<1>3. AddAll(s, <<a>>) = add(s, a)
  <2> DEFINE q == <<a>>
             g == [T \in SUBSET {1} |-> IF T = {} THEN s ELSE add(s, a)]
  <2>1. DOMAIN q = {1} /\ q[1] = a
    OBVIOUS
  <2> HIDE DEF q
  <2>2. F(q, g)
    <3>1. \A T \in SUBSET {1} : T = {} \/ (T = {1} /\ T \ {1} = {})
      OBVIOUS
    <3>2. g[{}] = s
      OBVIOUS
    <3>3. \A T \in SUBSET {1} : g[T] = IF T = {} THEN s ELSE add(g[T \ {C!Max(T)}], q[C!Max(T)])
      BY <1>1, <2>1, <3>1, <3>2
    <3>. QED
      BY <2>1, <3>3
  <2>3. F(q, CHOOSE f : F(q, f))
    BY <2>2
  <2> HIDE DEF g
  <2> DEFINE h == CHOOSE f : F(q, f)
  <2>4. h[{1}] = add(h[{}], a) /\ h[{}] = s
    <3>1. \A T \in SUBSET {1} : h[T] = IF T = {} THEN s ELSE add(h[T \ {C!Max(T)}], q[C!Max(T)])
      <4> HIDE DEF h
      <4>1. F(q, h)
        BY <2>3 DEF h
      <4>. QED
        BY <2>1, <4>1
    <3> HIDE DEF h
    <3>2. h[{}] = s
      BY <3>1
    <3>3. h[{1}] = add(h[{1} \ {1}], a)
      BY <1>1, <2>1, <3>1
    <3>4. {1} \ {1} = {}
      OBVIOUS
    <3>. QED
      BY <3>2, <3>3, <3>4
  <2>. QED
    BY <1>2, <2>1, <2>4 DEF q
<1>. QED
  BY <1>3 DEF add

LEMMA AddedInTurn ==
    ASSUME NEW s, NEW a, NEW b
    PROVE  AddAll(s, <<a, b>>) = C!AddUnsorted(C!AddUnsorted(s, a), b)
<1> DEFINE add(t, x) == C!AddUnsorted(t, x)
           F(q, f) == f = [T \in SUBSET DOMAIN q |->
                             IF T = {} THEN s ELSE add(f[T \ {C!Max(T)}], q[C!Max(T)])]
<1>1. C!Max({1}) = 1 /\ C!Max({2}) = 2 /\ C!Max({1, 2}) = 2
  BY DEF C!Max
<1>2. \A q : AddAll(s, q) = (CHOOSE f : F(q, f))[DOMAIN q]
  BY DEF AddAll, C!FoldLeft, C!MapThenFoldSet
<1> HIDE DEF add
<1>3. AddAll(s, <<a, b>>) = add(add(s, a), b)
  <2> DEFINE q == <<a, b>>
             g == [T \in SUBSET {1, 2} |->
                     IF T = {} THEN s
                     ELSE IF T = {1} THEN add(s, a)
                     ELSE IF T = {2} THEN add(s, b) ELSE add(add(s, a), b)]
  <2>1. DOMAIN q = {1, 2} /\ q[1] = a /\ q[2] = b
    OBVIOUS
  <2> HIDE DEF q
  <2>2. F(q, g)
    <3>1. \A T \in SUBSET {1, 2} : \/ T = {}
                                   \/ T = {1} /\ T \ {1} = {}
                                   \/ T = {2} /\ T \ {2} = {}
                                   \/ T = {1, 2} /\ T \ {2} = {1}
      OBVIOUS
    <3>2. g[{}] = s /\ g[{1}] = add(s, a) /\ g[{2}] = add(s, b)
          /\ g[{1, 2}] = add(add(s, a), b)
      <4>1. {1} # {} /\ {2} # {} /\ {2} # {1} /\ {1, 2} # {} /\ {1, 2} # {1} /\ {1, 2} # {2}
        OBVIOUS
      <4>. QED
        BY <4>1
    <3> HIDE DEF g
    <3>3. \A T \in SUBSET {1, 2} : g[T] = IF T = {} THEN s ELSE add(g[T \ {C!Max(T)}], q[C!Max(T)])
      <4> TAKE T \in SUBSET {1, 2}
      <4>1. CASE T = {}
        BY <3>2, <4>1
      <4>2. CASE T = {1} /\ T \ {1} = {}
        BY <1>1, <2>1, <3>2, <4>2
      <4>3. CASE T = {2} /\ T \ {2} = {}
        BY <1>1, <2>1, <3>2, <4>3
      <4>4. CASE T = {1, 2} /\ T \ {2} = {1}
        BY <1>1, <2>1, <3>2, <4>4
      <4>. QED
        BY <3>1, <4>1, <4>2, <4>3, <4>4
    <3>. QED
      BY <2>1, <3>3 DEF g
  <2>3. F(q, CHOOSE f : F(q, f))
    BY <2>2
  <2> HIDE DEF g
  <2> DEFINE h == CHOOSE f : F(q, f)
  <2>4. h[{1, 2}] = add(h[{1}], b) /\ h[{1}] = add(h[{}], a) /\ h[{}] = s
    <3>1. \A T \in SUBSET {1, 2} : h[T] = IF T = {} THEN s ELSE add(h[T \ {C!Max(T)}], q[C!Max(T)])
      <4> HIDE DEF h
      <4>1. F(q, h)
        BY <2>3 DEF h
      <4>. QED
        BY <2>1, <4>1
    <3> HIDE DEF h
    <3>2. h[{}] = s
      BY <3>1
    <3>3. h[{1}] = add(h[{1} \ {1}], a)
      BY <1>1, <2>1, <3>1
    <3>4. h[{1, 2}] = add(h[{1, 2} \ {2}], b)
      BY <1>1, <2>1, <3>1
    <3>5. {1} \ {1} = {} /\ {1, 2} \ {2} = {1}
      OBVIOUS
    <3>. QED
      BY <3>2, <3>3, <3>4, <3>5
  <2>. QED
    BY <1>2, <2>1, <2>4 DEF q
<1>. QED
  BY <1>3 DEF add

(* What Commands takes from AcoreList is what was proved of it above.      *)
LEMMA SameLists ==
    /\ \A s, x : C!Contains(s, x) <=> Contains(s, x)
    /\ \A s, x : C!AddUnsorted(s, x) = AddUnsorted(s, x)
    /\ \A s, x : C!Erase(s, x) = Erase(s, x)
    /\ \A s, F, r : C!Search(s, F, r) = Search(s, F, r)
    /\ \A s, r : C!FirstOf(s, r) = FirstOf(s, r)
    /\ \A s, x, r : C!NextOf(s, x, r) = NextOf(s, x, r)
<1>1. \A s, x : C!Contains(s, x) <=> Contains(s, x)
  BY DEF C!Contains, Contains
<1>2. \A s, x : C!AddUnsorted(s, x) = AddUnsorted(s, x)
  BY DEF C!AddUnsorted, AddUnsorted, C!InsertAt, InsertAt
<1>3. \A s, x : C!PlaceOf(s, x) = PlaceOf(s, x)
  BY DEF C!PlaceOf, PlaceOf
<1>4. \A s, x : C!Erase(s, x) = Erase(s, x)
  BY <1>1, <1>3 DEF C!Erase, Erase, C!RemoveAt, RemoveAt
<1>5. \A s, F, r : C!Search(s, F, r) = Search(s, F, r)
  BY DEF C!Search, Search, C!Min, Min
<1>6. \A s, r : C!FirstOf(s, r) = FirstOf(s, r)
  BY DEF C!FirstOf, FirstOf
<1>7. \A s, x, r : C!NextOf(s, x, r) = NextOf(s, x, r)
  BY <1>1, <1>3 DEF C!NextOf, NextOf
<1>. QED
  BY <1>1, <1>2, <1>4, <1>5, <1>6, <1>7

(* A list without repetitions; n nodes or more are left of it from x on.   *)
Once(s) == \A i, j \in 1..Len(s) : s[i] = s[j] => i = j
Left(n, s, x) == n > 0 => \E i \in 1..Len(s) : s[i] = x /\ n + i <= Len(s) + 1

LEMMA OnceFacts ==
    ASSUME NEW S, NEW s \in Seq(S)
    PROVE  /\ Once(s) <=> C!IsInjective(s)
           /\ Len(s) \in Nat /\ DOMAIN s = 1..Len(s) /\ \A i \in 1..Len(s) : s[i] \in S
           /\ s = <<>> <=> Len(s) = 0
           /\ \A x : x \in C!ToSet(s) <=> Contains(s, x)
           /\ \A x : Contains(s, x) => x \in S
<1>1. /\ Len(s) \in Nat /\ DOMAIN s = 1..Len(s) /\ \A i \in 1..Len(s) : s[i] \in S
      /\ s = <<>> <=> Len(s) = 0
  BY LenProperties, ElementOfSeq, EmptySeq
<1>2. Once(s) <=> C!IsInjective(s)
  BY <1>1 DEF Once, C!IsInjective
<1>3. \A x : x \in C!ToSet(s) <=> Contains(s, x)
  BY <1>1 DEF C!ToSet, Contains
<1>. QED
  BY <1>1, <1>2, <1>3 DEF Contains

(* It is no longer than there are nodes.                                   *)
LEMMA LengthIsBounded ==
    ASSUME NEW S, IsFiniteSet(S), NEW s \in Seq(S), Once(s)
    PROVE  Len(s) <= Cardinality(S) /\ Cardinality(S) \in Nat
<1>1. Len(s) \in Nat /\ DOMAIN s = 1..Len(s) /\ s \in [1..Len(s) -> S]
  BY LenProperties
<1>2. s \in Injection(1..Len(s), S)
  BY <1>1 DEF Injection, IsInjective, Once
<1>3. Cardinality(1..Len(s)) <= Cardinality(S) /\ Cardinality(S) \in Nat
  BY <1>2, FS_Injection, FS_CardinalityType
<1>4. Cardinality(1..Len(s)) = Len(s)
  BY <1>1, FS_Interval
<1>. QED
  BY <1>3, <1>4

(* A node is erased: the first one stays the first.                        *)
LEMMA TakenOutFacts ==
    ASSUME NEW S, NEW s \in Seq(S), Once(s), NEW n
    PROVE  /\ C!Erase(s, n) \in Seq(S) /\ Once(C!Erase(s, n))
           /\ \A x : Contains(C!Erase(s, n), x) <=> Contains(s, x) /\ x # n
           /\ s # <<>> /\ s[1] # n => C!Erase(s, n) # <<>> /\ C!Erase(s, n)[1] = s[1]
<1>1. C!Erase(s, n) = Erase(s, n)
  BY SameLists
<1>2. CASE ~Contains(s, n)
  BY <1>1, <1>2 DEF Erase
<1>3. CASE Contains(s, n)
  <2> DEFINE i == PlaceOf(s, n)
             t == Erase(s, n)
  <2>1. i \in 1..Len(s) /\ s[i] = n
    BY <1>3, OnceFacts DEF PlaceOf, Contains
  <2>2. t = RemoveAt(s, i)
    BY <1>3 DEF Erase
  <2> HIDE DEF i, t
  <2>3. /\ t \in Seq(S) /\ Len(t) = Len(s) - 1 /\ Len(s) \in Nat
        /\ \A j \in 1..(Len(s) - 1) : t[j] = IF j < i THEN s[j] ELSE s[j + 1]
        /\ s = <<>> <=> Len(s) = 0
        /\ t = <<>> <=> Len(t) = 0
    <3>1. /\ t \in Seq(S) /\ Len(t) = Len(s) - 1
          /\ \A j \in 1..(Len(s) - 1) : t[j] = IF j < i THEN s[j] ELSE s[j + 1]
      BY <2>1, <2>2, RemoveAtFacts
    <3>2. Len(s) \in Nat /\ (s = <<>> <=> Len(s) = 0)
      BY OnceFacts
    <3>3. t = <<>> <=> Len(t) = 0
      BY <3>1, OnceFacts
    <3>. QED
      BY <3>1, <3>2, <3>3
  <2>4. \A j \in 1..Len(s) : s[j] = n <=> j = i
    BY <2>1 DEF Once
  <2>5. ASSUME NEW x, Contains(t, x)
        PROVE  Contains(s, x) /\ x # n
    BY <2>1, <2>3, <2>4, <2>5 DEF Contains
  <2>6. ASSUME NEW x, Contains(s, x), x # n
        PROVE  Contains(t, x)
    <3>1. PICK j \in 1..Len(s) : s[j] = x
      BY <2>6 DEF Contains
    <3>2. CASE j < i
      <4>1. j \in 1..(Len(s) - 1) /\ t[j] = x
        BY <2>1, <2>3, <3>1, <3>2
      <4>. QED
        BY <2>3, <4>1 DEF Contains
    <3>3. CASE j > i
      <4>1. j - 1 \in 1..(Len(s) - 1) /\ t[j - 1] = x
        BY <2>1, <2>3, <3>1, <3>3
      <4>. QED
        BY <2>3, <4>1 DEF Contains
    <3>. QED
      BY <2>1, <2>4, <2>6, <3>1, <3>2, <3>3
  <2>7. Once(t)
    <3> SUFFICES ASSUME NEW j \in 1..Len(t), NEW k \in 1..Len(t), t[j] = t[k]
                 PROVE  j = k
      BY DEF Once
    <3>1. j \in 1..(Len(s) - 1) /\ k \in 1..(Len(s) - 1)
      BY <2>3
    <3>2. t[j] = s[IF j < i THEN j ELSE j + 1] /\ t[k] = s[IF k < i THEN k ELSE k + 1]
      BY <2>3, <3>1
    <3>3. (IF j < i THEN j ELSE j + 1) \in 1..Len(s) /\ (IF k < i THEN k ELSE k + 1) \in 1..Len(s)
      BY <2>1, <2>3, <3>1
    <3>4. (IF j < i THEN j ELSE j + 1) = (IF k < i THEN k ELSE k + 1)
      BY <3>2, <3>3 DEF Once
    <3>. QED
      BY <2>1, <3>1, <3>4
  <2>8. s # <<>> /\ s[1] # n => t # <<>> /\ t[1] = s[1]
    <3> SUFFICES ASSUME s # <<>>, s[1] # n PROVE t # <<>> /\ t[1] = s[1]
      OBVIOUS
    <3>1. i # 1 /\ 1 \in 1..Len(s)
      BY <2>1, <2>3
    <3>2. 1 \in 1..(Len(s) - 1) /\ 1 < i
      BY <2>1, <2>3, <3>1
    <3>. QED
      BY <2>3, <3>2
  <2>. QED
    BY <1>1, <2>3, <2>5, <2>6, <2>7, <2>8 DEF t
<1>. QED
  BY <1>2, <1>3

(* A new node goes behind the first one: from no node on are fewer left.   *)
LEMMA AddedFacts ==
    ASSUME NEW S, NEW s \in Seq(S), Once(s), NEW n \in S, ~Contains(s, n)
    PROVE  LET t == C!AddUnsorted(s, n) IN
           /\ t \in Seq(S) /\ Once(t) /\ t # <<>>
           /\ \A x : Contains(t, x) <=> Contains(s, x) \/ x = n
           /\ s # <<>> => t[1] = s[1]
           /\ \A k \in Nat : \A x : Left(k, s, x) => Left(k, t, x)
<1> DEFINE t == C!AddUnsorted(s, n)
<1>1. t = AddUnsorted(s, n)
  BY SameLists
<1>2. /\ Len(s) \in Nat /\ \A i \in 1..Len(s) : s[i] \in S /\ s[i] # n
      /\ s = <<>> <=> Len(s) = 0
  BY OnceFacts DEF Contains
<1>3. CASE s = <<>>
  <2>1. t = <<n>>
    BY <1>1, <1>3 DEF AddUnsorted
  <2> HIDE DEF t
  <2>2. t \in Seq(S) /\ Len(t) = 1 /\ t[1] = n /\ t # <<>>
    BY <2>1
  <2>3. Once(t) /\ \A x : Contains(t, x) <=> x = n
    BY <2>2 DEF Once, Contains
  <2>4. \A x : ~Contains(s, x)
    BY <1>2, <1>3 DEF Contains
  <2>5. \A k \in Nat : \A x : Left(k, s, x) => Left(k, t, x)
    BY <1>2, <1>3 DEF Left
  <2>. QED
    BY <1>3, <2>2, <2>3, <2>4, <2>5 DEF t
<1>4. CASE s # <<>>
  <2>1. t = InsertAt(s, 2, n) /\ 2 \in 1..(Len(s) + 1)
    BY <1>1, <1>2, <1>4 DEF AddUnsorted
  <2> HIDE DEF t
  <2>2. t \in Seq(S) /\ Len(t) = Len(s) + 1
    BY <2>1, InsertAtFacts
  <2>3. \A j \in 1..(Len(s) + 1) : t[j] = IF j < 2 THEN s[j] ELSE IF j = 2 THEN n ELSE s[j - 1]
    <3>1. \A i \in 1..(Len(s) + 1) : \A j \in 1..(Len(s) + 1) :
            InsertAt(s, i, n)[j] = IF j < i THEN s[j] ELSE IF j = i THEN n ELSE s[j - 1]
      BY InsertAtFacts
    <3>. QED
      BY ONLY <2>1, <3>1
  <2>4. t # <<>> /\ t[1] = s[1] /\ t[2] = n /\ 2 \in 1..Len(t)
    BY <1>2, <1>4, <2>2, <2>3
  <2>5. \A i \in 1..Len(s) : i > 1 => i + 1 \in 1..Len(t) /\ t[i + 1] = s[i]
    <3> SUFFICES ASSUME NEW i \in 1..Len(s), i > 1
                 PROVE  i + 1 \in 1..Len(t) /\ t[i + 1] = s[i]
      OBVIOUS
    <3>1. i + 1 \in 1..(Len(s) + 1) /\ ~(i + 1 < 2) /\ i + 1 # 2 /\ (i + 1) - 1 = i
      BY <1>2
    <3>. QED
      BY <2>2, <2>3, <3>1
  <2>6. \A j \in 1..Len(t) : \/ j = 1 /\ t[j] = s[1]
                             \/ j = 2 /\ t[j] = n
                             \/ j > 2 /\ j - 1 \in 2..Len(s) /\ t[j] = s[j - 1]
    BY <1>2, <2>2, <2>3
  <2>7. 1 \in 1..Len(s)
    BY <1>2, <1>4
  <2>8. Once(t)
    <3> SUFFICES ASSUME NEW j \in 1..Len(t), NEW k \in 1..Len(t), t[j] = t[k] PROVE j = k
      BY DEF Once
    <3> DEFINE p(l) == IF l = 1 THEN 1 ELSE l - 1
    <3>1. j # 2 => p(j) \in 1..Len(s) /\ t[j] = s[p(j)]
      BY <2>6, <2>7
    <3>2. k # 2 => p(k) \in 1..Len(s) /\ t[k] = s[p(k)]
      BY <2>6, <2>7
    <3>3. j # 2 /\ k # 2 => p(j) = p(k)
      BY <3>1, <3>2 DEF Once
    <3>4. j = 2 <=> k = 2
      BY <1>2, <2>4, <3>1, <3>2
    <3>5. j # 2 /\ k # 2 /\ p(j) = p(k) => j = k
      BY <1>2, <2>2
    <3>. QED
      BY <3>3, <3>4, <3>5
  <2>9. \A x : Contains(t, x) <=> Contains(s, x) \/ x = n
    <3>1. ASSUME NEW x, Contains(t, x) PROVE Contains(s, x) \/ x = n
      <4>1. PICK j \in 1..Len(t) : t[j] = x
        BY <3>1 DEF Contains
      <4>2. j > 2 /\ j - 1 \in 2..Len(s) => j - 1 \in 1..Len(s)
        BY <1>2
      <4>. QED
        BY <2>6, <2>7, <4>1, <4>2 DEF Contains
    <3>2. ASSUME NEW x, Contains(s, x) PROVE Contains(t, x)
      <4>1. PICK i \in 1..Len(s) : s[i] = x
        BY <3>2 DEF Contains
      <4>2. CASE i = 1
        <5>1. 1 \in 1..Len(t)
          BY <1>2, <2>2
        <5>. QED
          BY <2>4, <4>1, <4>2, <5>1 DEF Contains
      <4>3. CASE i > 1
        BY <2>5, <4>1, <4>3 DEF Contains
      <4>. QED
        BY <1>2, <4>2, <4>3
    <3>3. Contains(t, n)
      BY <2>4 DEF Contains
    <3>. QED
      BY <3>1, <3>2, <3>3
  <2>10. \A k \in Nat : \A x : Left(k, s, x) => Left(k, t, x)
    <3> SUFFICES ASSUME NEW k \in Nat, NEW x, Left(k, s, x), k > 0
                 PROVE  \E j \in 1..Len(t) : t[j] = x /\ k + j <= Len(t) + 1
      BY DEF Left
    <3>1. PICK i \in 1..Len(s) : s[i] = x /\ k + i <= Len(s) + 1
      BY DEF Left
    <3>2. CASE i = 1
      <4>1. 1 \in 1..Len(t) /\ k + 1 <= Len(t) + 1
        BY <1>2, <2>2, <3>1, <3>2
      <4>. QED
        BY <2>4, <3>1, <3>2, <4>1
    <3>3. CASE i > 1
      <4>1. i + 1 \in 1..Len(t) /\ t[i + 1] = x
        BY <2>5, <3>1, <3>3
      <4>2. k + (i + 1) <= Len(t) + 1
        BY <1>2, <2>2, <3>1
      <4>. QED
        BY <4>1, <4>2
    <3>. QED
      BY <1>2, <3>2, <3>3
  <2>. QED
    BY <2>2, <2>4, <2>8, <2>9, <2>10 DEF t
<1>. QED
  BY <1>3, <1>4

(* The commands of an array are new and distinct: a walk over the others   *)
(* has no fewer of them left.                                              *)
LEMMA ArrayFacts ==
    ASSUME NEW q \in C!Array
    PROVE  /\ q \in Seq(Command) /\ q # <<>>
           /\ \E a, b \in Command : \/ q = <<a>> /\ C!ToSet(q) = {a}
                                    \/ /\ q = <<a, b>> /\ C!ToSet(q) = {a, b}
                                       /\ C!IsInjective(q) => a # b
<1>1. PICK a \in Command, b \in Command : q = <<a>> \/ q = <<a, b>>
  BY DEF C!Array
<1>2. CASE q = <<a>>
  BY <1>2 DEF C!ToSet
<1>3. CASE q = <<a, b>>
  <2>1. Len(q) = 2 /\ q[1] = a /\ q[2] = b /\ DOMAIN q = {1, 2} /\ q \in Seq(Command) /\ q # <<>>
    BY <1>3
  <2>2. C!ToSet(q) = {a, b}
    BY <2>1 DEF C!ToSet
  <2>3. C!IsInjective(q) => a # b
    BY <2>1 DEF C!IsInjective
  <2>. QED
    BY <1>3, <2>1, <2>2, <2>3
<1>. QED
  BY <1>1, <1>2, <1>3

LEMMA AllAddedFacts ==
    ASSUME NEW s \in Seq(C!Entry), Once(s), NEW q \in C!Array, C!IsInjective(q),
           \A c \in C!ToSet(q) : ~Contains(s, c)
    PROVE  LET t == AddAll(s, q) IN
           /\ t \in Seq(C!Entry) /\ Once(t) /\ t # <<>>
           /\ \A x : Contains(t, x) <=> Contains(s, x) \/ x \in C!ToSet(q)
           /\ s # <<>> => t[1] = s[1]
           /\ \A k \in Nat : \A x : Left(k, s, x) => Left(k, t, x)
<1> DEFINE t == AddAll(s, q)
<1>1. PICK a \in Command, b \in Command :
         \/ q = <<a>> /\ C!ToSet(q) = {a}
         \/ /\ q = <<a, b>> /\ C!ToSet(q) = {a, b}
            /\ C!IsInjective(q) => a # b
  BY ArrayFacts
<1>2. a \in C!Entry /\ b \in C!Entry /\ ~Contains(s, a)
  BY <1>1 DEF C!Entry
<1> DEFINE r == C!AddUnsorted(s, a)
<1>3. /\ r \in Seq(C!Entry) /\ Once(r) /\ r # <<>>
      /\ \A x : Contains(r, x) <=> Contains(s, x) \/ x = a
      /\ s # <<>> => r[1] = s[1]
      /\ \A k \in Nat : \A x : Left(k, s, x) => Left(k, r, x)
  BY <1>2, AddedFacts
<1> HIDE DEF r
<1>4. CASE q = <<a>> /\ C!ToSet(q) = {a}
  <2>1. t = r
    BY <1>4, AddedAlone DEF r
  <2>. QED
    BY <1>3, <1>4, <2>1
<1>5. CASE q = <<a, b>> /\ C!ToSet(q) = {a, b} /\ a # b
  <2> DEFINE u == C!AddUnsorted(r, b)
  <2> HIDE DEF u, t
  <2>1. t = u
    <3>1. AddAll(s, <<a, b>>) = C!AddUnsorted(C!AddUnsorted(s, a), b)
      BY AddedInTurn
    <3>. QED
      BY <1>5, <3>1 DEF r, t, u
  <2>2. ~Contains(r, b)
    BY <1>3, <1>5
  <2>3. /\ u \in Seq(C!Entry) /\ Once(u) /\ u # <<>>
        /\ \A x : Contains(u, x) <=> Contains(r, x) \/ x = b
        /\ u[1] = r[1]
        /\ \A k \in Nat : \A x : Left(k, r, x) => Left(k, u, x)
    BY <1>2, <1>3, <2>2, AddedFacts DEF u
  <2>. QED
    BY <1>3, <1>5, <2>1, <2>3 DEF t
<1>. QED
  BY <1>1, <1>4, <1>5

(* A walk over a list.                                                     *)
LEMMA FirstLeft ==
    ASSUME NEW S, NEW s \in Seq(S), NEW r, r \notin S
    PROVE  /\ C!FirstOf(s, r) = r \/ (C!FirstOf(s, r) \in S /\ Contains(s, C!FirstOf(s, r)))
           /\ Left(Len(s), s, C!FirstOf(s, r))
<1>1. /\ Len(s) \in Nat /\ (s = <<>> <=> Len(s) = 0) /\ \A i \in 1..Len(s) : s[i] \in S
      /\ C!FirstOf(s, r) = FirstOf(s, r)
  BY OnceFacts, SameLists
<1>2. CASE s = <<>>
  BY <1>1, <1>2 DEF FirstOf, Left
<1>3. CASE s # <<>>
  <2>1. C!FirstOf(s, r) = s[1] /\ 1 \in 1..Len(s)
    BY <1>1, <1>3 DEF FirstOf
  <2>. QED
    BY <1>1, <2>1 DEF Left, Contains
<1>. QED
  BY <1>2, <1>3

LEMMA NextLeft ==
    ASSUME NEW S, NEW s \in Seq(S), Once(s), NEW r, r \notin S, NEW h, Contains(s, h)
    PROVE  /\ \/ C!NextOf(s, h, r) = r
              \/ C!NextOf(s, h, r) \in S /\ Contains(s, C!NextOf(s, h, r))
           /\ \A k \in Nat : k > 0 /\ Left(k, s, h) => Left(k - 1, s, C!NextOf(s, h, r))
<1> DEFINE x == C!NextOf(s, h, r)
<1>1. Len(s) \in Nat /\ \A j \in 1..Len(s) : s[j] \in S
  BY OnceFacts
<1>2. PICK i \in 1..Len(s) : i = PlaceOf(s, h) /\ s[i] = h
  BY OnceFacts DEF PlaceOf, Contains
<1>3. x = IF i = Len(s) THEN r ELSE s[i + 1]
  <2>1. x = NextOf(s, h, r)
    BY SameLists
  <2>. QED
    BY <1>2, <2>1 DEF NextOf
<1> HIDE DEF x
<1>4. i # Len(s) => i + 1 \in 1..Len(s)
  BY <1>1
<1>5. \A k \in Nat : k > 0 /\ Left(k, s, h) => Left(k - 1, s, x)
  <2> SUFFICES ASSUME NEW k \in Nat, k > 0, Left(k, s, h), k - 1 > 0
               PROVE  \E j \in 1..Len(s) : s[j] = x /\ (k - 1) + j <= Len(s) + 1
    BY DEF Left
  <2>1. PICK j \in 1..Len(s) : s[j] = h /\ k + j <= Len(s) + 1
    BY DEF Left
  <2>2. j = i
    BY <1>2, <2>1 DEF Once
  <2>3. i # Len(s) /\ (k - 1) + (i + 1) <= Len(s) + 1
    BY <1>1, <2>1, <2>2
  <2>. QED
    BY <1>3, <1>4, <2>3
<1>. QED
  BY <1>1, <1>3, <1>4, <1>5 DEF x, Contains

(* A module is found in the list under its name, if it is there.           *)
LEMMA NamedFacts ==
    ASSUME core_ui \in Seq(C!Node), None \notin C!Node, NEW m
    PROVE  LET n == C!ModuleNamed(m) IN
           \/ n = None /\ \A x \in C!Node : Contains(core_ui, x) => name[x] # m
           \/ n \in C!Node /\ Contains(core_ui, n) /\ name[n] = m
<1> DEFINE F == {x \in C!Node : name[x] = m}
           hits == {i \in DOMAIN core_ui : core_ui[i] \in F}
<1>1. C!ModuleNamed(m) = Search(core_ui, F, None)
  BY SameLists DEF C!ModuleNamed
<1>2. LET n == Search(core_ui, F, None) IN
      n = None \/ (n \in F /\ n \in C!Node /\ Contains(core_ui, n))
  BY SearchFacts
<1>3. CASE hits = {}
  <2>1. Search(core_ui, F, None) = None
    BY <1>3 DEF Search
  <2>2. \A x \in C!Node : Contains(core_ui, x) => x \notin F
    BY <1>3, OnceFacts DEF Contains
  <2>. QED
    BY <1>1, <2>1, <2>2
<1>4. CASE hits # {}
  <2>1. Search(core_ui, F, None) = core_ui[Min(hits)]
    BY <1>4 DEF Search
  <2>2. hits \in SUBSET (1..Len(core_ui)) /\ Len(core_ui) \in Nat
    BY OnceFacts
  <2>3. Min(hits) \in hits
    <3> HIDE DEF hits
    <3>. QED
      BY <1>4, <2>2, FirstPlace
  <2>4. core_ui[Min(hits)] \in F
    BY <2>3
  <2>. QED
    BY <1>1, <1>2, <2>1, <2>4
<1>. QED
  BY <1>3, <1>4

-----------------------------------------------------------------------------
(* What the commands are proved with.                                      *)
Wanted == C!Module \cup C!Entry \cup {None}

CallFrame ==
    [op : {"register", "unregister", "input"},
     at : {"find", "create", "add", "take", "test", "drop", "lookup", "run", "handler",
           "help", "line"},
     m : Wanted, e : C!Node \cup {None}, c : Wanted, n : Nat, rest : Seq(Command),
     was : C!Node \cup {None}]

(* TypeOK, and that no command is cleared twice.                           *)
CShape ==
    /\ core_ui \in Seq(C!Node) /\ Once(core_ui)
    /\ name \in [C!Node -> C!Module \cup {None}]
    /\ freed \subseteq C!Node
    /\ func_list \in [C!Node -> Seq(C!Entry)] /\ \A x \in C!Node : Once(func_list[x])
    /\ parrent \in [C!Entry -> C!Node \cup {None}]
    /\ used \subseteq C!Entry
    /\ cleared \in [C!Entry -> 0..1]
    /\ stack \in [Thread -> Seq(CallFrame)]
    /\ calls \in 0..MaxCalls
    /\ up \in BOOLEAN

(* The call a thread is in is the innermost one; those around it wait in a *)
(* handler, as a thread without a call may be said to do.                  *)
NoFrame == C!Call("input", "handler", None, None, <<>>)
Now(t) == IF stack[t] = <<>> THEN NoFrame ELSE stack[t][Len(stack[t])]
Waits(f) == f.op = "input" /\ f.at = "handler" /\ f.n = 0
Nested == \A t \in Thread : \A i \in 1..Len(stack[t]) :
            i < Len(stack[t]) => Waits(stack[t][i])

(* One thread at a time registers or unregisters; when it unregisters the  *)
(* others are in no call; and after closing none is.                       *)
Writes(f) == f.op \in {"register", "unregister"}
Alone ==
    /\ \A t, u \in Thread : Writes(Now(t)) /\ Writes(Now(u)) => t = u
    /\ \A t \in Thread : Now(t).op = "unregister" =>
         \A u \in Thread : u # t => stack[u] = <<>>
    /\ ~up => \A t \in Thread : stack[t] = <<>>

(* Where a call may stand, given core_ui, name, func_list, parrent, used:  *)
(* the command that was registered when input came in still is; ...        *)
Known(f, nm, pa) ==
    f.was # None =>
        \/ f.m \in C!Entry /\ f.was = core /\ pa[f.m] = core
        \/ f.m \in C!Module /\ f.c \in C!Entry /\ pa[f.c] = f.was /\ nm[f.was] = f.m

(* ... the module that a call has found is there; ...                      *)
Held(f, ui) == f.e \in C!Node /\ Contains(ui, f.e)

Registers(f, ui, nm, us) ==
    /\ f.at \in {"find", "create", "add"}
    /\ f.m \in C!Module /\ f.rest \in C!Array /\ C!IsInjective(f.rest)
    /\ C!ToSet(f.rest) \cap us = {}
    /\ f.at = "create" => \A x \in C!Node : Contains(ui, x) => nm[x] # f.m
    /\ f.at = "add" => Held(f, ui)

(* ... what is still to be taken out is registered; ...                    *)
Unregisters(f, ui, fl, pa) ==
    /\ f.at \in {"take", "test", "drop"}
    /\ Once(f.rest) /\ \A c \in C!Entry : Contains(f.rest, c) => pa[c] # None
    /\ f.at = "take" => f.rest # <<>>
    /\ f.at \in {"test", "drop"} => Held(f, ui)
    /\ f.at = "drop" => fl[f.e] = <<>>

(* ... and a walk over commands has as many left as it still wants.        *)
Inputs(f, ui, nm, fl, pa) ==
    /\ f.at \in {"find", "lookup", "run", "handler", "help", "line"}
    /\ f.at = "find" =>
         /\ f.m \in C!Module \cup C!Entry /\ f.c \in C!Entry \cup {None}
         /\ f.m \in C!Entry => f.c = None
         /\ Known(f, nm, pa)
    /\ f.at \in {"lookup", "run", "line"} => Held(f, ui)
    /\ f.at = "lookup" /\ f.was # None => f.e = f.was /\ Contains(fl[f.e], f.c)
    /\ f.at = "run" => Contains(fl[f.e], f.c)
    /\ f.at = "help" => f.e = None \/ Held(f, ui)
    /\ f.at = "line" => Left(f.n, fl[f.e], f.c)

Stands(f, ui, nm, fl, pa, us) ==
    /\ f.op = "register" => Registers(f, ui, nm, us)
    /\ f.op = "unregister" => Unregisters(f, ui, fl, pa)
    /\ f.op = "input" => Inputs(f, ui, nm, fl, pa)
    /\ f.at # "line" => f.n = 0

Standing == \A t \in Thread : Stands(Now(t), core_ui, name, func_list, parrent, used)

(* Modules and commands agree with one another, and what is there has not  *)
(* been freed or cleared.                                                  *)
Tables ==
    /\ up => core_ui # <<>> /\ core_ui[1] = core /\ Contains(func_list[core], help)
    /\ \A x \in C!Node : Contains(core_ui, x) => x \notin freed /\ name[x] # None
    /\ \A x \in C!Node : name[x] = None => x \notin freed
    /\ \A x, y \in C!Node :
         Contains(core_ui, x) /\ Contains(core_ui, y) /\ name[x] = name[y] => x = y
    /\ \A x \in C!Node : ~Contains(core_ui, x) => func_list[x] = <<>>
    /\ up => \A c \in C!Entry : \A x \in C!Node : parrent[c] = x <=> Contains(func_list[x], c)
    /\ \A c \in C!Entry : /\ parrent[c] # None => c \in used
                          /\ cleared[c] # 0 => c \in used
                          /\ up /\ parrent[c] # None => cleared[c] = 0
    /\ help \in used

(* A module without commands is about to get one or to be removed.         *)
Tends(f, x) == Writes(f) /\ f.at \in {"add", "test", "drop"} /\ f.e = x
Tended ==
    \A x \in C!Node : Contains(core_ui, x) /\ func_list[x] = <<>> =>
        \E t \in Thread : Tends(Now(t), x)

CIInv ==
    /\ CShape
    /\ Nested
    /\ Alone
    /\ Standing
    /\ Tables
    /\ Tended

-----------------------------------------------------------------------------
(* What a step does to the calls of its thread, which is no business of    *)
(* the others.                                                             *)
OthersStay(t) ==
    /\ stack' \in [Thread -> Seq(CallFrame)]
    /\ Nested'
    /\ \A u \in Thread : u # t => stack'[u] = stack[u] /\ Now(u)' = Now(u)
Moves(t, f) == OthersStay(t) /\ stack'[t] # <<>> /\ Now(t)' = f
Returns(t) == OthersStay(t) /\ Waits(Now(t))'

LEMMA NowFacts ==
    ASSUME CShape, NEW t \in Thread
    PROVE  /\ stack[t] \in Seq(CallFrame) /\ Len(stack[t]) \in Nat
           /\ stack[t] # <<>> => /\ Len(stack[t]) \in 1..Len(stack[t])
                                 /\ Now(t) = stack[t][Len(stack[t])] /\ Now(t) \in CallFrame
                                 /\ Now(t) = C!Top(t) /\ Now(t) \in C!Frames
           /\ stack[t] = <<>> => Now(t) = NoFrame
<1>1. stack[t] \in Seq(CallFrame)
  BY DEF CShape
<1>2. /\ Len(stack[t]) \in Nat /\ DOMAIN stack[t] = 1..Len(stack[t])
      /\ \A i \in 1..Len(stack[t]) : stack[t][i] \in CallFrame
      /\ stack[t] = <<>> <=> Len(stack[t]) = 0
  BY <1>1, OnceFacts
<1>3. stack[t] # <<>> => Len(stack[t]) \in 1..Len(stack[t])
  BY <1>2
<1>. QED
  BY <1>1, <1>2, <1>3 DEF Now, C!Top, C!Last, C!Frames, C!FramesOf

LEMMA PushFacts ==
    ASSUME CIInv, NEW t \in Thread, NEW f \in CallFrame, C!Push(t, f), C!MayCall(t)
    PROVE  Moves(t, f) /\ Waits(Now(t))
<1> USE DEF CIInv
<1>1. Waits(Now(t))
  <2>1. CASE stack[t] = <<>>
    BY <2>1 DEF Now, NoFrame, C!Call, Waits
  <2>2. CASE C!IsAt(t, "input", "handler")
    BY <2>2, NowFacts DEF C!IsAt, Standing, Stands, Waits
  <2>. QED
    BY <2>1, <2>2 DEF C!MayCall
<1> DEFINE s == Append(stack[t], f)
<1>2. /\ s \in Seq(CallFrame) /\ s # <<>> /\ Len(s) = Len(stack[t]) + 1
      /\ \A i \in 1..Len(stack[t]) : s[i] = stack[t][i]
      /\ s[Len(s)] = f
  BY NowFacts, AppendProperties
<1>3. /\ stack' \in [Thread -> Seq(CallFrame)] /\ stack'[t] = s
      /\ \A u \in Thread : u # t => stack'[u] = stack[u]
  BY <1>2 DEF C!Push, CShape
<1> HIDE DEF s
<1>4. Now(t)' = f /\ \A u \in Thread : u # t => Now(u)' = Now(u)
  BY <1>2, <1>3 DEF Now
<1>5. Nested'
  <2> SUFFICES ASSUME NEW u \in Thread, NEW i \in 1..Len(stack'[u]), i < Len(stack'[u])
               PROVE  Waits(stack'[u][i])
    BY DEF Nested
  <2>1. CASE u # t
    BY <1>3, <2>1 DEF Nested
  <2>2. CASE u = t
    <3>1. i \in 1..Len(stack[t]) /\ stack'[t][i] = stack[t][i] /\ Len(stack[t]) \in Nat
      BY <1>2, <1>3, <2>2, NowFacts
    <3>2. CASE i < Len(stack[t])
      BY <2>2, <3>1, <3>2 DEF Nested
    <3>3. CASE i = Len(stack[t])
      <4>1. stack[t][i] = Now(t)
        BY <3>1, <3>3, NowFacts
      <4>. QED
        BY <1>1, <2>2, <3>1, <4>1
    <3>. QED
      BY <3>1, <3>2, <3>3
  <2>. QED
    BY <2>1, <2>2
<1>. QED
  BY <1>1, <1>2, <1>3, <1>4, <1>5 DEF Moves, OthersStay

LEMMA BecomeFacts ==
    ASSUME CIInv, NEW t \in Thread, stack[t] # <<>>, NEW f \in CallFrame, C!Become(t, f)
    PROVE  Moves(t, f)
<1> USE DEF CIInv
<1> DEFINE k == Len(stack[t])
           s == [stack[t] EXCEPT ![k] = f]
<1>1. k \in Nat /\ k \in 1..k /\ stack[t] \in Seq(CallFrame)
  BY NowFacts
<1>2. /\ s \in Seq(CallFrame) /\ Len(s) = k
      /\ \A i \in 1..k : s[i] = IF i = k THEN f ELSE stack[t][i]
  <2> HIDE DEF k
  <2>1. s \in Seq(CallFrame) /\ Len(s) = Len(stack[t])
    BY <1>1, ExceptSeq DEF k
  <2>2. DOMAIN stack[t] = 1..k
    BY <1>1, OnceFacts DEF k
  <2>. QED
    BY <2>1, <2>2 DEF k
<1>3. /\ stack' \in [Thread -> Seq(CallFrame)] /\ stack'[t] = s
      /\ \A u \in Thread : u # t => stack'[u] = stack[u]
  BY <1>2 DEF C!Become, C!ReplaceAt, CShape
<1> HIDE DEF s, k
<1>4. s # <<>> /\ s[k] = f
  BY <1>1, <1>2, OnceFacts
<1>5. Now(t)' = f /\ \A u \in Thread : u # t => Now(u)' = Now(u)
  BY <1>2, <1>3, <1>4 DEF Now
<1>6. Nested'
  <2> SUFFICES ASSUME NEW u \in Thread, NEW i \in 1..Len(stack'[u]), i < Len(stack'[u])
               PROVE  Waits(stack'[u][i])
    BY DEF Nested
  <2>1. CASE u # t
    BY <1>3, <2>1 DEF Nested
  <2>2. CASE u = t
    <3>1. i \in 1..k /\ i < k /\ s[i] = stack[t][i]
      BY <1>1, <1>2, <1>3, <2>2
    <3>. QED
      BY <1>3, <2>2, <3>1 DEF Nested, k
  <2>. QED
    BY <2>1, <2>2
<1>. QED
  BY <1>3, <1>4, <1>5, <1>6 DEF Moves, OthersStay

(* When a call ends, the one around it waits in a handler.                 *)
LEMMA PopFacts ==
    ASSUME CIInv, NEW t \in Thread, stack[t] # <<>>, C!Pop(t)
    PROVE  Returns(t)
<1> USE DEF CIInv
<1> DEFINE k == Len(stack[t])
           s == SubSeq(stack[t], 1, k - 1)
<1>1. k \in Nat /\ k \in 1..k /\ stack[t] \in Seq(CallFrame)
  BY NowFacts
<1>2. /\ s \in Seq(CallFrame) /\ Len(s) = k - 1
      /\ \A i \in 1..(k - 1) : s[i] = stack[t][i]
  <2>1. \A i \in 1..(k - 1) : stack[t][i] \in CallFrame
    BY <1>1, OnceFacts
  <2> HIDE DEF k
  <2>2. /\ s \in Seq(CallFrame) /\ Len(s) = (k - 1) - 1 + 1
        /\ \A i \in 1..((k - 1) - 1 + 1) : s[i] = stack[t][1 + i - 1]
    BY <1>1, <2>1, SubSeqProperties
  <2>3. \A i \in 1..(k - 1) : 1 + i - 1 = i
    BY <1>1
  <2>. QED
    BY <1>1, <2>2, <2>3
<1>3. /\ stack' \in [Thread -> Seq(CallFrame)] /\ stack'[t] = s
      /\ \A u \in Thread : u # t => stack'[u] = stack[u]
  BY <1>2 DEF C!Pop, C!Front, CShape
<1> HIDE DEF s
<1>4. \A i \in 1..(k - 1) : Waits(s[i])
  BY <1>1, <1>2 DEF Nested
<1>5. \A u \in Thread : u # t => Now(u)' = Now(u)
  BY <1>3 DEF Now
<1>6. Waits(Now(t))'
  <2>1. CASE s = <<>>
    BY <1>3, <2>1 DEF Now, NoFrame, C!Call, Waits
  <2>2. CASE s # <<>>
    <3>1. Len(s) # 0
      BY <1>2, <2>2, OnceFacts
    <3>2. k - 1 \in 1..(k - 1)
      <4> HIDE DEF k
      <4>. QED
        BY <1>1, <1>2, <3>1
    <3>. QED
      BY <1>2, <1>3, <1>4, <2>2, <3>2 DEF Now, Waits
  <2>. QED
    BY <2>1, <2>2
<1>7. Nested'
  <2> SUFFICES ASSUME NEW u \in Thread, NEW i \in 1..Len(stack'[u]), i < Len(stack'[u])
               PROVE  Waits(stack'[u][i])
    BY DEF Nested
  <2>1. CASE u # t
    BY <1>3, <2>1 DEF Nested
  <2>2. CASE u = t
    BY <1>2, <1>3, <1>4, <2>2
  <2>. QED
    BY <2>1, <2>2
<1>. QED
  BY <1>3, <1>5, <1>6, <1>7 DEF Returns, OthersStay

-----------------------------------------------------------------------------
(* A step leaves the modules and commands alone.                           *)
LEMMA WaitsStands ==
    ASSUME NEW f, Waits(f), NEW ui, NEW nm, NEW fl, NEW pa, NEW us
    PROVE  Stands(f, ui, nm, fl, pa, us) /\ ~Writes(f) /\ \A x : ~Tends(f, x)
BY DEF Waits, Writes, Stands, Inputs, Tends

(* Who goes on with what it was doing stays alone.                         *)
LEMMA StaysAlone ==
    ASSUME CIInv, NEW t \in Thread, stack[t] # <<>>, OthersStay(t), UNCHANGED up,
           Writes(Now(t)') => Now(t)'.op = Now(t).op
    PROVE  Alone'
<1> USE DEF CIInv
<1>1. \A u \in Thread : Writes(Now(u)') => Now(u)'.op = Now(u).op
  BY DEF OthersStay
<1>2. ASSUME NEW u \in Thread, NEW v \in Thread, Writes(Now(u)'), Writes(Now(v)')
      PROVE  u = v
  <2>1. Writes(Now(u)) /\ Writes(Now(v))
    BY <1>1, <1>2 DEF Writes
  <2>. QED
    BY <2>1 DEF Alone
<1>3. ASSUME NEW u \in Thread, Now(u)'.op = "unregister", NEW v \in Thread, v # u
      PROVE  stack'[v] = <<>>
  <2>1. Now(u).op = "unregister"
    BY <1>1, <1>3 DEF Writes
  <2>2. stack[v] = <<>>
    BY <1>3, <2>1 DEF Alone
  <2>. QED
    BY <2>2 DEF OthersStay
<1>4. up'
  BY DEF Alone
<1>5. \A u \in Thread : Writes(Now(u)') <=> Writes(Now(u))'
  BY DEF Writes
<1>. QED
  BY <1>2, <1>3, <1>4, <1>5 DEF Alone

LEMMA SettledCIInv ==
    ASSUME CIInv, NEW t \in Thread, OthersStay(t), Alone', calls' \in 0..MaxCalls,
           UNCHANGED <<C!modules, C!commands, up>>,
           Stands(Now(t)', core_ui, name, func_list, parrent, used),
           \A x \in C!Node : Tends(Now(t), x) /\ func_list[x] = <<>> => Tends(Now(t)', x)
    PROVE  CIInv'
<1> USE DEF CIInv, C!modules, C!commands
<1>1. CShape'
  BY DEF CShape, OthersStay
<1>2. Tables'
  BY DEF Tables
<1>3. Standing'
  <2> SUFFICES ASSUME NEW u \in Thread
               PROVE  Stands(Now(u)', core_ui, name, func_list, parrent, used)
    BY DEF Standing
  <2>. QED
    BY DEF Standing, OthersStay
<1>4. Tended'
  <2> SUFFICES ASSUME NEW x \in C!Node, Contains(core_ui, x), func_list[x] = <<>>
               PROVE  \E u \in Thread : Tends(Now(u)', x)
    BY DEF Tended
  <2>1. PICK u \in Thread : Tends(Now(u), x)
    BY DEF Tended
  <2>. QED
    BY <2>1 DEF OthersStay
<1>. QED
  BY <1>1, <1>2, <1>3, <1>4 DEF OthersStay

LEMMA GoesOn ==
    ASSUME CIInv, NEW t \in Thread, stack[t] # <<>>,
           UNCHANGED <<C!modules, C!commands, calls, up>>,
           NEW g \in CallFrame, C!Become(t, g), g.op = Now(t).op,
           Stands(g, core_ui, name, func_list, parrent, used),
           \A x \in C!Node : Tends(Now(t), x) /\ func_list[x] = <<>> => Tends(g, x)
    PROVE  CIInv'
<1>1. Moves(t, g)
  BY BecomeFacts
<1>2. OthersStay(t) /\ Now(t)' = g
  BY <1>1 DEF Moves
<1>3. Alone'
  BY <1>2, StaysAlone
<1>4. calls' \in 0..MaxCalls
  BY DEF CIInv, CShape
<1>. QED
  BY <1>2, <1>3, <1>4, SettledCIInv

LEMMA ComesBack ==
    ASSUME CIInv, NEW t \in Thread, stack[t] # <<>>,
           UNCHANGED <<C!modules, C!commands, calls, up>>, C!Pop(t),
           \A x \in C!Node : Tends(Now(t), x) => func_list[x] # <<>>
    PROVE  CIInv'
<1>1. OthersStay(t) /\ Waits(Now(t)')
  <2>1. Returns(t)
    BY PopFacts
  <2>. QED
    BY <2>1 DEF Returns, Waits
<1>2. /\ Stands(Now(t)', core_ui, name, func_list, parrent, used)
      /\ ~Writes(Now(t)')
  BY <1>1, WaitsStands
<1>3. Alone'
  BY <1>1, <1>2, StaysAlone
<1>4. calls' \in 0..MaxCalls
  BY DEF CIInv, CShape
<1>. QED
  BY <1>1, <1>2, <1>3, <1>4, SettledCIInv

(* Where a call of a thread stands.                                        *)
LEMMA AtFacts ==
    ASSUME CIInv, NEW t \in Thread, NEW op, NEW at, C!IsAt(t, op, at)
    PROVE  /\ stack[t] # <<>> /\ up
           /\ C!Top(t) = Now(t) /\ Now(t) \in CallFrame
           /\ Now(t).op = op /\ Now(t).at = at
           /\ Stands(Now(t), core_ui, name, func_list, parrent, used)
<1> USE DEF CIInv
<1>1. stack[t] # <<>> /\ C!Top(t).op = op /\ C!Top(t).at = at
  BY DEF C!IsAt
<1>2. C!Top(t) = Now(t) /\ Now(t) \in CallFrame
  BY <1>1, NowFacts
<1>. QED
  BY <1>1, <1>2 DEF Alone, Standing

LEMMA NameFacts ==
    ASSUME C!CommandsAssumption
    PROVE  /\ None \notin C!Module /\ None \notin C!Node /\ None \notin C!Entry
           /\ core \in C!Module /\ core \in C!Node /\ help \in C!Entry /\ help \notin Command
           /\ C!Module \cap C!Entry = {} /\ Command \subseteq C!Entry
           /\ core \notin Elem /\ Elem \subseteq C!Node
           /\ \A m \in C!Module : m \in Wanted
           /\ \A c \in C!Entry : c \in Wanted
           /\ None \in Wanted
           /\ MaxCalls \in Nat
BY DEF C!CommandsAssumption, C!Module, C!Node, C!Entry, Wanted

(* A command that is registered is in the list of a module that is there.  *)
LEMMA HomeFacts ==
    ASSUME C!CommandsAssumption, CShape, Tables, up, NEW c \in C!Entry, parrent[c] # None
    PROVE  /\ parrent[c] \in C!Node /\ Contains(func_list[parrent[c]], c)
           /\ Contains(core_ui, parrent[c])
<1>1. parrent[c] \in C!Node /\ Contains(func_list[parrent[c]], c)
  BY DEF CShape, Tables
<1>2. func_list[parrent[c]] # <<>>
  BY <1>1 DEF Contains
<1>. QED
  BY <1>1, <1>2 DEF Tables

LEMMA FindForRegisterCIInv ==
    ASSUME C!CommandsAssumption, CIInv, NEW t \in Thread, C!FindForRegister(t)
    PROVE  CIInv'
<1> DEFINE f == Now(t)
           x == C!ModuleNamed(f.m)
           g == [f EXCEPT !.e = x, !.at = IF x = None THEN "create" ELSE "add"]
<1>1. C!IsAt(t, "register", "find")
  BY DEF C!FindForRegister
<1>2. /\ stack[t] # <<>> /\ C!Top(t) = f /\ f \in CallFrame /\ f.op = "register"
      /\ f.at = "find"
      /\ Stands(f, core_ui, name, func_list, parrent, used)
  BY <1>1, AtFacts
<1>3. C!Become(t, g) /\ UNCHANGED <<C!modules, C!commands, calls, up>>
  BY <1>2 DEF C!FindForRegister
<1> HIDE DEF f
<1>4. \/ x = None /\ \A y \in C!Node : Contains(core_ui, y) => name[y] # f.m
      \/ x \in C!Node /\ Contains(core_ui, x)
  BY NamedFacts, NameFacts DEF CIInv, CShape
<1> HIDE DEF x
<1>5. g \in CallFrame /\ g.op = f.op
  BY <1>2, <1>4 DEF CallFrame
<1>6. Stands(g, core_ui, name, func_list, parrent, used)
  BY <1>2, <1>4, NameFacts DEF CallFrame, Stands, Registers, Held
<1>. QED
  BY <1>2, <1>3, <1>5, <1>6, <1>2, GoesOn DEF f, Tends

LEMMA TestEmptyCIInv ==
    ASSUME C!CommandsAssumption, CIInv, NEW t \in Thread, C!TestEmpty(t)
    PROVE  CIInv'
<1> DEFINE f == Now(t)
<1>1. C!IsAt(t, "unregister", "test")
  BY DEF C!TestEmpty
<1>2. /\ stack[t] # <<>> /\ C!Top(t) = f /\ f \in CallFrame /\ f.op = "unregister"
      /\ f.at = "test"
      /\ Stands(f, core_ui, name, func_list, parrent, used)
  BY <1>1, AtFacts
<1>3. /\ UNCHANGED <<C!modules, C!commands, calls, up>>
      /\ IF func_list[f.e] = <<>> THEN C!Become(t, [f EXCEPT !.at = "drop"])
         ELSE IF f.rest = <<>> THEN C!Pop(t) ELSE C!Become(t, [f EXCEPT !.at = "take"])
  BY <1>2 DEF C!TestEmpty, C!MustDrop, C!Continue
<1>4. \A x \in C!Node : Tends(f, x) => x = f.e
  BY DEF Tends
<1>5. CASE func_list[f.e] = <<>>
  <2> DEFINE g == [f EXCEPT !.at = "drop"]
  <2> HIDE DEF f
  <2>1. g \in CallFrame /\ g.op = f.op /\ \A x \in C!Node : Tends(f, x) => Tends(g, x)
    BY <1>2 DEF CallFrame, Tends, Writes
  <2>2. Stands(g, core_ui, name, func_list, parrent, used)
    BY <1>2, <1>5 DEF CallFrame, Stands, Unregisters, Held
  <2>3. C!Become(t, g)
    BY <1>3, <1>5
  <2> HIDE DEF g
  <2>. QED
    BY <1>2, <1>3, <2>1, <2>2, <2>3, GoesOn DEF f
<1>6. CASE func_list[f.e] # <<>> /\ f.rest = <<>>
  BY <1>2, <1>3, <1>4, <1>6, ComesBack
<1>7. CASE func_list[f.e] # <<>> /\ f.rest # <<>>
  <2> DEFINE g == [f EXCEPT !.at = "take"]
  <2> HIDE DEF f
  <2>1. g \in CallFrame /\ g.op = f.op
    BY <1>2 DEF CallFrame
  <2>2. Stands(g, core_ui, name, func_list, parrent, used)
    BY <1>2, <1>7 DEF CallFrame, Stands, Unregisters, Held
  <2>3. C!Become(t, g)
    BY <1>3, <1>7
  <2> HIDE DEF g
  <2>. QED
    BY <1>2, <1>3, <1>4, <1>7, <2>1, <2>2, <2>3, GoesOn DEF f
<1>. QED
  BY <1>5, <1>6, <1>7

-----------------------------------------------------------------------------
(* A call begins.                                                          *)
LEMMA NoWriters ==
    ASSUME CIInv, NEW t \in Thread
    PROVE  /\ (\A f \in C!Writers : f.op = "register") => Now(t).op # "unregister"
           /\ C!Writers = {} => ~Writes(Now(t))
<1>1. stack[t] = <<>> => Now(t).op = "input"
  BY NowFacts DEF CIInv, NoFrame, C!Call
<1>2. stack[t] # <<>> => Now(t) \in C!Frames
  BY NowFacts DEF CIInv
<1>3. Writes(Now(t)) => Now(t) \in C!Writers
  BY <1>1, <1>2 DEF Writes, C!Writers
<1>. QED
  BY <1>3 DEF Writes

LEMMA Begins ==
    ASSUME C!CommandsAssumption, CIInv, NEW t \in Thread, up,
           UNCHANGED <<C!modules, C!commands, up>>, C!MayCall(t), C!Started,
           NEW g \in CallFrame, C!Push(t, g),
           Stands(g, core_ui, name, func_list, parrent, used),
           \A u \in Thread : u # t => /\ Now(u).op # "unregister"
                                      /\ Writes(g) => ~Writes(Now(u))
                                      /\ g.op = "unregister" => stack[u] = <<>>
    PROVE  CIInv'
<1> USE DEF CIInv
<1>1. Moves(t, g) /\ Waits(Now(t))
  BY PushFacts
<1>2. OthersStay(t) /\ Now(t)' = g /\ ~Writes(Now(t)) /\ \A x : ~Tends(Now(t), x)
  BY <1>1 DEF Moves, Waits, Writes, Tends
<1>3. calls' \in 0..MaxCalls
  BY NameFacts DEF C!MayCall, C!Started, CShape
<1>4. \A u \in Thread : Now(u)' = IF u = t THEN g ELSE Now(u)
  BY <1>2 DEF OthersStay
<1>5. Alone'
  <2>1. ASSUME NEW u \in Thread, NEW v \in Thread, Writes(Now(u)'), Writes(Now(v)')
        PROVE  u = v
    BY <1>4, <2>1 DEF Alone
  <2>2. ASSUME NEW u \in Thread, Now(u)'.op = "unregister", NEW v \in Thread, v # u
        PROVE  stack'[v] = <<>>
    <3>1. u = t
      BY <1>4, <2>2
    <3>. QED
      BY <1>2, <1>4, <2>2, <3>1 DEF OthersStay
  <2>3. \A u \in Thread : Writes(Now(u))' <=> Writes(Now(u)')
    BY DEF Writes
  <2>. QED
    BY <2>1, <2>2, <2>3 DEF Alone
<1>. QED
  BY <1>2, <1>3, <1>5, SettledCIInv

LEMMA StartRegisterCIInv ==
    ASSUME C!CommandsAssumption, OneWriter, CIInv, NEW t \in Thread, NEW m \in C!Module,
           NEW s \in C!Array, C!StartRegister(t, m, s)
    PROVE  CIInv'
<1> DEFINE g == C!Call("register", "find", m, None, s)
<1>1. /\ up /\ C!MayCall(t) /\ C!Started /\ C!Push(t, g) /\ C!Writers = {}
      /\ C!IsInjective(s) /\ C!ToSet(s) \cap used = {}
      /\ UNCHANGED <<C!modules, C!commands, up>>
  BY DEF C!StartRegister
<1>2. g \in CallFrame /\ g.op = "register"
  BY ArrayFacts, NameFacts DEF C!Call, CallFrame
<1>3. Stands(g, core_ui, name, func_list, parrent, used)
  BY <1>1 DEF C!Call, Stands, Registers
<1> HIDE DEF g
<1>4. \A u \in Thread : ~Writes(Now(u)) /\ Now(u).op # "unregister"
  BY <1>1, NoWriters DEF Writes
<1>. QED
  BY <1>1, <1>2, <1>3, <1>4, Begins

LEMMA StartUnregisterCIInv ==
    ASSUME C!CommandsAssumption, OneWriter, Quiescent, CIInv, NEW t \in Thread,
           NEW s \in C!Array, C!StartUnregister(t, s)
    PROVE  CIInv'
<1> DEFINE g == C!Call("unregister", "take", None, None, s)
<1>1. /\ up /\ C!MayCall(t) /\ C!Started /\ C!Push(t, g) /\ C!Writers = {}
      /\ \A u \in Thread : u # t => stack[u] = <<>>
      /\ C!IsInjective(s) /\ \A c \in C!ToSet(s) : parrent[c] # None
      /\ UNCHANGED <<C!modules, C!commands, up>>
  BY DEF C!StartUnregister
<1>2. g \in CallFrame /\ g.op = "unregister"
  BY ArrayFacts, NameFacts DEF C!Call, CallFrame
<1>3. s \in Seq(Command) /\ s # <<>>
  BY ArrayFacts
<1>4. Once(s) /\ \A c : Contains(s, c) => parrent[c] # None
  BY <1>1, <1>3, OnceFacts
<1>5. Stands(g, core_ui, name, func_list, parrent, used)
  BY <1>3, <1>4 DEF C!Call, Stands, Unregisters
<1> HIDE DEF g
<1>6. \A u \in Thread : ~Writes(Now(u)) /\ Now(u).op # "unregister"
  BY <1>1, NoWriters DEF Writes
<1>. QED
  BY <1>1, <1>2, <1>5, <1>6, Begins

LEMMA StartInputCIInv ==
    ASSUME C!CommandsAssumption, Quiescent, CIInv, NEW t \in Thread,
           NEW m \in C!Module \cup C!Entry, NEW c \in C!Entry \cup {None},
           m \in C!Entry => c = None, C!StartInput(t, m, c)
    PROVE  CIInv'
<1> DEFINE home == C!Home(m, c)
           g == [C!Call("input", "find", m, c, <<>>) EXCEPT !.was = home]
<1>1. /\ up /\ C!MayCall(t) /\ C!Started /\ C!Push(t, g)
      /\ \A f \in C!Writers : f.op = "register"
      /\ UNCHANGED <<C!modules, C!commands, up>>
  BY DEF C!StartInput
<1>2. /\ home \in C!Node \cup {None}
      /\ home # None =>
           \/ m \in C!Entry /\ home = core /\ parrent[m] = core
           \/ m \in C!Module /\ c \in C!Entry /\ parrent[c] = home /\ name[home] = m
  <2>1. CASE m \in C!Entry
    BY <2>1, NameFacts DEF C!Home
  <2>2. CASE m \notin C!Entry
    BY <2>2, NameFacts DEF C!Home, CIInv, CShape
  <2>. QED
    BY <2>1, <2>2
<1> HIDE DEF home
<1>3. g \in CallFrame /\ g.op = "input"
  <2>1. <<>> \in Seq(Command)
    BY EmptySeq
  <2>2. m \in Wanted /\ c \in Wanted
    BY NameFacts
  <2>. QED
    BY <1>2, <2>1, <2>2, NameFacts DEF C!Call, CallFrame
<1>4. Stands(g, core_ui, name, func_list, parrent, used)
  BY <1>2 DEF C!Call, Stands, Inputs, Known
<1>5. ~Writes(g) /\ g.op # "unregister"
  BY <1>3 DEF Writes
<1> HIDE DEF g
<1>6. \A u \in Thread : Now(u).op # "unregister"
  BY <1>1, NoWriters
<1>. QED
  BY <1>1, <1>3, <1>4, <1>5, <1>6, Begins

-----------------------------------------------------------------------------
(* Input reaches its command, and help walks what is there.                *)
LEMMA FindForInputCIInv ==
    ASSUME C!CommandsAssumption, CIInv, NEW t \in Thread, C!FindForInput(t)
    PROVE  CIInv'
<1> DEFINE f == Now(t)
           x == C!ModuleNamed(f.m)
<1>1. C!IsAt(t, "input", "find")
  BY DEF C!FindForInput
<1>2. /\ stack[t] # <<>> /\ up /\ C!Top(t) = f /\ f \in CallFrame /\ f.op = "input"
      /\ f.at = "find"
      /\ Stands(f, core_ui, name, func_list, parrent, used)
  BY <1>1, AtFacts
<1>3. /\ UNCHANGED <<C!modules, C!commands, calls, up>>
      /\ \/ x = None /\ C!Become(t, [f EXCEPT !.e = core_ui[1], !.c = f.m, !.at = "lookup"])
         \/ x # None /\ f.c # None /\ C!Become(t, [f EXCEPT !.e = x, !.at = "lookup"])
         \/ x # None /\ C!Pop(t)
  BY <1>2 DEF C!FindForInput
<1> HIDE DEF f
<1>4. \/ x = None /\ \A y \in C!Node : Contains(core_ui, y) => name[y] # f.m
      \/ x \in C!Node /\ Contains(core_ui, x) /\ name[x] = f.m
  BY NamedFacts, NameFacts DEF CIInv, CShape
<1> HIDE DEF x
<1>5. /\ f.m \in C!Module \cup C!Entry /\ f.c \in C!Entry \cup {None} /\ f.n = 0
      /\ f.m \in C!Entry => f.c = None
      /\ Known(f, name, parrent)
  BY <1>2 DEF Stands, Inputs
<1>6. \A y \in C!Node : ~Tends(f, y)
  BY <1>2 DEF Tends
<1>7. ASSUME f.was # None, f.m \in C!Module, f.c \in C!Entry, parrent[f.c] = f.was,
             name[f.was] = f.m
      PROVE  /\ f.was \in C!Node /\ Contains(core_ui, f.was)
             /\ Contains(func_list[f.was], f.c)
  BY <1>2, <1>7, HomeFacts DEF CIInv
<1>8. CASE x = None /\ C!Become(t, [f EXCEPT !.e = core_ui[1], !.c = f.m, !.at = "lookup"])
  <2> DEFINE g == [f EXCEPT !.e = core_ui[1], !.c = f.m, !.at = "lookup"]
  <2>1. core_ui # <<>> /\ core_ui[1] = core /\ core \in C!Node
    BY <1>2, NameFacts DEF CIInv, Tables
  <2>2. Contains(core_ui, core)
    BY <2>1, OnceFacts, FirstLeft DEF Contains, CIInv, CShape
  <2>3. f.was # None => f.was = core /\ Contains(func_list[core], f.m)
    <3>1. CASE f.m \in C!Entry /\ f.was = core /\ parrent[f.m] = core
      BY <1>2, <2>1, <3>1, HomeFacts, NameFacts DEF CIInv
    <3>. QED
      BY <1>4, <1>5, <1>7, <1>8, <3>1, NameFacts DEF Known
  <2>4. g \in CallFrame /\ g.op = f.op
    BY <1>2, <2>1 DEF CallFrame
  <2>5. Stands(g, core_ui, name, func_list, parrent, used)
    BY <1>2, <1>5, <2>1, <2>2, <2>3 DEF CallFrame, Stands, Inputs, Held
  <2>6. C!Become(t, g)
    BY <1>8
  <2> HIDE DEF g
  <2>. QED
    BY <1>2, <1>3, <1>6, <2>4, <2>5, <2>6, GoesOn DEF f
<1>9. CASE x # None /\ f.c # None /\ C!Become(t, [f EXCEPT !.e = x, !.at = "lookup"])
  <2> DEFINE g == [f EXCEPT !.e = x, !.at = "lookup"]
  <2>1. x \in C!Node /\ Contains(core_ui, x) /\ name[x] = f.m
    BY <1>4, <1>9
  <2>2. f.was # None => f.was = x /\ Contains(func_list[x], f.c)
    BY <1>5, <1>7, <1>9, <2>1, NameFacts DEF Known, CIInv, Tables
  <2>3. g \in CallFrame /\ g.op = f.op
    BY <1>2, <2>1 DEF CallFrame
  <2>4. Stands(g, core_ui, name, func_list, parrent, used)
    BY <1>2, <1>5, <2>1, <2>2 DEF CallFrame, Stands, Inputs, Held
  <2>5. C!Become(t, g)
    BY <1>9
  <2> HIDE DEF g
  <2>. QED
    BY <1>2, <1>3, <1>6, <2>3, <2>4, <2>5, GoesOn DEF f
<1>10. CASE C!Pop(t)
  BY <1>2, <1>3, <1>6, <1>10, ComesBack DEF f
<1>. QED
  BY <1>3, <1>8, <1>9, <1>10

LEMMA LookUpCIInv ==
    ASSUME C!CommandsAssumption, CIInv, NEW t \in Thread, C!LookUp(t) \/ C!EndHandler(t)
    PROVE  CIInv'
<1> DEFINE f == Now(t)
           g == [f EXCEPT !.at = "run"]
<1>1. C!IsAt(t, "input", "lookup") \/ C!IsAt(t, "input", "handler")
  BY DEF C!LookUp, C!EndHandler
<1>2. /\ stack[t] # <<>> /\ C!Top(t) = f /\ f \in CallFrame /\ f.op = "input"
      /\ Stands(f, core_ui, name, func_list, parrent, used)
  BY <1>1, AtFacts
<1>3. /\ UNCHANGED <<C!modules, C!commands, calls, up>>
      /\ \/ f.at = "lookup" /\ Contains(func_list[f.e], f.c) /\ C!Become(t, g)
         \/ C!Pop(t)
  <2>1. CASE C!LookUp(t)
    <3>1. f.at = "lookup" /\ (C!Contains(func_list[f.e], f.c) <=> Contains(func_list[f.e], f.c))
      BY <1>2, <2>1, SameLists DEF C!LookUp, C!IsAt
    <3>. QED
      BY <1>2, <2>1, <3>1 DEF C!LookUp
  <2>2. CASE C!EndHandler(t)
    BY <2>2 DEF C!EndHandler
  <2>. QED
    BY <2>1, <2>2
<1> HIDE DEF f
<1>4. \A y \in C!Node : ~Tends(f, y)
  BY <1>2 DEF Tends, Writes
<1>5. CASE f.at = "lookup" /\ Contains(func_list[f.e], f.c) /\ C!Become(t, g)
  <2>1. g \in CallFrame /\ g.op = f.op
    BY <1>2 DEF CallFrame
  <2>2. Stands(g, core_ui, name, func_list, parrent, used)
    BY <1>2, <1>5 DEF CallFrame, Stands, Inputs, Held
  <2> HIDE DEF g
  <2>. QED
    BY <1>2, <1>3, <1>4, <1>5, <2>1, <2>2, GoesOn DEF f
<1>6. CASE C!Pop(t)
  BY <1>2, <1>3, <1>4, <1>6, ComesBack DEF f
<1>. QED
  BY <1>3, <1>5, <1>6

LEMMA RunHandlerCIInv ==
    ASSUME C!CommandsAssumption, CIInv, NEW t \in Thread, C!RunHandler(t)
    PROVE  CIInv'
<1> DEFINE f == Now(t)
           x == C!FirstOf(core_ui, None)
           g == IF f.c = help THEN [f EXCEPT !.at = "help", !.e = x]
                ELSE [f EXCEPT !.at = "handler"]
<1>1. C!IsAt(t, "input", "run")
  BY DEF C!RunHandler
<1>2. /\ stack[t] # <<>> /\ C!Top(t) = f /\ f \in CallFrame /\ f.op = "input"
      /\ f.at = "run"
      /\ Stands(f, core_ui, name, func_list, parrent, used)
  BY <1>1, AtFacts
<1>3. UNCHANGED <<C!modules, C!commands, calls, up>> /\ C!Become(t, g)
  BY <1>2 DEF C!RunHandler
<1> HIDE DEF f
<1>4. x = None \/ (x \in C!Node /\ Contains(core_ui, x))
  BY FirstLeft, NameFacts DEF CIInv, CShape
<1> HIDE DEF x
<1>5. g \in CallFrame /\ g.op = f.op
  BY <1>2, <1>4 DEF CallFrame
<1>6. Stands(g, core_ui, name, func_list, parrent, used)
  BY <1>2, <1>4 DEF CallFrame, Stands, Inputs, Held
<1>7. \A y \in C!Node : ~Tends(f, y)
  BY <1>2 DEF Tends
<1> HIDE DEF g
<1>. QED
  BY <1>2, <1>3, <1>5, <1>6, <1>7, GoesOn DEF f

LEMMA PrintModuleCIInv ==
    ASSUME C!CommandsAssumption, CIInv, NEW t \in Thread, C!PrintModule(t)
    PROVE  CIInv'
<1> DEFINE f == Now(t)
           k == Len(func_list[f.e])
           h == C!FirstOf(func_list[f.e], None)
           g == [f EXCEPT !.at = "line", !.n = k, !.c = h]
<1>1. C!IsAt(t, "input", "help")
  BY DEF C!PrintModule
<1>2. /\ stack[t] # <<>> /\ C!Top(t) = f /\ f \in CallFrame /\ f.op = "input"
      /\ f.at = "help"
      /\ Stands(f, core_ui, name, func_list, parrent, used)
  BY <1>1, AtFacts
<1>3. /\ UNCHANGED <<C!modules, C!commands, calls, up>>
      /\ IF f.e = None THEN C!Pop(t) ELSE C!Become(t, g)
  BY <1>2 DEF C!PrintModule
<1> HIDE DEF f
<1>4. \A y \in C!Node : ~Tends(f, y)
  BY <1>2 DEF Tends
<1>5. CASE f.e = None
  BY <1>2, <1>3, <1>4, <1>5, ComesBack DEF f
<1>6. CASE f.e # None
  <2>1. Held(f, core_ui) /\ f.e \in C!Node
    BY <1>2, <1>6 DEF Stands, Inputs, Held
  <2>2. func_list[f.e] \in Seq(C!Entry)
    BY <2>1 DEF CIInv, CShape
  <2>3. k \in Nat /\ h \in Wanted /\ Left(k, func_list[f.e], h)
    BY <2>2, OnceFacts, FirstLeft, NameFacts
  <2> HIDE DEF k, h
  <2>4. g \in CallFrame /\ g.op = f.op
    BY <1>2, <2>3 DEF CallFrame
  <2>5. Stands(g, core_ui, name, func_list, parrent, used)
    BY <1>2, <2>1, <2>3 DEF CallFrame, Stands, Inputs, Held
  <2>6. C!Become(t, g)
    BY <1>3, <1>6
  <2> HIDE DEF g
  <2>. QED
    BY <1>2, <1>3, <1>4, <2>4, <2>5, <2>6, GoesOn DEF f
<1>. QED
  BY <1>5, <1>6

LEMMA PrintLineCIInv ==
    ASSUME C!CommandsAssumption, CIInv, NEW t \in Thread, C!PrintLine(t)
    PROVE  CIInv'
<1> DEFINE f == Now(t)
           x == C!NextOf(core_ui, f.e, None)
           h == C!NextOf(func_list[f.e], f.c, None)
           g == IF f.n = 0 THEN [f EXCEPT !.at = "help", !.e = x]
                ELSE [f EXCEPT !.n = f.n - 1, !.c = h]
<1>1. C!IsAt(t, "input", "line")
  BY DEF C!PrintLine
<1>2. /\ stack[t] # <<>> /\ C!Top(t) = f /\ f \in CallFrame /\ f.op = "input"
      /\ f.at = "line"
      /\ Stands(f, core_ui, name, func_list, parrent, used)
  BY <1>1, AtFacts
<1>3. UNCHANGED <<C!modules, C!commands, calls, up>> /\ C!Become(t, g)
  BY <1>2 DEF C!PrintLine
<1> HIDE DEF f
<1>4. \A y \in C!Node : ~Tends(f, y)
  BY <1>2 DEF Tends
<1>5. f.e \in C!Node /\ Contains(core_ui, f.e) /\ f.n \in Nat /\ Left(f.n, func_list[f.e], f.c)
  BY <1>2 DEF Stands, Inputs, Held, CallFrame
<1>6. /\ core_ui \in Seq(C!Node) /\ Once(core_ui)
      /\ func_list[f.e] \in Seq(C!Entry) /\ Once(func_list[f.e])
  BY <1>5 DEF CIInv, CShape
<1>7. x = None \/ (x \in C!Node /\ Contains(core_ui, x))
  BY <1>5, <1>6, NextLeft, NameFacts
<1>8. f.n # 0 => f.n - 1 \in Nat /\ h \in Wanted /\ Left(f.n - 1, func_list[f.e], h)
  <2>1. f.n # 0 => f.n > 0 /\ f.n - 1 \in Nat /\ Contains(func_list[f.e], f.c)
    BY <1>5, <1>6, OnceFacts DEF Left, Contains
  <2>2. f.n # 0 => /\ h = None \/ h \in C!Entry
                   /\ \A k \in Nat : k > 0 /\ Left(k, func_list[f.e], f.c) =>
                        Left(k - 1, func_list[f.e], h)
    BY <1>6, <2>1, NextLeft, NameFacts
  <2>. QED
    BY <1>5, <2>1, <2>2, NameFacts
<1> HIDE DEF x, h
<1>9. g \in CallFrame /\ g.op = f.op
  BY <1>2, <1>5, <1>7, <1>8 DEF CallFrame
<1>10. Stands(g, core_ui, name, func_list, parrent, used)
  BY <1>2, <1>5, <1>7, <1>8 DEF CallFrame, Stands, Inputs, Held
<1> HIDE DEF g
<1>. QED
  BY <1>2, <1>3, <1>4, <1>9, <1>10, GoesOn DEF f

-----------------------------------------------------------------------------
(* Modules and commands come.                                              *)
LEMMA OthersOnlyInput ==
    ASSUME CIInv, NEW t \in Thread, Writes(Now(t)), NEW u \in Thread, u # t
    PROVE  /\ Now(u).op = "input"
           /\ Inputs(Now(u), core_ui, name, func_list, parrent)
           /\ Now(u).at # "line" => Now(u).n = 0
           /\ \A x : ~Tends(Now(u), x)
<1> USE DEF CIInv
<1>1. ~Writes(Now(u))
  BY DEF Alone
<1>2. Now(u).op \in {"register", "unregister", "input"}
  <2>1. stack[u] = <<>> => Now(u).op = "input"
    BY NowFacts DEF NoFrame, C!Call
  <2>2. stack[u] # <<>> => Now(u) \in CallFrame
    BY NowFacts
  <2>. QED
    BY <2>1, <2>2 DEF CallFrame
<1>. QED
  BY <1>1, <1>2 DEF Writes, Standing, Stands, Tends

LEMMA CreateModuleCIInv ==
    ASSUME C!CommandsAssumption, CIInv, NEW t \in Thread, C!CreateModule(t)
    PROVE  CIInv'
<1> USE DEF CIInv
<1> DEFINE f == Now(t)
<1>1. C!IsAt(t, "register", "create")
  BY DEF C!CreateModule
<1>2. /\ stack[t] # <<>> /\ up /\ C!Top(t) = f /\ f \in CallFrame /\ f.op = "register"
      /\ f.at = "create"
      /\ Stands(f, core_ui, name, func_list, parrent, used)
  BY <1>1, AtFacts
<1>3. PICK x \in Elem :
         /\ name[x] = None /\ name' = [name EXCEPT ![x] = f.m]
         /\ core_ui' = C!AddUnsorted(core_ui, x)
         /\ C!Become(t, [f EXCEPT !.e = x, !.at = "add"])
         /\ UNCHANGED <<freed, C!commands, calls, up>>
  BY <1>2 DEF C!CreateModule, C!AddModule
<1> DEFINE g == [f EXCEPT !.e = x, !.at = "add"]
<1> HIDE DEF f
<1>4. UNCHANGED <<freed, func_list, parrent, used, cleared, calls, up>>
  BY <1>3 DEF C!commands
<1>5. x \in C!Node /\ ~Contains(core_ui, x) /\ x \notin freed /\ func_list[x] = <<>>
  BY <1>3, NameFacts DEF Tables
<1>6. /\ f.m \in C!Module /\ f.rest \in C!Array /\ C!IsInjective(f.rest) /\ f.n = 0
      /\ C!ToSet(f.rest) \cap used = {}
      /\ \A y \in C!Node : Contains(core_ui, y) => name[y] # f.m
  BY <1>2 DEF Stands, Registers
<1>7. /\ core_ui' \in Seq(C!Node) /\ Once(core_ui') /\ core_ui' # <<>>
      /\ \A y : Contains(core_ui', y) <=> Contains(core_ui, y) \/ y = x
      /\ core_ui # <<>> => core_ui'[1] = core_ui[1]
  <2> DEFINE r == C!AddUnsorted(core_ui, x)
  <2>1. core_ui \in Seq(C!Node) /\ Once(core_ui)
    BY DEF CShape
  <2>2. /\ r \in Seq(C!Node) /\ Once(r) /\ r # <<>>
        /\ \A y : Contains(r, y) <=> Contains(core_ui, y) \/ y = x
        /\ core_ui # <<>> => r[1] = core_ui[1]
    BY <1>5, <2>1, AddedFacts
  <2>. QED
    BY <1>3, <2>2
<1>8. /\ name' \in [C!Node -> C!Module \cup {None}]
      /\ name'[x] = f.m /\ \A y \in C!Node : y # x => name'[y] = name[y]
  BY <1>3, <1>5, <1>6 DEF CShape
<1>9. g \in CallFrame /\ g.op = f.op /\ g.at = "add" /\ g.e = x
  BY <1>2, <1>5 DEF CallFrame
<1>10. Moves(t, g)
  BY <1>2, <1>3, <1>9, BecomeFacts
<1>11. Stands(g, core_ui', name', func_list, parrent, used)
  BY <1>2, <1>5, <1>6, <1>7 DEF CallFrame, Stands, Registers, Held
<1> HIDE DEF g
<1>12. OthersStay(t) /\ Now(t)' = g
  BY <1>10 DEF Moves
<1>13. CShape'
  BY <1>4, <1>7, <1>8, <1>12 DEF CShape, OthersStay
<1>14. Alone'
  BY <1>2, <1>4, <1>9, <1>12, StaysAlone DEF f
<1>15. Standing'
  <2> SUFFICES ASSUME NEW u \in Thread
               PROVE  Stands(Now(u)', core_ui', name', func_list, parrent, used)
    BY <1>4 DEF Standing
  <2>1. CASE u = t
    BY <1>11, <1>12, <2>1
  <2>2. CASE u # t
    <3> DEFINE h == Now(u)
    <3>1. /\ h.op = "input" /\ Inputs(h, core_ui, name, func_list, parrent)
          /\ h.at # "line" => h.n = 0
      BY <1>2, <2>2, OthersOnlyInput DEF Writes, f
    <3>2. Now(u)' = h
      BY <1>12, <2>2 DEF OthersStay
    <3> HIDE DEF h
    <3>3. Held(h, core_ui) => Held(h, core_ui')
      BY <1>7 DEF Held
    <3>4. h.at = "find" => Known(h, name', parrent)
      <4> SUFFICES ASSUME h.at = "find", h.was # None, h.m \in C!Module, h.c \in C!Entry,
                          parrent[h.c] = h.was, name[h.was] = h.m
                   PROVE  name'[h.was] = h.m
        BY <3>1 DEF Inputs, Known
      <4>1. h.was \in C!Node
        BY DEF CShape
      <4>2. h.was # x
        BY <1>3, NameFacts
      <4>. QED
        BY <1>8, <4>1, <4>2
    <3>5. Inputs(h, core_ui', name', func_list, parrent)
      BY <3>1, <3>3, <3>4 DEF Inputs
    <3>. QED
      BY <3>1, <3>2, <3>5 DEF Stands
  <2>. QED
    BY <2>1, <2>2
<1>16. Tables'
  <2>1. \A y \in C!Node : Contains(core_ui', y) => y \notin freed /\ name'[y] # None
    BY <1>5, <1>6, <1>7, <1>8, NameFacts DEF Tables
  <2>2. \A y \in C!Node : name'[y] = None => y \notin freed
    BY <1>5, <1>8 DEF Tables
  <2>3. \A y, z \in C!Node :
          Contains(core_ui', y) /\ Contains(core_ui', z) /\ name'[y] = name'[z] => y = z
    BY <1>6, <1>7, <1>8 DEF Tables
  <2>4. \A y \in C!Node : ~Contains(core_ui', y) => func_list[y] = <<>>
    BY <1>7 DEF Tables
  <2>5. core_ui' # <<>> /\ core_ui'[1] = core /\ Contains(func_list[core], help)
    BY <1>2, <1>7 DEF Tables
  <2>. QED
    BY <1>4, <2>1, <2>2, <2>3, <2>4, <2>5 DEF Tables
<1>17. Tended'
  <2> SUFFICES ASSUME NEW y \in C!Node, Contains(core_ui', y), func_list[y] = <<>>
               PROVE  \E u \in Thread : Tends(Now(u)', y)
    BY <1>4 DEF Tended
  <2>1. y = x
    <3> SUFFICES ASSUME y # x PROVE FALSE
      OBVIOUS
    <3>1. PICK u \in Thread : Tends(Now(u), y)
      BY <1>7 DEF Tended
    <3>2. u = t
      BY <1>2, <3>1 DEF Tends, Alone, f, Writes
    <3>. QED
      BY <1>2, <3>1, <3>2 DEF Tends, f
  <2>. QED
    BY <1>2, <1>9, <1>12, <2>1 DEF Tends, Writes
<1>. QED
  BY <1>12, <1>13, <1>14, <1>15, <1>16, <1>17 DEF OthersStay

LEMMA AddCommandsCIInv ==
    ASSUME C!CommandsAssumption, CIInv, NEW t \in Thread, C!AddCommands(t)
    PROVE  CIInv'
<1> USE DEF CIInv
<1> DEFINE f == Now(t)
           x == f.e
           s == f.rest
           q == AddAll(func_list[x], s)
<1>1. C!IsAt(t, "register", "add")
  BY DEF C!AddCommands
<1>2. /\ stack[t] # <<>> /\ up /\ C!Top(t) = f /\ f \in CallFrame /\ f.op = "register"
      /\ f.at = "add"
      /\ Stands(f, core_ui, name, func_list, parrent, used)
  BY <1>1, AtFacts
<1>3. /\ func_list' = [func_list EXCEPT ![x] = q]
      /\ parrent' = [c \in C!Entry |-> IF C!Contains(s, c) THEN x ELSE parrent[c]]
      /\ used' = used \cup C!ToSet(s)
      /\ C!Pop(t)
      /\ UNCHANGED <<C!modules, cleared, calls, up>>
  BY <1>2 DEF C!AddCommands, AddAll
<1>4. UNCHANGED <<core_ui, name, freed, cleared, calls, up>>
  BY <1>3 DEF C!modules
<1>5. OthersStay(t) /\ Waits(Now(t)')
  <2>1. Returns(t)
    BY <1>2, <1>3, PopFacts
  <2>. QED
    BY <2>1 DEF Returns, Waits
<1>6. Writes(f)
  BY <1>2 DEF Writes
<1>7. /\ x \in C!Node /\ Contains(core_ui, x)
      /\ s \in C!Array /\ C!IsInjective(s) /\ C!ToSet(s) \cap used = {}
  <2> HIDE DEF f
  <2>. QED
    BY <1>2 DEF Stands, Registers, Held
<1>8. Writes(Now(t)') => Now(t)'.op = Now(t).op
  BY <1>5 DEF Waits, Writes
<1>9. Alone'
  BY <1>2, <1>4, <1>5, <1>8, StaysAlone
<1>10. \A u \in Thread : u # t =>
         /\ Now(u).op = "input" /\ Inputs(Now(u), core_ui, name, func_list, parrent)
         /\ Now(u).at # "line" => Now(u).n = 0
         /\ \A y : ~Tends(Now(u), y)
  BY <1>6, OthersOnlyInput
<1>11. \A y \in C!Node : Tends(f, y) => y = x
  BY DEF Tends
<1> HIDE DEF f, x, s
<1>12. \A c : C!Contains(s, c) <=> c \in C!ToSet(s)
  BY <1>7, ArrayFacts, OnceFacts, SameLists
<1>13. \A c \in C!ToSet(s) : c \in C!Entry /\ parrent[c] = None /\ ~Contains(func_list[x], c)
  <2> SUFFICES ASSUME NEW c \in C!ToSet(s)
               PROVE  c \in C!Entry /\ parrent[c] = None /\ ~Contains(func_list[x], c)
    OBVIOUS
  <2>1. c \in C!Entry
    BY <1>7, <1>12, ArrayFacts, OnceFacts, SameLists, NameFacts
  <2>2. c \notin used
    BY <1>7
  <2>3. parrent[c] = None
    BY <2>1, <2>2 DEF Tables
  <2>. QED
    BY <1>2, <1>7, <2>1, <2>3, NameFacts DEF Tables
<1>14. /\ q \in Seq(C!Entry) /\ Once(q) /\ q # <<>>
       /\ \A c : Contains(q, c) <=> Contains(func_list[x], c) \/ c \in C!ToSet(s)
       /\ \A k \in Nat : \A c : Left(k, func_list[x], c) => Left(k, q, c)
  <2>1. func_list[x] \in Seq(C!Entry) /\ Once(func_list[x])
    BY <1>7 DEF CShape
  <2>. QED
    BY <1>7, <1>13, <2>1, AllAddedFacts
<1> HIDE DEF q
<1>15. /\ func_list' \in [C!Node -> Seq(C!Entry)] /\ func_list'[x] = q
       /\ \A y \in C!Node : y # x => func_list'[y] = func_list[y]
  BY <1>3, <1>7, <1>14 DEF CShape
<1>16. /\ parrent' \in [C!Entry -> C!Node \cup {None}]
       /\ \A c \in C!Entry : parrent'[c] = IF c \in C!ToSet(s) THEN x ELSE parrent[c]
       /\ used' \subseteq C!Entry
  BY <1>3, <1>7, <1>12, <1>13 DEF CShape
<1>17. \A y \in C!Node : \A c : Contains(func_list[y], c) => Contains(func_list'[y], c)
  BY <1>14, <1>15
<1>18. CShape'
  BY <1>4, <1>5, <1>14, <1>15, <1>16 DEF CShape, OthersStay
<1>19. Standing'
  <2> SUFFICES ASSUME NEW u \in Thread
               PROVE  Stands(Now(u)', core_ui, name, func_list', parrent', used')
    BY <1>4 DEF Standing
  <2>1. CASE u = t
    BY <1>5, <2>1, WaitsStands
  <2>2. CASE u # t
    <3> DEFINE h == Now(u)
    <3>1. /\ h.op = "input" /\ Inputs(h, core_ui, name, func_list, parrent)
          /\ h.at # "line" => h.n = 0
      BY <1>10, <2>2
    <3>2. Now(u)' = h
      BY <1>5, <2>2 DEF OthersStay
    <3>3. h.at = "line" => h.n \in Nat
      <4>1. stack[u] = <<>> => h.at = "handler"
        BY NowFacts DEF NoFrame, C!Call
      <4>. QED
        BY <4>1, NowFacts DEF CallFrame
    <3> HIDE DEF h
    <3>4. h.at = "find" => Known(h, name, parrent')
      <4> SUFFICES ASSUME h.at = "find"
                   PROVE  Known(h, name, parrent')
        OBVIOUS
      <4>1. \A c \in C!Entry : parrent[c] # None => parrent'[c] = parrent[c]
        BY <1>13, <1>16
      <4>2. h.m \in C!Entry /\ parrent[h.m] = core => parrent'[h.m] = core
        BY <4>1, NameFacts
      <4>3. h.was # None /\ h.c \in C!Entry /\ parrent[h.c] = h.was => parrent'[h.c] = h.was
        BY <4>1
      <4>. QED
        BY <3>1, <4>2, <4>3 DEF Inputs, Known
    <3>5. Held(h, core_ui) => /\ Contains(func_list[h.e], h.c) => Contains(func_list'[h.e], h.c)
                              /\ h.at = "line" /\ Left(h.n, func_list[h.e], h.c)
                                   => Left(h.n, func_list'[h.e], h.c)
      BY <1>14, <1>15, <1>17, <3>3 DEF Held
    <3>6. h.at = "lookup" => Held(h, core_ui)
      BY <3>1 DEF Inputs
    <3>7. Inputs(h, core_ui, name, func_list', parrent')
      BY <3>1, <3>4, <3>5 DEF Inputs
    <3>. QED
      BY <3>1, <3>2, <3>7 DEF Stands
  <2>. QED
    BY <2>1, <2>2
<1>20. Tables'
  <2>1. Contains(func_list'[core], help)
    BY <1>2, <1>17, NameFacts DEF Tables
  <2>2. \A y \in C!Node : ~Contains(core_ui, y) => func_list'[y] = <<>>
    BY <1>7, <1>15 DEF Tables
  <2>3. \A c \in C!Entry : \A y \in C!Node : parrent'[c] = y <=> Contains(func_list'[y], c)
    <3> SUFFICES ASSUME NEW c \in C!Entry, NEW y \in C!Node
                 PROVE  parrent'[c] = y <=> Contains(func_list'[y], c)
      OBVIOUS
    <3>1. parrent[c] = y <=> Contains(func_list[y], c)
      BY <1>2 DEF Tables
    <3>2. CASE c \in C!ToSet(s)
      <4>1. ~Contains(func_list[y], c)
        BY <1>13, <3>1, <3>2, NameFacts
      <4>. QED
        BY <1>14, <1>15, <1>16, <3>2, <4>1
    <3>3. CASE c \notin C!ToSet(s)
      BY <1>14, <1>15, <1>16, <3>1, <3>3
    <3>. QED
      BY <3>2, <3>3
  <2>4. \A c \in C!Entry : /\ parrent'[c] # None => c \in used'
                           /\ cleared[c] # 0 => c \in used'
                           /\ parrent'[c] # None => cleared[c] = 0
    BY <1>2, <1>3, <1>7, <1>16 DEF Tables
  <2>5. help \in used'
    BY <1>3 DEF Tables
  <2>. QED
    BY <1>4, <2>1, <2>2, <2>3, <2>4, <2>5 DEF Tables
<1>21. Tended'
  <2> SUFFICES ASSUME NEW y \in C!Node, Contains(core_ui, y), func_list'[y] = <<>>
               PROVE  FALSE
    BY <1>4 DEF Tended
  <2>1. y # x /\ func_list[y] = <<>>
    BY <1>14, <1>15
  <2>2. PICK u \in Thread : Tends(Now(u), y)
    BY <2>1 DEF Tended
  <2>. QED
    BY <1>10, <1>11, <2>1, <2>2 DEF f
<1>. QED
  BY <1>5, <1>9, <1>18, <1>19, <1>20, <1>21 DEF OthersStay

-----------------------------------------------------------------------------
(* Commands and modules go, while the other threads are in no call.        *)
LEMMA OthersIdle ==
    ASSUME CIInv, NEW t \in Thread, Now(t).op = "unregister", OthersStay(t),
           NEW u \in Thread, u # t, NEW ui, NEW nm, NEW fl, NEW pa, NEW us
    PROVE  Stands(Now(u)', ui, nm, fl, pa, us) /\ \A x : ~Tends(Now(u), x)
<1>1. stack[u] = <<>>
  BY DEF CIInv, Alone
<1>2. Now(u)' = NoFrame /\ Now(u) = NoFrame
  BY <1>1 DEF OthersStay, Now
<1>3. Waits(NoFrame)
  BY DEF NoFrame, C!Call, Waits
<1>. QED
  BY <1>2, <1>3, WaitsStands

LEMMA TailFacts ==
    ASSUME NEW S, NEW s \in Seq(S), s # <<>>, Once(s)
    PROVE  /\ Head(s) \in S /\ Contains(s, Head(s))
           /\ Tail(s) \in Seq(S) /\ Once(Tail(s))
           /\ \A c : Contains(Tail(s), c) => Contains(s, c) /\ c # Head(s)
<1> DEFINE r == Tail(s)
<1>1. /\ Head(s) \in S /\ r \in Seq(S) /\ Len(r) = Len(s) - 1
      /\ \A i \in 1..Len(r) : r[i] = s[i + 1]
  BY HeadTailProperties
<1>2. Len(s) \in Nat /\ Len(s) # 0 /\ Head(s) = s[1]
  BY OnceFacts
<1> HIDE DEF r
<1>3. 1 \in 1..Len(s) /\ \A i \in 1..Len(r) : i + 1 \in 1..Len(s) /\ i + 1 # 1
  BY <1>1, <1>2
<1>4. Contains(s, Head(s))
  BY <1>2, <1>3 DEF Contains
<1>5. \A c : Contains(r, c) => Contains(s, c) /\ c # Head(s)
  BY <1>1, <1>2, <1>3 DEF Contains, Once
<1>6. Once(r)
  <2> SUFFICES ASSUME NEW i \in 1..Len(r), NEW j \in 1..Len(r), r[i] = r[j]
               PROVE  i = j
    BY DEF Once
  <2>1. i + 1 = j + 1
    BY <1>1, <1>3 DEF Once
  <2>. QED
    BY <1>1, <1>2, <2>1
<1>. QED
  BY <1>1, <1>4, <1>5, <1>6 DEF r

LEMMA TakeOutCIInv ==
    ASSUME C!CommandsAssumption, CIInv, NEW t \in Thread, C!TakeOut(t)
    PROVE  CIInv'
<1> USE DEF CIInv
<1> DEFINE f == Now(t)
           c == Head(f.rest)
           x == parrent[c]
           q == C!Erase(func_list[x], c)
           g == [f EXCEPT !.e = x, !.rest = Tail(f.rest), !.at = "test"]
<1>1. C!IsAt(t, "unregister", "take")
  BY DEF C!TakeOut
<1>2. /\ stack[t] # <<>> /\ up /\ C!Top(t) = f /\ f \in CallFrame /\ f.op = "unregister"
      /\ f.at = "take"
      /\ Stands(f, core_ui, name, func_list, parrent, used)
  BY <1>1, AtFacts
<1>3. /\ parrent' = [parrent EXCEPT ![c] = None]
      /\ func_list' = [func_list EXCEPT ![x] = q]
      /\ cleared' = [cleared EXCEPT ![c] = cleared[c] + 1]
      /\ C!Become(t, g)
      /\ UNCHANGED <<C!modules, used, calls, up>>
  BY <1>2 DEF C!TakeOut
<1>4. UNCHANGED <<core_ui, name, freed, used, calls, up>>
  BY <1>3 DEF C!modules
<1>5. /\ f.rest \in Seq(Command) /\ f.rest # <<>> /\ Once(f.rest) /\ f.n = 0
      /\ \A d \in C!Entry : Contains(f.rest, d) => parrent[d] # None
  <2> HIDE DEF f
  <2>. QED
    BY <1>2 DEF Stands, Unregisters, CallFrame
<1>6. /\ c \in Command /\ Contains(f.rest, c) /\ Tail(f.rest) \in Seq(Command)
      /\ Once(Tail(f.rest))
      /\ \A d : Contains(Tail(f.rest), d) => Contains(f.rest, d) /\ d # c
  <2> HIDE DEF f
  <2>. QED
    BY <1>5, TailFacts
<1>7. Writes(f) /\ \A y \in C!Node : ~Tends(f, y)
  BY <1>2 DEF Writes, Tends
<1> HIDE DEF f, c
<1>8. c \in C!Entry /\ c # help /\ parrent[c] # None
  BY <1>5, <1>6, NameFacts
<1>9. x \in C!Node /\ Contains(func_list[x], c) /\ Contains(core_ui, x)
  BY <1>2, <1>8, HomeFacts
<1>10. c \in used /\ cleared[c] = 0
  BY <1>2, <1>8 DEF Tables
<1>11. /\ q \in Seq(C!Entry) /\ Once(q)
       /\ \A d : Contains(q, d) <=> Contains(func_list[x], d) /\ d # c
  <2>1. func_list[x] \in Seq(C!Entry) /\ Once(func_list[x])
    BY <1>9 DEF CShape
  <2>. QED
    BY <2>1, TakenOutFacts
<1> HIDE DEF x, q
<1>12. /\ func_list' \in [C!Node -> Seq(C!Entry)] /\ func_list'[x] = q
       /\ \A y \in C!Node : y # x => func_list'[y] = func_list[y]
  BY <1>3, <1>9, <1>11 DEF CShape
<1>13. /\ parrent' \in [C!Entry -> C!Node \cup {None}] /\ parrent'[c] = None
       /\ \A d \in C!Entry : d # c => parrent'[d] = parrent[d]
  BY <1>3, <1>8 DEF CShape
<1>14. /\ cleared' \in [C!Entry -> 0..1]
       /\ \A d \in C!Entry : d # c => cleared'[d] = cleared[d]
  BY <1>3, <1>8, <1>10 DEF CShape
<1>15. /\ g \in CallFrame /\ g.op = "unregister" /\ g.at = "test" /\ g.e = x
       /\ g.rest = Tail(f.rest) /\ g.n = 0
  BY <1>2, <1>5, <1>6, <1>9 DEF CallFrame
<1> HIDE DEF g
<1>16. OthersStay(t) /\ Now(t)' = g
  <2>1. Moves(t, g)
    BY <1>2, <1>3, <1>15, BecomeFacts
  <2>. QED
    BY <2>1 DEF Moves
<1>17. Alone'
  BY <1>2, <1>4, <1>15, <1>16, StaysAlone DEF f
<1>18. CShape'
  BY <1>4, <1>11, <1>12, <1>13, <1>14, <1>16 DEF CShape, OthersStay
<1>19. Standing'
  <2> SUFFICES ASSUME NEW u \in Thread
               PROVE  Stands(Now(u)', core_ui, name, func_list', parrent', used)
    BY <1>4 DEF Standing
  <2>1. CASE u = t
    <3>1. \A d \in C!Entry : Contains(g.rest, d) => parrent'[d] # None
      BY <1>5, <1>6, <1>13, <1>15
    <3>2. Stands(g, core_ui, name, func_list', parrent', used)
      BY <1>6, <1>9, <1>15, <3>1 DEF Stands, Unregisters, Held
    <3>. QED
      BY <1>16, <2>1, <3>2
  <2>2. CASE u # t
    BY <1>2, <1>16, <2>2, OthersIdle DEF f
  <2>. QED
    BY <2>1, <2>2
<1>20. Tables'
  <2>1. Contains(func_list'[core], help)
    BY <1>2, <1>8, <1>11, <1>12, NameFacts DEF Tables
  <2>2. \A y \in C!Node : ~Contains(core_ui, y) => func_list'[y] = <<>>
    BY <1>9, <1>12 DEF Tables
  <2>3. \A d \in C!Entry : \A y \in C!Node : parrent'[d] = y <=> Contains(func_list'[y], d)
    <3> SUFFICES ASSUME NEW d \in C!Entry, NEW y \in C!Node
                 PROVE  parrent'[d] = y <=> Contains(func_list'[y], d)
      OBVIOUS
    <3>1. parrent[d] = y <=> Contains(func_list[y], d)
      BY <1>2 DEF Tables
    <3>2. CASE d = c
      <4>1. parrent'[d] # y
        BY <1>13, <3>2, NameFacts
      <4>2. ~Contains(func_list'[y], d)
        BY <1>11, <1>12, <3>1, <3>2 DEF x
      <4>. QED
        BY <4>1, <4>2
    <3>3. CASE d # c
      BY <1>11, <1>12, <1>13, <3>1, <3>3
    <3>. QED
      BY <3>2, <3>3
  <2>4. \A d \in C!Entry : /\ parrent'[d] # None => d \in used
                           /\ cleared'[d] # 0 => d \in used
                           /\ parrent'[d] # None => cleared'[d] = 0
    BY <1>2, <1>10, <1>13, <1>14 DEF Tables
  <2>. QED
    BY <1>4, <2>1, <2>2, <2>3, <2>4 DEF Tables
<1>21. Tended'
  <2> SUFFICES ASSUME NEW y \in C!Node, Contains(core_ui, y), func_list'[y] = <<>>
               PROVE  \E u \in Thread : Tends(Now(u)', y)
    BY <1>4 DEF Tended
  <2>1. y = x
    <3> SUFFICES ASSUME y # x PROVE FALSE
      OBVIOUS
    <3>1. PICK u \in Thread : Tends(Now(u), y)
      BY <1>12 DEF Tended
    <3>. QED
      BY <1>2, <1>7, <1>16, <3>1, OthersIdle DEF f
  <2>. QED
    BY <1>15, <1>16, <2>1 DEF Tends, Writes
<1>. QED
  BY <1>16, <1>17, <1>18, <1>19, <1>20, <1>21 DEF OthersStay

LEMMA DropModuleCIInv ==
    ASSUME C!CommandsAssumption, CIInv, NEW t \in Thread, C!DropModule(t)
    PROVE  CIInv'
<1> USE DEF CIInv
<1> DEFINE f == Now(t)
           x == f.e
           g == [f EXCEPT !.at = "take"]
<1>1. C!IsAt(t, "unregister", "drop")
  BY DEF C!DropModule
<1>2. /\ stack[t] # <<>> /\ up /\ C!Top(t) = f /\ f \in CallFrame /\ f.op = "unregister"
      /\ f.at = "drop"
      /\ Stands(f, core_ui, name, func_list, parrent, used)
  BY <1>1, AtFacts
<1>3. /\ core_ui' = C!Erase(core_ui, x) /\ freed' = freed \cup {x}
      /\ cleared' = C!ClearedWith({x}) /\ func_list' = C!EmptiedOf({x})
      /\ IF f.rest = <<>> THEN C!Pop(t) ELSE C!Become(t, g)
      /\ UNCHANGED <<name, parrent, used, calls, up>>
  BY <1>2 DEF C!DropModule, C!Continue
<1>4. \A y \in C!Node : Tends(f, y) => y = x
  BY DEF Tends
<1> HIDE DEF f
<1>5. /\ x \in C!Node /\ Contains(core_ui, x) /\ func_list[x] = <<>>
      /\ f.rest \in Seq(Command) /\ Once(f.rest) /\ f.n = 0
      /\ \A d \in C!Entry : Contains(f.rest, d) => parrent[d] # None
  BY <1>2 DEF Stands, Unregisters, CallFrame, Held
<1> HIDE DEF x
<1>6. \A c : ~Contains(func_list[x], c) /\ ~C!Contains(func_list[x], c)
  BY <1>5 DEF Contains, C!Contains
<1>7. cleared' = cleared
  BY <1>3, <1>6 DEF C!ClearedWith, CShape
<1>8. func_list' = func_list
  <2>1. \A y \in C!Node : func_list'[y] = func_list[y]
    BY <1>3, <1>5 DEF C!EmptiedOf
  <2>. QED
    BY <1>3, <2>1 DEF C!EmptiedOf, CShape
<1>9. x # core
  BY <1>2, <1>6 DEF Tables
<1>10. /\ core_ui' \in Seq(C!Node) /\ Once(core_ui')
       /\ \A y : Contains(core_ui', y) <=> Contains(core_ui, y) /\ y # x
       /\ core_ui' # <<>> /\ core_ui'[1] = core
  <2>1. core_ui \in Seq(C!Node) /\ Once(core_ui) /\ core_ui # <<>> /\ core_ui[1] = core
    BY <1>2 DEF CShape, Tables
  <2>2. core_ui[1] # x
    BY <1>9, <2>1
  <2>. QED
    BY <1>3, <2>1, <2>2, TakenOutFacts
<1>11. /\ OthersStay(t)
       /\ \/ Waits(Now(t)')
          \/ /\ Now(t)' = g /\ g.op = "unregister" /\ g.at = "take" /\ g.rest = f.rest
             /\ g.n = 0 /\ f.rest # <<>>
  <2>1. CASE f.rest = <<>>
    <3>1. Returns(t)
      BY <1>2, <1>3, <2>1, PopFacts
    <3>. QED
      BY <3>1 DEF Returns, Waits
  <2>2. CASE f.rest # <<>>
    <3>1. /\ g \in CallFrame /\ g.op = "unregister" /\ g.at = "take" /\ g.rest = f.rest
          /\ g.n = 0
      BY <1>2, <1>5 DEF CallFrame
    <3> HIDE DEF g
    <3>2. Moves(t, g)
      BY <1>2, <1>3, <2>2, <3>1, BecomeFacts
    <3>. QED
      BY <2>2, <3>1, <3>2 DEF Moves
  <2>. QED
    BY <2>1, <2>2
<1> HIDE DEF g
<1>12. Writes(Now(t)') => Now(t)'.op = Now(t).op
  BY <1>2, <1>11 DEF Waits, Writes, f
<1>13. Alone'
  BY <1>2, <1>3, <1>11, <1>12, StaysAlone
<1>14. CShape'
  BY <1>3, <1>5, <1>7, <1>8, <1>10, <1>11 DEF CShape, OthersStay
<1>15. Standing'
  <2> SUFFICES ASSUME NEW u \in Thread
               PROVE  Stands(Now(u)', core_ui', name, func_list, parrent, used)
    BY <1>3, <1>8 DEF Standing
  <2>1. CASE u = t
    <3>1. Waits(Now(t)') => Stands(Now(t)', core_ui', name, func_list, parrent, used)
      BY WaitsStands
    <3>2. g.op = "unregister" /\ g.at = "take" /\ g.rest = f.rest /\ g.n = 0
          /\ f.rest # <<>> => Stands(g, core_ui', name, func_list, parrent, used)
      BY <1>5 DEF Stands, Unregisters
    <3>. QED
      BY <1>11, <2>1, <3>1, <3>2
  <2>2. CASE u # t
    BY <1>2, <1>11, <2>2, OthersIdle DEF f
  <2>. QED
    BY <2>1, <2>2
<1>16. Tables'
  <2>1. \A y \in C!Node : Contains(core_ui', y) => y \notin freed' /\ name[y] # None
    BY <1>3, <1>10 DEF Tables
  <2>2. \A y \in C!Node : name[y] = None => y \notin freed'
    BY <1>3, <1>5 DEF Tables
  <2>3. \A y, z \in C!Node :
          Contains(core_ui', y) /\ Contains(core_ui', z) /\ name[y] = name[z] => y = z
    BY <1>10 DEF Tables
  <2>4. \A y \in C!Node : ~Contains(core_ui', y) => func_list[y] = <<>>
    BY <1>5, <1>10 DEF Tables
  <2>5. Contains(func_list[core], help)
    BY <1>2 DEF Tables
  <2>. QED
    BY <1>3, <1>7, <1>8, <1>10, <2>1, <2>2, <2>3, <2>4, <2>5 DEF Tables
<1>17. Tended'
  <2> SUFFICES ASSUME NEW y \in C!Node, Contains(core_ui', y), func_list[y] = <<>>
               PROVE  FALSE
    BY <1>8 DEF Tended
  <2>1. Contains(core_ui, y) /\ y # x
    BY <1>10
  <2>2. PICK u \in Thread : Tends(Now(u), y)
    BY <2>1 DEF Tended
  <2>. QED
    BY <1>2, <1>4, <1>11, <2>1, <2>2, OthersIdle DEF f
<1>. QED
  BY <1>11, <1>13, <1>14, <1>15, <1>16, <1>17 DEF OthersStay

(* acore_close comes when no thread is in a call.                          *)
LEMMA CloseUiCIInv ==
    ASSUME C!CommandsAssumption, CIInv, C!CloseUi
    PROVE  CIInv'
<1> USE DEF CIInv
<1>1. /\ up /\ C!Frames = {} /\ up' = FALSE /\ core_ui' = <<>>
      /\ freed' = freed \cup C!ToSet(core_ui)
      /\ cleared' = C!ClearedWith(C!ToSet(core_ui))
      /\ func_list' = C!EmptiedOf(C!ToSet(core_ui))
      /\ UNCHANGED <<name, parrent, used, stack, calls>>
  BY DEF C!CloseUi
<1>2. \A t \in Thread : stack[t] = <<>>
  BY <1>1, NowFacts
<1>3. \A t \in Thread : Waits(Now(t)')
  BY <1>1, <1>2 DEF Now, NoFrame, C!Call, Waits
<1>4. \A y : y \in C!ToSet(core_ui) <=> Contains(core_ui, y)
  BY OnceFacts DEF CShape
<1>5. \A y \in C!Node : func_list'[y] = <<>>
  BY <1>1, <1>4 DEF C!EmptiedOf, Tables
<1>6. func_list' \in [C!Node -> Seq(C!Entry)] /\ \A y \in C!Node : Once(func_list'[y])
  <2>1. <<>> \in Seq(C!Entry) /\ Once(<<>>)
    BY EmptySeq DEF Once
  <2>. QED
    BY <1>1, <1>5, <2>1 DEF C!EmptiedOf, CShape
<1>7. /\ cleared' \in [C!Entry -> 0..1]
      /\ \A c \in C!Entry : cleared'[c] # 0 => c \in used
  <2> DEFINE hit(c) == \E y \in C!ToSet(core_ui) : C!Contains(func_list[y], c)
  <2>1. cleared' = [c \in C!Entry |-> IF hit(c) THEN cleared[c] + 1 ELSE cleared[c]]
    BY <1>1 DEF C!ClearedWith
  <2>2. \A c \in C!Entry : hit(c) => c \in used /\ cleared[c] = 0
    <3> SUFFICES ASSUME NEW c \in C!Entry, NEW y \in C!ToSet(core_ui),
                        C!Contains(func_list[y], c)
                 PROVE  c \in used /\ cleared[c] = 0
      OBVIOUS
    <3>1. y \in C!Node
      BY <1>4, OnceFacts DEF CShape
    <3>2. parrent[c] = y
      BY <1>1, <3>1, SameLists DEF Tables
    <3>. QED
      BY <1>1, <3>1, <3>2, NameFacts DEF Tables
  <2> HIDE DEF hit
  <2>3. \A c \in C!Entry : cleared[c] \in 0..1 /\ (cleared[c] # 0 => c \in used)
    BY DEF CShape, Tables
  <2>. QED
    BY <2>1, <2>2, <2>3
<1>8. <<>> \in Seq(C!Node) /\ Once(<<>>) /\ \A y : ~Contains(<<>>, y)
  BY EmptySeq DEF Once, Contains
<1>9. freed' \subseteq C!Node /\ \A y \in C!Node : name[y] = None => y \notin freed'
  BY <1>1, <1>4, OnceFacts DEF CShape, Tables
<1>10. CShape'
  BY <1>1, <1>6, <1>7, <1>8, <1>9 DEF CShape
<1>11. Nested' /\ Alone'
  <2>1. \A t \in Thread : ~Writes(Now(t)') /\ Now(t)'.op # "unregister"
    BY <1>3, WaitsStands DEF Waits
  <2>2. \A t \in Thread : ~Writes(Now(t))'
    BY <2>1 DEF Writes
  <2>. QED
    BY <1>1, <1>2, <2>1, <2>2 DEF Nested, Alone
<1>12. Standing'
  BY <1>3, WaitsStands DEF Standing
<1>13. Tables'
  BY <1>1, <1>5, <1>7, <1>8, <1>9 DEF Tables
<1>14. Tended'
  BY <1>1, <1>8 DEF Tended
<1>. QED
  BY <1>10, <1>11, <1>12, <1>13, <1>14

-----------------------------------------------------------------------------
(* At first there is core, with help, and no call.                         *)
LEMMA InitCIInv ==
    ASSUME C!CommandsAssumption, C!Init
    PROVE  CIInv
<1> USE DEF C!Init
<1>1. /\ core_ui \in Seq(C!Node) /\ Once(core_ui) /\ core_ui # <<>> /\ core_ui[1] = core
      /\ \A y : Contains(core_ui, y) <=> y = core
  BY NameFacts DEF Once, Contains
<1>2. \A y \in C!Node : /\ func_list[y] \in Seq(C!Entry) /\ Once(func_list[y])
                        /\ \A c : Contains(func_list[y], c) <=> y = core /\ c = help
                        /\ y # core => func_list[y] = <<>>
                        /\ y = core => func_list[y] # <<>>
  <2>1. <<help>> \in Seq(C!Entry) /\ Once(<<help>>) /\ <<help>> # <<>>
        /\ \A c : Contains(<<help>>, c) <=> c = help
    BY NameFacts DEF Once, Contains
  <2>2. <<>> \in Seq(C!Entry) /\ Once(<<>>) /\ \A c : ~Contains(<<>>, c)
    BY EmptySeq DEF Once, Contains
  <2>. QED
    BY <2>1, <2>2
<1>3. <<>> \in Seq(CallFrame)
  BY EmptySeq
<1>4. CShape
  <2>1. func_list \in [C!Node -> Seq(C!Entry)]
    BY <1>2
  <2>. QED
    BY <1>1, <1>2, <1>3, <2>1, NameFacts DEF CShape
<1>5. \A t \in Thread : stack[t] = <<>> /\ Waits(Now(t))
  BY DEF Now, NoFrame, C!Call, Waits
<1>6. Nested /\ Alone
  <2>1. \A t \in Thread : ~Writes(Now(t)) /\ Now(t).op # "unregister"
    BY <1>5, WaitsStands DEF Waits
  <2>. QED
    BY <1>5, <2>1 DEF Nested, Alone
<1>7. Standing
  BY <1>5, WaitsStands DEF Standing
<1>8. Tables
  <2>1. name[core] = core /\ core # None /\ \A y \in C!Node : y # core => name[y] = None
    BY NameFacts
  <2>2. \A c \in C!Entry : \A y \in C!Node : parrent[c] = y <=> Contains(func_list[y], c)
    BY <1>2, NameFacts
  <2>. QED
    BY <1>1, <1>2, <2>1, <2>2, NameFacts DEF Tables
<1>9. Tended
  BY <1>1, <1>2 DEF Tended
<1>. QED
  BY <1>4, <1>6, <1>7, <1>8, <1>9 DEF CIInv

LEMMA NextCIInv ==
    ASSUME C!CommandsAssumption, OneWriter, Quiescent, CIInv, [C!Next]_(C!vars)
    PROVE  CIInv'
<1>1. CASE C!CloseUi
  BY <1>1, CloseUiCIInv
<1>2. ASSUME NEW t \in Thread, C!Step(t)
      PROVE  CIInv'
  BY <1>2, FindForRegisterCIInv, CreateModuleCIInv, AddCommandsCIInv, TakeOutCIInv,
     TestEmptyCIInv, DropModuleCIInv, FindForInputCIInv, LookUpCIInv, RunHandlerCIInv,
     PrintModuleCIInv, PrintLineCIInv DEF C!Step
<1>3. ASSUME NEW t \in Thread, NEW s \in C!Array,
             C!StartUnregister(t, s) \/ \E m \in C!Module : C!StartRegister(t, m, s)
      PROVE  CIInv'
  BY <1>3, StartUnregisterCIInv, StartRegisterCIInv
<1>4. ASSUME NEW t \in Thread, NEW m \in C!Module, NEW c \in C!Entry \cup {None},
             C!StartInput(t, m, c)
      PROVE  CIInv'
  BY <1>4, StartInputCIInv, NameFacts
<1>5. ASSUME NEW t \in Thread, NEW c \in C!Entry, C!StartInput(t, c, None)
      PROVE  CIInv'
  BY <1>5, StartInputCIInv
<1>6. CASE UNCHANGED C!vars
  <2> USE <1>6 DEF C!vars, C!modules, C!commands
  <2>1. \A t \in Thread : Now(t)' = Now(t)
    BY DEF Now
  <2>2. CShape' /\ Nested' /\ Tables'
    BY DEF CIInv, CShape, Nested, Tables
  <2>3. Alone'
    BY <2>1 DEF CIInv, Alone, Writes
  <2>4. Standing'
    BY <2>1 DEF CIInv, Standing
  <2>5. Tended'
    BY <2>1 DEF CIInv, Tended
  <2>. QED
    BY <2>2, <2>3, <2>4, <2>5 DEF CIInv
<1>. QED
  BY <1>1, <1>2, <1>3, <1>4, <1>5, <1>6 DEF C!Next

(* Modules and commands agree, and every call stands where it may, when    *)
(* one call at a time registers or unregisters and none unregisters while  *)
(* another thread is in a call.                                            *)
THEOREM CommandsInvariant ==
    ASSUME C!CommandsAssumption, OneWriter, Quiescent
    PROVE  C!Spec => []CIInv
<1>1. C!Init => CIInv
  BY InitCIInv
<1>2. CIInv /\ [C!Next]_(C!vars) => CIInv'
  BY NextCIInv
<1>. QED
  BY <1>1, <1>2, PTL DEF C!Spec

(* A call that is in C!Frames is the innermost one of its thread or waits. *)
LEMMA FrameFacts ==
    ASSUME CIInv, NEW f \in C!Frames
    PROVE  /\ f \in CallFrame /\ up
           /\ Stands(f, core_ui, name, func_list, parrent, used)
           /\ \/ Waits(f)
              \/ \E t \in Thread : f = Now(t)
<1>1. PICK t \in Thread : f \in C!FramesOf(t)
  BY DEF C!Frames
<1>2. stack[t] \in Seq(CallFrame)
  BY DEF CIInv, CShape
<1>3. PICK i \in 1..Len(stack[t]) : f = stack[t][i]
  BY <1>1, <1>2, OnceFacts DEF C!FramesOf
<1>4. f \in CallFrame /\ stack[t] # <<>>
  BY <1>2, <1>3, OnceFacts
<1>5. up
  BY <1>4 DEF CIInv, Alone
<1>6. CASE i < Len(stack[t])
  <2>1. Waits(f)
    BY <1>3, <1>6 DEF CIInv, Nested
  <2>. QED
    BY <1>4, <1>5, <2>1, WaitsStands
<1>7. CASE i = Len(stack[t])
  <2>1. f = Now(t)
    BY <1>3, <1>4, <1>7 DEF Now
  <2>. QED
    BY <1>4, <1>5, <2>1 DEF CIInv, Standing
<1>. QED
  BY <1>2, <1>3, <1>6, <1>7, LenProperties

(* No call touches a module that was freed or a command that was cleared,  *)
(* and no command is cleared twice.                                        *)
THEOREM CommandsAreLive ==
    ASSUME C!CommandsAssumption, OneWriter, Quiescent
    PROVE  C!Spec => []C!OnlyLiveIsUsed
<1>1. ASSUME CIInv
      PROVE  C!OnlyLiveIsUsed
  <2> USE <1>1
  <2>1. ASSUME NEW f \in C!Frames
        PROVE  /\ f.at \in {"add", "test", "drop", "lookup", "help", "line"} =>
                    f.e \notin freed
               /\ f.at = "take" => parrent[Head(f.rest)] \notin freed
               /\ f.at = "run" => C!Contains(func_list[f.e], f.c)
               /\ f.at = "line" /\ f.n > 0 => C!Contains(func_list[f.e], f.c)
    <3>1. /\ f \in CallFrame /\ up
          /\ Stands(f, core_ui, name, func_list, parrent, used)
      BY <2>1, FrameFacts
    <3>2. CShape /\ Tables
      BY DEF CIInv
    <3>3. None \notin freed
      BY <3>2, NameFacts DEF CShape
    <3>4. Held(f, core_ui) => f.e \notin freed
      BY <3>2 DEF Held, Tables
    <3>5. CASE f.op = "register"
      BY <3>1, <3>4, <3>5 DEF Stands, Registers
    <3>6. CASE f.op = "unregister"
      <4>1. Unregisters(f, core_ui, func_list, parrent)
        BY <3>1, <3>6 DEF Stands
      <4>2. f.at = "take" => parrent[Head(f.rest)] \notin freed
        <5> SUFFICES ASSUME f.at = "take"
                     PROVE  parrent[Head(f.rest)] \notin freed
          OBVIOUS
        <5>1. Head(f.rest) \in Command /\ Contains(f.rest, Head(f.rest))
          BY <3>1, <4>1, TailFacts DEF Unregisters, CallFrame
        <5>2. Head(f.rest) \in C!Entry /\ parrent[Head(f.rest)] # None
          BY <4>1, <5>1, NameFacts DEF Unregisters
        <5>. QED
          BY <3>1, <3>2, <5>2, HomeFacts DEF Tables
      <4>. QED
        BY <3>4, <4>1, <4>2 DEF Unregisters
    <3>7. CASE f.op = "input"
      <4>1. Inputs(f, core_ui, name, func_list, parrent)
        BY <3>1, <3>7 DEF Stands
      <4>2. f.at = "line" /\ f.n > 0 => Contains(func_list[f.e], f.c)
        <5>1. f.at = "line" => /\ func_list[f.e] \in Seq(C!Entry)
                               /\ Left(f.n, func_list[f.e], f.c)
          BY <3>2, <4>1 DEF Inputs, Held, CShape
        <5>. QED
          BY <5>1, OnceFacts DEF Left, Contains
      <4>. QED
        BY <3>3, <3>4, <4>1, <4>2, SameLists DEF Inputs
    <3>. QED
      BY <3>1, <3>5, <3>6, <3>7 DEF CallFrame
  <2>2. \A c \in C!Entry : cleared[c] <= 1
    BY DEF CIInv, CShape
  <2>. QED
    BY <2>1, <2>2 DEF C!OnlyLiveIsUsed
<1>. QED
  BY <1>1, CommandsInvariant, PTL

(* The shape of the state is what the run checks it to be.                 *)
LEMMA ShapeIsType ==
    ASSUME C!CommandsAssumption, CIInv
    PROVE  C!TypeOK
<1> USE DEF CIInv
<1>1. C!IsInjective(core_ui) /\ C!ToSet(core_ui) \subseteq C!Node
  BY OnceFacts DEF CShape
<1>2. \A x \in C!Node : C!IsInjective(func_list[x]) /\ C!ToSet(func_list[x]) \subseteq C!Entry
  <2> TAKE x \in C!Node
  <2>1. func_list[x] \in Seq(C!Entry) /\ Once(func_list[x])
    BY DEF CShape
  <2>. QED
    BY <2>1, OnceFacts
<1>3. IsFiniteSet(C!Entry)
  <2>1. IsFiniteSet(Command)
    BY DEF C!CommandsAssumption, C!IsFiniteSet, IsFiniteSet
  <2>. QED
    BY <2>1, FS_AddElement DEF C!Entry
<1>4. Cardinality(C!Entry) \in Nat
  BY <1>3, FS_CardinalityType
<1>5. ASSUME NEW f \in C!Frames
      PROVE  /\ f.op \in {"register", "unregister", "input"}
             /\ f.at \in {"find", "create", "add", "take", "test", "drop", "lookup", "run",
                          "handler", "help", "line"}
             /\ f.m \in C!Module \cup C!Entry \cup {None} /\ f.e \in C!Node \cup {None}
             /\ f.c \in C!Module \cup C!Entry \cup {None} /\ f.was \in C!Node \cup {None}
             /\ f.n \in 0..Cardinality(C!Entry) /\ C!ToSet(f.rest) \subseteq Command
  <2>1. f \in CallFrame /\ Stands(f, core_ui, name, func_list, parrent, used)
    BY <1>5, FrameFacts
  <2>2. f.n \in 0..Cardinality(C!Entry)
    <3>1. CASE f.at # "line"
      BY <1>4, <2>1, <3>1 DEF Stands
    <3>2. CASE f.at = "line"
      <4>1. f.e \in C!Node /\ Left(f.n, func_list[f.e], f.c) /\ f.n \in Nat
        BY <2>1, <3>2 DEF Stands, Registers, Unregisters, Inputs, Held, CallFrame
      <4>2. func_list[f.e] \in Seq(C!Entry) /\ Once(func_list[f.e])
        BY <4>1 DEF CShape
      <4>3. Len(func_list[f.e]) <= Cardinality(C!Entry) /\ Len(func_list[f.e]) \in Nat
        BY <1>3, <4>2, LengthIsBounded, OnceFacts
      <4>. QED
        BY <1>4, <4>1, <4>3 DEF Left
    <3>. QED
      BY <3>1, <3>2
  <2>3. C!ToSet(f.rest) \subseteq Command
    <3>1. f.rest \in Seq(Command)
      BY <2>1 DEF CallFrame
    <3>. QED
      BY <3>1, OnceFacts
  <2>. QED
    BY <2>1, <2>2, <2>3 DEF CallFrame, Wanted
<1>6. cleared \in [C!Entry -> 0..2]
  BY DEF CShape
<1>7. DOMAIN stack = Thread
  BY DEF CShape
<1>8. C!Cardinality(C!Entry) = Cardinality(C!Entry)
  BY DEF C!Cardinality, Cardinality
<1>. QED
  BY <1>1, <1>2, <1>5, <1>6, <1>7, <1>8 DEF C!TypeOK, CShape

(* Input reaches every command that is registered since before it came in. *)
THEOREM InputFindsCommands ==
    ASSUME C!CommandsAssumption, OneWriter, Quiescent
    PROVE  C!Spec => []C!CommandsAreFound
<1>1. ASSUME CIInv
      PROVE  C!CommandsAreFound
  <2> USE <1>1 DEF CIInv
  <2>1. \A y : y \in C!ToSet(core_ui) <=> Contains(core_ui, y)
    BY OnceFacts DEF CShape
  <2>2. \A y \in C!ToSet(core_ui) : y \in C!Node
    BY <2>1, OnceFacts DEF CShape
  <2>3. ASSUME up
        PROVE  \A c \in C!Entry : \A x \in C!Node :
                 parrent[c] = x <=> C!Contains(core_ui, x) /\ C!Contains(func_list[x], c)
    <3> TAKE c \in C!Entry
    <3> TAKE x \in C!Node
    <3>1. parrent[c] = x <=> Contains(func_list[x], c)
      BY <2>3 DEF Tables
    <3>2. Contains(func_list[x], c) => Contains(core_ui, x)
      <4>1. Contains(func_list[x], c) => func_list[x] # <<>>
        BY DEF Contains
      <4>. QED
        BY <4>1 DEF Tables
    <3>. QED
      BY <3>1, <3>2, SameLists
  <2>4. \A x, y \in C!ToSet(core_ui) : name[x] = name[y] => x = y
    BY <2>1, <2>2 DEF Tables
  <2>5. ASSUME C!Writers = {}
        PROVE  \A x \in C!ToSet(core_ui) : func_list[x] # <<>>
    <3>1. \A t \in Thread : ~Writes(Now(t))
      BY <2>5, NoWriters
    <3>. QED
      BY <2>1, <2>2, <3>1 DEF Tended, Tends
  <2>6. ASSUME NEW f \in C!Frames, f.at = "lookup", f.was # None
        PROVE  f.e = f.was /\ C!Contains(func_list[f.e], f.c)
    <3>1. f \in CallFrame /\ Stands(f, core_ui, name, func_list, parrent, used)
      BY <2>6, FrameFacts
    <3>. QED
      BY <2>6, <3>1, SameLists DEF CallFrame, Stands, Registers, Unregisters, Inputs
  <2>7. up => core_ui[1] = core
    BY DEF Tables
  <2>. QED
    BY <2>3, <2>4, <2>5, <2>6, <2>7, ShapeIsType DEF C!CommandsAreFound
<1>. QED
  BY <1>1, CommandsInvariant, PTL
=============================================================================
