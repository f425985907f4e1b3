--------------------------- MODULE EventBus_proofs ---------------------------
(***************************************************************************)
(* Proofs about EventBus for any threads, handlers, depth of calls and     *)
(* number of calls, whatever locks are around the calls and in the         *)
(* handlers, where no handler unregisters one that is being run and the    *)
(* event is destroyed when idle; and, in the second part, about WorkChecks.*)
(* Both walk a list without repetitions under a counted lock, in stacks of *)
(* nested calls, so that the lemmas about lists, stacks and locks serve    *)
(* both.                                                                   *)
(***************************************************************************)
EXTENDS EventBus, FiniteSetTheorems, SequenceTheorems, TLAPS

-----------------------------------------------------------------------------
(* What the operators of AcoreList do to a list without repetitions.       *)
Once(s) == \A i, j \in DOMAIN s : s[i] = s[j] => i = j

Before(s, x, y) == \E i, j \in DOMAIN s : i < j /\ s[i] = x /\ s[j] = y

(* A list as a function on its places.                                     *)
LEMMA ListFacts ==
    ASSUME NEW S, NEW s \in Seq(S)
    PROVE  /\ Len(s) \in Nat /\ DOMAIN s = 1..Len(s)
           /\ \A i \in 1..Len(s) : s[i] \in S
           /\ \A x : Contains(s, x) <=> \E i \in 1..Len(s) : s[i] = x
           /\ s = <<>> <=> Len(s) = 0
  BY LenProperties, ElementOfSeq, EmptySeq DEF Contains

(* No node is before itself.                                               *)
LEMMA NotBeforeItself ==
    ASSUME NEW S, NEW s \in Seq(S), Once(s), NEW x
    PROVE  ~Before(s, x, x)
  BY ListFacts DEF Once, Before

(* RemoveAt takes a node out and moves those behind it down.               *)
LEMMA RemoveAtFacts ==
    ASSUME NEW S, NEW s \in Seq(S), NEW i \in 1..Len(s)
    PROVE  /\ RemoveAt(s, i) \in Seq(S)
           /\ Len(RemoveAt(s, i)) = Len(s) - 1
           /\ \A j \in 1..(Len(s) - 1) :
                RemoveAt(s, i)[j] = IF j < i THEN s[j] ELSE s[j + 1]
<1>. DEFINE a == SubSeq(s, 1, i - 1)
            b == SubSeq(s, i + 1, Len(s))
<1>1. /\ a \in Seq(S) /\ Len(a) = i - 1
      /\ \A j \in 1..(i - 1) : a[j] = s[j]
  BY ElementOfSeq, SubSeqProperties
<1>2. /\ b \in Seq(S) /\ Len(b) = Len(s) - i
      /\ \A j \in 1..(Len(s) - i) : b[j] = s[i + j]
  BY ElementOfSeq, SubSeqProperties
<1>3. RemoveAt(s, i) = a \o b
  BY DEF RemoveAt
<1>. HIDE DEF a, b
<1>4. /\ a \o b \in Seq(S) /\ Len(a \o b) = Len(s) - 1
      /\ \A j \in 1..(Len(s) - 1) : (a \o b)[j] = IF j <= i - 1 THEN a[j] ELSE b[j - i + 1]
  <2>1. /\ a \o b \in Seq(S) /\ Len(a \o b) = Len(a) + Len(b)
        /\ \A j \in 1..(Len(a) + Len(b)) :
             (a \o b)[j] = IF j <= Len(a) THEN a[j] ELSE b[j - Len(a)]
    BY <1>1, <1>2, ConcatProperties
  <2>2. Len(s) \in Nat
    BY LenProperties
  <2>. QED
    BY <1>1, <1>2, <2>1, <2>2
<1>. QED
  BY <1>1, <1>2, <1>3, <1>4

(* Erase takes one node out of a list and keeps the order of the others.   *)
LEMMA EraseFacts ==
    ASSUME NEW S, NEW s \in Seq(S), NEW n, Once(s)
    PROVE  /\ Erase(s, n) \in Seq(S) /\ Once(Erase(s, n))
           /\ \A x : Contains(Erase(s, n), x) <=> Contains(s, x) /\ x # n
           /\ \A x, y : Before(s, x, y) /\ x # n /\ y # n => Before(Erase(s, n), x, y)
<1>1. CASE ~Contains(s, n)
  BY <1>1 DEF Erase
<1>2. CASE Contains(s, n)
  <2>. DEFINE i == PlaceOf(s, n)
              t == Erase(s, n)
              Moved(j) == IF j < i THEN j ELSE j - 1
  <2>1. i \in 1..Len(s) /\ s[i] = n
    BY <1>2, ListFacts DEF PlaceOf, Contains
  <2>2. t = RemoveAt(s, i)
    BY <1>2 DEF Erase
  <2>. HIDE DEF i, t
  <2>3. /\ t \in Seq(S) /\ Len(t) = Len(s) - 1 /\ Len(s) \in Nat
        /\ DOMAIN t = 1..(Len(s) - 1) /\ DOMAIN s = 1..Len(s)
        /\ \A j \in 1..(Len(s) - 1) : t[j] = IF j < i THEN s[j] ELSE s[j + 1]
    BY <2>1, <2>2, RemoveAtFacts, LenProperties
  <2>4. \A j \in 1..Len(s) : s[j] = n <=> j = i
    BY <2>1, <2>3 DEF Once
  <2>5. ASSUME NEW x, Contains(t, x)
        PROVE  Contains(s, x) /\ x # n
    BY <2>1, <2>3, <2>4, <2>5 DEF Contains
  <2>6. ASSUME NEW j \in 1..Len(s), j # i
        PROVE  Moved(j) \in 1..(Len(s) - 1) /\ t[Moved(j)] = s[j]
    <3>1. Moved(j) \in 1..(Len(s) - 1)
      BY <2>1, <2>3, <2>6
    <3>2. CASE j < i
      BY <2>3, <3>1, <3>2
    <3>3. CASE j > i
      <4>1. Moved(j) = j - 1 /\ ~(j - 1 < i) /\ (j - 1) + 1 = j
        BY <2>1, <3>3
      <4>. QED
        BY <2>3, <3>1, <4>1
    <3>. QED
      BY <2>1, <2>6, <3>2, <3>3
  <2>7. ASSUME NEW x, Contains(s, x), x # n
        PROVE  Contains(t, x)
    <3>1. PICK j \in 1..Len(s) : s[j] = x
      BY <2>7 DEF Contains
    <3>2. Moved(j) \in 1..(Len(s) - 1) /\ t[Moved(j)] = x
      BY <2>4, <2>6, <2>7, <3>1
    <3>. QED
      BY <2>3, <3>2 DEF Contains
  <2>8. ASSUME NEW x, NEW y, Before(s, x, y), x # n, y # n
        PROVE  Before(t, x, y)
    <3>1. PICK j \in 1..Len(s), k \in 1..Len(s) : j < k /\ s[j] = x /\ s[k] = y
      BY <2>3, <2>8 DEF Before
    <3>2. j # i /\ k # i
      BY <2>4, <2>8, <3>1
    <3>3. /\ Moved(j) \in 1..(Len(s) - 1) /\ t[Moved(j)] = x
          /\ Moved(k) \in 1..(Len(s) - 1) /\ t[Moved(k)] = y
      BY <2>6, <3>1, <3>2
    <3>4. Moved(j) < Moved(k)
      BY <2>1, <3>1, <3>2
    <3>. QED
      BY <2>3, <3>3, <3>4 DEF Before
  <2>9. Once(t)
    <3>. SUFFICES ASSUME NEW j \in 1..(Len(s) - 1), NEW k \in 1..(Len(s) - 1), t[j] = t[k]
                  PROVE  j = k
      BY <2>3 DEF Once
    <3>1. /\ t[j] = s[IF j < i THEN j ELSE j + 1] /\ t[k] = s[IF k < i THEN k ELSE k + 1]
          /\ (IF j < i THEN j ELSE j + 1) \in 1..Len(s)
          /\ (IF k < i THEN k ELSE k + 1) \in 1..Len(s)
      BY <2>3
    <3>2. (IF j < i THEN j ELSE j + 1) = (IF k < i THEN k ELSE k + 1)
      BY <2>3, <3>1 DEF Once
    <3>. QED
      BY <2>1, <3>2
  <2>. QED
    BY <2>3, <2>5, <2>7, <2>8, <2>9 DEF t
<1>. QED
  BY <1>1, <1>2

(* A new node goes behind the first one, and the others keep their order.  *)
LEMMA AddUnsortedFacts ==
    ASSUME NEW S, NEW s \in Seq(S), NEW n \in S, Once(s), ~Contains(s, n)
    PROVE  /\ AddUnsorted(s, n) \in Seq(S) /\ Once(AddUnsorted(s, n))
           /\ \A x : Contains(AddUnsorted(s, n), x) <=> Contains(s, x) \/ x = n
           /\ \A x, y : Before(s, x, y) => Before(AddUnsorted(s, n), x, y)
<1>. DEFINE t == AddUnsorted(s, n)
            Moved(j) == IF j = 1 THEN 1 ELSE j + 1
<1>1. /\ Len(s) \in Nat /\ DOMAIN s = 1..Len(s)
      /\ \A i \in 1..Len(s) : s[i] \in S /\ s[i] # n
      /\ s = <<>> <=> Len(s) = 0
  BY ListFacts
<1>2. CASE s = <<>>
  <2>1. t = <<n>> /\ t \in Seq(S) /\ Len(t) = 1 /\ t[1] = n /\ DOMAIN t = 1..1
    BY <1>2 DEF AddUnsorted
  <2>2. \A x : ~Contains(s, x) /\ \A y : ~Before(s, x, y)
    BY <1>1, <1>2 DEF Contains, Before
  <2>3. \A x : Contains(t, x) <=> x = n
    BY <2>1 DEF Contains
  <2>4. Once(t)
    BY <2>1 DEF Once
  <2>. HIDE DEF t
  <2>. QED
    BY <2>1, <2>2, <2>3, <2>4 DEF t
<1>3. CASE s # <<>>
  <2>1. /\ t \in Seq(S) /\ Len(t) = Len(s) + 1 /\ DOMAIN t = 1..(Len(s) + 1)
        /\ t[1] = s[1] /\ t[2] = n /\ \A j \in 3..(Len(s) + 1) : t[j] = s[j - 1]
    <3>. DEFINE a == SubSeq(s, 1, 1)
                b == SubSeq(s, 2, Len(s))
                ab == a \o <<n>>
    <3>1. t = ab \o b
      BY <1>3 DEF AddUnsorted, InsertAt
    <3>2. a \in Seq(S) /\ Len(a) = 1 /\ a[1] = s[1]
      BY <1>1, <1>3, SubSeqProperties
    <3>3. b \in Seq(S) /\ Len(b) = Len(s) - 1 /\ \A j \in 1..(Len(s) - 1) : b[j] = s[j + 1]
      BY <1>1, <1>3, SubSeqProperties
    <3>. HIDE DEF a, b, t
    <3>4. /\ ab \in Seq(S) /\ Len(ab) = 2
          /\ \A j \in 1..2 : ab[j] = IF j < 2 THEN a[j] ELSE n
      <4>1. <<n>> \in Seq(S) /\ Len(<<n>>) = 1 /\ <<n>>[1] = n
        OBVIOUS
      <4>2. /\ ab \in Seq(S) /\ Len(ab) = Len(a) + Len(<<n>>)
            /\ \A j \in 1..(Len(a) + Len(<<n>>)) :
                 ab[j] = IF j <= Len(a) THEN a[j] ELSE <<n>>[j - Len(a)]
        BY ONLY <3>2, <4>1, ConcatProperties
      <4>. HIDE DEF ab
      <4>. QED
        BY <3>2, <4>1, <4>2
    <3>. HIDE DEF ab
    <3>5. /\ t \in Seq(S) /\ Len(t) = Len(ab) + Len(b)
          /\ \A j \in 1..(Len(ab) + Len(b)) :
               t[j] = IF j <= Len(ab) THEN ab[j] ELSE b[j - Len(ab)]
      BY <3>1, <3>3, <3>4, ConcatProperties
    <3>6. /\ Len(t) = Len(s) + 1 /\ DOMAIN t = 1..(Len(s) + 1)
          /\ \A j \in 1..(Len(s) + 1) : t[j] = IF j <= 2 THEN ab[j] ELSE b[j - 2]
      BY <1>1, <3>3, <3>4, <3>5, LenProperties
    <3>7. t[1] = s[1] /\ t[2] = n
      BY <1>1, <1>3, <3>2, <3>4, <3>6
    <3>8. ASSUME NEW j \in 3..(Len(s) + 1)
          PROVE  t[j] = s[j - 1]
      <4>1. j - 2 \in 1..(Len(s) - 1) /\ (j - 2) + 1 = j - 1 /\ ~(j <= 2)
        BY <1>1
      <4>2. t[j] = b[j - 2]
        BY <1>1, <3>6, <4>1
      <4>. QED
        BY <3>3, <4>1, <4>2
    <3>. QED
      BY <3>5, <3>6, <3>7, <3>8
  <2>. HIDE DEF t
  <2>2. \A j \in 1..Len(s) : Moved(j) \in 1..(Len(s) + 1) /\ t[Moved(j)] = s[j]
    BY <1>1, <2>1
  <2>3. \A j \in 1..(Len(s) + 1) :
          (j = 2 /\ t[j] = n) \/ \E k \in 1..Len(s) : j = Moved(k) /\ t[j] = s[k]
    BY <1>1, <1>3, <2>1
  <2>4. \A x : Contains(t, x) <=> Contains(s, x) \/ x = n
    BY <1>1, <1>3, <2>1, <2>2, <2>3 DEF Contains
  <2>5. ASSUME NEW x, NEW y, Before(s, x, y)
        PROVE  Before(t, x, y)
    <3>1. PICK j \in 1..Len(s), k \in 1..Len(s) : j < k /\ s[j] = x /\ s[k] = y
      BY <1>1, <2>5 DEF Before
    <3>2. Moved(j) < Moved(k)
      BY <3>1
    <3>. QED
      BY <2>1, <2>2, <3>1, <3>2 DEF Before
  <2>6. Once(t)
    <3>. SUFFICES ASSUME NEW j \in 1..(Len(s) + 1), NEW k \in 1..(Len(s) + 1), t[j] = t[k]
                  PROVE  j = k
      BY <2>1 DEF Once
    <3>1. \A i, l \in 1..Len(s) : s[i] = s[l] => i = l
      BY <1>1 DEF Once
    <3>. QED
      BY <1>1, <2>3, <3>1
  <2>. QED
    BY <2>1, <2>4, <2>5, <2>6 DEF t
<1>. QED
  BY <1>2, <1>3

(* A walk begins at the first node, with all others behind it.             *)
LEMMA FirstFacts ==
    ASSUME NEW S, NEW s \in Seq(S), NEW r, r \notin S
    PROVE  /\ FirstOf(s, r) = r => \A x : ~Contains(s, x)
           /\ FirstOf(s, r) # r =>
                /\ Contains(s, FirstOf(s, r)) /\ FirstOf(s, r) \in S
                /\ \A x : Contains(s, x) => x = FirstOf(s, r) \/ Before(s, FirstOf(s, r), x)
<1>1. /\ Len(s) \in Nat /\ DOMAIN s = 1..Len(s)
      /\ \A i \in 1..Len(s) : s[i] \in S
      /\ s = <<>> <=> Len(s) = 0
  BY ListFacts
<1>2. CASE s = <<>>
  BY <1>1, <1>2 DEF FirstOf, Contains
<1>3. CASE s # <<>>
  <2>1. FirstOf(s, r) = s[1] /\ 1 \in 1..Len(s) /\ s[1] # r
    BY <1>1, <1>3 DEF FirstOf
  <2>2. ASSUME NEW x, Contains(s, x), x # s[1]
        PROVE  Before(s, s[1], x)
    BY <1>1, <2>1, <2>2 DEF Contains, Before
  <2>. QED
    BY <1>1, <2>1, <2>2 DEF Contains
<1>. QED
  BY <1>2, <1>3

(* The next node is right behind the one the walk leaves.                  *)
LEMMA NextFacts ==
    ASSUME NEW S, NEW s \in Seq(S), NEW r, r \notin S, NEW h, Once(s), Contains(s, h)
    PROVE  \/ NextOf(s, h, r) = r /\ \A x : ~Before(s, h, x)
           \/ /\ NextOf(s, h, r) # r /\ Contains(s, NextOf(s, h, r)) /\ NextOf(s, h, r) \in S
              /\ \A x : x = h \/ Before(s, x, h) => Before(s, x, NextOf(s, h, r))
              /\ \A x : Before(s, h, x) => x = NextOf(s, h, r) \/ Before(s, NextOf(s, h, r), x)
<1>1. /\ Len(s) \in Nat /\ DOMAIN s = 1..Len(s)
      /\ \A j \in 1..Len(s) : s[j] \in S
  BY ListFacts
<1>2. PICK i \in 1..Len(s) : i = PlaceOf(s, h) /\ s[i] = h
  BY <1>1 DEF PlaceOf, Contains
<1>3. NextOf(s, h, r) = IF i = Len(s) THEN r ELSE s[i + 1]
  BY <1>2 DEF NextOf
<1>4. \A j \in 1..Len(s) : s[j] = h <=> j = i
  BY <1>1, <1>2 DEF Once
<1>5. CASE i = Len(s)
  <2>1. NextOf(s, h, r) = r
    BY <1>3, <1>5
  <2>2. ASSUME NEW j \in 1..Len(s), NEW k \in 1..Len(s), j < k
        PROVE  s[j] # h
    <3>1. j # Len(s)
      <4>. DEFINE n == Len(s)
      <4>1. n \in Nat /\ j \in 1..n /\ k \in 1..n /\ j < k
        BY <1>1, <2>2
      <4>. HIDE DEF n
      <4>2. j # n
        BY ONLY <4>1
      <4>. QED
        BY <4>2 DEF n
    <3>. QED
      BY <1>4, <1>5, <3>1
  <2>. QED
    BY <1>1, <2>1, <2>2 DEF Before
<1>6. CASE i # Len(s)
  <2>1. i + 1 \in 1..Len(s) /\ NextOf(s, h, r) = s[i + 1] /\ s[i + 1] # r
    <3>1. i + 1 \in 1..Len(s)
      BY <1>1, <1>2, <1>6
    <3>2. NextOf(s, h, r) = s[i + 1]
      BY <1>3, <1>6
    <3>. QED
      BY <1>1, <3>1, <3>2
  <2>2. ASSUME NEW x, x = h \/ Before(s, x, h)
        PROVE  Before(s, x, s[i + 1])
    <3>1. PICK j \in 1..Len(s) : j <= i /\ s[j] = x
      BY <1>1, <1>2, <1>4, <2>2 DEF Before
    <3>2. j < i + 1
      BY <1>1, <1>2, <3>1
    <3>. QED
      BY <1>1, <2>1, <3>1, <3>2 DEF Before
  <2>3. ASSUME NEW x, Before(s, h, x), x # s[i + 1]
        PROVE  Before(s, s[i + 1], x)
    <3>1. PICK j \in 1..Len(s) : i < j /\ s[j] = x
      BY <1>1, <1>2, <1>4, <2>3 DEF Before
    <3>2. i + 1 < j
      BY <1>1, <1>2, <2>3, <3>1
    <3>. QED
      BY <1>1, <2>1, <3>1, <3>2 DEF Before
  <2>. QED
    BY <1>1, <2>1, <2>2, <2>3 DEF Contains
<1>. QED
  BY <1>5, <1>6

-----------------------------------------------------------------------------
(* The calls of a thread, and what they may look like.                     *)
Frame ==
    [op : {"send", "register", "unregister", "section", "destroy"},
     at : {"lock", "walk", "handler", "body"}, h : Handler \cup {Ring}, lock : Lock,
     ran : SUBSET Handler, must : SUBSET Handler]

Kind(f) ==
    /\ f.op = "send" => f.at \in {"lock", "walk", "handler"} /\ f.lock = "event"
    /\ f.op \in {"register", "unregister"} =>
         f.at = "lock" /\ f.lock = "event" /\ f.h \in Handler
    /\ f.op = "section" => f.at \in {"lock", "body"} /\ f.lock \in {"core", "sip"}
    /\ f.op = "destroy" => f.at = "lock" /\ f.lock = "event"

(* A call that another one is nested in runs a handler, or is in a section *)
(* of a lock with which the event is called.                               *)
Outer(f) ==
    \/ f.op = "send" /\ f.at = "handler"
    \/ f.op = "section" /\ f.at = "body" /\ f.lock \in CallingLocks

(* TypeOK, and the types it leaves open.                                   *)
Shape ==
    /\ list \in Seq(Handler)
    /\ linked \in BOOLEAN
    /\ lockDead \in BOOLEAN
    /\ cleared \in [Handler -> Nat]
    /\ stack \in [Thread -> Seq(Frame)]
    /\ owner \in [Lock -> [by : Thread \cup {Nobody}, n : Nat]]
    /\ calls \in [Thread -> Nat]
    /\ \A t \in Thread : Len(stack[t]) <= MaxDepth

Nested ==
    \A t \in Thread : \A i \in 1..Len(stack[t]) :
        /\ Kind(stack[t][i])
        /\ i < Len(stack[t]) => Outer(stack[t][i])
        /\ stack[t][i].op = "section" /\ i > 1 => stack[t][i].lock \in HandlerLocks
        /\ stack[t][i].op = "destroy" => i = 1

(* Where a send stands in list l, when the handlers have been cleared as   *)
(* often as c says: it has run what is before its cursor, and what it must *)
(* still run is behind it.                                                 *)
Cursor(f, l, c) ==
    f.op = "send" =>
        /\ f.at = "lock" => f.ran = {}
        /\ \A x \in f.ran : Contains(l, x) \/ c[x] > 0
        /\ f.at # "lock" => \A x \in f.must : Contains(l, x)
        /\ f.at = "walk" /\ f.h = Ring => f.must \subseteq f.ran
        /\ f.at = "walk" /\ f.h # Ring =>
             /\ Contains(l, f.h)
             /\ \A x \in f.ran : Contains(l, x) => Before(l, x, f.h)
             /\ \A x \in f.must \ f.ran : x = f.h \/ Before(l, f.h, x)
        /\ f.at = "handler" =>
             /\ f.h # Ring /\ Contains(l, f.h) /\ f.h \in f.ran
             /\ \A x \in f.ran : Contains(l, x) => x = f.h \/ Before(l, x, f.h)
             /\ \A x \in f.must \ f.ran : Before(l, f.h, x)

Cursors ==
    \A t \in Thread : \A i \in 1..Len(stack[t]) : Cursor(stack[t][i], list, cleared)

(* A handler that is on its way into the list or out of it, which is one   *)
(* call's business alone; no send of the same thread stands on one that is *)
(* on its way out.                                                         *)
IsUpdate(f) == f.op \in {"register", "unregister"}

Updates ==
    /\ \A t \in Thread : \A i \in 1..Len(stack[t]) :
         LET f == stack[t][i] IN
         /\ f.op = "register" => ~Contains(list, f.h) /\ cleared[f.h] = 0
         /\ f.op = "unregister" =>
              /\ Contains(list, f.h)
              /\ \A j \in 1..Len(stack[t]) :
                   stack[t][j].op = "send" => stack[t][j].h # f.h
    /\ \A t, u \in Thread : t # u =>
         \A i \in 1..Len(stack[t]), j \in 1..Len(stack[u]) :
             IsUpdate(stack[t][i]) /\ IsUpdate(stack[u][j]) => stack[t][i].h # stack[u][j].h

(* From the time the event is unlinked the one call about it is the one    *)
(* that destroys it, and after that there is none.                         *)
Stages ==
    /\ lockDead => ~linked /\ list = <<>>
    /\ \A t \in Thread : \A i \in 1..Len(stack[t]) :
         /\ ~linked /\ stack[t][i].lock = "event" => stack[t][i].op = "destroy"
         /\ stack[t][i].op = "destroy" => ~linked /\ ~lockDead
    /\ \A t, u \in Thread : t # u =>
         \A i \in 1..Len(stack[t]), j \in 1..Len(stack[u]) :
             ~(stack[t][i].op = "destroy" /\ stack[u][j].op = "destroy")

(* A handler is in the list and not cleared, or out of it and cleared once *)
(* at most; those of the start are not lost.                               *)
Clears ==
    /\ Once(list)
    /\ \A h \in Handler : cleared[h] <= IF Contains(list, h) THEN 0 ELSE 1
    /\ \A h \in Handler : Contains(Initial, h) => Contains(list, h) \/ cleared[h] = 1

(* The calls of a thread that are between taking a lock and giving it back.*)
Holds(f, l) ==
    \/ l = "event" /\ f.op = "send" /\ f.at \in {"walk", "handler"}
    \/ f.op = "section" /\ f.at = "body" /\ f.lock = l
    \/ f.op = "destroy" /\ l = "core"

Holding(t, l) == {i \in 1..Len(stack[t]) : Holds(stack[t][i], l)}

(* The owner of a lock is the thread with calls that hold it, and the lock *)
(* counts them.                                                            *)
Locks ==
    \A l \in Lock :
        /\ owner[l].by = Nobody => owner[l].n = 0
        /\ \A t \in Thread :
             /\ Holding(t, l) # {} => owner[l].by = t
             /\ owner[l].by = t => /\ owner[l].n = Cardinality(Holding(t, l))
                                   /\ owner[l].n > 0

IInv ==
    /\ Shape
    /\ Nested
    /\ Cursors
    /\ Updates
    /\ Stages
    /\ Clears
    /\ Locks

-----------------------------------------------------------------------------
(* What a pop and a change of the last element do to a sequence.           *)
LEMMA FrontFacts ==
    ASSUME NEW S, NEW s \in Seq(S), s # <<>>
    PROVE  /\ Len(s) \in Nat /\ Len(s) > 0 /\ Front(s) \in Seq(S)
           /\ Len(Front(s)) = Len(s) - 1
           /\ \A i \in 1..(Len(s) - 1) : Front(s)[i] = s[i]
<1>1. Len(s) \in Nat /\ Len(s) > 0 /\ \A i \in 1..Len(s) : s[i] \in S
  BY EmptySeq, LenProperties, ElementOfSeq
<1>2. PICK m \in Nat : m = Len(s) - 1
  BY <1>1
<1>3. Front(s) = SubSeq(s, 1, m)
  BY <1>2 DEF Front
<1>4. \A i \in 1..m : s[i] \in S
  BY <1>1, <1>2
<1>5. /\ SubSeq(s, 1, m) \in Seq(S)
      /\ Len(SubSeq(s, 1, m)) = IF 1 <= m THEN m - 1 + 1 ELSE 0
      /\ \A i \in 1..(m - 1 + 1) : SubSeq(s, 1, m)[i] = s[1 + i - 1]
  BY <1>4, SubSeqProperties
<1>6. /\ (IF 1 <= m THEN m - 1 + 1 ELSE 0) = m
      /\ \A i \in 1..m : i \in 1..(m - 1 + 1) /\ 1 + i - 1 = i
  BY ONLY <1>2
<1>7. /\ Len(SubSeq(s, 1, m)) = m
      /\ \A i \in 1..m : SubSeq(s, 1, m)[i] = s[i]
  BY <1>5, <1>6
<1>. QED
  BY <1>1, <1>2, <1>3, <1>5, <1>7

(* Only the last element changes.                                          *)
LEMMA ReplaceLastFacts ==
    ASSUME NEW S, NEW s \in Seq(S), s # <<>>, NEW c \in S
    PROVE  /\ Len(s) \in Nat /\ Len(s) > 0 /\ ReplaceAt(s, Len(s), c) \in Seq(S)
           /\ Len(ReplaceAt(s, Len(s), c)) = Len(s)
           /\ ReplaceAt(s, Len(s), c)[Len(s)] = c
           /\ \A i \in 1..(Len(s) - 1) : ReplaceAt(s, Len(s), c)[i] = s[i]
<1>1. Len(s) \in Nat /\ Len(s) > 0
  BY EmptySeq, LenProperties
<1>2. PICK n \in Nat \ {0} : n = Len(s)
  BY <1>1
<1>3. n \in 1..n /\ \A i \in 1..(n - 1) : i \in 1..n /\ i # n
  BY <1>2
<1>4. /\ [s EXCEPT ![n] = c] \in Seq(S)
      /\ Len([s EXCEPT ![n] = c]) = Len(s)
      /\ \A i \in 1..Len(s) : [s EXCEPT ![n] = c][i] = IF i = n THEN c ELSE s[i]
  BY <1>2, <1>3, ExceptSeq
<1>. QED
  BY <1>1, <1>2, <1>3, <1>4 DEF ReplaceAt

(* What a push, a pop and a change of the innermost call do to the stacks. *)
LEMMA PushFacts ==
    ASSUME stack \in [Thread -> Seq(Frame)], NEW t \in Thread, NEW c \in Frame, Push(t, c)
    PROVE  /\ stack' \in [Thread -> Seq(Frame)]
           /\ Len(stack[t]) \in Nat /\ Len(stack'[t]) = Len(stack[t]) + 1
           /\ stack'[t][Len(stack[t]) + 1] = c
           /\ \A i \in 1..Len(stack[t]) : stack'[t][i] = stack[t][i]
           /\ \A u \in Thread : u # t => stack'[u] = stack[u]
<1>1. PICK s \in Seq(Frame) : s = stack[t]
  OBVIOUS
<1>2. /\ Append(s, c) \in Seq(Frame)
      /\ Len(Append(s, c)) = Len(s) + 1
      /\ \A i \in 1..Len(s) : Append(s, c)[i] = s[i]
      /\ Append(s, c)[Len(s) + 1] = c
  BY AppendProperties
<1>3. stack' = [stack EXCEPT ![t] = Append(s, c)]
  BY <1>1 DEF Push
<1>. QED
  BY <1>1, <1>2, <1>3, LenProperties

(* The innermost call returns.                                             *)
LEMMA PopFacts ==
    ASSUME stack \in [Thread -> Seq(Frame)], NEW t \in Thread, stack[t] # <<>>, Pop(t)
    PROVE  /\ stack' \in [Thread -> Seq(Frame)]
           /\ Len(stack[t]) \in Nat /\ Len(stack[t]) > 0 /\ Len(stack'[t]) = Len(stack[t]) - 1
           /\ \A i \in 1..(Len(stack[t]) - 1) : stack'[t][i] = stack[t][i]
           /\ \A u \in Thread : u # t => stack'[u] = stack[u]
<1>1. PICK s \in Seq(Frame) : s = stack[t]
  OBVIOUS
<1>2. stack' = [stack EXCEPT ![t] = Front(s)]
  BY <1>1 DEF Pop
<1>3. /\ Len(s) \in Nat /\ Len(s) > 0 /\ Front(s) \in Seq(Frame)
      /\ Len(Front(s)) = Len(s) - 1
      /\ \A i \in 1..(Len(s) - 1) : Front(s)[i] = s[i]
  BY <1>1, FrontFacts
<1>. QED
  BY <1>1, <1>2, <1>3

(* The innermost call goes on.                                             *)
LEMMA BecomeFacts ==
    ASSUME stack \in [Thread -> Seq(Frame)], NEW t \in Thread, stack[t] # <<>>,
           NEW c \in Frame, Become(t, c)
    PROVE  /\ stack' \in [Thread -> Seq(Frame)]
           /\ Len(stack[t]) \in Nat /\ Len(stack[t]) > 0 /\ Len(stack'[t]) = Len(stack[t])
           /\ stack'[t][Len(stack[t])] = c
           /\ \A i \in 1..(Len(stack[t]) - 1) : stack'[t][i] = stack[t][i]
           /\ \A u \in Thread : u # t => stack'[u] = stack[u]
<1>1. PICK s \in Seq(Frame) : s = stack[t]
  OBVIOUS
<1>2. stack' = [stack EXCEPT ![t] = ReplaceAt(s, Len(s), c)]
  BY <1>1 DEF Become
<1>3. /\ Len(s) \in Nat /\ Len(s) > 0 /\ ReplaceAt(s, Len(s), c) \in Seq(Frame)
      /\ Len(ReplaceAt(s, Len(s), c)) = Len(s)
      /\ ReplaceAt(s, Len(s), c)[Len(s)] = c
      /\ \A i \in 1..(Len(s) - 1) : ReplaceAt(s, Len(s), c)[i] = s[i]
  <2>1. s # <<>> /\ s \in Seq(Frame) /\ c \in Frame
    BY <1>1
  <2>. QED
    BY ONLY <2>1, ReplaceLastFacts
<1>. QED
  BY <1>1, <1>2, <1>3

(* The innermost call of a thread.                                         *)
LEMMA TopFacts ==
    ASSUME stack \in [Thread -> Seq(Frame)], NEW t \in Thread, stack[t] # <<>>
    PROVE  /\ Len(stack[t]) \in Nat /\ Len(stack[t]) \in 1..Len(stack[t])
           /\ Top(t) = stack[t][Len(stack[t])] /\ Top(t) \in Frame
<1>1. PICK s \in Seq(Frame) : s = stack[t]
  OBVIOUS
<1>2. Len(s) \in Nat /\ Len(s) > 0
  BY <1>1, EmptySeq, LenProperties
<1>3. Len(s) \in 1..Len(s)
  BY <1>2
<1>4. s[Len(s)] \in Frame
  BY <1>3, ElementOfSeq
<1>. QED
  BY <1>1, <1>2, <1>3, <1>4 DEF Top, Last

(* A step in which a thread's innermost call returns; the others stay what *)
(* they are, though a send may have fewer handlers left that it must run.  *)
Same(f, g) ==
    /\ f.op = g.op /\ f.at = g.at /\ f.h = g.h /\ f.lock = g.lock /\ f.ran = g.ran
    /\ f.must \subseteq g.must

Popped(t) ==
    /\ stack' \in [Thread -> Seq(Frame)]
    /\ Len(stack[t]) \in Nat /\ Len(stack[t]) > 0 /\ Len(stack'[t]) = Len(stack[t]) - 1
    /\ \A u \in Thread : u # t => Len(stack'[u]) = Len(stack[u])
    /\ \A u \in Thread : \A i \in 1..Len(stack'[u]) :
         /\ i \in 1..Len(stack[u]) /\ (u = t => i < Len(stack[t]))
         /\ Same(stack'[u][i], stack[u][i])

(* A pop is such a step.                                                   *)
LEMMA PopIsPopped ==
    ASSUME stack \in [Thread -> Seq(Frame)], NEW t \in Thread, stack[t] # <<>>, Pop(t)
    PROVE  Popped(t)
<1>1. PICK n \in Nat : n = Len(stack[t]) /\ n > 0
  BY PopFacts
<1>2. /\ stack' \in [Thread -> Seq(Frame)]
      /\ Len(stack'[t]) = n - 1
      /\ \A i \in 1..(n - 1) : stack'[t][i] = stack[t][i]
      /\ \A u \in Thread : u # t => stack'[u] = stack[u]
  BY <1>1, PopFacts
<1>3. \A i \in 1..(n - 1) : i \in 1..n /\ i < n
  BY <1>1
<1>4. \A u \in Thread : \A i \in 1..Len(stack'[u]) :
        /\ i \in 1..Len(stack[u]) /\ (u = t => i < Len(stack[t]))
        /\ stack'[u][i] = stack[u][i]
  BY <1>1, <1>2, <1>3
<1>. QED
  BY <1>1, <1>2, <1>4 DEF Popped, Same

-----------------------------------------------------------------------------
(* Which calls hold a lock after a push, a pop and a change.               *)
LEMMA HoldingPush ==
    ASSUME stack \in [Thread -> Seq(Frame)], NEW t \in Thread, NEW c \in Frame, Push(t, c)
    PROVE  \A u \in Thread, l \in Lock :
             Holding(u, l)' = IF u = t /\ Holds(c, l) THEN Holding(t, l) \cup {Len(stack[t]) + 1}
                              ELSE Holding(u, l)
<1>1. PICK n \in Nat : n = Len(stack[t])
  BY PushFacts
<1>2. /\ Len(stack'[t]) = n + 1 /\ stack'[t][n + 1] = c
      /\ \A i \in 1..n : stack'[t][i] = stack[t][i]
      /\ \A u \in Thread : u # t => stack'[u] = stack[u]
  BY <1>1, PushFacts
<1>3. ASSUME NEW l \in Lock
      PROVE  Holding(t, l)' = {i \in 1..(n + 1) : Holds(stack'[t][i], l)}
  BY <1>2 DEF Holding
<1>4. ASSUME NEW l \in Lock
      PROVE  Holding(t, l) = {i \in 1..n : Holds(stack[t][i], l)}
  BY <1>1 DEF Holding
<1>5. ASSUME NEW l \in Lock
      PROVE  Holding(t, l)' = IF Holds(c, l) THEN Holding(t, l) \cup {n + 1} ELSE Holding(t, l)
  <2>1. \A i : i \in 1..(n + 1) <=> i \in 1..n \/ i = n + 1
    OBVIOUS
  <2>2. \A i \in 1..n : i # n + 1
    OBVIOUS
  <2>3. \A i : i \in Holding(t, l)' <=> i \in Holding(t, l) \/ (i = n + 1 /\ Holds(c, l))
    BY <1>2, <1>3, <1>4, <2>1, <2>2
  <2>. QED
    BY <2>3
<1>6. ASSUME NEW u \in Thread, NEW l \in Lock, u # t
      PROVE  Holding(u, l)' = Holding(u, l)
  BY <1>2, <1>6 DEF Holding
<1>. QED
  BY <1>1, <1>5, <1>6

(* The call that returns no longer holds what it held.                     *)
LEMMA HoldingPop ==
    ASSUME stack \in [Thread -> Seq(Frame)], NEW t \in Thread, Popped(t)
    PROVE  /\ Len(stack[t]) \in 1..Len(stack[t])
           /\ \A u \in Thread, l \in Lock :
                Holding(u, l)' = IF u = t THEN Holding(t, l) \ {Len(stack[t])} ELSE Holding(u, l)
<1>1. PICK n \in Nat : n = Len(stack[t]) /\ n > 0
  BY DEF Popped
<1>2. /\ Len(stack'[t]) = n - 1
      /\ \A u \in Thread : u # t => Len(stack'[u]) = Len(stack[u])
  BY <1>1 DEF Popped
<1>3. ASSUME NEW l \in Lock, NEW u \in Thread, NEW i \in 1..Len(stack'[u])
      PROVE  Holds(stack'[u][i], l) <=> Holds(stack[u][i], l)
  BY DEF Holds, Popped, Same
<1>4. ASSUME NEW l \in Lock
      PROVE  Holding(t, l)' = Holding(t, l) \ {n}
  <2>1. \A i : i \in 1..(n - 1) <=> i \in 1..n /\ i # n
    BY <1>1
  <2>2. \A i : i \in Holding(t, l)' <=> i \in 1..(n - 1) /\ Holds(stack'[t][i], l)
    BY <1>2 DEF Holding
  <2>3. \A i : i \in Holding(t, l) <=> i \in 1..n /\ Holds(stack[t][i], l)
    BY <1>1 DEF Holding
  <2>4. \A i : i \in Holding(t, l)' <=> i \in Holding(t, l) /\ i # n
    BY <1>2, <1>3, <2>1, <2>2, <2>3
  <2>. QED
    BY <2>4
<1>5. ASSUME NEW u \in Thread, NEW l \in Lock, u # t
      PROVE  Holding(u, l)' = Holding(u, l)
  BY <1>2, <1>3, <1>5 DEF Holding
<1>6. n \in 1..n
  BY <1>1
<1>. QED
  BY <1>1, <1>4, <1>5, <1>6

(* The call that goes on holds what it holds from now on.                  *)
LEMMA HoldingBecome ==
    ASSUME stack \in [Thread -> Seq(Frame)], NEW t \in Thread, stack[t] # <<>>,
           NEW c \in Frame, Become(t, c)
    PROVE  \A u \in Thread, l \in Lock :
             Holding(u, l)' = IF u # t THEN Holding(u, l)
                              ELSE IF Holds(c, l) THEN Holding(t, l) \cup {Len(stack[t])}
                              ELSE Holding(t, l) \ {Len(stack[t])}
<1>1. PICK n \in Nat : n = Len(stack[t]) /\ n > 0
  BY BecomeFacts
<1>2. /\ Len(stack'[t]) = n /\ stack'[t][n] = c
      /\ \A i \in 1..(n - 1) : stack'[t][i] = stack[t][i]
      /\ \A u \in Thread : u # t => stack'[u] = stack[u]
  BY <1>1, BecomeFacts
<1>3. ASSUME NEW l \in Lock
      PROVE  Holding(t, l)' = {i \in 1..n : Holds(stack'[t][i], l)}
  BY <1>2 DEF Holding
<1>4. ASSUME NEW l \in Lock
      PROVE  Holding(t, l) = {i \in 1..n : Holds(stack[t][i], l)}
  BY <1>1 DEF Holding
<1>5. ASSUME NEW l \in Lock
      PROVE  Holding(t, l)' = IF Holds(c, l) THEN Holding(t, l) \cup {n} ELSE Holding(t, l) \ {n}
  <2>1. n \in 1..n /\ \A i \in 1..n : i # n => i \in 1..(n - 1)
    BY <1>1
  <2>2. \A i \in 1..n : i # n => stack'[t][i] = stack[t][i]
    BY <1>2, <2>1
  <2>. QED
    BY <1>2, <1>3, <1>4, <2>1, <2>2
<1>6. ASSUME NEW u \in Thread, NEW l \in Lock, u # t
      PROVE  Holding(u, l)' = Holding(u, l)
  BY <1>2, <1>6 DEF Holding
<1>. QED
  BY <1>1, <1>5, <1>6

(* A lock is taken by a call that did not hold it, and given back by one   *)
(* that did.                                                               *)
LEMMA FiniteHolding ==
    ASSUME stack \in [Thread -> Seq(Frame)]
    PROVE  \A t \in Thread, l \in Lock :
             IsFiniteSet(Holding(t, l)) /\ Cardinality(Holding(t, l)) \in Nat
<1>. SUFFICES ASSUME NEW t \in Thread, NEW l \in Lock
              PROVE  IsFiniteSet(Holding(t, l)) /\ Cardinality(Holding(t, l)) \in Nat
  OBVIOUS
<1>1. PICK n \in Nat : n = Len(stack[t])
  BY LenProperties
<1>2. IsFiniteSet(1..n)
  BY FS_Interval
<1>3. Holding(t, l) \subseteq 1..n
  BY <1>1 DEF Holding
<1>. QED
  BY <1>2, <1>3, FS_Subset, FS_CardinalityType

(* Taking a lock: one call more holds it, and it counts one more.          *)
LEMMA LockTaken ==
    ASSUME EventAssumption, stack \in [Thread -> Seq(Frame)],
           owner \in [Lock -> [by : Thread \cup {Nobody}, n : Nat]], Locks,
           NEW t \in Thread, NEW l \in Lock, NEW k, Acquire(l, t),
           k \notin Holding(t, l), Holding(t, l)' = Holding(t, l) \cup {k},
           \A u \in Thread, m \in Lock : u # t \/ m # l => Holding(u, m)' = Holding(u, m)
    PROVE  owner' \in [Lock -> [by : Thread \cup {Nobody}, n : Nat]] /\ Locks'
<1>1. /\ owner[l].by \in {Nobody, t} /\ owner[l].n \in Nat
      /\ owner' = [owner EXCEPT ![l] = [by |-> t, n |-> owner[l].n + 1]]
  BY DEF Acquire, Free
<1>2. /\ owner'[l].by = t /\ owner'[l].n = owner[l].n + 1
      /\ \A m \in Lock : m # l => owner'[m] = owner[m]
  BY <1>1
<1>3. Cardinality(Holding(t, l)') = Cardinality(Holding(t, l)) + 1
  <2>1. IsFiniteSet(Holding(t, l)) /\ k \notin Holding(t, l)
    BY FiniteHolding
  <2>2. Cardinality(Holding(t, l) \cup {k}) = Cardinality(Holding(t, l)) + 1
    BY <2>1, FS_AddElement
  <2>. QED
    BY <2>2
<1>4. owner[l].n = Cardinality(Holding(t, l))
  <2>1. CASE owner[l].by = t
    BY <2>1 DEF Locks
  <2>2. CASE owner[l].by = Nobody
    <3>1. Holding(t, l) = {} /\ owner[l].n = 0
      BY <2>2 DEF Locks, EventAssumption
    <3>. QED
      BY <3>1, FS_EmptySet
  <2>. QED
    BY <1>1, <2>1, <2>2
<1>5. owner' \in [Lock -> [by : Thread \cup {Nobody}, n : Nat]]
  BY <1>1
<1>6. ASSUME NEW m \in Lock
      PROVE  owner'[m].by = Nobody => owner'[m].n = 0
  BY <1>2, <1>6 DEF Locks, EventAssumption
<1>7. ASSUME NEW m \in Lock, NEW u \in Thread
      PROVE  /\ Holding(u, m)' # {} => owner'[m].by = u
             /\ owner'[m].by = u =>
                  owner'[m].n = Cardinality(Holding(u, m)') /\ owner'[m].n > 0
  <2>1. CASE m # l
    BY <1>2, <2>1 DEF Locks
  <2>2. CASE m = l /\ u = t
    <3>1. owner'[l].n = Cardinality(Holding(t, l)') /\ owner'[l].n > 0
      BY <1>1, <1>2, <1>3, <1>4
    <3>. QED
      BY <1>2, <2>2, <3>1
  <2>3. CASE m = l /\ u # t
    <3>1. Holding(u, m) = {}
      BY <1>1, <2>3 DEF Locks, EventAssumption
    <3>. QED
      BY <1>2, <2>3, <3>1
  <2>. QED
    BY <2>1, <2>2, <2>3
<1>. QED
  BY <1>5, <1>6, <1>7 DEF Locks

(* Giving a lock back: one call less holds it, and the last one frees it.  *)
LEMMA LockGivenBack ==
    ASSUME EventAssumption, stack \in [Thread -> Seq(Frame)],
           owner \in [Lock -> [by : Thread \cup {Nobody}, n : Nat]], Locks,
           NEW t \in Thread, NEW l \in Lock, NEW k, Release(l),
           k \in Holding(t, l), Holding(t, l)' = Holding(t, l) \ {k},
           \A u \in Thread, m \in Lock : u # t \/ m # l => Holding(u, m)' = Holding(u, m)
    PROVE  owner' \in [Lock -> [by : Thread \cup {Nobody}, n : Nat]] /\ Locks'
<1>1. /\ owner[l].by = t /\ owner[l].n \in Nat /\ owner[l].n > 0
      /\ owner[l].n = Cardinality(Holding(t, l))
  BY DEF Locks
<1>2. /\ owner[l] \in [by : Thread \cup {Nobody}, n : Nat]
      /\ owner' = [owner EXCEPT ![l] =
                IF owner[l].n = 1 THEN [by |-> Nobody, n |-> 0]
                ELSE [by |-> owner[l].by, n |-> owner[l].n - 1]]
  <2>1. owner[l] \in [by : Thread \cup {Nobody}, n : Nat]
    OBVIOUS
  <2>. QED
    BY <2>1, Zenon DEF Release
<1>3. /\ owner'[l] = IF owner[l].n = 1 THEN [by |-> Nobody, n |-> 0]
                     ELSE [by |-> owner[l].by, n |-> owner[l].n - 1]
      /\ \A m \in Lock : m # l => owner'[m] = owner[m]
  BY <1>2
<1>4. /\ owner'[l].by = IF owner[l].n = 1 THEN Nobody ELSE t
      /\ owner'[l].n = owner[l].n - 1
      /\ owner'[l] \in [by : Thread \cup {Nobody}, n : Nat]
  <2>1. PICK o \in [by : Thread \cup {Nobody}, n : Nat] : o = owner[l]
    BY <1>2
  <2>2. o.n \in Nat /\ o.n > 0 /\ o.by = t
    BY <1>1, <2>1
  <2>3. CASE o.n = 1
    <3>1. owner'[l] = [by |-> Nobody, n |-> 0]
      BY <1>3, <2>1, <2>3
    <3>. QED
      BY <2>1, <2>3, <3>1
  <2>4. CASE o.n # 1
    <3>1. owner'[l] = [by |-> o.by, n |-> o.n - 1]
      BY <1>3, <2>1, <2>4
    <3>2. o.n - 1 \in Nat
      BY <2>2
    <3>. QED
      BY <2>1, <2>2, <2>4, <3>1, <3>2
  <2>. QED
    BY <2>3, <2>4
<1>5. /\ Cardinality(Holding(t, l)') = Cardinality(Holding(t, l)) - 1
      /\ IsFiniteSet(Holding(t, l)')
  <2>1. IsFiniteSet(Holding(t, l)) /\ k \in Holding(t, l)
    BY FiniteHolding
  <2>2. /\ Cardinality(Holding(t, l) \ {k}) = Cardinality(Holding(t, l)) - 1
        /\ IsFiniteSet(Holding(t, l) \ {k})
    BY <2>1, FS_RemoveElement
  <2>. QED
    BY <2>2
<1>6. owner' \in [Lock -> [by : Thread \cup {Nobody}, n : Nat]]
  BY <1>2, <1>4
<1>7. ASSUME NEW m \in Lock
      PROVE  owner'[m].by = Nobody => owner'[m].n = 0
  <2>1. CASE m # l
    <3>1. owner'[m] = owner[m]
      BY <1>3, <2>1
    <3>. QED
      BY <3>1 DEF Locks
  <2>2. CASE m = l
    <3>1. owner'[l].by = Nobody => owner[l].n = 1
      BY <1>4 DEF EventAssumption
    <3>2. owner[l].n = 1 => owner'[l].n = 0
      BY <1>4
    <3>. QED
      BY <2>2, <3>1, <3>2
  <2>. QED
    BY <2>1, <2>2
<1>8. ASSUME NEW m \in Lock, NEW u \in Thread
      PROVE  /\ Holding(u, m)' # {} => owner'[m].by = u
             /\ owner'[m].by = u =>
                  owner'[m].n = Cardinality(Holding(u, m)') /\ owner'[m].n > 0
  <2>1. CASE m # l
    BY <1>3, <2>1 DEF Locks
  <2>2. CASE m = l /\ u = t
    <3>1. PICK q \in Nat : q = Cardinality(Holding(t, l)') /\ owner[l].n = q + 1
      BY <1>1, <1>5, FS_CardinalityType
    <3>2. q = 0 => Holding(t, l)' = {}
      BY <1>5, <3>1, FS_EmptySet
    <3>3. t # Nobody
      BY DEF EventAssumption
    <3>4. /\ owner'[l].by = (IF q = 0 THEN Nobody ELSE t)
          /\ owner'[l].n = q
      BY <1>4, <3>1
    <3>5. /\ Holding(t, l)' # {} => owner'[l].by = t
          /\ owner'[l].by = t => owner'[l].n = Cardinality(Holding(t, l)') /\ owner'[l].n > 0
      BY <3>1, <3>2, <3>3, <3>4
    <3>. QED
      BY <2>2, <3>5
  <2>3. CASE m = l /\ u # t
    <3>1. Holding(u, m) = {}
      BY <1>1, <2>3 DEF Locks, EventAssumption
    <3>2. Holding(u, m)' = {}
      BY <2>3, <3>1
    <3>. QED
      BY <1>4, <2>3, <3>2 DEF EventAssumption
  <2>. QED
    BY <2>1, <2>2, <2>3
<1>. QED
  BY <1>6, <1>7, <1>8 DEF Locks

(* Nothing is taken or given back.                                         *)
LEMMA LocksKept ==
    ASSUME Locks, UNCHANGED owner,
           \A u \in Thread, m \in Lock : Holding(u, m)' = Holding(u, m)
    PROVE  Locks'
  BY DEF Locks

-----------------------------------------------------------------------------
(* A call starts in a thread without calls or within one that others are   *)
(* nested in.                                                              *)
LEMMA CallerIsOuter ==
    ASSUME Shape, Nested, NEW t \in Thread, MayCall(t)
    PROVE  \A i \in 1..Len(stack[t]) : Outer(stack[t][i])
<1>. SUFFICES ASSUME NEW i \in 1..Len(stack[t])
              PROVE  Outer(stack[t][i])
  OBVIOUS
<1>1. stack \in [Thread -> Seq(Frame)] /\ stack[t] \in Seq(Frame)
  BY DEF Shape
<1>2. stack[t] # <<>> /\ Len(stack[t]) \in Nat
  BY <1>1, EmptySeq, LenProperties
<1>3. CASE i = Len(stack[t])
  BY <1>1, <1>2, <1>3, TopFacts DEF MayCall, IsAt, Outer
<1>4. CASE i # Len(stack[t])
  <2>1. i < Len(stack[t])
    BY <1>2, <1>4
  <2>. QED
    BY <2>1 DEF Nested
<1>. QED
  BY <1>3, <1>4

(* The handlers of the calls that register or unregister one.              *)
LEMMA PendingFacts ==
    ASSUME Shape, NEW u \in Thread, NEW j \in 1..Len(stack[u]), IsUpdate(stack[u][j])
    PROVE  stack[u][j].h \in Pending
<1>1. stack[u] \in Seq(Frame)
  BY DEF Shape
<1>2. j \in DOMAIN stack[u]
  BY <1>1, LenProperties
<1>3. stack[u][j] \in Calls
  BY <1>2 DEF Calls
<1>. QED
  BY <1>3 DEF Pending, IsUpdate

(* A call that starts, but for one that destroys the event, keeps the      *)
(* invariant.                                                              *)
LEMMA PushKeepsIInv ==
    ASSUME EventAssumption, IInv, NEW t \in Thread, NEW c \in Frame,
           MayCall(t), Push(t, c), Started(t),
           UNCHANGED <<list, linked, lockDead, cleared, owner>>,
           Kind(c), c.at = "lock", c.op # "destroy",
           c.op = "section" /\ stack[t] # <<>> => c.lock \in HandlerLocks,
           c.op = "send" => c.ran = {},
           c.op = "register" => ~Contains(list, c.h) /\ cleared[c.h] = 0,
           c.op = "unregister" =>
             /\ Contains(list, c.h)
             /\ \A j \in 1..Len(stack[t]) : stack[t][j].op = "send" => stack[t][j].h # c.h,
           IsUpdate(c) => c.h \notin Pending,
           c.lock = "event" => linked
    PROVE  IInv'
<1>1. /\ list' = list /\ linked' = linked /\ lockDead' = lockDead
      /\ cleared' = cleared /\ owner' = owner
  OBVIOUS
<1>2. stack \in [Thread -> Seq(Frame)] /\ calls \in [Thread -> Nat]
  BY DEF IInv, Shape
<1>3. PICK n \in Nat : n = Len(stack[t])
  BY <1>2, PushFacts
<1>4. /\ stack' \in [Thread -> Seq(Frame)] /\ Len(stack'[t]) = n + 1 /\ stack'[t][n + 1] = c
      /\ \A i \in 1..n : stack'[t][i] = stack[t][i]
      /\ \A u \in Thread : u # t => stack'[u] = stack[u]
  BY <1>2, <1>3, PushFacts
<1>5. ASSUME NEW u \in Thread, NEW i \in 1..Len(stack'[u])
      PROVE  \/ u = t /\ i = n + 1 /\ stack'[u][i] = c
             \/ i \in 1..Len(stack[u]) /\ stack'[u][i] = stack[u][i]
  <2>1. CASE u = t
    <3>1. i = n + 1 \/ i \in 1..n
      BY <1>3, <1>4, <2>1
    <3>. QED
      BY <1>3, <1>4, <2>1, <3>1
  <2>2. CASE u # t
    BY <1>4, <2>2
  <2>. QED
    BY <2>1, <2>2
<1>6. \A i \in 1..n : Outer(stack[t][i])
  BY <1>3, CallerIsOuter DEF IInv
<1>7. n = 0 <=> stack[t] = <<>>
  BY <1>2, <1>3, EmptySeq
<1>8. Shape'
  <2>1. n + 1 <= MaxDepth
    BY <1>3 DEF MayCall, EventAssumption
  <2>2. calls' \in [Thread -> Nat]
    BY <1>2 DEF Started
  <2>. QED
    BY <1>1, <1>4, <2>1, <2>2 DEF IInv, Shape
<1>9. Nested'
  <2>1. ASSUME NEW u \in Thread, NEW i \in 1..Len(stack'[u])
        PROVE  /\ Kind(stack'[u][i])
               /\ i < Len(stack'[u]) => Outer(stack'[u][i])
               /\ stack'[u][i].op = "section" /\ i > 1 => stack'[u][i].lock \in HandlerLocks
               /\ stack'[u][i].op = "destroy" => i = 1
    <3>1. CASE u = t /\ i = n + 1 /\ stack'[u][i] = c
      BY <1>3, <1>4, <1>7, <3>1
    <3>2. CASE u = t /\ i \in 1..n /\ stack'[u][i] = stack[u][i]
      BY <1>3, <1>6, <3>2 DEF IInv, Nested
    <3>3. CASE u # t
      BY <1>4, <3>3 DEF IInv, Nested
    <3>. QED
      BY <1>3, <1>5, <2>1, <3>1, <3>2, <3>3
  <2>. QED
    BY <2>1 DEF Nested
<1>10. Cursors'
  <2>1. Cursor(c, list, cleared)
    BY DEF Cursor
  <2>2. \A u \in Thread : \A i \in 1..Len(stack'[u]) : Cursor(stack'[u][i], list, cleared)
    BY <1>5, <2>1 DEF IInv, Cursors
  <2>. QED
    BY <1>1, <2>2 DEF Cursors
<1>11. Updates'
  <2>1. ASSUME NEW u \in Thread, NEW i \in 1..Len(stack'[u])
        PROVE  LET f == stack'[u][i] IN
               /\ f.op = "register" => ~Contains(list', f.h) /\ cleared'[f.h] = 0
               /\ f.op = "unregister" =>
                    /\ Contains(list', f.h)
                    /\ \A j \in 1..Len(stack'[u]) :
                         stack'[u][j].op = "send" => stack'[u][j].h # f.h
    <3>1. CASE u = t /\ i = n + 1 /\ stack'[u][i] = c
      <4>1. \A j \in 1..Len(stack'[t]) :
               stack'[t][j].op = "send" /\ c.op = "unregister" => stack'[t][j].h # c.h
        BY <1>5
      <4>. QED
        BY <1>1, <3>1, <4>1
    <3>2. CASE u = t /\ i \in 1..n /\ stack'[u][i] = stack[u][i]
      BY <1>6, <3>2 DEF Outer
    <3>3. CASE u # t
      <4>1. stack'[u] = stack[u] /\ i \in 1..Len(stack[u])
        BY <1>4, <2>1, <3>3
      <4>2. LET f == stack[u][i] IN
            /\ f.op = "register" => ~Contains(list, f.h) /\ cleared[f.h] = 0
            /\ f.op = "unregister" =>
                 /\ Contains(list, f.h)
                 /\ \A j \in 1..Len(stack[u]) :
                      stack[u][j].op = "send" => stack[u][j].h # f.h
        BY <4>1 DEF IInv, Updates
      <4>. QED
        BY <1>1, <4>1, <4>2
    <3>. QED
      BY <1>3, <1>5, <2>1, <3>1, <3>2, <3>3
  <2>2. ASSUME NEW u \in Thread, NEW v \in Thread, u # v,
               NEW i \in 1..Len(stack'[u]), NEW j \in 1..Len(stack'[v]),
               IsUpdate(stack'[u][i]), IsUpdate(stack'[v][j])
        PROVE  stack'[u][i].h # stack'[v][j].h
    <3>1. CASE u = t /\ i = n + 1 /\ stack'[u][i] = c
      BY <1>4, <2>2, <3>1, PendingFacts DEF IInv
    <3>2. CASE v = t /\ j = n + 1 /\ stack'[v][j] = c
      BY <1>4, <2>2, <3>2, PendingFacts DEF IInv
    <3>3. CASE i \in 1..Len(stack[u]) /\ j \in 1..Len(stack[v])
               /\ stack'[u][i] = stack[u][i] /\ stack'[v][j] = stack[v][j]
      BY <2>2, <3>3 DEF IInv, Updates
    <3>. QED
      BY <1>5, <3>1, <3>2, <3>3
  <2>. QED
    BY <2>1, <2>2 DEF Updates
<1>12. Stages'
  <2>1. ASSUME NEW u \in Thread, NEW i \in 1..Len(stack'[u])
        PROVE  /\ ~linked' /\ stack'[u][i].lock = "event" => stack'[u][i].op = "destroy"
               /\ stack'[u][i].op = "destroy" => ~linked' /\ ~lockDead'
    BY <1>1, <1>5 DEF IInv, Stages
  <2>2. ASSUME NEW u \in Thread, NEW v \in Thread, u # v,
               NEW i \in 1..Len(stack'[u]), NEW j \in 1..Len(stack'[v])
        PROVE  ~(stack'[u][i].op = "destroy" /\ stack'[v][j].op = "destroy")
    <3>1. \A x, y \in Thread : x # y =>
            \A k \in 1..Len(stack[x]), m \in 1..Len(stack[y]) :
                ~(stack[x][k].op = "destroy" /\ stack[y][m].op = "destroy")
      BY DEF IInv, Stages
    <3>2. stack'[u][i].op = "destroy" => i \in 1..Len(stack[u]) /\ stack[u][i].op = "destroy"
      BY <1>5, <2>2
    <3>3. stack'[v][j].op = "destroy" => j \in 1..Len(stack[v]) /\ stack[v][j].op = "destroy"
      BY <1>5, <2>2
    <3>. QED
      BY <2>2, <3>1, <3>2, <3>3
  <2>. QED
    BY <1>1, <2>1, <2>2 DEF IInv, Stages
<1>13. Clears'
  BY <1>1 DEF IInv, Clears
<1>14. Locks'
  <2>1. \A l \in Lock : ~Holds(c, l)
    BY DEF Holds
  <2>2. \A u \in Thread, l \in Lock : Holding(u, l)' = Holding(u, l)
    BY <1>2, <2>1, HoldingPush
  <2>. QED
    BY <1>1, <2>2, LocksKept DEF IInv
<1>. QED
  BY <1>8, <1>9, <1>10, <1>11, <1>12, <1>13, <1>14 DEF IInv

(* A send or a section that goes on keeps the invariant, if it keeps the   *)
(* cursor and the locks.                                                   *)
LEMMA BecomeKeepsIInv ==
    ASSUME EventAssumption, IInv, NEW t \in Thread, stack[t] # <<>>, NEW c \in Frame,
           Become(t, c), UNCHANGED <<list, linked, lockDead, cleared, calls>>,
           c.op = Top(t).op, c.lock = Top(t).lock, c.op \in {"send", "section"},
           Kind(c), Cursor(c, list, cleared),
           owner' \in [Lock -> [by : Thread \cup {Nobody}, n : Nat]], Locks'
    PROVE  IInv'
<1>1. /\ list' = list /\ linked' = linked /\ lockDead' = lockDead
      /\ cleared' = cleared /\ calls' = calls
  OBVIOUS
<1>2. stack \in [Thread -> Seq(Frame)] /\ calls \in [Thread -> Nat]
  BY DEF IInv, Shape
<1>3. PICK n \in Nat : n = Len(stack[t]) /\ n > 0
  BY <1>2, BecomeFacts
<1>4. /\ stack' \in [Thread -> Seq(Frame)] /\ Len(stack'[t]) = n /\ stack'[t][n] = c
      /\ \A i \in 1..(n - 1) : stack'[t][i] = stack[t][i]
      /\ \A u \in Thread : u # t => stack'[u] = stack[u]
  BY <1>2, <1>3, BecomeFacts
<1>5. n \in 1..n /\ Top(t) = stack[t][n]
  BY <1>2, <1>3, TopFacts
<1>6. ASSUME NEW u \in Thread, NEW i \in 1..Len(stack'[u])
      PROVE  /\ i \in 1..Len(stack[u])
             /\ stack'[u][i].op = stack[u][i].op /\ stack'[u][i].lock = stack[u][i].lock
             /\ \/ u = t /\ i = n /\ stack'[u][i] = c
                \/ ~(u = t /\ i = n) /\ stack'[u][i] = stack[u][i]
             /\ Len(stack'[u]) = Len(stack[u])
  <2>1. CASE u = t
    <3>1. i = n \/ i \in 1..(n - 1)
      BY <1>3, <1>4, <2>1
    <3>2. i \in 1..n /\ (i \in 1..(n - 1) => i # n)
      BY <1>3, <1>4, <2>1
    <3>. QED
      BY <1>3, <1>4, <1>5, <2>1, <3>1, <3>2
  <2>2. CASE u # t
    BY <1>4, <2>2
  <2>. QED
    BY <2>1, <2>2
<1>7. Shape'
  BY <1>1, <1>2, <1>3, <1>4 DEF IInv, Shape
<1>8. Nested'
  <2>1. ASSUME NEW u \in Thread, NEW i \in 1..Len(stack'[u])
        PROVE  /\ Kind(stack'[u][i])
               /\ i < Len(stack'[u]) => Outer(stack'[u][i])
               /\ stack'[u][i].op = "section" /\ i > 1 => stack'[u][i].lock \in HandlerLocks
               /\ stack'[u][i].op = "destroy" => i = 1
    <3>1. /\ i \in 1..Len(stack[u]) /\ Kind(stack[u][i])
          /\ i < Len(stack[u]) => Outer(stack[u][i])
          /\ stack[u][i].op = "section" /\ i > 1 => stack[u][i].lock \in HandlerLocks
          /\ stack[u][i].op = "destroy" => i = 1
      BY <1>6, <2>1 DEF IInv, Nested
    <3>2. CASE u = t /\ i = n /\ stack'[u][i] = c
      BY <1>3, <1>4, <1>6, <3>1, <3>2
    <3>3. CASE stack'[u][i] = stack[u][i]
      BY <1>6, <3>1, <3>3
    <3>. QED
      BY <1>6, <3>2, <3>3
  <2>. QED
    BY <2>1 DEF Nested
<1>9. Cursors'
  <2>1. \A u \in Thread : \A i \in 1..Len(stack'[u]) : Cursor(stack'[u][i], list, cleared)
    BY <1>6 DEF IInv, Cursors
  <2>. QED
    BY <1>1, <2>1 DEF Cursors
<1>10. Updates'
  <2>1. ASSUME NEW u \in Thread, NEW i \in 1..Len(stack'[u]), IsUpdate(stack'[u][i])
        PROVE  u # t /\ i \in 1..Len(stack[u]) /\ stack'[u] = stack[u]
    <3>1. CASE u = t
      <4>1. i # n
        BY <1>4, <2>1, <3>1 DEF IsUpdate
      <4>2. i \in 1..Len(stack[t]) /\ i < Len(stack[t]) /\ stack'[t][i] = stack[t][i]
        BY <1>3, <1>6, <3>1, <4>1
      <4>3. Outer(stack[t][i])
        BY <4>2 DEF IInv, Nested
      <4>. QED
        BY <2>1, <3>1, <4>2, <4>3 DEF IsUpdate, Outer
    <3>2. CASE u # t
      BY <1>4, <1>6, <3>2
    <3>. QED
      BY <3>1, <3>2
  <2>2. ASSUME NEW u \in Thread, NEW i \in 1..Len(stack'[u])
        PROVE  LET f == stack'[u][i] IN
               /\ f.op = "register" => ~Contains(list', f.h) /\ cleared'[f.h] = 0
               /\ f.op = "unregister" =>
                    /\ Contains(list', f.h)
                    /\ \A j \in 1..Len(stack'[u]) :
                         stack'[u][j].op = "send" => stack'[u][j].h # f.h
    <3>1. CASE IsUpdate(stack'[u][i])
      <4>1. u # t /\ i \in 1..Len(stack[u]) /\ stack'[u] = stack[u]
        BY <2>1, <3>1
      <4>2. LET f == stack[u][i] IN
            /\ f.op = "register" => ~Contains(list, f.h) /\ cleared[f.h] = 0
            /\ f.op = "unregister" =>
                 /\ Contains(list, f.h)
                 /\ \A j \in 1..Len(stack[u]) :
                      stack[u][j].op = "send" => stack[u][j].h # f.h
        BY <4>1 DEF IInv, Updates
      <4>. QED
        BY <1>1, <4>1, <4>2
    <3>. QED
      BY <3>1 DEF IsUpdate
  <2>3. ASSUME NEW u \in Thread, NEW v \in Thread, u # v,
               NEW i \in 1..Len(stack'[u]), NEW j \in 1..Len(stack'[v]),
               IsUpdate(stack'[u][i]), IsUpdate(stack'[v][j])
        PROVE  stack'[u][i].h # stack'[v][j].h
    <3>1. \A x, y \in Thread : x # y =>
            \A k \in 1..Len(stack[x]), m \in 1..Len(stack[y]) :
                IsUpdate(stack[x][k]) /\ IsUpdate(stack[y][m]) => stack[x][k].h # stack[y][m].h
      BY DEF IInv, Updates
    <3>2. /\ i \in 1..Len(stack[u]) /\ stack'[u] = stack[u]
          /\ j \in 1..Len(stack[v]) /\ stack'[v] = stack[v]
      BY <2>1, <2>3
    <3>. QED
      BY <2>3, <3>1, <3>2
  <2>. QED
    BY <2>2, <2>3 DEF Updates
<1>11. Stages'
  <2>1. ASSUME NEW u \in Thread, NEW i \in 1..Len(stack'[u])
        PROVE  /\ ~linked' /\ stack'[u][i].lock = "event" => stack'[u][i].op = "destroy"
               /\ stack'[u][i].op = "destroy" => ~linked' /\ ~lockDead'
    BY <1>1, <1>6 DEF IInv, Stages
  <2>2. ASSUME NEW u \in Thread, NEW v \in Thread, u # v,
               NEW i \in 1..Len(stack'[u]), NEW j \in 1..Len(stack'[v])
        PROVE  ~(stack'[u][i].op = "destroy" /\ stack'[v][j].op = "destroy")
    <3>1. \A x, y \in Thread : x # y =>
            \A k \in 1..Len(stack[x]), m \in 1..Len(stack[y]) :
                ~(stack[x][k].op = "destroy" /\ stack[y][m].op = "destroy")
      BY DEF IInv, Stages
    <3>2. i \in 1..Len(stack[u]) /\ stack'[u][i].op = stack[u][i].op
      BY <1>6
    <3>3. j \in 1..Len(stack[v]) /\ stack'[v][j].op = stack[v][j].op
      BY <1>6
    <3>. QED
      BY <2>2, <3>1, <3>2, <3>3
  <2>. QED
    BY <1>1, <2>1, <2>2 DEF IInv, Stages
<1>12. Clears'
  BY <1>1 DEF IInv, Clears
<1>. QED
  BY <1>7, <1>8, <1>9, <1>10, <1>11, <1>12 DEF IInv

-----------------------------------------------------------------------------
(* A send that must run less, and else stands where it stood, has a cursor.*)
LEMMA CursorSame ==
    ASSUME NEW f, NEW g, NEW l, NEW c, Same(f, g), Cursor(g, l, c)
    PROVE  Cursor(f, l, c)
  BY DEF Same, Cursor

(* What is left of the invariant when a call returns, whatever it did.     *)
LEMMA PoppedKeeps ==
    ASSUME EventAssumption, IInv, NEW t \in Thread, Popped(t)
    PROVE  /\ Nested'
           /\ \A u \in Thread : Len(stack'[u]) <= MaxDepth
           /\ \A i \in 1..Len(stack'[t]) : Outer(stack[t][i])
           /\ \A u, v \in Thread : u # v =>
                \A i \in 1..Len(stack'[u]), j \in 1..Len(stack'[v]) :
                    /\ IsUpdate(stack'[u][i]) /\ IsUpdate(stack'[v][j]) =>
                         stack'[u][i].h # stack'[v][j].h
                    /\ ~(stack'[u][i].op = "destroy" /\ stack'[v][j].op = "destroy")
<1>1. \A u \in Thread : \A i \in 1..Len(stack'[u]) :
        /\ i \in 1..Len(stack[u]) /\ (u = t => i < Len(stack[t]))
        /\ Same(stack'[u][i], stack[u][i])
  BY DEF Popped
<1>2. \A u \in Thread : Len(stack[u]) \in Nat /\ (u # t => Len(stack'[u]) = Len(stack[u]))
  BY LenProperties DEF Popped, IInv, Shape
<1>3. Len(stack'[t]) = Len(stack[t]) - 1
  BY DEF Popped
<1>4. \A i \in 1..Len(stack'[t]) : Outer(stack[t][i])
  BY <1>1 DEF IInv, Nested
<1>5. ASSUME NEW u \in Thread, NEW i \in 1..Len(stack'[u])
      PROVE  /\ Kind(stack'[u][i])
             /\ i < Len(stack'[u]) => Outer(stack'[u][i])
             /\ stack'[u][i].op = "section" /\ i > 1 => stack'[u][i].lock \in HandlerLocks
             /\ stack'[u][i].op = "destroy" => i = 1
  <2>1. /\ i \in 1..Len(stack[u]) /\ Same(stack'[u][i], stack[u][i])
        /\ Kind(stack[u][i]) /\ (i < Len(stack[u]) => Outer(stack[u][i]))
        /\ stack[u][i].op = "section" /\ i > 1 => stack[u][i].lock \in HandlerLocks
        /\ stack[u][i].op = "destroy" => i = 1
    BY <1>1 DEF IInv, Nested
  <2>2. i < Len(stack'[u]) => i < Len(stack[u])
    BY <1>2, <1>3, <2>1
  <2>3. Kind(stack'[u][i])
    BY <2>1 DEF Same, Kind
  <2>4. Outer(stack[u][i]) => Outer(stack'[u][i])
    BY <2>1 DEF Same, Outer
  <2>. QED
    BY <2>1, <2>2, <2>3, <2>4 DEF Same
<1>6. Nested'
  BY <1>5 DEF Nested
<1>7. \A u \in Thread : Len(stack'[u]) <= MaxDepth
  <2>. SUFFICES ASSUME NEW u \in Thread
                PROVE  Len(stack'[u]) <= MaxDepth
    OBVIOUS
  <2>1. Len(stack[u]) <= MaxDepth /\ MaxDepth \in Nat /\ Len(stack[u]) \in Nat
    BY <1>2 DEF IInv, Shape, EventAssumption
  <2>2. Len(stack'[u]) = Len(stack[u]) \/ Len(stack'[u]) = Len(stack[u]) - 1
    BY <1>2, <1>3
  <2>. QED
    BY <2>1, <2>2
<1>8. ASSUME NEW u \in Thread, NEW v \in Thread, u # v,
             NEW i \in 1..Len(stack'[u]), NEW j \in 1..Len(stack'[v])
      PROVE  /\ IsUpdate(stack'[u][i]) /\ IsUpdate(stack'[v][j]) =>
                  stack'[u][i].h # stack'[v][j].h
             /\ ~(stack'[u][i].op = "destroy" /\ stack'[v][j].op = "destroy")
  <2>1. \A x, y \in Thread : x # y =>
          \A k \in 1..Len(stack[x]), m \in 1..Len(stack[y]) :
              /\ IsUpdate(stack[x][k]) /\ IsUpdate(stack[y][m]) => stack[x][k].h # stack[y][m].h
              /\ ~(stack[x][k].op = "destroy" /\ stack[y][m].op = "destroy")
    <3>1. \A x, y \in Thread : x # y =>
            \A k \in 1..Len(stack[x]), m \in 1..Len(stack[y]) :
                IsUpdate(stack[x][k]) /\ IsUpdate(stack[y][m]) => stack[x][k].h # stack[y][m].h
      BY DEF IInv, Updates
    <3>2. \A x, y \in Thread : x # y =>
            \A k \in 1..Len(stack[x]), m \in 1..Len(stack[y]) :
                ~(stack[x][k].op = "destroy" /\ stack[y][m].op = "destroy")
      BY DEF IInv, Stages
    <3>. QED
      BY ONLY <3>1, <3>2
  <2>2. /\ i \in 1..Len(stack[u]) /\ j \in 1..Len(stack[v])
        /\ stack'[u][i].op = stack[u][i].op /\ stack'[u][i].h = stack[u][i].h
        /\ stack'[v][j].op = stack[v][j].op /\ stack'[v][j].h = stack[v][j].h
    BY <1>1 DEF Same
  <2>3. /\ IsUpdate(stack'[u][i]) <=> IsUpdate(stack[u][i])
        /\ IsUpdate(stack'[v][j]) <=> IsUpdate(stack[v][j])
    BY <2>2 DEF IsUpdate
  <2>. QED
    BY <1>8, <2>1, <2>2, <2>3
<1>. QED
  BY <1>4, <1>6, <1>7, <1>8

(* A send or a section that returns keeps the invariant, if it keeps the   *)
(* locks.                                                                  *)
LEMMA PopKeepsIInv ==
    ASSUME EventAssumption, IInv, NEW t \in Thread, Popped(t),
           UNCHANGED <<list, linked, lockDead, cleared, calls>>,
           owner' \in [Lock -> [by : Thread \cup {Nobody}, n : Nat]], Locks'
    PROVE  IInv'
<1>1. /\ list' = list /\ linked' = linked /\ lockDead' = lockDead
      /\ cleared' = cleared /\ calls' = calls
  OBVIOUS
<1>2. \A u \in Thread : \A i \in 1..Len(stack'[u]) :
        /\ i \in 1..Len(stack[u]) /\ (u = t => i < Len(stack[t]))
        /\ Same(stack'[u][i], stack[u][i])
  BY DEF Popped
<1>3. Shape'
  BY <1>1, PoppedKeeps DEF IInv, Shape, Popped
<1>4. Nested'
  BY PoppedKeeps
<1>5. Cursors'
  <2>1. \A u \in Thread : \A i \in 1..Len(stack'[u]) : Cursor(stack'[u][i], list, cleared)
    BY <1>2, CursorSame DEF IInv, Cursors
  <2>. QED
    BY <1>1, <2>1 DEF Cursors
<1>6. Updates'
  <2>1. ASSUME NEW u \in Thread, NEW i \in 1..Len(stack'[u])
        PROVE  LET f == stack'[u][i] IN
               /\ f.op = "register" => ~Contains(list', f.h) /\ cleared'[f.h] = 0
               /\ f.op = "unregister" =>
                    /\ Contains(list', f.h)
                    /\ \A j \in 1..Len(stack'[u]) :
                         stack'[u][j].op = "send" => stack'[u][j].h # f.h
    <3>1. LET f == stack[u][i] IN
          /\ f.op = "register" => ~Contains(list, f.h) /\ cleared[f.h] = 0
          /\ f.op = "unregister" =>
               /\ Contains(list, f.h)
               /\ \A j \in 1..Len(stack[u]) :
                    stack[u][j].op = "send" => stack[u][j].h # f.h
      BY <1>2 DEF IInv, Updates
    <3>2. \A j \in 1..Len(stack'[u]) :
            /\ j \in 1..Len(stack[u])
            /\ stack'[u][j].op = stack[u][j].op /\ stack'[u][j].h = stack[u][j].h
      BY <1>2 DEF Same
    <3>. QED
      BY <1>1, <2>1, <3>1, <3>2
  <2>. QED
    BY <2>1, PoppedKeeps DEF Updates
<1>7. Stages'
  <2>1. \A u \in Thread : \A i \in 1..Len(stack'[u]) :
          /\ i \in 1..Len(stack[u])
          /\ stack'[u][i].op = stack[u][i].op /\ stack'[u][i].lock = stack[u][i].lock
    BY <1>2 DEF Same
  <2>2. \A u \in Thread : \A i \in 1..Len(stack'[u]) :
          /\ ~linked' /\ stack'[u][i].lock = "event" => stack'[u][i].op = "destroy"
          /\ stack'[u][i].op = "destroy" => ~linked' /\ ~lockDead'
    <3>1. \A u \in Thread : \A i \in 1..Len(stack[u]) :
            /\ ~linked /\ stack[u][i].lock = "event" => stack[u][i].op = "destroy"
            /\ stack[u][i].op = "destroy" => ~linked /\ ~lockDead
      BY DEF IInv, Stages
    <3>2. linked' = linked /\ lockDead' = lockDead
      BY <1>1
    <3>. QED
      BY ONLY <2>1, <3>1, <3>2
  <2>3. lockDead' => ~linked' /\ list' = <<>>
    BY <1>1 DEF IInv, Stages
  <2>. QED
    BY <2>2, <2>3, PoppedKeeps DEF Stages
<1>8. Clears'
  BY <1>1 DEF IInv, Clears
<1>. QED
  BY <1>3, <1>4, <1>5, <1>6, <1>7, <1>8 DEF IInv

(* While a thread has the lock of the event, no other one is in the list.  *)
LEMMA OthersWait ==
    ASSUME EventAssumption, IInv, NEW t \in Thread, Free("event", t),
           NEW u \in Thread, u # t, NEW i \in 1..Len(stack[u]), stack[u][i].op = "send"
    PROVE  stack[u][i].at = "lock"
<1>1. Holding(u, "event") = {}
  BY DEF IInv, Locks, Free, EventAssumption, Lock
<1>2. ~Holds(stack[u][i], "event")
  BY <1>1 DEF Holding
<1>3. Kind(stack[u][i])
  BY DEF IInv, Nested
<1>. QED
  BY <1>2, <1>3 DEF Holds, Kind

-----------------------------------------------------------------------------
(* A handler comes into the list: it goes behind the first node, so that a *)
(* send of the same thread, which stands on a node, stays where it is.     *)
LEMMA RegisterKeepsIInv ==
    ASSUME EventAssumption, IInv, NEW t \in Thread, Register(t)
    PROVE  IInv'
<1>1. /\ stack \in [Thread -> Seq(Frame)] /\ list \in Seq(Handler) /\ Once(list)
      /\ cleared \in [Handler -> Nat]
  BY DEF IInv, Shape, Clears
<1>2. stack[t] # <<>> /\ Free("event", t) /\ Pop(t)
      /\ Top(t).op = "register" /\ Top(t).at = "lock"
  BY DEF Register, IsAt
<1>3. SUFFICES ASSUME NEW n \in Nat, NEW f, n = Len(stack[t]), f = Top(t)
               PROVE  IInv'
  BY <1>1, LenProperties
<1>4. n \in 1..n /\ f = stack[t][n] /\ f \in Frame /\ n \in 1..Len(stack[t])
  BY <1>1, <1>2, <1>3, TopFacts
<1>5. f.op = "register" /\ f.h \in Handler /\ ~Contains(list, f.h) /\ cleared[f.h] = 0
      /\ f.lock = "event"
  <2>1. f.op = "register"
    BY <1>2, <1>3
  <2>2. Kind(f)
    BY <1>3, <1>4 DEF IInv, Nested
  <2>. QED
    BY <1>3, <1>4, <2>1, <2>2 DEF Kind, IInv, Updates
<1>6. /\ list' = AddUnsorted(list, f.h) /\ linked' = linked /\ lockDead' = lockDead
      /\ cleared' = cleared /\ owner' = owner /\ calls' = calls
  BY <1>3 DEF Register
<1>7. /\ list' \in Seq(Handler) /\ Once(list')
      /\ \A x : Contains(list', x) <=> Contains(list, x) \/ x = f.h
      /\ \A x, y : Before(list, x, y) => Before(list', x, y)
  BY <1>1, <1>5, <1>6, AddUnsortedFacts
<1>8. Popped(t)
  BY <1>1, <1>2, PopIsPopped
<1>9. \A u \in Thread : \A i \in 1..Len(stack'[u]) :
        /\ i \in 1..Len(stack[u]) /\ (u = t => i < Len(stack[t]))
        /\ Same(stack'[u][i], stack[u][i])
  BY <1>8 DEF Popped
<1>10. Shape'
  BY <1>6, <1>7, <1>8, PoppedKeeps DEF IInv, Shape, Popped
<1>11. Nested'
  BY <1>8, PoppedKeeps
<1>12. Cursors'
  <2>1. ASSUME NEW u \in Thread, NEW i \in 1..Len(stack'[u])
        PROVE  Cursor(stack'[u][i], list', cleared')
    <3>1. /\ i \in 1..Len(stack[u]) /\ Same(stack'[u][i], stack[u][i])
          /\ Cursor(stack[u][i], list, cleared)
      BY <1>9 DEF IInv, Cursors
    <3>2. SUFFICES ASSUME NEW g, g = stack[u][i]
                   PROVE  Cursor(stack'[u][i], list', cleared')
      OBVIOUS
    <3>3. Cursor(g, list', cleared')
      <4>. SUFFICES ASSUME g.op = "send"
                    PROVE  Cursor(g, list', cleared')
        BY DEF Cursor
      <4>1. CASE g.at = "lock"
        BY <3>1, <3>2, <4>1 DEF Cursor
      <4>2. CASE g.at # "lock"
        <5>1. u = t
          BY <1>2, <3>1, <3>2, <4>2, OthersWait
        <5>2. g.at = "handler"
          BY <1>8, <3>2, <5>1, PoppedKeeps DEF Outer
        <5>3. f.h \notin g.ran
          BY <1>5, <3>1, <3>2 DEF Cursor
        <5>4. /\ \A x \in g.ran : Contains(list, x) \/ cleared[x] > 0
              /\ \A x \in g.must : Contains(list, x)
              /\ g.h # Ring /\ Contains(list, g.h) /\ g.h \in g.ran
              /\ \A x \in g.ran : Contains(list, x) => x = g.h \/ Before(list, x, g.h)
              /\ \A x \in g.must \ g.ran : Before(list, g.h, x)
          BY <3>1, <3>2, <5>2 DEF Cursor
        <5>. QED
          BY <1>6, <1>7, <5>2, <5>3, <5>4 DEF Cursor
      <4>. QED
        BY <4>1, <4>2
    <3>. QED
      BY <3>1, <3>2, <3>3, CursorSame
  <2>. QED
    BY <2>1 DEF Cursors
<1>13. Updates'
  <2>1. ASSUME NEW u \in Thread, NEW i \in 1..Len(stack'[u]), IsUpdate(stack'[u][i])
        PROVE  /\ u # t /\ i \in 1..Len(stack[u])
               /\ stack'[u][i].op = stack[u][i].op /\ stack'[u][i].h = stack[u][i].h
               /\ stack[u][i].h # f.h
    <3>1. i \in 1..Len(stack[u]) /\ Same(stack'[u][i], stack[u][i])
      BY <1>9
    <3>2. u # t
      <4>. SUFFICES ASSUME u = t
                    PROVE  FALSE
        OBVIOUS
      <4>1. Outer(stack[t][i])
        BY <1>8, PoppedKeeps
      <4>. QED
        BY <2>1, <3>1, <4>1 DEF Outer, IsUpdate, Same
    <3>3. IsUpdate(stack[u][i]) /\ IsUpdate(stack[t][n])
      BY <1>4, <1>5, <2>1, <3>1 DEF IsUpdate, Same
    <3>4. stack[u][i].h # stack[t][n].h
      BY <1>4, <3>1, <3>2, <3>3 DEF IInv, Updates
    <3>. QED
      BY <1>4, <3>1, <3>2, <3>4 DEF Same
  <2>2. ASSUME NEW u \in Thread, NEW i \in 1..Len(stack'[u])
        PROVE  LET g == stack'[u][i] IN
               /\ g.op = "register" => ~Contains(list', g.h) /\ cleared'[g.h] = 0
               /\ g.op = "unregister" =>
                    /\ Contains(list', g.h)
                    /\ \A j \in 1..Len(stack'[u]) :
                         stack'[u][j].op = "send" => stack'[u][j].h # g.h
    <3>. SUFFICES ASSUME IsUpdate(stack'[u][i])
                  PROVE  LET g == stack'[u][i] IN
                         /\ g.op = "register" => ~Contains(list', g.h) /\ cleared'[g.h] = 0
                         /\ g.op = "unregister" =>
                              /\ Contains(list', g.h)
                              /\ \A j \in 1..Len(stack'[u]) :
                                   stack'[u][j].op = "send" => stack'[u][j].h # g.h
      BY DEF IsUpdate
    <3>1. /\ i \in 1..Len(stack[u])
          /\ stack'[u][i].op = stack[u][i].op /\ stack'[u][i].h = stack[u][i].h
          /\ stack[u][i].h # f.h
      BY <2>1
    <3>2. LET g == stack[u][i] IN
          /\ g.op = "register" => ~Contains(list, g.h) /\ cleared[g.h] = 0
          /\ g.op = "unregister" =>
               /\ Contains(list, g.h)
               /\ \A j \in 1..Len(stack[u]) :
                    stack[u][j].op = "send" => stack[u][j].h # g.h
      BY <3>1 DEF IInv, Updates
    <3>3. \A j \in 1..Len(stack'[u]) :
            /\ j \in 1..Len(stack[u])
            /\ stack'[u][j].op = stack[u][j].op /\ stack'[u][j].h = stack[u][j].h
      BY <1>9 DEF Same
    <3>. QED
      BY <1>6, <1>7, <3>1, <3>2, <3>3
  <2>. QED
    BY <1>8, <2>2, PoppedKeeps DEF Updates
<1>14. Stages'
  <2>1. \A u \in Thread : \A i \in 1..Len(stack'[u]) :
          /\ i \in 1..Len(stack[u])
          /\ stack'[u][i].op = stack[u][i].op /\ stack'[u][i].lock = stack[u][i].lock
    BY <1>9 DEF Same
  <2>2. \A u \in Thread : \A i \in 1..Len(stack'[u]) :
          /\ ~linked' /\ stack'[u][i].lock = "event" => stack'[u][i].op = "destroy"
          /\ stack'[u][i].op = "destroy" => ~linked' /\ ~lockDead'
    BY <1>6, <2>1 DEF IInv, Stages
  <2>3. linked
    BY <1>4, <1>5 DEF IInv, Stages
  <2>4. ~lockDead'
    BY <1>6, <2>3 DEF IInv, Stages
  <2>. QED
    BY <1>8, <2>2, <2>4, PoppedKeeps DEF Stages
<1>15. Clears'
  BY <1>1, <1>5, <1>6, <1>7 DEF IInv, Clears
<1>16. Locks'
  <2>1. \A l \in Lock : ~Holds(f, l)
    BY <1>5 DEF Holds
  <2>2. \A l \in Lock : n \notin Holding(t, l)
    BY <1>4, <2>1 DEF Holding
  <2>3. \A u \in Thread, l \in Lock : Holding(u, l)' = Holding(u, l)
    <3>1. \A l \in Lock : Holding(t, l) \ {n} = Holding(t, l)
      BY <2>2
    <3>. QED
      BY <1>1, <1>3, <1>8, <3>1, HoldingPop
  <2>. QED
    BY <1>6, <2>3, LocksKept DEF IInv
<1>. QED
  BY <1>10, <1>11, <1>12, <1>13, <1>14, <1>15, <1>16 DEF IInv

(* Taking a handler off what the calls of a thread must run.               *)
LEMMA WithoutFacts ==
    ASSUME NEW s \in Seq(Frame), NEW x, NEW r,
           r = [i \in DOMAIN s |-> [s[i] EXCEPT !.must = @ \ {x}]]
    PROVE  /\ r \in Seq(Frame) /\ Len(r) = Len(s)
           /\ \A i \in 1..Len(s) : Same(r[i], s[i]) /\ x \notin r[i].must
<1>1. Len(s) \in Nat /\ DOMAIN s = 1..Len(s) /\ \A i \in 1..Len(s) : s[i] \in Frame
  BY LenProperties, ElementOfSeq
<1>2. \A f \in Frame : /\ [f EXCEPT !.must = @ \ {x}] \in Frame
                       /\ Same([f EXCEPT !.must = @ \ {x}], f)
                       /\ x \notin [f EXCEPT !.must = @ \ {x}].must
  BY DEF Frame, Same
<1>3. PICK n \in Nat : n = Len(s)
  BY <1>1
<1>4. /\ r = [i \in 1..n |-> [s[i] EXCEPT !.must = @ \ {x}]]
      /\ \A i \in 1..n : [s[i] EXCEPT !.must = @ \ {x}] \in Frame
  BY <1>1, <1>2, <1>3
<1>5. r \in [1..n -> Frame]
  BY <1>4
<1>6. r \in Seq(Frame) /\ Len(r) = n
  BY <1>5, SeqDef, LenProperties
<1>. QED
  BY <1>1, <1>2, <1>3, <1>4, <1>6

(* The call that unregisters a handler returns, and no send must run it.   *)
LEMMA UnregisterIsPopped ==
    ASSUME stack \in [Thread -> Seq(Frame)], NEW t \in Thread, Unregister(t)
    PROVE  /\ Popped(t)
           /\ \A u \in Thread : \A i \in 1..Len(stack'[u]) : Top(t).h \notin stack'[u][i].must
<1>1. stack[t] # <<>> /\ stack[t] \in Seq(Frame)
  BY DEF Unregister, IsAt
<1>2. SUFFICES ASSUME NEW x, x = Top(t).h
               PROVE  /\ Popped(t)
                      /\ \A u \in Thread : \A i \in 1..Len(stack'[u]) : Top(t).h \notin stack'[u][i].must
  OBVIOUS
<1>3. SUFFICES ASSUME NEW s,
                      s = [u \in Thread |-> IF u = t THEN Front(stack[u]) ELSE stack[u]]
               PROVE  /\ Popped(t)
                      /\ \A u \in Thread : \A i \in 1..Len(stack'[u]) : Top(t).h \notin stack'[u][i].must
  OBVIOUS
<1>4. /\ Len(stack[t]) \in Nat /\ Len(stack[t]) > 0
      /\ s[t] \in Seq(Frame) /\ Len(s[t]) = Len(stack[t]) - 1
      /\ \A i \in 1..(Len(stack[t]) - 1) : s[t][i] = stack[t][i]
  <2>1. s[t] = Front(stack[t])
    BY <1>3
  <2>. QED
    BY <1>1, <2>1, FrontFacts
<1>5. \A u \in Thread : u # t => s[u] = stack[u]
  BY <1>3
<1>6. stack' = [u \in Thread |-> [i \in DOMAIN s[u] |-> [s[u][i] EXCEPT !.must = @ \ {x}]]]
  BY <1>2, <1>3 DEF Unregister
<1>7. ASSUME NEW u \in Thread
      PROVE  /\ stack'[u] \in Seq(Frame) /\ Len(stack'[u]) = Len(s[u])
             /\ \A i \in 1..Len(s[u]) : Same(stack'[u][i], s[u][i]) /\ x \notin stack'[u][i].must
  <2>1. s[u] \in Seq(Frame)
    BY <1>4, <1>5
  <2>2. stack'[u] = [i \in DOMAIN s[u] |-> [s[u][i] EXCEPT !.must = @ \ {x}]]
    BY <1>6
  <2>. QED
    BY <2>1, <2>2, WithoutFacts
<1>8. stack' \in [Thread -> Seq(Frame)]
  BY <1>6, <1>7
<1>9. ASSUME NEW u \in Thread, NEW i \in 1..Len(stack'[u])
      PROVE  /\ i \in 1..Len(stack[u]) /\ (u = t => i < Len(stack[t]))
             /\ Same(stack'[u][i], stack[u][i])
  <2>1. CASE u = t
    <3>1. PICK n \in Nat : n = Len(stack[t]) /\ n > 0 /\ Len(stack'[t]) = n - 1
      BY <1>4, <1>7
    <3>2. i \in 1..(n - 1) /\ i \in 1..n /\ i < n
      BY <1>9, <2>1, <3>1
    <3>3. s[t][i] = stack[t][i] /\ Same(stack'[t][i], s[t][i])
      BY <1>4, <1>7, <3>1, <3>2
    <3>. QED
      BY <2>1, <3>1, <3>2, <3>3
  <2>2. CASE u # t
    BY <1>5, <1>7, <2>2
  <2>. QED
    BY <2>1, <2>2
<1>10. Popped(t)
  BY <1>4, <1>5, <1>7, <1>8, <1>9 DEF Popped
<1>. QED
  BY <1>2, <1>7, <1>10

(* A handler leaves the list: no send of the same thread stands on it, and *)
(* none must run it any more.                                              *)
LEMMA UnregisterKeepsIInv ==
    ASSUME EventAssumption, IInv, NEW t \in Thread, Unregister(t)
    PROVE  IInv'
<1>1. /\ stack \in [Thread -> Seq(Frame)] /\ list \in Seq(Handler) /\ Once(list)
      /\ cleared \in [Handler -> Nat]
  BY DEF IInv, Shape, Clears
<1>2. stack[t] # <<>> /\ Free("event", t)
      /\ Top(t).op = "unregister" /\ Top(t).at = "lock"
  BY DEF Unregister, IsAt
<1>3. SUFFICES ASSUME NEW n \in Nat, NEW f, n = Len(stack[t]), f = Top(t)
               PROVE  IInv'
  BY <1>1, LenProperties
<1>4. n \in 1..n /\ f = stack[t][n] /\ f \in Frame /\ n \in 1..Len(stack[t])
  BY <1>1, <1>2, <1>3, TopFacts
<1>5. /\ f.op = "unregister" /\ f.h \in Handler /\ Contains(list, f.h)
      /\ f.lock = "event"
      /\ \A j \in 1..Len(stack[t]) : stack[t][j].op = "send" => stack[t][j].h # f.h
  <2>1. f.op = "unregister"
    BY <1>2, <1>3
  <2>2. Kind(f)
    BY <1>3, <1>4 DEF IInv, Nested
  <2>. QED
    BY <1>3, <1>4, <2>1, <2>2 DEF Kind, IInv, Updates
<1>6. /\ list' = Erase(list, f.h) /\ linked' = linked /\ lockDead' = lockDead
      /\ cleared' = [cleared EXCEPT ![f.h] = @ + 1] /\ owner' = owner /\ calls' = calls
  BY <1>3 DEF Unregister
<1>7. /\ list' \in Seq(Handler) /\ Once(list')
      /\ \A x : Contains(list', x) <=> Contains(list, x) /\ x # f.h
      /\ \A x, y : Before(list, x, y) /\ x # f.h /\ y # f.h => Before(list', x, y)
  BY <1>1, <1>6, EraseFacts
<1>8. /\ cleared' \in [Handler -> Nat] /\ cleared'[f.h] = cleared[f.h] + 1
      /\ \A x \in Handler : x # f.h => cleared'[x] = cleared[x]
      /\ cleared[f.h] = 0
  <2>1. cleared[f.h] <= 0
    BY <1>5 DEF IInv, Clears
  <2>. QED
    BY <1>1, <1>5, <1>6, <2>1
<1>9. /\ Popped(t)
      /\ \A u \in Thread : \A i \in 1..Len(stack'[u]) : f.h \notin stack'[u][i].must
  BY <1>1, <1>3, UnregisterIsPopped
<1>10. \A u \in Thread : \A i \in 1..Len(stack'[u]) :
        /\ i \in 1..Len(stack[u]) /\ (u = t => i < Len(stack[t]))
        /\ Same(stack'[u][i], stack[u][i])
  BY <1>9 DEF Popped
<1>11. Shape'
  BY <1>6, <1>7, <1>8, <1>9, PoppedKeeps DEF IInv, Shape, Popped
<1>12. Nested'
  BY <1>9, PoppedKeeps
<1>13. Cursors'
  <2>1. ASSUME NEW u \in Thread, NEW i \in 1..Len(stack'[u])
        PROVE  Cursor(stack'[u][i], list', cleared')
    <3>1. SUFFICES ASSUME NEW g, NEW k, g = stack[u][i], k = stack'[u][i]
                   PROVE  Cursor(stack'[u][i], list', cleared')
      OBVIOUS
    <3>2. /\ i \in 1..Len(stack[u]) /\ Same(k, g) /\ f.h \notin k.must
          /\ Cursor(g, list, cleared)
      BY <1>9, <1>10, <3>1 DEF IInv, Cursors
    <3>3. g \in Frame
      BY <1>1, <3>1, <3>2, ElementOfSeq
    <3>4. Cursor(k, list, cleared)
      BY <3>2, CursorSame
    <3>5. Cursor(k, list', cleared')
      <4>. SUFFICES ASSUME k.op = "send"
                    PROVE  Cursor(k, list', cleared')
        BY DEF Cursor
      <4>1. CASE k.at = "lock"
        BY <3>4, <4>1 DEF Cursor
      <4>2. CASE k.at # "lock"
        <5>1. g.op = "send" /\ g.at = k.at /\ g.h = k.h /\ k.ran = g.ran
          BY <3>2 DEF Same
        <5>2. u = t
          BY <1>2, <3>1, <3>2, <4>2, <5>1, OthersWait
        <5>3. k.at = "handler"
          BY <1>9, <3>1, <5>1, <5>2, PoppedKeeps DEF Outer
        <5>4. k.h # f.h
          BY <1>5, <3>1, <3>2, <5>1, <5>2
        <5>5. /\ \A x \in k.ran : x \in Handler /\ (Contains(list, x) \/ cleared[x] > 0)
              /\ \A x \in k.must : Contains(list, x) /\ x # f.h
              /\ k.h # Ring /\ Contains(list, k.h) /\ k.h \in k.ran
              /\ \A x \in k.ran : Contains(list, x) => x = k.h \/ Before(list, x, k.h)
              /\ \A x \in k.must \ k.ran : Before(list, k.h, x)
          BY <3>2, <3>3, <3>4, <5>1, <5>3 DEF Cursor, Frame
        <5>6. \A x \in k.ran : Contains(list', x) \/ cleared'[x] > 0
          BY <1>7, <1>8, <5>5
        <5>. QED
          BY <1>7, <5>3, <5>4, <5>5, <5>6 DEF Cursor
      <4>. QED
        BY <4>1, <4>2
    <3>. QED
      BY <3>1, <3>5
  <2>. QED
    BY <2>1 DEF Cursors
<1>14. Updates'
  <2>1. ASSUME NEW u \in Thread, NEW i \in 1..Len(stack'[u]), IsUpdate(stack'[u][i])
        PROVE  /\ u # t /\ i \in 1..Len(stack[u])
               /\ stack'[u][i].op = stack[u][i].op /\ stack'[u][i].h = stack[u][i].h
               /\ stack[u][i].h # f.h /\ stack[u][i].h \in Handler
    <3>1. i \in 1..Len(stack[u]) /\ Same(stack'[u][i], stack[u][i])
      BY <1>10
    <3>2. u # t
      <4>. SUFFICES ASSUME u = t
                    PROVE  FALSE
        OBVIOUS
      <4>1. Outer(stack[t][i])
        BY <1>9, PoppedKeeps
      <4>. QED
        BY <2>1, <3>1, <4>1 DEF Outer, IsUpdate, Same
    <3>3. IsUpdate(stack[u][i]) /\ IsUpdate(stack[t][n])
      BY <1>4, <1>5, <2>1, <3>1 DEF IsUpdate, Same
    <3>4. stack[u][i].h # stack[t][n].h
      BY <1>4, <3>1, <3>2, <3>3 DEF IInv, Updates
    <3>5. Kind(stack[u][i])
      BY <3>1 DEF IInv, Nested
    <3>. QED
      BY <1>4, <3>1, <3>2, <3>3, <3>4, <3>5 DEF Same, Kind, IsUpdate
  <2>2. ASSUME NEW u \in Thread, NEW i \in 1..Len(stack'[u])
        PROVE  LET g == stack'[u][i] IN
               /\ g.op = "register" => ~Contains(list', g.h) /\ cleared'[g.h] = 0
               /\ g.op = "unregister" =>
                    /\ Contains(list', g.h)
                    /\ \A j \in 1..Len(stack'[u]) :
                         stack'[u][j].op = "send" => stack'[u][j].h # g.h
    <3>. SUFFICES ASSUME IsUpdate(stack'[u][i])
                  PROVE  LET g == stack'[u][i] IN
                         /\ g.op = "register" => ~Contains(list', g.h) /\ cleared'[g.h] = 0
                         /\ g.op = "unregister" =>
                              /\ Contains(list', g.h)
                              /\ \A j \in 1..Len(stack'[u]) :
                                   stack'[u][j].op = "send" => stack'[u][j].h # g.h
      BY DEF IsUpdate
    <3>1. /\ i \in 1..Len(stack[u])
          /\ stack'[u][i].op = stack[u][i].op /\ stack'[u][i].h = stack[u][i].h
          /\ stack[u][i].h # f.h /\ stack[u][i].h \in Handler
      BY <2>1
    <3>2. LET g == stack[u][i] IN
          /\ g.op = "register" => ~Contains(list, g.h) /\ cleared[g.h] = 0
          /\ g.op = "unregister" =>
               /\ Contains(list, g.h)
               /\ \A j \in 1..Len(stack[u]) :
                    stack[u][j].op = "send" => stack[u][j].h # g.h
      BY <3>1 DEF IInv, Updates
    <3>3. \A j \in 1..Len(stack'[u]) :
            /\ j \in 1..Len(stack[u])
            /\ stack'[u][j].op = stack[u][j].op /\ stack'[u][j].h = stack[u][j].h
      BY <1>10 DEF Same
    <3>. QED
      BY <1>7, <1>8, <3>1, <3>2, <3>3
  <2>. QED
    BY <1>9, <2>2, PoppedKeeps DEF Updates
<1>15. Stages'
  <2>1. \A u \in Thread : \A i \in 1..Len(stack'[u]) :
          /\ i \in 1..Len(stack[u])
          /\ stack'[u][i].op = stack[u][i].op /\ stack'[u][i].lock = stack[u][i].lock
    BY <1>10 DEF Same
  <2>2. \A u \in Thread : \A i \in 1..Len(stack'[u]) :
          /\ ~linked' /\ stack'[u][i].lock = "event" => stack'[u][i].op = "destroy"
          /\ stack'[u][i].op = "destroy" => ~linked' /\ ~lockDead'
    <3>1. \A u \in Thread : \A i \in 1..Len(stack[u]) :
            /\ ~linked /\ stack[u][i].lock = "event" => stack[u][i].op = "destroy"
            /\ stack[u][i].op = "destroy" => ~linked /\ ~lockDead
      BY DEF IInv, Stages
    <3>. QED
      BY <1>6, <2>1, <3>1
  <2>3. linked
    BY <1>4, <1>5 DEF IInv, Stages
  <2>4. ~lockDead'
    BY <1>6, <2>3 DEF IInv, Stages
  <2>. QED
    BY <1>9, <2>2, <2>4, PoppedKeeps DEF Stages
<1>16. Clears'
  <2>1. \A h \in Handler : cleared'[h] <= IF Contains(list', h) THEN 0 ELSE 1
    BY <1>5, <1>7, <1>8 DEF IInv, Clears
  <2>2. \A h \in Handler : Contains(Initial, h) => Contains(list', h) \/ cleared'[h] = 1
    BY <1>5, <1>7, <1>8 DEF IInv, Clears
  <2>. QED
    BY <1>7, <2>1, <2>2 DEF Clears
<1>17. Locks'
  <2>1. \A l \in Lock : ~Holds(f, l)
    BY <1>5 DEF Holds
  <2>2. \A l \in Lock : n \notin Holding(t, l)
    BY <1>4, <2>1 DEF Holding
  <2>3. \A l \in Lock : Holding(t, l) \ {n} = Holding(t, l)
    BY <2>2
  <2>4. \A u \in Thread, l \in Lock : Holding(u, l)' = Holding(u, l)
    BY <1>1, <1>3, <1>9, <2>3, HoldingPop
  <2>. QED
    BY <1>6, <2>4, LocksKept DEF IInv
<1>. QED
  BY <1>11, <1>12, <1>13, <1>14, <1>15, <1>16, <1>17 DEF IInv

-----------------------------------------------------------------------------
(* The event is destroyed: nobody is in a call, ...                        *)
LEMMA StartDestroyKeepsIInv ==
    ASSUME EventAssumption, IdleDestroy, IInv, NEW t \in Thread, StartDestroy(t)
    PROVE  IInv'
<1>1. /\ stack \in [Thread -> Seq(Frame)] /\ calls \in [Thread -> Nat]
      /\ owner \in [Lock -> [by : Thread \cup {Nobody}, n : Nat]]
  BY DEF IInv, Shape
<1>2. \A u \in Thread : stack[u] = <<>> /\ Len(stack[u]) = 0
  BY DEF StartDestroy, Idle
<1>3. SUFFICES ASSUME NEW c, c = Call("destroy", "lock", Ring, "event")
               PROVE  IInv'
  OBVIOUS
<1>4. /\ c \in Frame /\ c.op = "destroy" /\ c.at = "lock" /\ c.h = Ring /\ c.lock = "event"
  BY <1>3 DEF Call, Frame, Lock
<1>5. /\ Push(t, c) /\ Acquire("core", t) /\ Started(t)
      /\ linked /\ linked' = FALSE /\ list' = list /\ lockDead' = lockDead /\ cleared' = cleared
  BY <1>3 DEF StartDestroy
<1>6. /\ stack' \in [Thread -> Seq(Frame)] /\ Len(stack'[t]) = 1 /\ stack'[t][1] = c
      /\ \A u \in Thread : u # t => Len(stack'[u]) = 0
  <2>1. /\ stack' \in [Thread -> Seq(Frame)] /\ Len(stack'[t]) = Len(stack[t]) + 1
        /\ stack'[t][Len(stack[t]) + 1] = c
        /\ \A u \in Thread : u # t => stack'[u] = stack[u]
    BY <1>1, <1>4, <1>5, PushFacts
  <2>2. Len(stack[t]) = 0 /\ \A u \in Thread : u # t => Len(stack'[u]) = 0
    BY <1>2, <2>1
  <2>. QED
    BY <2>1, <2>2
<1>7. \A u \in Thread : \A i \in 1..Len(stack'[u]) : u = t /\ i = 1 /\ stack'[u][i] = c
  <2>. SUFFICES ASSUME NEW u \in Thread, NEW i \in 1..Len(stack'[u])
                PROVE  u = t /\ i = 1 /\ stack'[u][i] = c
    OBVIOUS
  <2>1. CASE u = t
    <3>1. i \in 1..1
      BY <1>6, <2>1
    <3>. QED
      BY <1>6, <2>1, <3>1
  <2>2. CASE u # t
    <3>1. i \in 1..0
      BY <1>6, <2>2
    <3>. QED
      BY <3>1
  <2>. QED
    BY <2>1, <2>2
<1>8. owner' \in [Lock -> [by : Thread \cup {Nobody}, n : Nat]] /\ Locks'
  <2>1. /\ Holds(c, "core") /\ "core" \in Lock
        /\ \A l \in Lock : l # "core" => ~Holds(c, l)
    BY <1>4 DEF Holds, Lock
  <2>2. 1 \notin Holding(t, "core")
    BY <1>2 DEF Holding
  <2>3. /\ Holding(t, "core")' = Holding(t, "core") \cup {1}
        /\ \A u \in Thread, m \in Lock : u # t \/ m # "core" => Holding(u, m)' = Holding(u, m)
    <3>1. \A u \in Thread, l \in Lock :
             Holding(u, l)' = IF u = t /\ Holds(c, l) THEN Holding(t, l) \cup {Len(stack[t]) + 1}
                              ELSE Holding(u, l)
      BY <1>1, <1>4, <1>5, HoldingPush
    <3>2. Len(stack[t]) + 1 = 1
      BY <1>2
    <3>. QED
      BY ONLY <2>1, <3>1, <3>2
  <2>4. Locks
    BY DEF IInv
  <2>. QED
    BY <1>1, <1>5, <2>1, <2>2, <2>3, <2>4, LockTaken
<1>9. Shape'
  <2>1. calls' \in [Thread -> Nat]
    BY <1>1, <1>5 DEF Started
  <2>2. \A u \in Thread : Len(stack'[u]) <= MaxDepth
    <3>1. MaxDepth \in Nat /\ 1 <= MaxDepth /\ 0 <= MaxDepth
      BY DEF EventAssumption
    <3>2. \A u \in Thread : Len(stack'[u]) = 0 \/ Len(stack'[u]) = 1
      BY <1>6
    <3>. QED
      BY <3>1, <3>2
  <2>. QED
    BY <1>5, <1>6, <1>8, <2>1, <2>2 DEF IInv, Shape
<1>10. Nested'
  BY <1>4, <1>6, <1>7 DEF Nested, Kind
<1>11. Cursors'
  BY <1>4, <1>7 DEF Cursors, Cursor
<1>12. Updates'
  BY <1>4, <1>7 DEF Updates, IsUpdate
<1>13. Stages'
  BY <1>4, <1>5, <1>7 DEF Stages, IInv
<1>14. Clears'
  BY <1>5 DEF Clears, IInv
<1>. QED
  BY <1>8, <1>9, <1>10, <1>11, <1>12, <1>13, <1>14 DEF IInv

(* ... and every handler it has left is cleared.                           *)
LEMMA DestroyKeepsIInv ==
    ASSUME EventAssumption, IInv, NEW t \in Thread, Destroy(t)
    PROVE  IInv'
<1>1. /\ stack \in [Thread -> Seq(Frame)] /\ cleared \in [Handler -> Nat]
      /\ owner \in [Lock -> [by : Thread \cup {Nobody}, n : Nat]]
  BY DEF IInv, Shape
<1>2. /\ stack[t] # <<>> /\ Pop(t) /\ Top(t).op = "destroy" /\ Top(t).at = "lock"
      /\ list' = <<>> /\ lockDead' = TRUE /\ linked' = linked /\ calls' = calls
      /\ Release("core")
      /\ cleared' = [h \in Handler |-> cleared[h] + IF Contains(list, h) THEN 1 ELSE 0]
  BY DEF Destroy, IsAt
<1>3. SUFFICES ASSUME NEW n \in Nat, NEW f, n = Len(stack[t]), f = Top(t)
               PROVE  IInv'
  BY <1>1, LenProperties
<1>4. n \in 1..n /\ f = stack[t][n] /\ f \in Frame /\ n \in 1..Len(stack[t]) /\ f.op = "destroy"
  BY <1>1, <1>2, <1>3, TopFacts
<1>5. ~linked /\ n = 1
  BY <1>4 DEF IInv, Stages, Nested
<1>6. Popped(t)
  BY <1>1, <1>2, PopIsPopped
<1>7. \A u \in Thread : \A i \in 1..Len(stack'[u]) :
        /\ i \in 1..Len(stack[u]) /\ (u = t => i < Len(stack[t]))
        /\ Same(stack'[u][i], stack[u][i])
  BY <1>6 DEF Popped
<1>8. \A i : i \notin 1..Len(stack'[t])
  <2>1. Len(stack'[t]) = Len(stack[t]) - 1 /\ Len(stack[t]) = 1
    BY <1>3, <1>5, <1>6 DEF Popped
  <2>2. Len(stack'[t]) = 0
    BY ONLY <2>1
  <2>. QED
    BY <2>2
<1>9. ASSUME NEW u \in Thread, NEW i \in 1..Len(stack'[u])
      PROVE  u # t /\ stack'[u][i].op = "section"
  <2>1. u # t
    BY <1>8
  <2>2. i \in 1..Len(stack[u]) /\ Same(stack'[u][i], stack[u][i])
    BY <1>7
  <2>3. stack[u][i].op # "destroy"
    BY <1>4, <2>1, <2>2 DEF IInv, Stages
  <2>4. stack[u][i].lock # "event"
    BY <1>5, <2>2, <2>3 DEF IInv, Stages
  <2>5. Kind(stack[u][i]) /\ stack[u][i] \in Frame
    BY <1>1, <2>2, ElementOfSeq DEF IInv, Nested
  <2>6. stack[u][i].op = "section"
    BY <2>3, <2>4, <2>5 DEF Kind, Frame
  <2>. QED
    BY <2>1, <2>2, <2>6 DEF Same
<1>10. owner' \in [Lock -> [by : Thread \cup {Nobody}, n : Nat]] /\ Locks'
  <2>1. /\ Holds(f, "core") /\ "core" \in Lock
        /\ \A l \in Lock : l # "core" => ~Holds(f, l)
    BY <1>4 DEF Holds, Lock
  <2>2. n \in Holding(t, "core") /\ \A l \in Lock : l # "core" => n \notin Holding(t, l)
    BY <1>4, <2>1 DEF Holding
  <2>3. \A l \in Lock : l # "core" => Holding(t, l) \ {n} = Holding(t, l)
    BY <2>2
  <2>4. /\ Holding(t, "core")' = Holding(t, "core") \ {n}
        /\ \A u \in Thread, m \in Lock : u # t \/ m # "core" => Holding(u, m)' = Holding(u, m)
    BY <1>1, <1>3, <1>6, <2>1, <2>3, HoldingPop
  <2>5. Locks
    BY DEF IInv
  <2>. QED
    BY <1>1, <1>2, <2>1, <2>2, <2>4, <2>5, LockGivenBack
<1>11. /\ cleared' \in [Handler -> Nat]
       /\ \A h \in Handler : cleared'[h] = IF Contains(list, h) THEN 1 ELSE cleared[h]
  <2>1. \A h \in Handler : Contains(list, h) => cleared[h] = 0
    BY <1>1 DEF IInv, Clears
  <2>. QED
    BY <1>1, <1>2, <2>1
<1>12. list' \in Seq(Handler) /\ Once(list') /\ \A x : ~Contains(list', x)
  BY <1>2 DEF Once, Contains
<1>13. Shape'
  BY <1>2, <1>6, <1>10, <1>11, <1>12, PoppedKeeps DEF IInv, Shape, Popped
<1>14. Nested'
  BY <1>6, PoppedKeeps
<1>15. Cursors'
  BY <1>9 DEF Cursors, Cursor
<1>16. Updates'
  BY <1>9 DEF Updates, IsUpdate
<1>17. Stages'
  <2>1. \A u \in Thread : \A i \in 1..Len(stack'[u]) : stack'[u][i].lock # "event"
    BY <1>9, <1>14 DEF Nested, Kind
  <2>. QED
    BY <1>2, <1>5, <1>9, <2>1 DEF Stages
<1>18. Clears'
  <2>1. \A h \in Handler : cleared'[h] <= 1
    BY <1>11 DEF IInv, Clears
  <2>2. \A h \in Handler : Contains(Initial, h) => cleared'[h] = 1
    BY <1>11 DEF IInv, Clears
  <2>. QED
    BY <1>12, <2>1, <2>2 DEF Clears
<1>. QED
  BY <1>10, <1>13, <1>14, <1>15, <1>16, <1>17, <1>18 DEF IInv

-----------------------------------------------------------------------------
(* What a step that moves no call changes: nothing but the count of calls. *)
LEMMA StandsStill ==
    ASSUME IInv, calls' \in [Thread -> Nat],
           UNCHANGED <<list, linked, lockDead, cleared, stack, owner>>
    PROVE  IInv'
<1>1. /\ list' = list /\ linked' = linked /\ lockDead' = lockDead /\ cleared' = cleared
      /\ stack' = stack /\ owner' = owner
  OBVIOUS
<1>2. Shape'
  BY <1>1 DEF IInv, Shape
<1>3. Nested' /\ Cursors'
  BY <1>1 DEF IInv, Nested, Cursors
<1>4. Updates'
  BY <1>1 DEF IInv, Updates
<1>5. Stages' /\ Clears'
  BY <1>1 DEF IInv, Stages, Clears
<1>6. \A t \in Thread, l \in Lock : Holding(t, l)' = Holding(t, l)
  BY <1>1 DEF Holding
<1>7. Locks'
  BY <1>1, <1>6, LocksKept DEF IInv
<1>. QED
  BY <1>2, <1>3, <1>4, <1>5, <1>7 DEF IInv

(* The calls that threads start.                                           *)
LEMMA StartKeepsIInv ==
    ASSUME EventAssumption, ~SelfRemoval, IdleDestroy, IInv, NEW t \in Thread, Start(t)
    PROVE  IInv'
<1>1. stack \in [Thread -> Seq(Frame)] /\ stack[t] \in Seq(Frame)
  BY DEF IInv, Shape
<1>2. CASE StartSend(t)
  <2>1. SUFFICES ASSUME NEW c, c = Call("send", "lock", Ring, "event")
                 PROVE  IInv'
    OBVIOUS
  <2>2. /\ c \in Frame /\ c.op = "send" /\ c.at = "lock" /\ c.lock = "event" /\ c.ran = {}
    BY <2>1 DEF Call, Frame, Lock
  <2>3. MayCall(t) /\ linked /\ Push(t, c) /\ Started(t)
        /\ UNCHANGED <<list, linked, lockDead, cleared, owner>>
    BY <1>2, <2>1 DEF StartSend
  <2>4. Kind(c) /\ ~IsUpdate(c)
    BY <2>2 DEF Kind, IsUpdate
  <2>. QED
    BY <2>2, <2>3, <2>4, PushKeepsIInv
<1>3. CASE StartDestroy(t)
  BY <1>3, StartDestroyKeepsIInv
<1>4. ASSUME NEW h \in Handler, StartRegister(t, h)
      PROVE  IInv'
  <2>1. SUFFICES ASSUME NEW c, c = Call("register", "lock", h, "event")
                 PROVE  IInv'
    OBVIOUS
  <2>2. /\ c \in Frame /\ c.op = "register" /\ c.at = "lock" /\ c.lock = "event" /\ c.h = h
    BY <2>1 DEF Call, Frame, Lock
  <2>3. /\ MayCall(t) /\ linked /\ Push(t, c) /\ Started(t)
        /\ ~Contains(list, c.h) /\ cleared[c.h] = 0 /\ c.h \notin Pending
        /\ UNCHANGED <<list, linked, lockDead, cleared, owner>>
    BY <1>4, <2>1, <2>2 DEF StartRegister
  <2>4. Kind(c)
    BY <2>2 DEF Kind
  <2>. QED
    BY <2>2, <2>3, <2>4, PushKeepsIInv
<1>5. ASSUME NEW h \in Handler, StartUnregister(t, h)
      PROVE  IInv'
  <2>1. SUFFICES ASSUME NEW c, c = Call("unregister", "lock", h, "event")
                 PROVE  IInv'
    OBVIOUS
  <2>2. /\ c \in Frame /\ c.op = "unregister" /\ c.at = "lock" /\ c.lock = "event" /\ c.h = h
    BY <2>1 DEF Call, Frame, Lock
  <2>3. /\ MayCall(t) /\ linked /\ Push(t, c) /\ Started(t)
        /\ Contains(list, c.h) /\ c.h \notin Pending /\ c.h \notin Running(t)
        /\ UNCHANGED <<list, linked, lockDead, cleared, owner>>
    BY <1>5, <2>1, <2>2 DEF StartUnregister
  <2>4. Kind(c)
    BY <2>2 DEF Kind
  <2>5. DOMAIN stack[t] = 1..Len(stack[t])
    BY <1>1, LenProperties
  <2>6. \A j \in 1..Len(stack[t]) : stack[t][j].op = "send" => stack[t][j].h # c.h
    BY <2>3, <2>5 DEF Running
  <2>. QED
    BY <2>2, <2>3, <2>4, <2>6, PushKeepsIInv
<1>6. ASSUME NEW l \in {"core", "sip"}, StartSection(t, l)
      PROVE  IInv'
  <2>1. SUFFICES ASSUME NEW c, c = Call("section", "lock", Ring, l)
                 PROVE  IInv'
    OBVIOUS
  <2>2. /\ c \in Frame /\ c.op = "section" /\ c.at = "lock" /\ c.lock = l
    BY <2>1 DEF Call, Frame, Lock
  <2>3. /\ MayCall(t) /\ Push(t, c) /\ Started(t)
        /\ stack[t] # <<>> => l \in HandlerLocks
        /\ UNCHANGED <<list, linked, lockDead, cleared, owner>>
    BY <1>6, <2>1, <2>2 DEF StartSection
  <2>4. Kind(c) /\ ~IsUpdate(c) /\ c.lock # "event"
    BY <2>2 DEF Kind, IsUpdate
  <2>. QED
    BY <2>2, <2>3, <2>4, PushKeepsIInv
<1>7. CASE CallDestroyed(t)
  <2>1. calls' \in [Thread -> Nat]
    BY <1>7 DEF IInv, Shape, CallDestroyed, Started
  <2>. QED
    BY <1>7, <2>1, StandsStill DEF CallDestroyed
<1>. QED
  BY <1>2, <1>3, <1>4, <1>5, <1>6, <1>7 DEF Start

(* A send takes the lock and begins its walk at the first node.            *)
LEMMA SendLockKeepsIInv ==
    ASSUME EventAssumption, IInv, NEW t \in Thread, SendLock(t)
    PROVE  IInv'
<1>1. /\ stack \in [Thread -> Seq(Frame)] /\ list \in Seq(Handler)
      /\ owner \in [Lock -> [by : Thread \cup {Nobody}, n : Nat]]
  BY DEF IInv, Shape
<1>2. stack[t] # <<>>
  BY DEF SendLock, IsAt
<1>3. SUFFICES ASSUME NEW n \in Nat, NEW f, n = Len(stack[t]), f = Top(t)
               PROVE  IInv'
  BY <1>1, LenProperties
<1>4. /\ n \in 1..n /\ f = stack[t][n] /\ f \in Frame /\ n \in 1..Len(stack[t])
      /\ f.op = "send" /\ f.at = "lock"
  BY <1>1, <1>2, <1>3, TopFacts DEF SendLock, IsAt
<1>5. SUFFICES ASSUME NEW c,
                      c = [f EXCEPT !.at = "walk", !.h = FirstOf(list, Ring), !.must = ToSet(list)]
               PROVE  IInv'
  OBVIOUS
<1>6. /\ Become(t, c) /\ Acquire("event", t)
      /\ UNCHANGED <<list, linked, lockDead, cleared, calls>>
  BY <1>3, <1>5 DEF SendLock
<1>7. /\ FirstOf(list, Ring) = Ring => \A x : ~Contains(list, x)
      /\ FirstOf(list, Ring) # Ring =>
           /\ Contains(list, FirstOf(list, Ring)) /\ FirstOf(list, Ring) \in Handler
           /\ \A x : Contains(list, x) =>
                x = FirstOf(list, Ring) \/ Before(list, FirstOf(list, Ring), x)
  BY <1>1, FirstFacts DEF EventAssumption
<1>8. ToSet(list) \subseteq Handler /\ \A x : x \in ToSet(list) <=> Contains(list, x)
  BY <1>1, ListFacts, LenProperties DEF ToSet
<1>9. /\ c \in Frame /\ c.op = "send" /\ c.at = "walk" /\ c.lock = f.lock
      /\ c.h = FirstOf(list, Ring) /\ c.ran = f.ran /\ c.must = ToSet(list)
  BY <1>4, <1>5, <1>7, <1>8 DEF Frame
<1>10. f.ran = {} /\ f.lock = "event"
  BY <1>3, <1>4 DEF IInv, Cursors, Cursor, Nested, Kind
<1>11. Kind(c)
  BY <1>9, <1>10 DEF Kind
<1>12. Cursor(c, list, cleared)
  BY <1>7, <1>8, <1>9, <1>10 DEF Cursor
<1>13. owner' \in [Lock -> [by : Thread \cup {Nobody}, n : Nat]] /\ Locks'
  <2>1. /\ Holds(c, "event") /\ "event" \in Lock /\ ~Holds(f, "event")
        /\ \A l \in Lock : l # "event" => ~Holds(c, l) /\ ~Holds(f, l)
    BY <1>4, <1>9 DEF Holds, Lock
  <2>2. \A l \in Lock : n \notin Holding(t, l)
    BY <1>4, <2>1 DEF Holding
  <2>3. \A l \in Lock : Holding(t, l) \ {n} = Holding(t, l)
    BY <2>2
  <2>4. /\ Holding(t, "event")' = Holding(t, "event") \cup {n}
        /\ \A u \in Thread, m \in Lock : u # t \/ m # "event" => Holding(u, m)' = Holding(u, m)
    <3>1. \A u \in Thread, l \in Lock :
            Holding(u, l)' = IF u # t THEN Holding(u, l)
                             ELSE IF Holds(c, l) THEN Holding(t, l) \cup {n}
                             ELSE Holding(t, l) \ {n}
      BY <1>1, <1>2, <1>3, <1>6, <1>9, HoldingBecome
    <3>. QED
      BY <2>1, <2>3, <3>1
  <2>5. Locks
    BY DEF IInv
  <2>. QED
    BY <1>1, <1>6, <2>1, <2>2, <2>4, <2>5, LockTaken
<1>. QED
  BY <1>2, <1>3, <1>4, <1>6, <1>9, <1>11, <1>12, <1>13, BecomeKeepsIInv

(* The handler under the cursor is run.                                    *)
LEMMA RunHandlerKeepsIInv ==
    ASSUME EventAssumption, IInv, NEW t \in Thread, RunHandler(t)
    PROVE  IInv'
<1>1. /\ stack \in [Thread -> Seq(Frame)]
      /\ owner \in [Lock -> [by : Thread \cup {Nobody}, n : Nat]]
  BY DEF IInv, Shape
<1>2. stack[t] # <<>>
  BY DEF RunHandler, IsAt
<1>3. SUFFICES ASSUME NEW n \in Nat, NEW f, n = Len(stack[t]), f = Top(t)
               PROVE  IInv'
  BY <1>1, LenProperties
<1>4. /\ n \in 1..n /\ f = stack[t][n] /\ f \in Frame /\ n \in 1..Len(stack[t])
      /\ f.op = "send" /\ f.at = "walk" /\ f.h # Ring
  BY <1>1, <1>2, <1>3, TopFacts DEF RunHandler, IsAt
<1>5. SUFFICES ASSUME NEW c,
                      c = [f EXCEPT !.at = "handler", !.ran = f.ran \cup {f.h}]
               PROVE  IInv'
  OBVIOUS
<1>6. /\ Become(t, c) /\ owner' = owner
      /\ UNCHANGED <<list, linked, lockDead, cleared, calls>>
  BY <1>3, <1>5 DEF RunHandler
<1>7. /\ c \in Frame /\ c.op = "send" /\ c.at = "handler" /\ c.lock = f.lock
      /\ c.h = f.h /\ c.ran = f.ran \cup {f.h} /\ c.must = f.must
  BY <1>4, <1>5 DEF Frame
<1>8. f.lock = "event" /\ Cursor(f, list, cleared)
  BY <1>3, <1>4 DEF IInv, Cursors, Nested, Kind
<1>9. Kind(c)
  BY <1>7, <1>8 DEF Kind
<1>10. Cursor(c, list, cleared)
  BY <1>4, <1>7, <1>8 DEF Cursor
<1>11. Locks'
  <2>1. \A l \in Lock : Holds(c, l) <=> Holds(f, l)
    BY <1>4, <1>7 DEF Holds
  <2>2. \A l \in Lock : n \in Holding(t, l) <=> Holds(f, l)
    BY <1>4 DEF Holding
  <2>3. \A u \in Thread, m \in Lock : Holding(u, m)' = Holding(u, m)
    <3>1. \A u \in Thread, l \in Lock :
            Holding(u, l)' = IF u # t THEN Holding(u, l)
                             ELSE IF Holds(c, l) THEN Holding(t, l) \cup {n}
                             ELSE Holding(t, l) \ {n}
      BY <1>1, <1>2, <1>3, <1>6, <1>7, HoldingBecome
    <3>2. \A l \in Lock : /\ Holds(f, l) => Holding(t, l) \cup {n} = Holding(t, l)
                          /\ ~Holds(f, l) => Holding(t, l) \ {n} = Holding(t, l)
      BY <2>2
    <3>. QED
      BY <2>1, <3>1, <3>2
  <2>. QED
    BY <1>6, <2>3, LocksKept DEF IInv
<1>. QED
  BY <1>1, <1>2, <1>3, <1>4, <1>6, <1>7, <1>9, <1>10, <1>11, BecomeKeepsIInv

(* The walk goes on to the next node.                                      *)
LEMMA HandlerEndKeepsIInv ==
    ASSUME EventAssumption, IInv, NEW t \in Thread, HandlerEnd(t)
    PROVE  IInv'
<1>1. /\ stack \in [Thread -> Seq(Frame)] /\ list \in Seq(Handler) /\ Once(list)
      /\ owner \in [Lock -> [by : Thread \cup {Nobody}, n : Nat]]
  BY DEF IInv, Shape, Clears
<1>2. stack[t] # <<>>
  BY DEF HandlerEnd, IsAt
<1>3. SUFFICES ASSUME NEW n \in Nat, NEW f, n = Len(stack[t]), f = Top(t)
               PROVE  IInv'
  BY <1>1, LenProperties
<1>4. /\ n \in 1..n /\ f = stack[t][n] /\ f \in Frame /\ n \in 1..Len(stack[t])
      /\ f.op = "send" /\ f.at = "handler"
  BY <1>1, <1>2, <1>3, TopFacts DEF HandlerEnd, IsAt
<1>5. SUFFICES ASSUME NEW x, x = NextOf(list, f.h, Ring)
               PROVE  IInv'
  OBVIOUS
<1>5a. SUFFICES ASSUME NEW c, c = [f EXCEPT !.at = "walk", !.h = x]
                PROVE  IInv'
  OBVIOUS
<1>6. /\ Become(t, c) /\ owner' = owner
      /\ UNCHANGED <<list, linked, lockDead, cleared, calls>>
  BY <1>3, <1>5, <1>5a DEF HandlerEnd
<1>7. f.lock = "event" /\ Cursor(f, list, cleared) /\ Contains(list, f.h)
  BY <1>3, <1>4 DEF IInv, Cursors, Cursor, Nested, Kind
<1>8. \/ x = Ring /\ \A y : ~Before(list, f.h, y)
      \/ /\ x # Ring /\ Contains(list, x) /\ x \in Handler
         /\ \A y : y = f.h \/ Before(list, y, f.h) => Before(list, y, x)
         /\ \A y : Before(list, f.h, y) => y = x \/ Before(list, x, y)
  BY <1>1, <1>5, <1>7, NextFacts DEF EventAssumption
<1>9. /\ c \in Frame /\ c.op = "send" /\ c.at = "walk" /\ c.lock = f.lock
      /\ c.h = x /\ c.ran = f.ran /\ c.must = f.must
  BY <1>4, <1>5a, <1>8 DEF Frame
<1>10. Kind(c)
  BY <1>7, <1>9 DEF Kind
<1>11. Cursor(c, list, cleared)
  <2>1. /\ \A y \in f.ran : Contains(list, y) \/ cleared[y] > 0
        /\ \A y \in f.must : Contains(list, y)
        /\ \A y \in f.ran : Contains(list, y) => y = f.h \/ Before(list, y, f.h)
        /\ \A y \in f.must \ f.ran : Before(list, f.h, y)
    BY <1>4, <1>7 DEF Cursor
  <2>. QED
    BY <1>8, <1>9, <2>1 DEF Cursor
<1>12. Locks'
  <2>1. \A l \in Lock : Holds(c, l) <=> Holds(f, l)
    BY <1>4, <1>9 DEF Holds
  <2>2. \A l \in Lock : n \in Holding(t, l) <=> Holds(f, l)
    BY <1>4 DEF Holding
  <2>3. \A u \in Thread, m \in Lock : Holding(u, m)' = Holding(u, m)
    <3>1. \A u \in Thread, l \in Lock :
            Holding(u, l)' = IF u # t THEN Holding(u, l)
                             ELSE IF Holds(c, l) THEN Holding(t, l) \cup {n}
                             ELSE Holding(t, l) \ {n}
      BY <1>1, <1>2, <1>3, <1>6, <1>9, HoldingBecome
    <3>2. \A l \in Lock : /\ Holds(f, l) => Holding(t, l) \cup {n} = Holding(t, l)
                          /\ ~Holds(f, l) => Holding(t, l) \ {n} = Holding(t, l)
      BY <2>2
    <3>. QED
      BY <2>1, <3>1, <3>2
  <2>. QED
    BY <1>6, <2>3, LocksKept DEF IInv
<1>. QED
  BY <1>1, <1>2, <1>3, <1>4, <1>6, <1>9, <1>10, <1>11, <1>12, BecomeKeepsIInv

(* The last handler has been run: the send gives the lock back.            *)
LEMMA SendReturnKeepsIInv ==
    ASSUME EventAssumption, IInv, NEW t \in Thread, SendReturn(t)
    PROVE  IInv'
<1>1. /\ stack \in [Thread -> Seq(Frame)]
      /\ owner \in [Lock -> [by : Thread \cup {Nobody}, n : Nat]]
  BY DEF IInv, Shape
<1>2. /\ stack[t] # <<>> /\ Pop(t) /\ Release("event")
      /\ UNCHANGED <<list, linked, lockDead, cleared, calls>>
  BY DEF SendReturn, IsAt
<1>3. SUFFICES ASSUME NEW n \in Nat, NEW f, n = Len(stack[t]), f = Top(t)
               PROVE  IInv'
  BY <1>1, LenProperties
<1>4. /\ n \in 1..n /\ f = stack[t][n] /\ f \in Frame /\ n \in 1..Len(stack[t])
      /\ f.op = "send" /\ f.at = "walk"
  BY <1>1, <1>2, <1>3, TopFacts DEF SendReturn, IsAt
<1>5. Popped(t)
  BY <1>1, <1>2, PopIsPopped
<1>6. owner' \in [Lock -> [by : Thread \cup {Nobody}, n : Nat]] /\ Locks'
  <2>1. /\ Holds(f, "event") /\ "event" \in Lock
        /\ \A l \in Lock : l # "event" => ~Holds(f, l)
    BY <1>4 DEF Holds, Lock
  <2>2. n \in Holding(t, "event") /\ \A l \in Lock : l # "event" => n \notin Holding(t, l)
    BY <1>4, <2>1 DEF Holding
  <2>3. \A l \in Lock : l # "event" => Holding(t, l) \ {n} = Holding(t, l)
    BY <2>2
  <2>4. /\ Holding(t, "event")' = Holding(t, "event") \ {n}
        /\ \A u \in Thread, m \in Lock : u # t \/ m # "event" => Holding(u, m)' = Holding(u, m)
    <3>1. \A u \in Thread, m \in Lock :
            Holding(u, m)' = IF u = t THEN Holding(t, m) \ {n} ELSE Holding(u, m)
      BY <1>1, <1>3, <1>5, HoldingPop
    <3>. QED
      BY <2>1, <2>3, <3>1
  <2>5. Locks
    BY DEF IInv
  <2>. QED
    BY <1>1, <1>2, <2>1, <2>2, <2>4, <2>5, LockGivenBack
<1>. QED
  BY <1>2, <1>5, <1>6, PopKeepsIInv

(* The section of an outer lock is entered, ...                            *)
LEMMA SectionLockKeepsIInv ==
    ASSUME EventAssumption, IInv, NEW t \in Thread, SectionLock(t)
    PROVE  IInv'
<1>1. /\ stack \in [Thread -> Seq(Frame)]
      /\ owner \in [Lock -> [by : Thread \cup {Nobody}, n : Nat]]
  BY DEF IInv, Shape
<1>2. stack[t] # <<>>
  BY DEF SectionLock, IsAt
<1>3. SUFFICES ASSUME NEW n \in Nat, NEW f, n = Len(stack[t]), f = Top(t)
               PROVE  IInv'
  BY <1>1, LenProperties
<1>4. /\ n \in 1..n /\ f = stack[t][n] /\ f \in Frame /\ n \in 1..Len(stack[t])
      /\ f.op = "section" /\ f.at = "lock"
  BY <1>1, <1>2, <1>3, TopFacts DEF SectionLock, IsAt
<1>5. SUFFICES ASSUME NEW c, c = [f EXCEPT !.at = "body"]
               PROVE  IInv'
  OBVIOUS
<1>6. /\ Become(t, c) /\ Acquire(f.lock, t)
      /\ UNCHANGED <<list, linked, lockDead, cleared, calls>>
  BY <1>3, <1>5 DEF SectionLock
<1>7. /\ c \in Frame /\ c.op = "section" /\ c.at = "body" /\ c.lock = f.lock
  BY <1>4, <1>5 DEF Frame
<1>8. f.lock \in {"core", "sip"}
  BY <1>3, <1>4 DEF IInv, Nested, Kind
<1>9. Kind(c)
  BY <1>7, <1>8 DEF Kind
<1>10. Cursor(c, list, cleared)
  BY <1>7 DEF Cursor
<1>11. owner' \in [Lock -> [by : Thread \cup {Nobody}, n : Nat]] /\ Locks'
  <2>1. /\ Holds(c, f.lock) /\ f.lock \in Lock /\ \A l \in Lock : ~Holds(f, l)
        /\ \A l \in Lock : l # f.lock => ~Holds(c, l)
    BY <1>4, <1>7, <1>8 DEF Holds, Lock
  <2>2. \A l \in Lock : n \notin Holding(t, l)
    BY <1>4, <2>1 DEF Holding
  <2>3. \A l \in Lock : Holding(t, l) \ {n} = Holding(t, l)
    BY <2>2
  <2>4. /\ Holding(t, f.lock)' = Holding(t, f.lock) \cup {n}
        /\ \A u \in Thread, m \in Lock : u # t \/ m # f.lock => Holding(u, m)' = Holding(u, m)
    <3>1. \A u \in Thread, l \in Lock :
            Holding(u, l)' = IF u # t THEN Holding(u, l)
                             ELSE IF Holds(c, l) THEN Holding(t, l) \cup {n}
                             ELSE Holding(t, l) \ {n}
      BY <1>1, <1>2, <1>3, <1>6, <1>7, HoldingBecome
    <3>2. PICK k \in Lock : k = f.lock
      BY <2>1
    <3>3. Holding(t, k)' = Holding(t, k) \cup {n}
      BY <2>1, <3>1, <3>2
    <3>. QED
      BY <2>1, <2>3, <3>1, <3>2, <3>3
  <2>5. Locks
    BY DEF IInv
  <2>. QED
    BY <1>1, <1>6, <2>1, <2>2, <2>4, <2>5, LockTaken
<1>. QED
  BY <1>2, <1>3, <1>4, <1>6, <1>7, <1>9, <1>10, <1>11, BecomeKeepsIInv

(* ... and left.                                                           *)
LEMMA SectionEndKeepsIInv ==
    ASSUME EventAssumption, IInv, NEW t \in Thread, SectionEnd(t)
    PROVE  IInv'
<1>1. /\ stack \in [Thread -> Seq(Frame)]
      /\ owner \in [Lock -> [by : Thread \cup {Nobody}, n : Nat]]
  BY DEF IInv, Shape
<1>2. stack[t] # <<>> /\ Pop(t)
      /\ UNCHANGED <<list, linked, lockDead, cleared, calls>>
  BY DEF SectionEnd, IsAt
<1>3. SUFFICES ASSUME NEW n \in Nat, NEW f, n = Len(stack[t]), f = Top(t)
               PROVE  IInv'
  BY <1>1, LenProperties
<1>4. /\ n \in 1..n /\ f = stack[t][n] /\ f \in Frame /\ n \in 1..Len(stack[t])
      /\ f.op = "section" /\ f.at = "body"
  BY <1>1, <1>2, <1>3, TopFacts DEF SectionEnd, IsAt
<1>5. Release(f.lock)
  BY <1>3 DEF SectionEnd
<1>6. Popped(t)
  BY <1>1, <1>2, PopIsPopped
<1>7. f.lock \in {"core", "sip"}
  BY <1>3, <1>4 DEF IInv, Nested, Kind
<1>8. owner' \in [Lock -> [by : Thread \cup {Nobody}, n : Nat]] /\ Locks'
  <2>1. PICK k \in Lock : k = f.lock
    BY <1>7 DEF Lock
  <2>2. Holds(f, k) /\ \A l \in Lock : l # k => ~Holds(f, l)
    BY <1>4, <1>7, <2>1 DEF Holds, Lock
  <2>3. n \in Holding(t, k) /\ \A l \in Lock : l # k => n \notin Holding(t, l)
    BY <1>4, <2>2 DEF Holding
  <2>4. \A l \in Lock : l # k => Holding(t, l) \ {n} = Holding(t, l)
    BY <2>3
  <2>5. /\ Holding(t, k)' = Holding(t, k) \ {n}
        /\ \A u \in Thread, m \in Lock : u # t \/ m # k => Holding(u, m)' = Holding(u, m)
    BY <1>1, <1>3, <1>6, <2>4, HoldingPop
  <2>6. Locks /\ Release(k)
    BY <1>5, <2>1 DEF IInv
  <2>. QED
    BY <1>1, <2>3, <2>5, <2>6, LockGivenBack
<1>. QED
  BY <1>2, <1>6, <1>8, PopKeepsIInv

-----------------------------------------------------------------------------
(* Every state is one of the invariant.                                    *)
LEMMA InitIInv ==
    ASSUME EventAssumption, Init
    PROVE  IInv
<1>1. \A t \in Thread : stack[t] = <<>> /\ Len(stack[t]) = 0
  BY DEF Init
<1>2. \A t \in Thread : \A i : i \notin 1..Len(stack[t])
  BY <1>1
<1>3. stack \in [Thread -> Seq(Frame)]
  BY DEF Init
<1>4. Shape
  <2>1. \A t \in Thread : Len(stack[t]) <= MaxDepth
    BY <1>1 DEF EventAssumption
  <2>2. /\ list \in Seq(Handler) /\ linked \in BOOLEAN /\ lockDead \in BOOLEAN
        /\ cleared \in [Handler -> Nat] /\ calls \in [Thread -> Nat]
    BY DEF Init, EventAssumption
  <2>3. owner \in [Lock -> [by : Thread \cup {Nobody}, n : Nat]]
    BY DEF Init
  <2>. QED
    BY <1>3, <2>1, <2>2, <2>3 DEF Shape
<1>5. Nested /\ Cursors /\ Updates
  BY <1>2 DEF Nested, Cursors, Updates
<1>6. Stages
  BY <1>2 DEF Init, Stages
<1>7. Clears
  BY DEF Init, Clears, Once, EventAssumption, IsInjective
<1>8. Locks
  <2>1. \A t \in Thread, l \in Lock : Holding(t, l) = {}
    BY <1>2 DEF Holding
  <2>. QED
    BY <2>1 DEF Locks, Init, EventAssumption
<1>. QED
  BY <1>4, <1>5, <1>6, <1>7, <1>8 DEF IInv

(* Every step keeps the invariant.                                         *)
LEMMA NextIInv ==
    ASSUME EventAssumption, ~SelfRemoval, IdleDestroy, IInv, [Next]_vars
    PROVE  IInv'
<1>1. CASE UNCHANGED vars
  BY <1>1, StandsStill DEF vars, IInv, Shape
<1>2. ASSUME NEW t \in Thread, Step(t)
      PROVE  IInv'
  BY <1>2, SendLockKeepsIInv, RunHandlerKeepsIInv, HandlerEndKeepsIInv, SendReturnKeepsIInv,
     RegisterKeepsIInv, UnregisterKeepsIInv, SectionLockKeepsIInv, SectionEndKeepsIInv,
     DestroyKeepsIInv DEF Step
<1>3. ASSUME NEW t \in Thread, Start(t)
      PROVE  IInv'
  BY <1>3, StartKeepsIInv
<1>. QED
  BY <1>1, <1>2, <1>3 DEF Next

(* The invariant of the event: locks are held by the calls that took them, *)
(* and sends stand where they should, when no handler unregisters one that *)
(* is being run and the event is destroyed when idle.                      *)
THEOREM InductiveInvariant ==
    ASSUME ~SelfRemoval, IdleDestroy
    PROVE  Spec => []IInv
<1>1. Init => IInv
  BY InitIInv, EventAssumption
<1>2. IInv /\ [Next]_vars => IInv'
  BY NextIInv, EventAssumption
<1>. QED
  BY <1>1, <1>2, PTL DEF Spec

(* The types that the run checks follow from the invariant.                *)
LEMMA IInvTypeOK ==
    ASSUME IInv
    PROVE  TypeOK
<1>1. \A t \in Thread : DOMAIN stack[t] = 1..Len(stack[t])
  BY LenProperties DEF IInv, Shape
<1>2. \A t \in Thread : \A i \in 1..Len(stack[t]) : stack[t][i] \in Frame
  BY ElementOfSeq DEF IInv, Shape
<1>3. \A t \in Thread : \A i \in DOMAIN stack[t] :
        /\ stack[t][i].op \in {"send", "register", "unregister", "section", "destroy"}
        /\ stack[t][i].at \in {"lock", "walk", "handler", "body"}
  BY <1>1, <1>2 DEF Frame
<1>. QED
  BY <1>3 DEF IInv, Shape, TypeOK

(* A send that stands in the list, in the words of the properties.         *)
LEMMA WalkFacts ==
    ASSUME IInv, NEW t \in Thread, IsAt(t, "send", "walk")
    PROVE  /\ Top(t).h \in Handler \cup {Ring} /\ Top(t).ran \subseteq Handler
           /\ Top(t).h = Ring => Top(t).must \subseteq Top(t).ran
           /\ Top(t).h # Ring =>
                /\ Contains(list, Top(t).h)
                /\ \A x \in Top(t).ran : Contains(list, x) => Before(list, x, Top(t).h)
<1>1. stack \in [Thread -> Seq(Frame)] /\ stack[t] # <<>>
  BY DEF IInv, Shape, IsAt
<1>2. SUFFICES ASSUME NEW n \in Nat, NEW f, n = Len(stack[t]), f = Top(t)
               PROVE  /\ Top(t).h \in Handler \cup {Ring} /\ Top(t).ran \subseteq Handler
                      /\ Top(t).h = Ring => Top(t).must \subseteq Top(t).ran
                      /\ Top(t).h # Ring =>
                           /\ Contains(list, Top(t).h)
                           /\ \A x \in Top(t).ran : Contains(list, x) => Before(list, x, Top(t).h)
  BY <1>1, LenProperties
<1>3. /\ n \in 1..Len(stack[t]) /\ f = stack[t][n] /\ f \in Frame
      /\ f.op = "send" /\ f.at = "walk"
  BY <1>1, <1>2, TopFacts DEF IsAt
<1>4. Cursor(f, list, cleared)
  BY <1>3 DEF IInv, Cursors
<1>5. f.h \in Handler \cup {Ring} /\ f.ran \subseteq Handler
  BY <1>3 DEF Frame
<1>. QED
  BY <1>2, <1>3, <1>4, <1>5 DEF Cursor

(* No send runs a handler that has been cleared, none is cleared twice, and*)
(* the event is destroyed with all of them cleared and nobody at its lock. *)
THEOREM NoHandlerAfterClear ==
    ASSUME ~SelfRemoval, IdleDestroy
    PROVE  Spec => []NoCallAfterClear
<1>1. ASSUME IInv
      PROVE  NoCallAfterClear
  <2>1. ASSUME NEW t \in Thread, IsAt(t, "send", "walk"), Top(t).h # Ring
        PROVE  cleared[Top(t).h] = 0
    <3>1. Top(t).h \in Handler /\ Contains(list, Top(t).h)
      BY <1>1, <2>1, WalkFacts
    <3>2. cleared[Top(t).h] <= 0 /\ cleared[Top(t).h] \in Nat
      BY <1>1, <3>1 DEF IInv, Clears, Shape
    <3>. QED
      BY <3>2
  <2>2. \A h \in Handler : cleared[h] <= IF Contains(list, h) THEN 0 ELSE 1
    BY <1>1 DEF IInv, Clears
  <2>3. ASSUME lockDead
        PROVE  /\ \A h \in ToSet(Initial) : cleared[h] = 1
               /\ owner["event"].by = Nobody
               /\ \A t \in Thread : \A i \in DOMAIN stack[t] : stack[t][i].lock # "event"
    <3>1. \A t \in Thread : DOMAIN stack[t] = 1..Len(stack[t])
      BY <1>1, LenProperties DEF IInv, Shape
    <3>2. ~linked /\ list = <<>>
      BY <1>1, <2>3 DEF IInv, Stages
    <3>3. \A t \in Thread : \A i \in 1..Len(stack[t]) : stack[t][i].lock # "event"
      BY <1>1, <2>3, <3>2 DEF IInv, Stages
    <3>4. \A t \in Thread : \A i \in 1..Len(stack[t]) : ~Holds(stack[t][i], "event")
      BY <1>1, <3>3 DEF IInv, Nested, Kind, Holds
    <3>5. \A t \in Thread : Holding(t, "event") = {}
      BY <3>4 DEF Holding
    <3>6. owner["event"].by = Nobody
      <4>. SUFFICES ASSUME owner["event"].by # Nobody
                    PROVE  FALSE
        OBVIOUS
      <4>1. PICK t \in Thread : owner["event"].by = t
        BY <1>1 DEF IInv, Shape, Lock
      <4>2. owner["event"].n = Cardinality(Holding(t, "event")) /\ owner["event"].n > 0
        BY <1>1, <4>1 DEF IInv, Locks, Lock
      <4>. QED
        BY <3>5, <4>2, FS_EmptySet
    <3>7. ASSUME NEW h \in ToSet(Initial)
          PROVE  cleared[h] = 1
      <4>1. h \in Handler /\ Contains(Initial, h)
        BY EventAssumption, ListFacts, LenProperties DEF ToSet, EventAssumption
      <4>2. ~Contains(list, h)
        BY <3>2 DEF Contains
      <4>. QED
        BY <1>1, <4>1, <4>2 DEF IInv, Clears
    <3>. QED
      BY <3>1, <3>3, <3>6, <3>7
  <2>. QED
    BY <1>1, <2>1, <2>2, <2>3, IInvTypeOK DEF NoCallAfterClear
<1>. QED
  BY <1>1, InductiveInvariant, PTL

(* A send runs a handler once, and misses none that stays in the list.     *)
THEOREM SendIsExact ==
    ASSUME ~SelfRemoval, IdleDestroy
    PROVE  Spec => []SendRunsEachOnce
<1>1. ASSUME IInv
      PROVE  SendRunsEachOnce
  <2>. SUFFICES ASSUME NEW t \in Thread, IsAt(t, "send", "walk")
                PROVE  /\ Top(t).h \notin Top(t).ran
                       /\ Top(t).h = Ring => Top(t).must \subseteq Top(t).ran
    BY DEF SendRunsEachOnce
  <2>1. list \in Seq(Handler) /\ Once(list)
    BY <1>1 DEF IInv, Shape, Clears
  <2>2. ~Before(list, Top(t).h, Top(t).h)
    BY <2>1, NotBeforeItself
  <2>. QED
    BY <1>1, <2>2, WalkFacts, EventAssumption DEF EventAssumption
<1>. QED
  BY <1>1, InductiveInvariant, PTL

-----------------------------------------------------------------------------
(* The second part: a work and its checks, WorkChecks.  Its threads have   *)
(* stacks of nested calls and counted locks as those of an event have, and *)
(* the names of these are the same here; of its own it has a work and the  *)
(* checks that were added.                                                 *)
CONSTANTS Check, Quiescent, CheckControls
VARIABLES work, added

W == INSTANCE WorkChecks

WFrame ==
    [op : {"add", "remove", "test"},
     at : {"sip", "find", "lock", "walk", "asking", "end"},
     c : Check \cup {Ring}, control : BOOLEAN, mode : BOOLEAN,
     must : SUBSET Check, passed : SUBSET Check, failed : SUBSET Check]

WKind(f) ==
    /\ f.op \in {"add", "remove"} => f.c \in Check
    /\ f.op = "add" => f.at \in {"sip", "find", "lock"}
    /\ f.op = "remove" => f.at \in {"sip", "lock"}
    /\ f.op = "test" => f.at \in {"find", "lock", "walk", "asking", "end"} /\ ~f.control
    /\ f.at = "sip" => f.control

(* A call that another one is nested in asks a check.                      *)
WOuter(f) == f.op = "test" /\ f.at = "asking"

(* TypeOK, but for the locks, and the types it leaves open.                *)
WShape ==
    /\ work \in {"none", "listed", "gone"}
    /\ list \in Seq(Check)
    /\ added \in SUBSET Check
    /\ cleared \in [Check -> 0..2]
    /\ stack \in [Thread -> Seq(WFrame)]
    /\ owner \in [W!Lock -> [by : Thread \cup {Nobody}, n : Nat]]
    /\ calls \in [Thread -> 0..MaxCalls]
    /\ \A t \in Thread : Len(stack[t]) <= MaxDepth

WNested ==
    \A t \in Thread : \A i \in 1..Len(stack[t]) :
        /\ WKind(stack[t][i])
        /\ i < Len(stack[t]) => WOuter(stack[t][i])

(* The answers after which a test goes on, and those at which it ends.     *)
GoesOn(f) == IF f.mode THEN f.failed ELSE f.passed
Stops(f)  == IF f.mode THEN f.passed ELSE f.failed

(* Where a test stands in list l: it has the answers to go on with of all  *)
(* the checks it owes a question to, but for those at its cursor or behind.*)
WCursor(f, l) ==
    f.op = "test" =>
        /\ f.at \in {"find", "lock"} => f.must = {} /\ Stops(f) = {}
        /\ f.at \in {"walk", "asking"} => Stops(f) = {}
        /\ f.at \in {"walk", "end"} /\ f.c = Ring =>
             Stops(f) = {} /\ f.must \subseteq GoesOn(f)
        /\ f.at = "asking" \/ (f.at = "walk" /\ f.c # Ring) =>
             /\ f.c # Ring /\ Contains(l, f.c)
             /\ \A x \in f.must \ GoesOn(f) : x = f.c \/ Before(l, f.c, x)
        /\ f.at = "end" /\ f.c # Ring => Stops(f) # {}

WCursors ==
    \A t \in Thread : \A i \in 1..Len(stack[t]) : WCursor(stack[t][i], list)

(* A check on its way in was never added; one on its way out was, and if   *)
(* nobody destroys the work meanwhile it is not cleared yet.               *)
WIsUpdate(f) == f.op \in {"add", "remove"}

WUpdate(f, w, a, n) ==
    /\ f.op = "add" => f.c \notin a
    /\ f.op = "remove" => f.c \in a
    /\ Quiescent =>
         /\ f.op = "add" /\ f.at = "lock" => w = "listed"
         /\ f.op = "remove" => n[f.c] = 0

(* Each update is one call's business, and no test of the same thread      *)
(* stands on a check on its way out.                                       *)
WApart ==
    /\ \A t \in Thread : \A i, j \in 1..Len(stack[t]) :
         stack[t][i].op = "remove" /\ stack[t][j].op = "test" => stack[t][i].c # stack[t][j].c
    /\ \A t, u \in Thread : t # u =>
         \A i \in 1..Len(stack[t]), j \in 1..Len(stack[u]) :
             WIsUpdate(stack[t][i]) /\ WIsUpdate(stack[u][j]) => stack[t][i].c # stack[u][j].c

WUpdates ==
    /\ \A t \in Thread : \A i \in 1..Len(stack[t]) :
         WUpdate(stack[t][i], work, added, cleared)
    /\ WApart

(* A check is cleared only after it was added and taken off the list; and, *)
(* if nobody destroys the work in the middle of a call, cleared once.      *)
WClears ==
    /\ Once(list)
    /\ \A x \in Check : Contains(list, x) => x \in added
    /\ \A x \in Check : x \notin added \/ Contains(list, x) => cleared[x] = 0
    /\ Quiescent => \A x \in added :
         /\ ~Contains(list, x) => cleared[x] = 1
         /\ Contains(list, x) => work = "listed"

WHolds(f, l) ==
    \/ l = "core" /\ f.op = "test" /\ f.at \in {"walk", "asking", "end"}
    \/ l = "sip" /\ f.op # "test" /\ f.control /\ f.at # "sip"

WHolding(t, l) == {i \in 1..Len(stack[t]) : WHolds(stack[t][i], l)}

WLocks ==
    \A l \in W!Lock :
        /\ owner[l].by = Nobody => owner[l].n = 0
        /\ \A t \in Thread :
             /\ WHolding(t, l) # {} => owner[l].by = t
             /\ owner[l].by = t => /\ owner[l].n = Cardinality(WHolding(t, l))
                                   /\ owner[l].n > 0

WIInv ==
    /\ WShape
    /\ WNested
    /\ WCursors
    /\ WUpdates
    /\ WClears
    /\ WLocks

-----------------------------------------------------------------------------
(* A step in a work changes the innermost call of one thread: k calls of   *)
(* it stay, and a new one comes.  The calls that stay are what they were,  *)
(* though a test may owe fewer questions.                                  *)
WSame(f, g) ==
    /\ f.op = g.op /\ f.at = g.at /\ f.c = g.c
    /\ f.control = g.control
    /\ f.mode = g.mode
    /\ f.passed = g.passed /\ f.failed = g.failed
    /\ f.must \subseteq g.must

WMoves(t, k, new) ==
    /\ stack' \in [Thread -> Seq(WFrame)]
    /\ k \in Nat /\ k <= Len(stack[t]) /\ Len(stack[t]) <= k + 1
    /\ Len(stack'[t]) = IF new = {} THEN k ELSE k + 1
    /\ \A u \in Thread : u # t => Len(stack'[u]) = Len(stack[u])
    /\ \A u \in Thread : \A i \in 1..Len(stack'[u]) :
         \/ i \in 1..Len(stack[u]) /\ (u = t => i <= k) /\ WSame(stack'[u][i], stack[u][i])
         \/ u = t /\ i = k + 1 /\ stack'[u][i] \in new

(* A call starts.                                                          *)
LEMMA WPushMoves ==
    ASSUME stack \in [Thread -> Seq(WFrame)], NEW t \in Thread, NEW c \in WFrame, W!Push(t, c)
    PROVE  WMoves(t, Len(stack[t]), {c})
<1>1. PICK s \in Seq(WFrame) : s = stack[t]
  OBVIOUS
<1>2. /\ Append(s, c) \in Seq(WFrame)
      /\ Len(s) \in Nat /\ Len(Append(s, c)) = Len(s) + 1
      /\ \A i \in 1..Len(s) : Append(s, c)[i] = s[i]
      /\ Append(s, c)[Len(s) + 1] = c
  BY AppendProperties, LenProperties
<1>3. stack' = [stack EXCEPT ![t] = Append(s, c)]
  BY <1>1 DEF W!Push
<1>4. \A i \in 1..(Len(s) + 1) : i \in 1..Len(s) \/ i = Len(s) + 1
  BY <1>2
<1>5. /\ stack' \in [Thread -> Seq(WFrame)] /\ stack'[t] = Append(s, c)
      /\ \A u \in Thread : u # t => stack'[u] = stack[u]
  BY <1>2, <1>3
<1>6. \A i \in 1..Len(s) : i <= Len(s)
  BY <1>2
<1>7. ASSUME NEW u \in Thread, NEW i \in 1..Len(stack'[u])
      PROVE  \/ i \in 1..Len(stack[u]) /\ (u = t => i <= Len(stack[t]))
                /\ WSame(stack'[u][i], stack[u][i])
             \/ u = t /\ i = Len(stack[t]) + 1 /\ stack'[u][i] \in {c}
  BY <1>1, <1>2, <1>4, <1>5, <1>6 DEF WSame
<1>8. /\ Len(stack[t]) \in Nat /\ Len(stack[t]) <= Len(stack[t])
      /\ Len(stack[t]) <= Len(stack[t]) + 1 /\ Len(stack'[t]) = Len(stack[t]) + 1
  BY <1>1, <1>2, <1>5
<1>. QED
  BY <1>5, <1>7, <1>8 DEF WMoves

(* The innermost call goes on.                                             *)
LEMMA WBecomeMoves ==
    ASSUME stack \in [Thread -> Seq(WFrame)], NEW t \in Thread, stack[t] # <<>>,
           NEW c \in WFrame, W!Become(t, c)
    PROVE  WMoves(t, Len(stack[t]) - 1, {c})
<1>1. PICK s \in Seq(WFrame) : s = stack[t]
  OBVIOUS
<1>2. stack' = [stack EXCEPT ![t] = ReplaceAt(s, Len(s), c)]
  BY <1>1 DEF W!Become, W!ReplaceAt, ReplaceAt
<1>3. /\ Len(s) \in Nat /\ Len(s) > 0 /\ ReplaceAt(s, Len(s), c) \in Seq(WFrame)
      /\ Len(ReplaceAt(s, Len(s), c)) = Len(s)
      /\ ReplaceAt(s, Len(s), c)[Len(s)] = c
      /\ \A i \in 1..(Len(s) - 1) : ReplaceAt(s, Len(s), c)[i] = s[i]
  <2>1. s # <<>> /\ s \in Seq(WFrame) /\ c \in WFrame
    BY <1>1
  <2>. QED
    BY ONLY <2>1, ReplaceLastFacts
<1>4. /\ stack' \in [Thread -> Seq(WFrame)] /\ stack'[t] = ReplaceAt(s, Len(s), c)
      /\ \A u \in Thread : u # t => stack'[u] = stack[u]
  BY <1>2, <1>3
<1>5. PICK k \in Nat : k = Len(s) - 1 /\ Len(s) = k + 1
  <2>1. Len(s) \in Nat /\ Len(s) > 0
    BY <1>3
  <2>. QED
    BY ONLY <2>1
<1>6. \A i \in 1..(k + 1) : (i \in 1..k /\ i <= k) \/ i = k + 1
  OBVIOUS
<1>7. \A i \in 1..k : i \in 1..(k + 1)
  OBVIOUS
<1>8. ASSUME NEW u \in Thread, NEW i \in 1..Len(stack'[u])
      PROVE  \/ i \in 1..Len(stack[u]) /\ (u = t => i <= k)
                /\ WSame(stack'[u][i], stack[u][i])
             \/ u = t /\ i = k + 1 /\ stack'[u][i] \in {c}
  BY <1>1, <1>3, <1>4, <1>5, <1>6, <1>7 DEF WSame
<1>9. k <= Len(stack[t]) /\ Len(stack[t]) <= k + 1 /\ Len(stack[t]) - 1 = k
      /\ Len(stack'[t]) = k + 1
  BY <1>1, <1>3, <1>4, <1>5
<1>. QED
  BY <1>4, <1>5, <1>8, <1>9 DEF WMoves

(* The innermost call returns.                                             *)
LEMMA WPopMoves ==
    ASSUME stack \in [Thread -> Seq(WFrame)], NEW t \in Thread, stack[t] # <<>>, W!Pop(t)
    PROVE  WMoves(t, Len(stack[t]) - 1, {})
<1>1. PICK s \in Seq(WFrame) : s = stack[t]
  OBVIOUS
<1>2. stack' = [stack EXCEPT ![t] = Front(s)]
  BY <1>1 DEF W!Pop, W!Front, Front
<1>3. /\ Len(s) \in Nat /\ Len(s) > 0 /\ Front(s) \in Seq(WFrame)
      /\ Len(Front(s)) = Len(s) - 1
      /\ \A i \in 1..(Len(s) - 1) : Front(s)[i] = s[i]
  BY <1>1, FrontFacts
<1>4. /\ stack' \in [Thread -> Seq(WFrame)] /\ stack'[t] = Front(s)
      /\ \A u \in Thread : u # t => stack'[u] = stack[u]
  BY <1>2, <1>3
<1>5. PICK k \in Nat : k = Len(s) - 1 /\ Len(s) = k + 1
  BY <1>3
<1>6. \A i \in 1..k : i \in 1..(k + 1) /\ i <= k
  OBVIOUS
<1>7. ASSUME NEW u \in Thread, NEW i \in 1..Len(stack'[u])
      PROVE  i \in 1..Len(stack[u]) /\ (u = t => i <= k) /\ WSame(stack'[u][i], stack[u][i])
  BY <1>1, <1>3, <1>4, <1>5, <1>6 DEF WSame
<1>8. k <= Len(stack[t]) /\ Len(stack[t]) <= k + 1 /\ Len(stack[t]) - 1 = k
      /\ Len(stack'[t]) = k
  BY <1>1, <1>3, <1>4, <1>5
<1>. QED
  BY <1>4, <1>5, <1>7, <1>8 DEF WMoves

(* Taking checks off what the tests owe.                                   *)
LEMMA ForgetFacts ==
    ASSUME stack \in [Thread -> Seq(WFrame)], NEW C
    PROVE  /\ W!Forget(C) \in [Thread -> Seq(WFrame)]
           /\ \A u \in Thread : /\ Len(W!Forget(C)[u]) = Len(stack[u])
                                /\ \A i \in 1..Len(stack[u]) :
                                     /\ WSame(W!Forget(C)[u][i], stack[u][i])
                                     /\ W!Forget(C)[u][i].must \cap C = {}
<1>. DEFINE Less(f) == [f EXCEPT !.must = f.must \ C]
            Lessened(s) == [i \in DOMAIN s |-> Less(s[i])]
<1>1. \A f \in WFrame : Less(f) \in WFrame /\ WSame(Less(f), f) /\ Less(f).must \cap C = {}
  BY DEF WFrame, WSame
<1>. HIDE DEF Less
<1>2. ASSUME NEW s \in Seq(WFrame)
      PROVE  /\ Lessened(s) \in Seq(WFrame) /\ Len(Lessened(s)) = Len(s)
             /\ \A i \in 1..Len(s) :
                  WSame(Lessened(s)[i], s[i]) /\ Lessened(s)[i].must \cap C = {}
  <2>1. Len(s) \in Nat /\ DOMAIN s = 1..Len(s) /\ \A i \in 1..Len(s) : s[i] \in WFrame
    BY LenProperties, ElementOfSeq
  <2>2. Lessened(s) \in [1..Len(s) -> WFrame]
    BY <1>1, <2>1
  <2>3. Lessened(s) \in Seq(WFrame) /\ Len(Lessened(s)) = Len(s)
    BY <2>1, <2>2, SeqDef, LenProperties
  <2>. QED
    BY <1>1, <2>1, <2>3
<1>3. W!Forget(C) = [u \in Thread |-> Lessened(stack[u])]
  BY DEF W!Forget, Less
<1>. HIDE DEF Lessened
<1>. QED
  BY <1>2, <1>3

(* What WorkChecks takes from AcoreList is what was proved of it above.    *)
LEMMA SameLists ==
    /\ \A s : W!Last(s) = Last(s)
    /\ \A s : W!Front(s) = Front(s)
    /\ \A s : W!ToSet(s) = ToSet(s)
    /\ \A s, x : W!Contains(s, x) <=> Contains(s, x)
    /\ \A s, x : W!AddUnsorted(s, x) = AddUnsorted(s, x)
    /\ \A s, x : W!Erase(s, x) = Erase(s, x)
    /\ \A s, r : W!FirstOf(s, r) = FirstOf(s, r)
    /\ \A s, x, r : W!NextOf(s, x, r) = NextOf(s, x, r)
<1>1. \A s : W!Last(s) = Last(s) /\ W!Front(s) = Front(s) /\ W!ToSet(s) = ToSet(s)
  BY DEF W!Last, Last, W!Front, Front, W!ToSet, ToSet
<1>2. \A s, x : W!Contains(s, x) <=> Contains(s, x)
  BY DEF W!Contains, Contains
<1>3. \A s, x : W!AddUnsorted(s, x) = AddUnsorted(s, x)
  BY DEF W!AddUnsorted, AddUnsorted, W!InsertAt, InsertAt
<1>4. \A s, x : W!PlaceOf(s, x) = PlaceOf(s, x)
  BY DEF W!PlaceOf, PlaceOf
<1>5. \A s, x : W!Erase(s, x) = Erase(s, x)
  BY <1>2, <1>4 DEF W!Erase, Erase, W!RemoveAt, RemoveAt
<1>6. \A s, r : W!FirstOf(s, r) = FirstOf(s, r)
  BY DEF W!FirstOf, FirstOf
<1>7. \A s, x, r : W!NextOf(s, x, r) = NextOf(s, x, r)
  BY <1>2, <1>4 DEF W!NextOf, NextOf
<1>. QED
  BY <1>1, <1>2, <1>3, <1>5, <1>6, <1>7

-----------------------------------------------------------------------------
(* The innermost call of a thread.                                         *)
LEMMA WTopFacts ==
    ASSUME stack \in [Thread -> Seq(WFrame)], NEW t \in Thread, stack[t] # <<>>
    PROVE  /\ Len(stack[t]) \in Nat /\ Len(stack[t]) \in 1..Len(stack[t])
           /\ Len(stack[t]) - 1 \in Nat /\ (Len(stack[t]) - 1) + 1 = Len(stack[t])
           /\ W!Top(t) = stack[t][Len(stack[t])] /\ W!Top(t) \in WFrame
<1>1. PICK s \in Seq(WFrame) : s = stack[t]
  OBVIOUS
<1>2. Len(s) \in Nat /\ Len(s) > 0
  BY <1>1, EmptySeq, LenProperties
<1>3. Len(s) \in 1..Len(s) /\ Len(s) - 1 \in Nat /\ (Len(s) - 1) + 1 = Len(s)
  BY ONLY <1>2
<1>4. s[Len(s)] \in WFrame
  BY <1>3, ElementOfSeq
<1>. QED
  BY <1>1, <1>2, <1>3, <1>4, SameLists DEF W!Top, Last

(* Which calls hold a lock after a step.                                   *)
WGains(new, l) == \E c \in new : WHolds(c, l)

LEMMA WHoldingMoves ==
    ASSUME stack \in [Thread -> Seq(WFrame)], NEW t \in Thread, NEW k, NEW new,
           WMoves(t, k, new), \A c, d \in new : c = d
    PROVE  /\ \A u \in Thread : \A l : u # t => WHolding(u, l)' = WHolding(u, l)
           /\ \A l : WHolding(t, l)' = IF WGains(new, l) THEN WHolding(t, l) \cup {k + 1}
                                      ELSE WHolding(t, l) \ {k + 1}
<1>1. /\ k \in Nat /\ k <= Len(stack[t]) /\ Len(stack[t]) <= k + 1
      /\ Len(stack'[t]) = IF new = {} THEN k ELSE k + 1
      /\ \A u \in Thread : u # t => Len(stack'[u]) = Len(stack[u])
      /\ \A u \in Thread : \A i \in 1..Len(stack'[u]) :
           \/ i \in 1..Len(stack[u]) /\ (u = t => i <= k) /\ WSame(stack'[u][i], stack[u][i])
           \/ u = t /\ i = k + 1 /\ stack'[u][i] \in new
      /\ Len(stack[t]) \in Nat
  BY LenProperties DEF WMoves
<1>2. \A f, g, l : WSame(f, g) => (WHolds(f, l) <=> WHolds(g, l))
  BY DEF WSame, WHolds
<1>3. ASSUME NEW u \in Thread, NEW l, u # t
      PROVE  WHolding(u, l)' = WHolding(u, l)
  BY <1>1, <1>2, <1>3 DEF WHolding
<1>4. ASSUME NEW l
      PROVE  WHolding(t, l)' = IF WGains(new, l) THEN WHolding(t, l) \cup {k + 1}
                                      ELSE WHolding(t, l) \ {k + 1}
  <2>1. \A i \in 1..k : /\ i \in 1..Len(stack[t]) /\ i \in 1..Len(stack'[t]) /\ i # k + 1
                        /\ i \in 1..(k + 1)
    BY <1>1
  <2>2. \A i \in 1..k : i \in WHolding(t, l)' <=> i \in WHolding(t, l)
    BY <1>1, <1>2, <2>1 DEF WHolding
  <2>3. /\ \A i \in WHolding(t, l) : i \in 1..k \/ i = k + 1
        /\ \A i \in WHolding(t, l)' : i \in 1..k \/ i = k + 1
    <3>1. \A i \in 1..(k + 1) : i \in 1..k \/ i = k + 1
      BY <1>1
    <3>2. \A i \in 1..Len(stack[t]) : i \in 1..(k + 1)
      BY <1>1
    <3>3. \A i \in 1..Len(stack'[t]) : i \in 1..(k + 1)
      BY <1>1, <2>1
    <3>. QED
      BY <3>1, <3>2, <3>3 DEF WHolding
  <2>4. k + 1 \in WHolding(t, l)' <=> WGains(new, l)
    <3>1. CASE new = {}
      <4>1. k + 1 \notin 1..k
        BY <1>1
      <4>. QED
        BY <1>1, <3>1, <4>1 DEF WHolding, WGains
    <3>2. CASE new # {}
      <4>1. k + 1 \in 1..(k + 1) /\ ~(k + 1 <= k)
        BY <1>1
      <4>2. stack'[t][k + 1] \in new
        BY <1>1, <3>2, <4>1
      <4>. QED
        BY <1>1, <3>2, <4>1, <4>2 DEF WHolding, WGains
    <3>. QED
      BY <3>1, <3>2
  <2>. QED
    BY <2>1, <2>2, <2>3, <2>4
<1>. QED
  BY <1>3, <1>4

(* A lock is taken by a call that did not hold it, and given back by one   *)
(* that did.                                                               *)
LEMMA WFiniteHolding ==
    ASSUME stack \in [Thread -> Seq(WFrame)]
    PROVE  \A t \in Thread, l \in W!Lock :
             IsFiniteSet(WHolding(t, l)) /\ Cardinality(WHolding(t, l)) \in Nat
<1>. SUFFICES ASSUME NEW t \in Thread, NEW l \in W!Lock
              PROVE  IsFiniteSet(WHolding(t, l)) /\ Cardinality(WHolding(t, l)) \in Nat
  OBVIOUS
<1>1. PICK n \in Nat : n = Len(stack[t])
  BY LenProperties
<1>2. IsFiniteSet(1..n)
  BY FS_Interval
<1>3. WHolding(t, l) \subseteq 1..n
  BY <1>1 DEF WHolding
<1>. QED
  BY <1>2, <1>3, FS_Subset, FS_CardinalityType

(* Taking a lock: one call more holds it, and it counts one more.          *)
LEMMA WLockTaken ==
    ASSUME W!WorkAssumption, stack \in [Thread -> Seq(WFrame)],
           owner \in [W!Lock -> [by : Thread \cup {Nobody}, n : Nat]], WLocks,
           NEW t \in Thread, NEW l \in W!Lock, NEW k, W!Acquire(l, t),
           k \notin WHolding(t, l), WHolding(t, l)' = WHolding(t, l) \cup {k},
           \A u \in Thread, m \in W!Lock : u # t \/ m # l => WHolding(u, m)' = WHolding(u, m)
    PROVE  owner' \in [W!Lock -> [by : Thread \cup {Nobody}, n : Nat]] /\ WLocks'
<1>1. /\ owner[l].by \in {Nobody, t} /\ owner[l].n \in Nat
      /\ owner' = [owner EXCEPT ![l] = [by |-> t, n |-> owner[l].n + 1]]
  BY DEF W!Acquire, W!Free
<1>2. /\ owner'[l].by = t /\ owner'[l].n = owner[l].n + 1
      /\ \A m \in W!Lock : m # l => owner'[m] = owner[m]
  BY <1>1
<1>3. Cardinality(WHolding(t, l)') = Cardinality(WHolding(t, l)) + 1
  <2>1. IsFiniteSet(WHolding(t, l)) /\ k \notin WHolding(t, l)
    BY WFiniteHolding
  <2>2. Cardinality(WHolding(t, l) \cup {k}) = Cardinality(WHolding(t, l)) + 1
    BY <2>1, FS_AddElement
  <2>. QED
    BY <2>2
<1>4. owner[l].n = Cardinality(WHolding(t, l))
  <2>1. CASE owner[l].by = t
    BY <2>1 DEF WLocks
  <2>2. CASE owner[l].by = Nobody
    <3>1. WHolding(t, l) = {} /\ owner[l].n = 0
      BY <2>2 DEF WLocks, W!WorkAssumption
    <3>. QED
      BY <3>1, FS_EmptySet
  <2>. QED
    BY <1>1, <2>1, <2>2
<1>5. owner' \in [W!Lock -> [by : Thread \cup {Nobody}, n : Nat]]
  BY <1>1
<1>6. ASSUME NEW m \in W!Lock
      PROVE  owner'[m].by = Nobody => owner'[m].n = 0
  BY <1>2, <1>6 DEF WLocks, W!WorkAssumption
<1>7. ASSUME NEW m \in W!Lock, NEW u \in Thread
      PROVE  /\ WHolding(u, m)' # {} => owner'[m].by = u
             /\ owner'[m].by = u =>
                  owner'[m].n = Cardinality(WHolding(u, m)') /\ owner'[m].n > 0
  <2>1. CASE m # l
    BY <1>2, <2>1 DEF WLocks
  <2>2. CASE m = l /\ u = t
    <3>1. owner'[l].n = Cardinality(WHolding(t, l)') /\ owner'[l].n > 0
      BY <1>1, <1>2, <1>3, <1>4
    <3>. QED
      BY <1>2, <2>2, <3>1
  <2>3. CASE m = l /\ u # t
    <3>1. WHolding(u, m) = {}
      BY <1>1, <2>3 DEF WLocks, W!WorkAssumption
    <3>. QED
      BY <1>2, <2>3, <3>1
  <2>. QED
    BY <2>1, <2>2, <2>3
<1>. QED
  BY <1>5, <1>6, <1>7 DEF WLocks

(* Giving a lock back: one call less holds it, and the last one frees it.  *)
LEMMA WLockGivenBack ==
    ASSUME W!WorkAssumption, stack \in [Thread -> Seq(WFrame)],
           owner \in [W!Lock -> [by : Thread \cup {Nobody}, n : Nat]], WLocks,
           NEW t \in Thread, NEW l \in W!Lock, NEW k, W!Release(l),
           k \in WHolding(t, l), WHolding(t, l)' = WHolding(t, l) \ {k},
           \A u \in Thread, m \in W!Lock : u # t \/ m # l => WHolding(u, m)' = WHolding(u, m)
    PROVE  owner' \in [W!Lock -> [by : Thread \cup {Nobody}, n : Nat]] /\ WLocks'
<1>1. /\ owner[l].by = t /\ owner[l].n \in Nat /\ owner[l].n > 0
      /\ owner[l].n = Cardinality(WHolding(t, l))
  BY DEF WLocks
<1>2. /\ owner[l] \in [by : Thread \cup {Nobody}, n : Nat]
      /\ owner' = [owner EXCEPT ![l] =
                IF owner[l].n = 1 THEN [by |-> Nobody, n |-> 0]
                ELSE [by |-> owner[l].by, n |-> owner[l].n - 1]]
  <2>1. owner[l] \in [by : Thread \cup {Nobody}, n : Nat]
    OBVIOUS
  <2>. QED
    BY <2>1, Zenon DEF W!Release
<1>3. /\ owner'[l] = IF owner[l].n = 1 THEN [by |-> Nobody, n |-> 0]
                     ELSE [by |-> owner[l].by, n |-> owner[l].n - 1]
      /\ \A m \in W!Lock : m # l => owner'[m] = owner[m]
  BY <1>2
<1>4. /\ owner'[l].by = IF owner[l].n = 1 THEN Nobody ELSE t
      /\ owner'[l].n = owner[l].n - 1
      /\ owner'[l] \in [by : Thread \cup {Nobody}, n : Nat]
  <2>1. PICK o \in [by : Thread \cup {Nobody}, n : Nat] : o = owner[l]
    BY <1>2
  <2>2. o.n \in Nat /\ o.n > 0 /\ o.by = t
    BY <1>1, <2>1
  <2>3. CASE o.n = 1
    <3>1. owner'[l] = [by |-> Nobody, n |-> 0]
      BY <1>3, <2>1, <2>3
    <3>. QED
      BY <2>1, <2>3, <3>1
  <2>4. CASE o.n # 1
    <3>1. owner'[l] = [by |-> o.by, n |-> o.n - 1]
      BY <1>3, <2>1, <2>4
    <3>2. o.n - 1 \in Nat
      BY <2>2
    <3>. QED
      BY <2>1, <2>2, <2>4, <3>1, <3>2
  <2>. QED
    BY <2>3, <2>4
<1>5. /\ Cardinality(WHolding(t, l)') = Cardinality(WHolding(t, l)) - 1
      /\ IsFiniteSet(WHolding(t, l)')
  <2>1. IsFiniteSet(WHolding(t, l)) /\ k \in WHolding(t, l)
    BY WFiniteHolding
  <2>2. /\ Cardinality(WHolding(t, l) \ {k}) = Cardinality(WHolding(t, l)) - 1
        /\ IsFiniteSet(WHolding(t, l) \ {k})
    BY <2>1, FS_RemoveElement
  <2>. QED
    BY <2>2
<1>6. owner' \in [W!Lock -> [by : Thread \cup {Nobody}, n : Nat]]
  BY <1>2, <1>4
<1>7. ASSUME NEW m \in W!Lock
      PROVE  owner'[m].by = Nobody => owner'[m].n = 0
  BY <1>1, <1>3, <1>4, <1>7 DEF WLocks, W!WorkAssumption
<1>8. ASSUME NEW m \in W!Lock, NEW u \in Thread
      PROVE  /\ WHolding(u, m)' # {} => owner'[m].by = u
             /\ owner'[m].by = u =>
                  owner'[m].n = Cardinality(WHolding(u, m)') /\ owner'[m].n > 0
  <2>1. CASE m # l
    BY <1>3, <2>1 DEF WLocks
  <2>2. CASE m = l /\ u = t
    <3>1. PICK q \in Nat : q = Cardinality(WHolding(t, l)') /\ owner[l].n = q + 1
      BY <1>1, <1>5, FS_CardinalityType
    <3>2. q = 0 => WHolding(t, l)' = {}
      BY <1>5, <3>1, FS_EmptySet
    <3>3. t # Nobody
      BY DEF W!WorkAssumption
    <3>4. /\ owner'[l].by = (IF q = 0 THEN Nobody ELSE t)
          /\ owner'[l].n = q
      BY <1>4, <3>1
    <3>5. /\ WHolding(t, l)' # {} => owner'[l].by = t
          /\ owner'[l].by = t => owner'[l].n = Cardinality(WHolding(t, l)') /\ owner'[l].n > 0
      BY <3>1, <3>2, <3>3, <3>4
    <3>. QED
      BY <2>2, <3>5
  <2>3. CASE m = l /\ u # t
    <3>1. WHolding(u, m) = {}
      BY <1>1, <2>3 DEF WLocks, W!WorkAssumption
    <3>2. WHolding(u, m)' = {}
      BY <2>3, <3>1
    <3>. QED
      BY <1>4, <2>3, <3>2 DEF W!WorkAssumption
  <2>. QED
    BY <2>1, <2>2, <2>3
<1>. QED
  BY <1>6, <1>7, <1>8 DEF WLocks

(* Nothing is taken or given back.                                         *)
LEMMA WLocksKept ==
    ASSUME WLocks, UNCHANGED owner,
           \A u \in Thread, m \in W!Lock : WHolding(u, m)' = WHolding(u, m)
    PROVE  WLocks'
  BY DEF WLocks


-----------------------------------------------------------------------------
(* The parts of the invariant about calls, when one comes or goes.         *)
LEMMA WNestedKept ==
    ASSUME WNested, NEW t \in Thread, NEW k, NEW new, WMoves(t, k, new),
           \A c \in new : WKind(c),
           new # {} => \A i \in 1..k : WOuter(stack[t][i])
    PROVE  WNested'
<1>1. ASSUME NEW u \in Thread, NEW i \in 1..Len(stack'[u])
      PROVE  /\ WKind(stack'[u][i])
             /\ i < Len(stack'[u]) => WOuter(stack'[u][i])
  <2>1. /\ k \in Nat /\ k <= Len(stack[t]) /\ Len(stack[t]) <= k + 1
        /\ Len(stack'[t]) = IF new = {} THEN k ELSE k + 1
        /\ u # t => Len(stack'[u]) = Len(stack[u])
        /\ \/ i \in 1..Len(stack[u]) /\ (u = t => i <= k) /\ WSame(stack'[u][i], stack[u][i])
           \/ u = t /\ i = k + 1 /\ stack'[u][i] \in new
    BY DEF WMoves
  <2>2. CASE u = t /\ i = k + 1 /\ stack'[u][i] \in new
    BY <2>1, <2>2
  <2>3. CASE i \in 1..Len(stack[u]) /\ (u = t => i <= k) /\ WSame(stack'[u][i], stack[u][i])
    <3>1. WKind(stack[u][i]) /\ (i < Len(stack[u]) => WOuter(stack[u][i]))
      BY <2>3 DEF WNested
    <3>2. i < Len(stack'[u]) => WOuter(stack[u][i])
      <4>1. CASE u # t
        BY <2>1, <3>1, <4>1
      <4>2. CASE u = t /\ new = {}
        <5>1. i < Len(stack'[u]) => i < Len(stack[u])
          <6>1. Len(stack'[u]) = k /\ k <= Len(stack[u]) /\ k \in Nat /\ i \in Nat
            BY <2>1, <2>3, <4>2
          <6>. SUFFICES ASSUME i < k
                        PROVE  i < Len(stack[u])
            BY <6>1
          <6>2. Len(stack[u]) \in Nat \/ Len(stack[u]) \notin Nat
            OBVIOUS
          <6>. QED
            BY <2>3, <6>1
        <5>. QED
          BY <3>1, <5>1
      <4>3. CASE u = t /\ new # {}
        <5>1. i \in 1..k
          BY <2>1, <2>3, <4>3
        <5>. QED
          BY <4>3, <5>1
      <4>. QED
        BY <4>1, <4>2, <4>3
    <3>. QED
      BY <2>3, <3>1, <3>2 DEF WSame, WKind, WOuter
  <2>. QED
    BY <2>1, <2>2, <2>3
<1>. QED
  BY <1>1 DEF WNested

(* An update is still one call's business.                                 *)
LEMMA WApartKept ==
    ASSUME WApart, NEW t \in Thread, NEW k, NEW new, WMoves(t, k, new),
           \A c, d \in new : c = d,
           new # {} => \A i \in 1..k : WOuter(stack[t][i]),
           \A c \in new : c.op = "remove" => \A j \in 1..k : stack[t][j].c # c.c,
           \A c \in new : WIsUpdate(c) =>
               \A u \in Thread : u # t =>
                   \A j \in 1..Len(stack[u]) : WIsUpdate(stack[u][j]) => stack[u][j].c # c.c
    PROVE  WApart'
<1>1. ASSUME NEW u \in Thread, NEW i \in 1..Len(stack'[u])
      PROVE  \/ /\ i \in 1..Len(stack[u]) /\ (u = t => i \in 1..k)
                /\ stack'[u][i].op = stack[u][i].op /\ stack'[u][i].c = stack[u][i].c
             \/ u = t /\ stack'[u][i] \in new
  <2>1. /\ k \in Nat
        /\ \/ i \in 1..Len(stack[u]) /\ (u = t => i <= k) /\ WSame(stack'[u][i], stack[u][i])
           \/ u = t /\ i = k + 1 /\ stack'[u][i] \in new
    BY DEF WMoves
  <2>2. i \in 1..Len(stack[u]) /\ i <= k => i \in 1..k
    BY <2>1
  <2>. QED
    BY <2>1, <2>2 DEF WSame
<1>2. ASSUME NEW u \in Thread, NEW i \in 1..Len(stack'[u]), NEW j \in 1..Len(stack'[u]),
             stack'[u][i].op = "remove", stack'[u][j].op = "test"
      PROVE  stack'[u][i].c # stack'[u][j].c
  <2>1. CASE u = t /\ stack'[u][i] \in new
    <3>1. stack'[u][j] \notin new
      BY <1>2, <2>1
    <3>. QED
      BY <1>1, <1>2, <2>1, <3>1
  <2>2. CASE u = t /\ stack'[u][j] \in new /\ ~(stack'[u][i] \in new)
    <3>1. i \in 1..k /\ stack[t][i].op = "remove"
      BY <1>1, <1>2, <2>2
    <3>. QED
      BY <2>2, <3>1 DEF WOuter
  <2>3. CASE /\ i \in 1..Len(stack[u]) /\ j \in 1..Len(stack[u])
             /\ stack'[u][i].op = stack[u][i].op /\ stack'[u][i].c = stack[u][i].c
             /\ stack'[u][j].op = stack[u][j].op /\ stack'[u][j].c = stack[u][j].c
    BY <1>2, <2>3 DEF WApart
  <2>. QED
    BY <1>1, <2>1, <2>2, <2>3
<1>3. ASSUME NEW u \in Thread, NEW v \in Thread, u # v,
             NEW i \in 1..Len(stack'[u]), NEW j \in 1..Len(stack'[v]),
             WIsUpdate(stack'[u][i]), WIsUpdate(stack'[v][j])
      PROVE  stack'[u][i].c # stack'[v][j].c
  <2>1. CASE u = t /\ stack'[u][i] \in new
    <3>1. /\ v # t /\ j \in 1..Len(stack[v])
          /\ stack'[v][j].op = stack[v][j].op /\ stack'[v][j].c = stack[v][j].c
      BY <1>1, <1>3, <2>1
    <3>2. WIsUpdate(stack[v][j])
      BY <1>3, <3>1 DEF WIsUpdate
    <3>3. stack[v][j].c # stack'[u][i].c
      BY <1>3, <2>1, <3>1, <3>2
    <3>. QED
      BY <3>1, <3>3
  <2>2. CASE v = t /\ stack'[v][j] \in new
    <3>1. /\ u # t /\ i \in 1..Len(stack[u])
          /\ stack'[u][i].op = stack[u][i].op /\ stack'[u][i].c = stack[u][i].c
      BY <1>1, <1>3, <2>2
    <3>2. WIsUpdate(stack[u][i])
      BY <1>3, <3>1 DEF WIsUpdate
    <3>3. stack[u][i].c # stack'[v][j].c
      BY <1>3, <2>2, <3>1, <3>2
    <3>. QED
      BY <3>1, <3>3
  <2>3. CASE /\ i \in 1..Len(stack[u]) /\ j \in 1..Len(stack[v])
             /\ stack'[u][i].op = stack[u][i].op /\ stack'[u][i].c = stack[u][i].c
             /\ stack'[v][j].op = stack[v][j].op /\ stack'[v][j].c = stack[v][j].c
    <3>1. WIsUpdate(stack[u][i]) /\ WIsUpdate(stack[v][j])
      BY <1>3, <2>3 DEF WIsUpdate
    <3>. QED
      BY <1>3, <2>3, <3>1 DEF WApart
  <2>. QED
    BY <1>1, <1>3, <2>1, <2>2, <2>3
<1>. QED
  BY <1>2, <1>3 DEF WApart

(* What holds of a call holds of it when it owes fewer questions.          *)
LEMMA WSameFacts ==
    ASSUME NEW f, NEW g, WSame(f, g)
    PROVE  /\ \A l : WCursor(g, l) => WCursor(f, l)
           /\ \A w, a, n : WUpdate(g, w, a, n) => WUpdate(f, w, a, n)
<1>1. Stops(f) = Stops(g) /\ GoesOn(f) = GoesOn(g)
  BY DEF WSame, Stops, GoesOn
<1>2. ASSUME NEW l, WCursor(g, l)
      PROVE  WCursor(f, l)
  BY <1>1, <1>2 DEF WCursor, WSame
<1>. QED
  BY <1>2 DEF WUpdate, WSame

(* The parts about single calls: they hold of those that stay if they hold *)
(* of what these were, and of the new one if it is a good one.             *)
LEMMA WCallsKept ==
    ASSUME NEW t \in Thread, NEW k, NEW new, WMoves(t, k, new),
           \A c \in new : WCursor(c, list') /\ WUpdate(c, work', added', cleared'),
           \A u \in Thread : \A i \in 1..Len(stack[u]) : (u = t => i <= k) =>
               WCursor(stack[u][i], list') /\ WUpdate(stack[u][i], work', added', cleared')
    PROVE  /\ WCursors'
           /\ \A u \in Thread : \A i \in 1..Len(stack'[u]) :
                  WUpdate(stack'[u][i], work', added', cleared')
<1>1. ASSUME NEW u \in Thread, NEW i \in 1..Len(stack'[u])
      PROVE  /\ WCursor(stack'[u][i], list')
             /\ WUpdate(stack'[u][i], work', added', cleared')
  <2>1. \/ i \in 1..Len(stack[u]) /\ (u = t => i <= k) /\ WSame(stack'[u][i], stack[u][i])
        \/ u = t /\ i = k + 1 /\ stack'[u][i] \in new
    BY DEF WMoves
  <2>2. CASE i \in 1..Len(stack[u]) /\ (u = t => i <= k) /\ WSame(stack'[u][i], stack[u][i])
    <3>1. WCursor(stack[u][i], list') /\ WUpdate(stack[u][i], work', added', cleared')
      BY <2>2
    <3>. QED
      BY <2>2, <3>1, WSameFacts
  <2>. QED
    BY <2>1, <2>2
<1>. QED
  BY <1>1 DEF WCursors

(* Stacks stay within the bound.                                           *)
LEMMA WDepthKept ==
    ASSUME NEW t \in Thread, NEW k, NEW new, WMoves(t, k, new), MaxDepth \in Nat,
           \A u \in Thread : Len(stack[u]) <= MaxDepth,
           new # {} => k + 1 <= MaxDepth
    PROVE  \A u \in Thread : Len(stack'[u]) <= MaxDepth
<1>1. /\ k \in Nat /\ k <= Len(stack[t]) /\ Len(stack[t]) <= k + 1
      /\ Len(stack'[t]) = IF new = {} THEN k ELSE k + 1
      /\ \A u \in Thread : u # t => Len(stack'[u]) = Len(stack[u])
  BY DEF WMoves
<1>2. k <= MaxDepth
  <2>1. Len(stack[t]) <= MaxDepth
    OBVIOUS
  <2>2. Len(stack[t]) \in Nat
    BY LenProperties
  <2>. QED
    BY <1>1, <2>1, <2>2
<1>. QED
  BY <1>1, <1>2

(* A call comes, or goes on, and nothing else changes but the locks.       *)
LEMMA WCallComes ==
    ASSUME W!WorkAssumption, WIInv, NEW t \in Thread, NEW k, NEW c \in WFrame,
           WMoves(t, k, {c}), k + 1 <= MaxDepth,
           UNCHANGED <<work, list, added, cleared>>, calls' \in [Thread -> 0..MaxCalls],
           \A i \in 1..k : WOuter(stack[t][i]),
           WKind(c), WCursor(c, list), WUpdate(c, work, added, cleared),
           c.op = "remove" => \A j \in 1..k : stack[t][j].c # c.c,
           WIsUpdate(c) =>
               \A u \in Thread : u # t =>
                   \A j \in 1..Len(stack[u]) : WIsUpdate(stack[u][j]) => stack[u][j].c # c.c,
           owner' \in [W!Lock -> [by : Thread \cup {Nobody}, n : Nat]], WLocks'
    PROVE  WIInv'
<1>1. work' = work /\ list' = list /\ added' = added /\ cleared' = cleared
  OBVIOUS
<1>2. WNested'
  BY WNestedKept DEF WIInv
<1>3. WApart'
  BY WApartKept DEF WIInv, WUpdates
<1>4. /\ WCursors'
      /\ \A u \in Thread : \A i \in 1..Len(stack'[u]) :
             WUpdate(stack'[u][i], work', added', cleared')
  BY <1>1, WCallsKept DEF WIInv, WCursors, WUpdates
<1>5. WShape'
  <2>1. \A u \in Thread : Len(stack'[u]) <= MaxDepth
    BY WDepthKept DEF WIInv, WShape, W!WorkAssumption
  <2>. QED
    BY <1>1, <2>1 DEF WIInv, WShape, WMoves
<1>6. WClears'
  BY <1>1 DEF WIInv, WClears
<1>. QED
  BY <1>2, <1>3, <1>4, <1>5, <1>6 DEF WIInv, WUpdates

(* A call returns, and nothing else changes but the locks.                 *)
LEMMA WCallGoes ==
    ASSUME W!WorkAssumption, WIInv, NEW t \in Thread, NEW k, WMoves(t, k, {}),
           UNCHANGED <<work, list, added, cleared, calls>>,
           owner' \in [W!Lock -> [by : Thread \cup {Nobody}, n : Nat]], WLocks'
    PROVE  WIInv'
<1>1. /\ work' = work /\ list' = list /\ added' = added /\ cleared' = cleared
      /\ calls' = calls
  OBVIOUS
<1>2. WNested'
  BY WNestedKept DEF WIInv
<1>3. WApart'
  BY WApartKept DEF WIInv, WUpdates
<1>4. /\ WCursors'
      /\ \A u \in Thread : \A i \in 1..Len(stack'[u]) :
             WUpdate(stack'[u][i], work', added', cleared')
  BY <1>1, WCallsKept DEF WIInv, WCursors, WUpdates
<1>5. WShape'
  <2>1. \A u \in Thread : Len(stack'[u]) <= MaxDepth
    BY WDepthKept DEF WIInv, WShape, W!WorkAssumption
  <2>. QED
    BY <1>1, <2>1 DEF WIInv, WShape, WMoves
<1>6. WClears'
  BY <1>1 DEF WIInv, WClears
<1>. QED
  BY <1>2, <1>3, <1>4, <1>5, <1>6 DEF WIInv, WUpdates

(* The locks, when a call comes or goes: it takes lock l, gives it back,   *)
(* or leaves all as they are.                                              *)
LEMMA WLocksMove ==
    ASSUME W!WorkAssumption, stack \in [Thread -> Seq(WFrame)],
           owner \in [W!Lock -> [by : Thread \cup {Nobody}, n : Nat]], WLocks,
           NEW t \in Thread, NEW k, NEW new, WMoves(t, k, new), \A c, d \in new : c = d,
           NEW l \in W!Lock,
           \A m \in W!Lock : m # l => (WGains(new, m) <=> k + 1 \in WHolding(t, m)),
           \/ UNCHANGED owner /\ (WGains(new, l) <=> k + 1 \in WHolding(t, l))
           \/ W!Acquire(l, t) /\ WGains(new, l) /\ k + 1 \notin WHolding(t, l)
           \/ W!Release(l) /\ ~WGains(new, l) /\ k + 1 \in WHolding(t, l)
    PROVE  owner' \in [W!Lock -> [by : Thread \cup {Nobody}, n : Nat]] /\ WLocks'
<1>1. /\ \A u \in Thread, m \in W!Lock : u # t => WHolding(u, m)' = WHolding(u, m)
      /\ \A m \in W!Lock : WHolding(t, m)' = IF WGains(new, m) THEN WHolding(t, m) \cup {k + 1}
                                         ELSE WHolding(t, m) \ {k + 1}
  BY WHoldingMoves
<1>2. ASSUME NEW m \in W!Lock, WGains(new, m) <=> k + 1 \in WHolding(t, m)
      PROVE  WHolding(t, m)' = WHolding(t, m)
  <2>1. CASE WGains(new, m)
    <3>1. WHolding(t, m)' = WHolding(t, m) \cup {k + 1} /\ k + 1 \in WHolding(t, m)
      BY <1>1, <1>2, <2>1
    <3>. QED
      BY ONLY <3>1
  <2>2. CASE ~WGains(new, m)
    <3>1. WHolding(t, m)' = WHolding(t, m) \ {k + 1} /\ k + 1 \notin WHolding(t, m)
      BY <1>1, <1>2, <2>2
    <3>. QED
      BY ONLY <3>1
  <2>. QED
    BY <2>1, <2>2
<1>3. \A u \in Thread, m \in W!Lock : u # t \/ m # l => WHolding(u, m)' = WHolding(u, m)
  BY <1>1, <1>2
<1>4. CASE UNCHANGED owner /\ (WGains(new, l) <=> k + 1 \in WHolding(t, l))
  <2>1. \A u \in Thread, m \in W!Lock : WHolding(u, m)' = WHolding(u, m)
    BY <1>2, <1>3, <1>4
  <2>. QED
    BY <1>4, <2>1, WLocksKept
<1>5. CASE W!Acquire(l, t) /\ WGains(new, l) /\ k + 1 \notin WHolding(t, l)
  <2>1. WHolding(t, l)' = WHolding(t, l) \cup {k + 1}
    BY <1>1, <1>5
  <2>. QED
    BY <1>3, <1>5, <2>1, WLockTaken
<1>6. CASE W!Release(l) /\ ~WGains(new, l) /\ k + 1 \in WHolding(t, l)
  <2>1. WHolding(t, l)' = WHolding(t, l) \ {k + 1}
    BY <1>1, <1>6
  <2>. QED
    BY <1>3, <1>6, <2>1, WLockGivenBack
<1>. QED
  BY <1>4, <1>5, <1>6

(* The innermost call holds what its record says.                          *)
LEMMA WTopHolds ==
    ASSUME stack \in [Thread -> Seq(WFrame)], NEW t \in Thread, stack[t] # <<>>
    PROVE  \A l : Len(stack[t]) \in WHolding(t, l) <=> WHolds(W!Top(t), l)
  BY WTopFacts DEF WHolding

(* A section of asip_call.c ends with the call in it.                      *)
LEMMA WControlReleased ==
    ASSUME W!WorkAssumption, WIInv, NEW t \in Thread, stack[t] # <<>>,
           W!Top(t).at \in {"find", "lock"}, W!ReleaseControl(t),
           WMoves(t, Len(stack[t]) - 1, {})
    PROVE  owner' \in [W!Lock -> [by : Thread \cup {Nobody}, n : Nat]] /\ WLocks'
<1>1. stack \in [Thread -> Seq(WFrame)] /\ WLocks
      /\ owner \in [W!Lock -> [by : Thread \cup {Nobody}, n : Nat]]
  BY DEF WIInv, WShape
<1>2. PICK k \in Nat : k = Len(stack[t]) - 1 /\ k + 1 = Len(stack[t]) /\ k + 1 \in 1..Len(stack[t])
  <2>1. /\ Len(stack[t]) - 1 \in Nat /\ (Len(stack[t]) - 1) + 1 = Len(stack[t])
        /\ Len(stack[t]) \in 1..Len(stack[t])
    BY <1>1, WTopFacts
  <2>. QED
    BY <2>1
<1>3. WKind(W!Top(t)) /\ W!Top(t) \in WFrame
  BY <1>1, <1>2, WTopFacts DEF WIInv, WNested
<1>4. \A l : k + 1 \in WHolding(t, l) <=> WHolds(W!Top(t), l)
  BY <1>1, <1>2, WTopHolds
<1>5. ~WHolds(W!Top(t), "core") /\ (WHolds(W!Top(t), "sip") <=> W!Top(t).control)
  BY <1>3 DEF WHolds, WKind, WFrame
<1>6. \A l : ~WGains({}, l)
  BY DEF WGains
<1>7. "sip" \in W!Lock /\ \A m \in W!Lock : m # "sip" => m = "core"
  BY DEF W!Lock
<1>8. WMoves(t, k, {})
  BY <1>2
<1>9. \A c, d \in {} : c = d
  OBVIOUS
<1>10. \A m \in W!Lock : m # "sip" => (WGains({}, m) <=> k + 1 \in WHolding(t, m))
  BY <1>4, <1>5, <1>6, <1>7
<1>11. \/ UNCHANGED owner /\ (WGains({}, "sip") <=> k + 1 \in WHolding(t, "sip"))
       \/ W!Acquire("sip", t) /\ WGains({}, "sip") /\ k + 1 \notin WHolding(t, "sip")
       \/ W!Release("sip") /\ ~WGains({}, "sip") /\ k + 1 \in WHolding(t, "sip")
  BY <1>4, <1>5, <1>6 DEF W!ReleaseControl
<1>. QED
  BY <1>1, <1>7, <1>8, <1>9, <1>10, <1>11, WLocksMove

-----------------------------------------------------------------------------
(* A call starts in a thread without calls or within one that asks a check.*)
LEMMA WCallerIsOuter ==
    ASSUME WIInv, NEW t \in Thread, W!MayCall(t)
    PROVE  \A i \in 1..Len(stack[t]) : WOuter(stack[t][i])
<1>. SUFFICES ASSUME NEW i \in 1..Len(stack[t])
              PROVE  WOuter(stack[t][i])
  OBVIOUS
<1>1. stack \in [Thread -> Seq(WFrame)] /\ stack[t] \in Seq(WFrame)
  BY DEF WIInv, WShape
<1>2. stack[t] # <<>> /\ Len(stack[t]) \in Nat
  BY <1>1, EmptySeq, LenProperties
<1>3. CASE i = Len(stack[t])
  BY <1>1, <1>2, <1>3, WTopFacts DEF W!MayCall, W!IsAt, WOuter
<1>4. CASE i # Len(stack[t])
  <2>1. i < Len(stack[t])
    BY <1>2, <1>4
  <2>. QED
    BY <2>1 DEF WIInv, WNested
<1>. QED
  BY <1>3, <1>4

LEMMA WPendingFacts ==
    ASSUME WIInv, NEW u \in Thread, NEW j \in 1..Len(stack[u]), WIsUpdate(stack[u][j])
    PROVE  stack[u][j].c \in W!Pending
<1>1. stack[u] \in Seq(WFrame)
  BY DEF WIInv, WShape
<1>2. j \in DOMAIN stack[u]
  BY <1>1, LenProperties
<1>3. stack[u][j] \in W!Frames
  BY <1>2 DEF W!Frames
<1>. QED
  BY <1>3 DEF W!Pending, WIsUpdate

(* A call that starts keeps the invariant.                                 *)
LEMMA WStartKeeps ==
    ASSUME W!WorkAssumption, WIInv, NEW t \in Thread, NEW c \in WFrame,
           W!MayCall(t), W!Push(t, c), W!Started(t),
           UNCHANGED <<work, list, added, cleared, owner>>,
           WKind(c), WCursor(c, list), WUpdate(c, work, added, cleared),
           \A l : ~WHolds(c, l),
           c.op = "remove" => \A j \in 1..Len(stack[t]) : stack[t][j].c # c.c,
           WIsUpdate(c) => c.c \notin W!Pending
    PROVE  WIInv'
<1>1. stack \in [Thread -> Seq(WFrame)] /\ WLocks
      /\ owner \in [W!Lock -> [by : Thread \cup {Nobody}, n : Nat]]
      /\ calls \in [Thread -> 0..MaxCalls]
  BY DEF WIInv, WShape
<1>2. PICK k \in Nat : k = Len(stack[t])
  BY <1>1, LenProperties
<1>3. WMoves(t, k, {c})
  BY <1>1, <1>2, WPushMoves
<1>4. k + 1 <= MaxDepth
  <2>1. k < MaxDepth /\ MaxDepth \in Nat
    BY <1>2 DEF W!MayCall, W!WorkAssumption
  <2>. QED
    BY <2>1
<1>5. calls' \in [Thread -> 0..MaxCalls]
  <2>1. calls[t] \in 0..MaxCalls /\ calls[t] < MaxCalls /\ MaxCalls \in Nat
    BY <1>1 DEF W!MayCall, W!WorkAssumption
  <2>2. calls[t] + 1 \in 0..MaxCalls
    BY <2>1
  <2>. QED
    BY <1>1, <2>2 DEF W!Started
<1>6. \A i \in 1..k : WOuter(stack[t][i])
  BY <1>2, WCallerIsOuter
<1>7. \A l : k + 1 \notin WHolding(t, l) /\ ~WGains({c}, l)
  BY <1>2 DEF WHolding, WGains
<1>8. "sip" \in W!Lock
  BY DEF W!Lock
<1>9. owner' \in [W!Lock -> [by : Thread \cup {Nobody}, n : Nat]] /\ WLocks'
  BY <1>1, <1>3, <1>7, <1>8, WLocksMove
<1>10. c.op = "remove" => \A j \in 1..k : stack[t][j].c # c.c
  BY <1>2
<1>11. WIsUpdate(c) =>
         \A u \in Thread : u # t =>
             \A j \in 1..Len(stack[u]) : WIsUpdate(stack[u][j]) => stack[u][j].c # c.c
  BY WPendingFacts
<1>. QED
  BY <1>3, <1>4, <1>5, <1>6, <1>9, <1>10, <1>11, WCallComes

(* The innermost call goes on.                                             *)
LEMMA WGoOnKeeps ==
    ASSUME W!WorkAssumption, WIInv, NEW t \in Thread, stack[t] # <<>>, NEW c \in WFrame,
           W!Become(t, c), UNCHANGED <<work, list, added, cleared, calls>>,
           c.op = W!Top(t).op, WIsUpdate(c) => c.c = W!Top(t).c,
           WKind(c), WCursor(c, list),
           c.op = "add" /\ c.at = "lock" /\ Quiescent => work = "listed",
           NEW l \in W!Lock,
           \A m \in W!Lock : m # l => (WHolds(c, m) <=> WHolds(W!Top(t), m)),
           \/ UNCHANGED owner /\ (WHolds(c, l) <=> WHolds(W!Top(t), l))
           \/ W!Acquire(l, t) /\ WHolds(c, l) /\ ~WHolds(W!Top(t), l)
    PROVE  WIInv'
<1>1. stack \in [Thread -> Seq(WFrame)] /\ WLocks
      /\ owner \in [W!Lock -> [by : Thread \cup {Nobody}, n : Nat]]
      /\ calls \in [Thread -> 0..MaxCalls]
  BY DEF WIInv, WShape
<1>2. PICK k \in Nat : k = Len(stack[t]) - 1 /\ k + 1 = Len(stack[t]) /\ k + 1 \in 1..Len(stack[t])
  <2>1. /\ Len(stack[t]) - 1 \in Nat /\ (Len(stack[t]) - 1) + 1 = Len(stack[t])
        /\ Len(stack[t]) \in 1..Len(stack[t])
    BY <1>1, WTopFacts
  <2>. QED
    BY <2>1
<1>3. W!Top(t) = stack[t][k + 1]
  BY <1>1, <1>2, WTopFacts
<1>4. WMoves(t, k, {c})
  BY <1>1, <1>2, WBecomeMoves
<1>5. k + 1 <= MaxDepth
  BY <1>2 DEF WIInv, WShape
<1>6. \A i \in 1..k : i \in 1..Len(stack[t]) /\ WOuter(stack[t][i])
  <2>1. \A i \in 1..k : i \in 1..(k + 1) /\ i < k + 1
    BY <1>2
  <2>. QED
    BY <1>2, <2>1 DEF WIInv, WNested
<1>7. /\ \A m : k + 1 \in WHolding(t, m) <=> WHolds(W!Top(t), m)
      /\ \A m : WGains({c}, m) <=> WHolds(c, m)
  BY <1>1, <1>2, WTopHolds DEF WGains
<1>8. owner' \in [W!Lock -> [by : Thread \cup {Nobody}, n : Nat]] /\ WLocks'
  <2>1. \A m \in W!Lock : m # l => (WGains({c}, m) <=> k + 1 \in WHolding(t, m))
    BY <1>7
  <2>2. \/ UNCHANGED owner /\ (WGains({c}, l) <=> k + 1 \in WHolding(t, l))
        \/ W!Acquire(l, t) /\ WGains({c}, l) /\ k + 1 \notin WHolding(t, l)
    BY <1>7
  <2>. QED
    BY <1>1, <1>4, <2>1, <2>2, WLocksMove
<1>9. WUpdate(W!Top(t), work, added, cleared)
  BY <1>2, <1>3 DEF WIInv, WUpdates
<1>10. WUpdate(c, work, added, cleared)
  BY <1>9 DEF WUpdate, WIsUpdate
<1>11. c.op = "remove" => \A j \in 1..k : stack[t][j].c # c.c
  BY <1>2, <1>3, <1>6 DEF WIInv, WUpdates, WApart, WOuter, WIsUpdate
<1>12. WIsUpdate(c) =>
         \A u \in Thread : u # t =>
             \A j \in 1..Len(stack[u]) : WIsUpdate(stack[u][j]) => stack[u][j].c # c.c
  <2>1. WIsUpdate(c) => WIsUpdate(stack[t][k + 1]) /\ stack[t][k + 1].c = c.c
    BY <1>3 DEF WIsUpdate
  <2>. QED
    BY <1>2, <2>1 DEF WIInv, WUpdates, WApart
<1>13. calls' \in [Thread -> 0..MaxCalls]
  BY <1>1
<1>. QED
  BY <1>4, <1>5, <1>6, <1>8, <1>10, <1>11, <1>12, <1>13, WCallComes

-----------------------------------------------------------------------------
(* The actions of a work, one by one.                                      *)
LEMMA CreateWorkKeeps ==
    ASSUME W!WorkAssumption, WIInv, NEW t \in Thread, W!CreateWork(t)
    PROVE  WIInv'
<1>1. /\ work = "none" /\ work' = "listed" /\ list' = list /\ added' = added
      /\ cleared' = cleared /\ stack' = stack /\ owner' = owner /\ calls' = calls
  BY DEF W!CreateWork
<1>2. WNested' /\ WCursors' /\ WApart' /\ WLocks'
  <2>1. WNested' /\ WCursors'
    BY <1>1 DEF WIInv, WNested, WCursors
  <2>2. WApart'
    BY <1>1 DEF WIInv, WUpdates, WApart
  <2>3. \A u \in Thread, l \in W!Lock : WHolding(u, l)' = WHolding(u, l)
    BY <1>1 DEF WHolding
  <2>. QED
    BY <1>1, <2>1, <2>2, <2>3, WLocksKept DEF WIInv
<1>3. \A u \in Thread : \A i \in 1..Len(stack'[u]) :
         WUpdate(stack'[u][i], work', added', cleared')
  BY <1>1 DEF WIInv, WUpdates, WUpdate
<1>4. WShape' /\ WClears'
  BY <1>1 DEF WIInv, WShape, WClears
<1>. QED
  BY <1>2, <1>3, <1>4 DEF WIInv, WUpdates

LEMMA StartAddKeeps ==
    ASSUME W!WorkAssumption, WIInv, NEW t \in Thread, NEW x \in Check, NEW b \in BOOLEAN,
           W!StartAdd(t, x, b)
    PROVE  WIInv'
<1>. DEFINE c == W!Call("add", IF b THEN "sip" ELSE "find", x, b, FALSE)
<1>1. /\ c \in WFrame /\ c.op = "add" /\ c.c = x
      /\ c.at = (IF b THEN "sip" ELSE "find")
      /\ c.control = b
  BY DEF W!Call, WFrame
<1>2. W!MayCall(t) /\ W!Push(t, c) /\ W!Started(t) /\ x \notin added \cup W!Pending
      /\ UNCHANGED <<work, list, added, cleared, owner>>
  BY DEF W!StartAdd
<1>. HIDE DEF c
<1>3. WKind(c) /\ WCursor(c, list) /\ WUpdate(c, work, added, cleared) /\ \A l : ~WHolds(c, l)
  BY <1>1, <1>2 DEF WKind, WCursor, WUpdate, WHolds
<1>. QED
  BY <1>1, <1>2, <1>3, WStartKeeps

LEMMA StartRemoveKeeps ==
    ASSUME W!WorkAssumption, ~SelfRemoval, WIInv, NEW t \in Thread, NEW x \in Check,
           NEW b \in BOOLEAN, W!StartRemove(t, x, b)
    PROVE  WIInv'
<1>. DEFINE c == W!Call("remove", IF b THEN "sip" ELSE "lock", x, b, FALSE)
<1>1. /\ c \in WFrame /\ c.op = "remove" /\ c.c = x
      /\ c.at = (IF b THEN "sip" ELSE "lock")
      /\ c.control = b
  BY DEF W!Call, WFrame
<1>2. W!MayCall(t) /\ W!Push(t, c) /\ W!Started(t) /\ x \notin W!Pending
      /\ x \in added /\ cleared[x] = 0 /\ x \notin W!Asked(t)
      /\ UNCHANGED <<work, list, added, cleared, owner>>
  BY DEF W!StartRemove
<1>. HIDE DEF c
<1>3. WKind(c) /\ WCursor(c, list) /\ WUpdate(c, work, added, cleared) /\ \A l : ~WHolds(c, l)
  BY <1>1, <1>2 DEF WKind, WCursor, WUpdate, WHolds
<1>4. \A j \in 1..Len(stack[t]) : stack[t][j].c # c.c
  <2>1. \A j \in 1..Len(stack[t]) : stack[t][j].op = "test"
    BY <1>2, WCallerIsOuter DEF WOuter
  <2>2. DOMAIN stack[t] = 1..Len(stack[t])
    BY LenProperties DEF WIInv, WShape
  <2>. QED
    BY <1>1, <1>2, <2>1, <2>2 DEF W!Asked
<1>. QED
  BY <1>1, <1>2, <1>3, <1>4, WStartKeeps

LEMMA StartTestKeeps ==
    ASSUME W!WorkAssumption, WIInv, NEW t \in Thread, NEW b \in BOOLEAN, W!StartTest(t, b)
    PROVE  WIInv'
<1>. DEFINE c == W!Call("test", "find", Ring, FALSE, b)
<1>1. /\ c \in WFrame /\ c.op = "test" /\ c.at = "find" /\ c.must = {}
      /\ c.passed = {} /\ c.failed = {}
      /\ c.control = FALSE
  BY DEF W!Call, WFrame
<1>2. W!MayCall(t) /\ W!Push(t, c) /\ W!Started(t)
      /\ UNCHANGED <<work, list, added, cleared, owner>>
  BY DEF W!StartTest
<1>. HIDE DEF c
<1>3. WKind(c) /\ WCursor(c, list) /\ WUpdate(c, work, added, cleared) /\ \A l : ~WHolds(c, l)
  BY <1>1, <1>2 DEF WKind, WCursor, WUpdate, WHolds, Stops
<1>. QED
  BY <1>1, <1>2, <1>3, WStartKeeps DEF WIsUpdate

(* The innermost call, and what the invariant says of it.                  *)
LEMMA WInnermost ==
    ASSUME WIInv, NEW t \in Thread, stack[t] # <<>>
    PROVE  /\ W!Top(t) \in WFrame
           /\ WKind(W!Top(t)) /\ WCursor(W!Top(t), list)
           /\ WUpdate(W!Top(t), work, added, cleared)
           /\ stack \in [Thread -> Seq(WFrame)]
<1>1. stack \in [Thread -> Seq(WFrame)]
  BY DEF WIInv, WShape
<1>. QED
  BY <1>1, WTopFacts DEF WIInv, WNested, WCursors, WUpdates

LEMMA EnterControlKeeps ==
    ASSUME W!WorkAssumption, WIInv, NEW t \in Thread, W!EnterControl(t)
    PROVE  WIInv'
<1>. DEFINE f == W!Top(t)
            c == [f EXCEPT !.at = IF f.op = "add" THEN "find" ELSE "lock"]
<1>1. stack[t] # <<>> /\ f.at = "sip" /\ W!Acquire("sip", t) /\ W!Become(t, c)
      /\ UNCHANGED <<work, list, added, cleared, calls>>
  BY DEF W!EnterControl
<1>2. f \in WFrame /\ WKind(f)
  BY <1>1, WInnermost
<1>3. f.op \in {"add", "remove"} /\ f.control /\ f.c \in Check
  BY <1>1, <1>2 DEF WKind, WFrame
<1>4. /\ c \in WFrame /\ c.op = f.op /\ c.c = f.c
      /\ c.at = (IF f.op = "add" THEN "find" ELSE "lock")
      /\ c.control
  BY <1>2, <1>3 DEF WFrame
<1>. HIDE DEF c, f
<1>5. WKind(c) /\ WCursor(c, list)
  BY <1>3, <1>4 DEF WKind, WCursor
<1>6. /\ WHolds(c, "sip") /\ ~WHolds(f, "sip")
      /\ \A m \in W!Lock : m # "sip" => (WHolds(c, m) <=> WHolds(f, m))
  BY <1>1, <1>3, <1>4 DEF WHolds, W!Lock
<1>7. "sip" \in W!Lock /\ ~(c.op = "add" /\ c.at = "lock")
  BY <1>4 DEF W!Lock
<1>. QED
  BY <1>1, <1>4, <1>5, <1>6, <1>7, WGoOnKeeps DEF f

LEMMA FindWorkKeeps ==
    ASSUME W!WorkAssumption, WIInv, NEW t \in Thread, W!FindWork(t)
    PROVE  WIInv'
<1>. DEFINE f == W!Top(t)
            c == [f EXCEPT !.at = "lock"]
<1>1. stack[t] # <<>> /\ f.at = "find" /\ UNCHANGED <<work, list, added, cleared, calls>>
  BY DEF W!FindWork
<1>2. f \in WFrame /\ WKind(f) /\ WCursor(f, list) /\ stack \in [Thread -> Seq(WFrame)]
  BY <1>1, WInnermost
<1>3. CASE work = "listed"
  <2>1. W!Become(t, c) /\ UNCHANGED owner
    BY <1>3 DEF W!FindWork
  <2>2. f.op \in {"add", "test"} /\ f.c \in Check \cup {Ring}
    BY <1>1, <1>2 DEF WKind, WFrame
  <2>3. /\ c \in WFrame /\ c.op = f.op /\ c.c = f.c /\ c.at = "lock"
        /\ c.must = f.must /\ c.passed = f.passed /\ c.failed = f.failed
        /\ c.control = f.control
    BY <1>2 DEF WFrame
  <2>4. c.mode = f.mode
    BY <1>2 DEF WFrame
  <2>. HIDE DEF c, f
  <2>5. Stops(c) = Stops(f)
    BY <2>3, <2>4 DEF Stops
  <2>6. WKind(c) /\ WCursor(c, list)
    BY <1>1, <1>2, <2>2, <2>3, <2>5 DEF WKind, WCursor
  <2>7. \A m \in W!Lock : WHolds(c, m) <=> WHolds(f, m)
    BY <1>1, <2>2, <2>3 DEF WHolds, W!Lock
  <2>8. "sip" \in W!Lock
    BY DEF W!Lock
  <2>. QED
    BY <1>1, <1>3, <2>1, <2>3, <2>6, <2>7, <2>8, WGoOnKeeps DEF f
<1>4. CASE work # "listed"
  <2>1. W!Pop(t) /\ W!ReleaseControl(t)
    BY <1>4 DEF W!FindWork
  <2>2. WMoves(t, Len(stack[t]) - 1, {})
    BY <1>1, <1>2, <2>1, WPopMoves
  <2>3. owner' \in [W!Lock -> [by : Thread \cup {Nobody}, n : Nat]] /\ WLocks'
    BY <1>1, <2>1, <2>2, WControlReleased
  <2>. QED
    BY <1>1, <2>2, <2>3, WCallGoes
<1>. QED
  BY <1>3, <1>4

(* A test that takes the lock stands on the first check, and owes a        *)
(* question to all there are.                                              *)
LEMMA EnterTestKeeps ==
    ASSUME W!WorkAssumption, WIInv, NEW t \in Thread, W!EnterTest(t)
    PROVE  WIInv'
<1>. DEFINE f == W!Top(t)
            c == [f EXCEPT !.at = "walk", !.c = FirstOf(list, Ring), !.must = ToSet(list)]
<1>1. /\ stack[t] # <<>> /\ f.op = "test" /\ f.at = "lock" /\ W!Acquire("core", t)
      /\ W!Become(t, c) /\ UNCHANGED <<work, list, added, cleared, calls>>
  BY SameLists DEF W!EnterTest, W!IsAt
<1>2. f \in WFrame /\ WKind(f) /\ WCursor(f, list)
  BY <1>1, WInnermost
<1>3. list \in Seq(Check) /\ Ring \notin Check
  BY DEF WIInv, WShape, W!WorkAssumption
<1>4. /\ FirstOf(list, Ring) = Ring => \A x : ~Contains(list, x)
      /\ FirstOf(list, Ring) # Ring =>
           /\ Contains(list, FirstOf(list, Ring)) /\ FirstOf(list, Ring) \in Check
           /\ \A x : Contains(list, x) =>
                x = FirstOf(list, Ring) \/ Before(list, FirstOf(list, Ring), x)
  BY <1>3, FirstFacts
<1>5. \A x : x \in ToSet(list) <=> Contains(list, x)
  BY <1>3, ListFacts DEF ToSet
<1>6. ToSet(list) \subseteq Check /\ FirstOf(list, Ring) \in Check \cup {Ring}
  BY <1>3, <1>4, <1>5, ListFacts
<1>7. /\ c \in WFrame /\ c.op = "test" /\ c.at = "walk" /\ c.c = FirstOf(list, Ring)
      /\ c.must = ToSet(list) /\ c.passed = f.passed /\ c.failed = f.failed
      /\ c.control = f.control
  BY <1>1, <1>2, <1>6 DEF WFrame
<1>8. c.mode = f.mode
  BY <1>2 DEF WFrame
<1>. HIDE DEF c, f
<1>9. Stops(c) = {}
  BY <1>1, <1>2, <1>7, <1>8 DEF Stops, WCursor
<1>10. WKind(c) /\ WCursor(c, list)
  BY <1>1, <1>2, <1>4, <1>5, <1>7, <1>9 DEF WKind, WCursor
<1>11. /\ WHolds(c, "core") /\ ~WHolds(f, "core")
       /\ \A m \in W!Lock : m # "core" => (WHolds(c, m) <=> WHolds(f, m))
  BY <1>1, <1>7 DEF WHolds, W!Lock
<1>12. "core" \in W!Lock
  BY DEF W!Lock
<1>. QED
  BY <1>1, <1>7, <1>10, <1>11, <1>12, WGoOnKeeps DEF f, WIsUpdate

LEMMA AskKeeps ==
    ASSUME W!WorkAssumption, WIInv, NEW t \in Thread, W!Ask(t)
    PROVE  WIInv'
<1>. DEFINE f == W!Top(t)
            c == [f EXCEPT !.at = IF f.c = Ring THEN "end" ELSE "asking"]
<1>1. /\ stack[t] # <<>> /\ f.op = "test" /\ f.at = "walk" /\ UNCHANGED owner
      /\ W!Become(t, c) /\ UNCHANGED <<work, list, added, cleared, calls>>
  BY DEF W!Ask, W!IsAt
<1>2. f \in WFrame /\ WKind(f) /\ WCursor(f, list)
  BY <1>1, WInnermost
<1>3. /\ c \in WFrame /\ c.op = "test" /\ c.c = f.c
      /\ c.at = (IF f.c = Ring THEN "end" ELSE "asking")
      /\ c.must = f.must /\ c.passed = f.passed /\ c.failed = f.failed
      /\ c.control = f.control
  BY <1>1, <1>2 DEF WFrame
<1>4. c.mode = f.mode
  BY <1>2 DEF WFrame
<1>. HIDE DEF c, f
<1>5. Stops(c) = Stops(f) /\ GoesOn(c) = GoesOn(f)
  BY <1>3, <1>4 DEF Stops, GoesOn
<1>6. WKind(c) /\ WCursor(c, list)
  BY <1>1, <1>2, <1>3, <1>5 DEF WKind, WCursor
<1>7. "core" \in W!Lock /\ \A m \in W!Lock : WHolds(c, m) <=> WHolds(f, m)
  BY <1>1, <1>3 DEF WHolds, W!Lock
<1>. QED
  BY <1>1, <1>3, <1>6, <1>7, WGoOnKeeps DEF f, WIsUpdate

(* The walk goes on to the next check with one answer more, or ends at one *)
(* that decides it.                                                        *)
LEMMA AnswerKeeps ==
    ASSUME W!WorkAssumption, WIInv, NEW t \in Thread, NEW yes \in BOOLEAN, W!Answer(t, yes)
    PROVE  WIInv'
<1>. DEFINE f == W!Top(t)
            g == IF yes THEN [f EXCEPT !.passed = @ \cup {f.c}]
                 ELSE [f EXCEPT !.failed = @ \cup {f.c}]
            next == NextOf(list, f.c, Ring)
            c == IF yes = f.mode THEN [g EXCEPT !.at = "end"]
                 ELSE [g EXCEPT !.at = "walk", !.c = next]
<1>1. /\ stack[t] # <<>> /\ f.op = "test" /\ f.at = "asking" /\ UNCHANGED owner
      /\ UNCHANGED <<work, list, added, cleared, calls>>
  BY DEF W!Answer, W!IsAt
<1>2. f \in WFrame /\ WKind(f) /\ WCursor(f, list)
  BY <1>1, WInnermost
<1>3. g.c = f.c
  BY <1>2 DEF WFrame
<1>4. W!Become(t, c)
  <2>1. W!Become(t, IF yes = f.mode THEN [g EXCEPT !.at = "end"]
                    ELSE [g EXCEPT !.at = "walk", !.c = W!NextOf(list, g.c, Ring)])
    BY DEF W!Answer
  <2>. QED
    BY <1>3, <2>1, SameLists
<1>5. /\ list \in Seq(Check) /\ Ring \notin Check /\ Once(list) /\ Contains(list, f.c)
      /\ f.c # Ring /\ f.c \in Check
  BY <1>1, <1>2 DEF WIInv, WShape, WClears, W!WorkAssumption, WCursor, WFrame
<1>6. \/ next = Ring /\ \A x : ~Before(list, f.c, x)
      \/ /\ next # Ring /\ Contains(list, next) /\ next \in Check
         /\ \A x : Before(list, f.c, x) => x = next \/ Before(list, next, x)
  BY <1>5, NextFacts
<1>7. /\ g \in WFrame /\ g.op = "test" /\ g.must = f.must /\ g.control = f.control
      /\ g.passed = (IF yes THEN f.passed \cup {f.c} ELSE f.passed)
      /\ g.failed = (IF yes THEN f.failed ELSE f.failed \cup {f.c})
  BY <1>1, <1>2, <1>5 DEF WFrame
<1>8. g.mode = f.mode
  BY <1>2 DEF WFrame
<1>. HIDE DEF g, next
<1>9. next \in Check \cup {Ring}
  BY <1>6
<1>10. /\ c \in WFrame /\ c.op = "test" /\ c.must = f.must /\ c.control = f.control
       /\ c.passed = g.passed /\ c.failed = g.failed
       /\ c.at = (IF yes = f.mode THEN "end" ELSE "walk")
       /\ c.c = (IF yes = f.mode THEN f.c ELSE next)
  <2>1. CASE yes = f.mode
    BY <1>3, <1>7, <2>1 DEF WFrame
  <2>2. CASE yes # f.mode
    BY <1>7, <1>9, <2>2 DEF WFrame
  <2>. QED
    BY <2>1, <2>2
<1>11. c.mode = f.mode
  <2>1. CASE yes = f.mode
    BY <1>7, <1>8, <2>1 DEF WFrame
  <2>2. CASE yes # f.mode
    BY <1>7, <1>8, <2>2 DEF WFrame
  <2>. QED
    BY <2>1, <2>2
<1>. HIDE DEF c, f
<1>12. /\ yes = f.mode => Stops(c) # {}
       /\ yes # f.mode => Stops(c) = {} /\ GoesOn(c) = GoesOn(f) \cup {f.c}
  <2>0. Stops(f) = {}
    BY <1>1, <1>2 DEF WCursor
  <2>1. f.mode \in BOOLEAN /\ yes \in BOOLEAN
    BY <1>2 DEF WFrame
  <2>2. CASE f.mode = TRUE /\ yes = TRUE
    BY <1>7, <1>10, <1>11, <2>2 DEF Stops
  <2>3. CASE f.mode = FALSE /\ yes = FALSE
    BY <1>7, <1>10, <1>11, <2>3 DEF Stops
  <2>4. CASE f.mode = TRUE /\ yes = FALSE
    BY <1>7, <1>10, <1>11, <2>0, <2>4 DEF Stops, GoesOn
  <2>5. CASE f.mode = FALSE /\ yes = TRUE
    BY <1>7, <1>10, <1>11, <2>0, <2>5 DEF Stops, GoesOn
  <2>. QED
    BY <2>1, <2>2, <2>3, <2>4, <2>5
<1>13. WKind(c)
  BY <1>1, <1>2, <1>10 DEF WKind
<1>14. WCursor(c, list)
  <2>1. CASE yes = f.mode
    BY <1>5, <1>10, <1>12, <2>1 DEF WCursor
  <2>2. CASE yes # f.mode
    <3>1. \A x \in f.must \ GoesOn(f) : x = f.c \/ Before(list, f.c, x)
      BY <1>1, <1>2 DEF WCursor
    <3>2. \A x \in c.must \ GoesOn(c) : Before(list, f.c, x)
      BY <1>10, <1>12, <2>2, <3>1
    <3>3. c.at = "walk" /\ c.c = next /\ Stops(c) = {}
      BY <1>10, <1>12, <2>2
    <3>4. CASE next = Ring /\ \A x : ~Before(list, f.c, x)
      <4>1. c.must \subseteq GoesOn(c)
        BY <3>2, <3>4
      <4>. QED
        BY <3>3, <3>4, <4>1 DEF WCursor
    <3>5. CASE /\ next # Ring /\ Contains(list, next) /\ next \in Check
               /\ \A x : Before(list, f.c, x) => x = next \/ Before(list, next, x)
      <4>1. \A x \in c.must \ GoesOn(c) : x = next \/ Before(list, next, x)
        BY <3>2, <3>5
      <4>. QED
        BY <3>3, <3>5, <4>1 DEF WCursor
    <3>. QED
      BY <1>6, <3>4, <3>5
  <2>. QED
    BY <2>1, <2>2
<1>15. "core" \in W!Lock /\ \A m \in W!Lock : WHolds(c, m) <=> WHolds(f, m)
  BY <1>1, <1>10 DEF WHolds, W!Lock
<1>. QED
  BY <1>1, <1>4, <1>10, <1>13, <1>14, <1>15, WGoOnKeeps DEF f, WIsUpdate

LEMMA LeaveTestKeeps ==
    ASSUME W!WorkAssumption, WIInv, NEW t \in Thread, W!LeaveTest(t)
    PROVE  WIInv'
<1>1. /\ stack[t] # <<>> /\ W!Top(t).op = "test" /\ W!Top(t).at = "end"
      /\ W!Release("core") /\ W!Pop(t) /\ UNCHANGED <<work, list, added, cleared, calls>>
  BY DEF W!LeaveTest, W!IsAt
<1>2. stack \in [Thread -> Seq(WFrame)] /\ WLocks
      /\ owner \in [W!Lock -> [by : Thread \cup {Nobody}, n : Nat]]
  BY DEF WIInv, WShape
<1>3. PICK k \in Nat : k = Len(stack[t]) - 1 /\ k + 1 = Len(stack[t])
  BY <1>1, <1>2, WTopFacts
<1>4. WMoves(t, k, {})
  BY <1>1, <1>2, <1>3, WPopMoves
<1>5. \A l : k + 1 \in WHolding(t, l) <=> WHolds(W!Top(t), l)
  BY <1>1, <1>2, <1>3, WTopHolds
<1>6. /\ k + 1 \in WHolding(t, "core") /\ "core" \in W!Lock
      /\ \A m \in W!Lock : m # "core" => k + 1 \notin WHolding(t, m)
      /\ \A l : ~WGains({}, l)
  BY <1>1, <1>5 DEF WHolds, WGains, W!Lock
<1>7. \A c, d \in {} : c = d
  OBVIOUS
<1>8. owner' \in [W!Lock -> [by : Thread \cup {Nobody}, n : Nat]] /\ WLocks'
  BY <1>1, <1>2, <1>4, <1>6, <1>7, WLocksMove
<1>. QED
  BY <1>1, <1>4, <1>8, WCallGoes

-----------------------------------------------------------------------------
(* While a thread could take the core lock, no other one is in a walk.     *)
LEMMA WOthersWait ==
    ASSUME W!WorkAssumption, WIInv, NEW t \in Thread, W!Free("core", t),
           NEW u \in Thread, u # t, NEW i \in 1..Len(stack[u]), stack[u][i].op = "test"
    PROVE  stack[u][i].at \in {"find", "lock"}
<1>1. WHolding(u, "core") = {}
  BY DEF WIInv, WLocks, W!Free, W!WorkAssumption, W!Lock
<1>2. ~WHolds(stack[u][i], "core")
  BY <1>1 DEF WHolding
<1>3. WKind(stack[u][i])
  BY DEF WIInv, WNested
<1>. QED
  BY <1>2, <1>3 DEF WHolds, WKind

(* The innermost call of a thread returns, and the parts about its stack   *)
(* and its locks that do not depend on the list.                           *)
LEMMA WReturnFacts ==
    ASSUME W!WorkAssumption, WIInv, NEW t \in Thread, NEW k, WMoves(t, k, {})
    PROVE  /\ WNested' /\ WApart' /\ stack' \in [Thread -> Seq(WFrame)]
           /\ \A u \in Thread : Len(stack'[u]) <= MaxDepth
           /\ \A u \in Thread : \A i \in 1..Len(stack'[u]) :
                /\ i \in 1..Len(stack[u]) /\ (u = t => i <= k)
                /\ WSame(stack'[u][i], stack[u][i])
<1>1. WNested'
  BY WNestedKept DEF WIInv
<1>2. WApart'
  BY WApartKept DEF WIInv, WUpdates
<1>3. \A u \in Thread : Len(stack'[u]) <= MaxDepth
  BY WDepthKept DEF WIInv, WShape, W!WorkAssumption
<1>. QED
  BY <1>1, <1>2, <1>3 DEF WMoves

(* A check comes into the list: it goes behind the first node, so that a   *)
(* test of the same thread, which stands on a node, stays where it is.     *)
LEMMA AddCheckKeeps ==
    ASSUME W!WorkAssumption, WIInv, NEW t \in Thread, W!AddCheck(t)
    PROVE  WIInv'
<1>. DEFINE f == W!Top(t)
<1>1. /\ stack[t] # <<>> /\ f.op = "add" /\ f.at = "lock" /\ W!ReleaseControl(t)
      /\ W!Pop(t) /\ list' = AddUnsorted(list, f.c) /\ added' = added \cup {f.c}
      /\ work' = work /\ cleared' = cleared /\ calls' = calls
  BY SameLists DEF W!AddCheck, W!IsAt
<1>2. /\ f \in WFrame /\ WKind(f) /\ WUpdate(f, work, added, cleared)
      /\ stack \in [Thread -> Seq(WFrame)]
  BY <1>1, WInnermost
<1>3. PICK k \in Nat : /\ k = Len(stack[t]) - 1 /\ k + 1 = Len(stack[t])
                       /\ f = stack[t][k + 1] /\ k + 1 \in 1..Len(stack[t])
  BY <1>1, <1>2, WTopFacts
<1>4. WMoves(t, k, {})
  BY <1>1, <1>2, <1>3, WPopMoves
<1>5. owner' \in [W!Lock -> [by : Thread \cup {Nobody}, n : Nat]] /\ WLocks'
  BY <1>1, <1>3, <1>4, WControlReleased
<1>6. SUFFICES ASSUME NEW x, x = f.c
               PROVE  WIInv'
  OBVIOUS
<1>7. x \in Check /\ x \notin added /\ (Quiescent => work = "listed")
  BY <1>1, <1>2, <1>6 DEF WKind, WUpdate
<1>8. /\ list \in Seq(Check) /\ Once(list) /\ ~Contains(list, x) /\ added \in SUBSET Check
      /\ cleared \in [Check -> 0..2] /\ cleared[x] = 0
  BY <1>7 DEF WIInv, WShape, WClears
<1>9. /\ list' \in Seq(Check) /\ Once(list')
      /\ \A y : Contains(list', y) <=> Contains(list, y) \/ y = x
      /\ \A y, z : Before(list, y, z) => Before(list', y, z)
  BY <1>1, <1>6, <1>7, <1>8, AddUnsortedFacts
<1>10. /\ WNested' /\ WApart' /\ stack' \in [Thread -> Seq(WFrame)]
       /\ \A u \in Thread : Len(stack'[u]) <= MaxDepth
  BY <1>4, WReturnFacts
<1>11. ASSUME NEW u \in Thread, NEW i \in 1..Len(stack[u]), u = t => i <= k
       PROVE  WCursor(stack[u][i], list') /\ WUpdate(stack[u][i], work', added', cleared')
  <2>1. WCursor(stack[u][i], list) /\ WUpdate(stack[u][i], work, added, cleared)
    BY DEF WIInv, WCursors, WUpdates
  <2>2. WCursor(stack[u][i], list')
    BY <1>9, <2>1 DEF WCursor
  <2>3. WIsUpdate(stack[u][i]) => stack[u][i].c # x
    <3>1. CASE u = t
      <4>1. i < Len(stack[t])
        BY <1>3, <1>11, <3>1
      <4>. QED
        BY <3>1, <4>1 DEF WIInv, WNested, WOuter, WIsUpdate
    <3>2. CASE u # t
      <4>1. WIsUpdate(stack[t][k + 1]) /\ stack[t][k + 1].c = x
        BY <1>1, <1>3, <1>6 DEF WIsUpdate
      <4>. QED
        BY <1>3, <3>2, <4>1 DEF WIInv, WUpdates, WApart
    <3>. QED
      BY <3>1, <3>2
  <2>4. WUpdate(stack[u][i], work', added', cleared')
    BY <1>1, <1>6, <2>1, <2>3 DEF WUpdate, WIsUpdate
  <2>. QED
    BY <2>2, <2>4
<1>12. /\ WCursors'
       /\ \A u \in Thread : \A i \in 1..Len(stack'[u]) :
              WUpdate(stack'[u][i], work', added', cleared')
  BY <1>4, <1>11, WCallsKept
<1>13. WShape'
  BY <1>1, <1>5, <1>6, <1>7, <1>8, <1>9, <1>10 DEF WIInv, WShape
<1>14. WClears'
  <2>1. added' = added \cup {x}
    BY <1>1, <1>6
  <2>2. \A y \in Check : Contains(list', y) => y \in added'
    BY <1>9, <2>1 DEF WIInv, WClears
  <2>3. \A y \in Check : y \notin added' \/ Contains(list', y) => cleared'[y] = 0
    BY <1>1, <1>8, <1>9, <2>1 DEF WIInv, WClears
  <2>4. Quiescent => \A y \in added' : /\ ~Contains(list', y) => cleared'[y] = 1
                                       /\ Contains(list', y) => work' = "listed"
    BY <1>1, <1>7, <1>9, <2>1 DEF WIInv, WClears
  <2>. QED
    BY <1>9, <2>2, <2>3, <2>4 DEF WClears
<1>. QED
  BY <1>5, <1>10, <1>12, <1>13, <1>14 DEF WIInv, WUpdates

(* The call that removes a check returns, and no test owes it a question.  *)
LEMMA RemoveMoves ==
    ASSUME stack \in [Thread -> Seq(WFrame)], NEW t \in Thread, stack[t] # <<>>, NEW x,
           stack' = [W!Forget({x}) EXCEPT ![t] = Front(W!Forget({x})[t])]
    PROVE  /\ WMoves(t, Len(stack[t]) - 1, {})
           /\ \A u \in Thread : \A i \in 1..Len(stack'[u]) : x \notin stack'[u][i].must
<1>. DEFINE s == W!Forget({x})
<1>1. /\ s \in [Thread -> Seq(WFrame)]
      /\ \A u \in Thread : /\ Len(s[u]) = Len(stack[u])
                           /\ \A i \in 1..Len(stack[u]) :
                                /\ WSame(s[u][i], stack[u][i])
                                /\ x \notin s[u][i].must
  BY ForgetFacts
<1>2. stack' = [s EXCEPT ![t] = Front(s[t])]
  OBVIOUS
<1>. HIDE DEF s
<1>3. PICK k \in Nat : k = Len(stack[t]) - 1 /\ Len(stack[t]) = k + 1
  BY WTopFacts
<1>4. /\ Front(s[t]) \in Seq(WFrame) /\ Len(Front(s[t])) = k
      /\ \A i \in 1..k : Front(s[t])[i] = s[t][i]
  <2>1. s[t] \in Seq(WFrame) /\ Len(s[t]) = k + 1 /\ s[t] # <<>>
    BY <1>1, <1>3, EmptySeq
  <2>2. /\ Front(s[t]) \in Seq(WFrame) /\ Len(Front(s[t])) = Len(s[t]) - 1
        /\ \A i \in 1..(Len(s[t]) - 1) : Front(s[t])[i] = s[t][i]
    BY <2>1, FrontFacts
  <2>. QED
    BY <1>3, <2>1, <2>2
<1>5. /\ stack' \in [Thread -> Seq(WFrame)] /\ stack'[t] = Front(s[t])
      /\ \A u \in Thread : u # t => stack'[u] = s[u]
  BY <1>1, <1>2, <1>4
<1>6. \A i \in 1..k : i \in 1..(k + 1) /\ i <= k
  OBVIOUS
<1>7. ASSUME NEW u \in Thread, NEW i \in 1..Len(stack'[u])
      PROVE  /\ i \in 1..Len(stack[u]) /\ (u = t => i <= k)
             /\ WSame(stack'[u][i], stack[u][i])
             /\ x \notin stack'[u][i].must
  <2>1. CASE u = t
    BY <1>1, <1>3, <1>4, <1>5, <1>6, <2>1
  <2>2. CASE u # t
    BY <1>1, <1>5, <2>2
  <2>. QED
    BY <2>1, <2>2
<1>8. k <= Len(stack[t]) /\ Len(stack[t]) <= k + 1 /\ Len(stack'[t]) = k
  BY <1>3, <1>4, <1>5
<1>9. \A u \in Thread : u # t => Len(stack'[u]) = Len(stack[u])
  BY <1>1, <1>5
<1>10. WMoves(t, k, {})
  BY <1>5, <1>7, <1>8, <1>9 DEF WMoves
<1>. QED
  BY <1>3, <1>7, <1>10

(* A check leaves the list: no test of the same thread stands on it, and   *)
(* none owes it a question any more.                                       *)
LEMMA RemoveCheckKeeps ==
    ASSUME W!WorkAssumption, WIInv, NEW t \in Thread, W!RemoveCheck(t)
    PROVE  WIInv'
<1>. DEFINE f == W!Top(t)
<1>1. /\ stack[t] # <<>> /\ f.op = "remove" /\ f.at = "lock" /\ W!ReleaseControl(t)
      /\ W!Free("core", t) /\ cleared[f.c] < 2
      /\ list' = Erase(list, f.c) /\ cleared' = [cleared EXCEPT ![f.c] = @ + 1]
      /\ stack' = [W!Forget({f.c}) EXCEPT ![t] = Front(@)]
      /\ work' = work /\ added' = added /\ calls' = calls
  BY SameLists DEF W!RemoveCheck, W!IsAt
<1>2. /\ f \in WFrame /\ WKind(f) /\ WUpdate(f, work, added, cleared)
      /\ stack \in [Thread -> Seq(WFrame)]
  BY <1>1, WInnermost
<1>3. PICK k \in Nat : /\ k = Len(stack[t]) - 1 /\ k + 1 = Len(stack[t])
                       /\ f = stack[t][k + 1] /\ k + 1 \in 1..Len(stack[t])
  BY <1>1, <1>2, WTopFacts
<1>4. SUFFICES ASSUME NEW x, x = f.c
               PROVE  WIInv'
  OBVIOUS
<1>5. /\ WMoves(t, k, {})
      /\ \A u \in Thread : \A i \in 1..Len(stack'[u]) : x \notin stack'[u][i].must
  BY <1>1, <1>2, <1>3, <1>4, RemoveMoves
<1>6. owner' \in [W!Lock -> [by : Thread \cup {Nobody}, n : Nat]] /\ WLocks'
  BY <1>1, <1>3, <1>5, WControlReleased
<1>7. x \in Check /\ x \in added /\ (Quiescent => cleared[x] = 0) /\ cleared[x] < 2
  BY <1>1, <1>2, <1>4 DEF WKind, WUpdate
<1>8. /\ list \in Seq(Check) /\ Once(list) /\ added \in SUBSET Check
      /\ cleared \in [Check -> 0..2]
  BY DEF WIInv, WShape, WClears
<1>9. /\ list' \in Seq(Check) /\ Once(list')
      /\ \A y : Contains(list', y) <=> Contains(list, y) /\ y # x
      /\ \A y, z : Before(list, y, z) /\ y # x /\ z # x => Before(list', y, z)
  BY <1>1, <1>4, <1>8, EraseFacts
<1>10. /\ cleared' \in [Check -> 0..2] /\ cleared'[x] = cleared[x] + 1
       /\ \A y \in Check : y # x => cleared'[y] = cleared[y]
  <2>1. cleared[x] + 1 \in 0..2
    BY <1>7, <1>8
  <2>. QED
    BY <1>1, <1>4, <1>7, <1>8, <2>1
<1>11. /\ WNested' /\ WApart' /\ stack' \in [Thread -> Seq(WFrame)]
       /\ \A u \in Thread : Len(stack'[u]) <= MaxDepth
       /\ \A u \in Thread : \A i \in 1..Len(stack'[u]) :
            /\ i \in 1..Len(stack[u]) /\ (u = t => i <= k)
            /\ WSame(stack'[u][i], stack[u][i])
  BY <1>5, WReturnFacts
<1>12. ASSUME NEW u \in Thread, NEW i \in 1..Len(stack'[u])
       PROVE  WCursor(stack'[u][i], list') /\ WUpdate(stack'[u][i], work', added', cleared')
  <2>1. /\ i \in 1..Len(stack[u]) /\ (u = t => i <= k) /\ WSame(stack'[u][i], stack[u][i])
        /\ x \notin stack'[u][i].must
    BY <1>5, <1>11
  <2>2. WCursor(stack[u][i], list) /\ WUpdate(stack[u][i], work, added, cleared)
    BY <2>1 DEF WIInv, WCursors, WUpdates
  <2>3. SUFFICES ASSUME NEW g, g = stack'[u][i],
                        g.op = stack[u][i].op, g.at = stack[u][i].at, g.c = stack[u][i].c,
                        WCursor(g, list), WUpdate(g, work, added, cleared),
                        x \notin g.must
                 PROVE  WCursor(g, list') /\ WUpdate(g, work', added', cleared')
    BY <2>1, <2>2, WSameFacts DEF WSame
  <2>4. u = t => WOuter(stack[t][i])
    <3>1. u = t => i \in 1..Len(stack[t]) /\ i < Len(stack[t])
      BY <1>3, <2>1
    <3>. QED
      BY <3>1 DEF WIInv, WNested
  <2>5. g.op = "test" /\ g.at \in {"walk", "asking"} => g.c # x
    <3>1. CASE u = t
      <4>1. stack[t][k + 1].op = "remove" /\ stack[t][k + 1].c = x
        BY <1>1, <1>3, <1>4
      <4>. QED
        BY <1>3, <2>1, <2>3, <3>1, <4>1 DEF WIInv, WUpdates, WApart
    <3>2. CASE u # t
      BY <1>1, <2>1, <2>3, <3>2, WOthersWait
    <3>. QED
      BY <3>1, <3>2
  <2>6. WCursor(g, list')
    BY <1>9, <2>3, <2>5 DEF WCursor
  <2>7. WIsUpdate(g) => g.c # x
    <3>1. CASE u = t
      BY <2>3, <2>4, <3>1 DEF WOuter, WIsUpdate
    <3>2. CASE u # t
      <4>1. WIsUpdate(stack[t][k + 1]) /\ stack[t][k + 1].c = x
        BY <1>1, <1>3, <1>4 DEF WIsUpdate
      <4>2. WIsUpdate(g) => WIsUpdate(stack[u][i])
        BY <2>3 DEF WIsUpdate
      <4>. QED
        BY <1>3, <2>1, <2>3, <3>2, <4>1, <4>2 DEF WIInv, WUpdates, WApart
    <3>. QED
      BY <3>1, <3>2
  <2>8. WUpdate(g, work', added', cleared')
    <3>1. g.op = "remove" => g.c \in Check
      BY <1>8, <2>3 DEF WUpdate
    <3>. QED
      BY <1>1, <1>10, <2>3, <2>7, <3>1 DEF WUpdate, WIsUpdate
  <2>. QED
    BY <2>6, <2>8
<1>13. WCursors' /\ WUpdates'
  BY <1>11, <1>12 DEF WCursors, WUpdates
<1>14. WShape'
  BY <1>1, <1>6, <1>8, <1>9, <1>10, <1>11 DEF WIInv, WShape
<1>15. WClears'
  <2>1. \A y \in Check : Contains(list', y) => y \in added'
    BY <1>1, <1>9 DEF WIInv, WClears
  <2>2. \A y \in Check : y \notin added' \/ Contains(list', y) => cleared'[y] = 0
    BY <1>1, <1>7, <1>9, <1>10 DEF WIInv, WClears
  <2>3. ASSUME Quiescent, NEW y \in added'
        PROVE  /\ ~Contains(list', y) => cleared'[y] = 1
               /\ Contains(list', y) => work' = "listed"
    <3>1. y \in added /\ y \in Check
      BY <1>1, <1>8
    <3>2. y = x => cleared'[y] = 1 /\ ~Contains(list', y)
      BY <1>7, <1>9, <1>10, <2>3
    <3>3. y # x => /\ ~Contains(list, y) => cleared'[y] = 1
                   /\ Contains(list, y) => work = "listed"
      BY <1>10, <2>3, <3>1 DEF WIInv, WClears
    <3>. QED
      BY <1>1, <1>9, <3>2, <3>3
  <2>. QED
    BY <1>9, <2>1, <2>2, <2>3 DEF WClears
<1>. QED
  BY <1>6, <1>11, <1>13, <1>14, <1>15 DEF WIInv

(* The work and its checks go, while no call is in a walk.                 *)
LEMMA DestroyWorkKeeps ==
    ASSUME W!WorkAssumption, WIInv, NEW t \in Thread, W!DestroyWork(t)
    PROVE  WIInv'
<1>1. /\ work = "listed" /\ stack[t] = <<>> /\ (Quiescent => W!Frames = {})
      /\ W!Free("core", t) /\ work' = "gone" /\ list' = <<>>
      /\ cleared' = [c \in Check |-> IF Contains(list, c) THEN cleared[c] + 1 ELSE cleared[c]]
      /\ stack' = W!Forget(ToSet(list))
      /\ added' = added /\ owner' = owner /\ calls' = calls
  BY SameLists DEF W!DestroyWork, W!ClearedByWork
<1>2. /\ stack \in [Thread -> Seq(WFrame)] /\ list \in Seq(Check) /\ added \in SUBSET Check
      /\ cleared \in [Check -> 0..2]
  BY DEF WIInv, WShape
<1>3. /\ stack' \in [Thread -> Seq(WFrame)]
      /\ \A u \in Thread : /\ Len(stack'[u]) = Len(stack[u])
                           /\ \A i \in 1..Len(stack[u]) : WSame(stack'[u][i], stack[u][i])
  BY <1>1, <1>2, ForgetFacts
<1>4. Len(stack[t]) = 0 /\ Len(stack'[t]) = 0
  BY <1>1, <1>2, <1>3, EmptySeq
<1>5. WMoves(t, 0, {})
  <2>1. ASSUME NEW u \in Thread, NEW i \in 1..Len(stack'[u])
        PROVE  /\ i \in 1..Len(stack[u]) /\ (u = t => i <= 0)
               /\ WSame(stack'[u][i], stack[u][i])
    BY <1>3, <1>4
  <2>. QED
    BY <1>3, <1>4, <2>1 DEF WMoves
<1>6. /\ WNested' /\ WApart'
      /\ \A u \in Thread : Len(stack'[u]) <= MaxDepth
  BY <1>5, WReturnFacts
<1>7. Quiescent => \A u \in Thread : Len(stack[u]) = 0
  <2>1. ASSUME Quiescent, NEW u \in Thread
        PROVE  Len(stack[u]) = 0
    <3>1. stack[u] \in Seq(WFrame) /\ Len(stack[u]) \in Nat /\ DOMAIN stack[u] = 1..Len(stack[u])
      BY <1>2, LenProperties
    <3>2. \A i \in 1..Len(stack[u]) : stack[u][i] \in W!Frames
      BY <3>1 DEF W!Frames
    <3>3. 1 \notin 1..Len(stack[u])
      BY <1>1, <2>1, <3>2
    <3>. QED
      BY <3>1, <3>3
  <2>. QED
    BY <2>1
<1>8. ASSUME NEW u \in Thread, NEW i \in 1..Len(stack[u])
      PROVE  WCursor(stack[u][i], list') /\ WUpdate(stack[u][i], work', added', cleared')
  <2>1. WCursor(stack[u][i], list) /\ WUpdate(stack[u][i], work, added, cleared)
    BY DEF WIInv, WCursors, WUpdates
  <2>2. u # t
    BY <1>4, <1>8
  <2>3. stack[u][i].op = "test" => stack[u][i].at \in {"find", "lock"}
    BY <1>1, <2>2, WOthersWait
  <2>4. WCursor(stack[u][i], list')
    BY <2>1, <2>3 DEF WCursor
  <2>5. ~Quiescent
    BY <1>7, <1>8
  <2>. QED
    BY <1>1, <2>1, <2>4, <2>5 DEF WUpdate
<1>9. /\ WCursors'
      /\ \A u \in Thread : \A i \in 1..Len(stack'[u]) :
             WUpdate(stack'[u][i], work', added', cleared')
  BY <1>5, <1>8, WCallsKept
<1>10. WLocks'
  <2>1. \A f, g, l : WSame(f, g) => (WHolds(f, l) <=> WHolds(g, l))
    BY DEF WSame, WHolds
  <2>2. \A u \in Thread, l \in W!Lock : WHolding(u, l)' = WHolding(u, l)
    BY <1>3, <2>1 DEF WHolding
  <2>. QED
    BY <1>1, <2>2, WLocksKept DEF WIInv
<1>11. list' \in Seq(Check) /\ \A y : ~Contains(list', y)
  BY <1>1 DEF Contains
<1>12. cleared' \in [Check -> 0..2]
  <2>1. \A y \in Check : Contains(list, y) => cleared[y] = 0
    BY DEF WIInv, WClears
  <2>. QED
    BY <1>1, <1>2, <2>1
<1>13. WShape'
  BY <1>1, <1>3, <1>6, <1>11, <1>12 DEF WIInv, WShape
<1>14. WClears'
  <2>1. Once(list')
    BY <1>1 DEF Once
  <2>2. \A y \in Check : y \notin added' => cleared'[y] = 0
    BY <1>1 DEF WIInv, WClears
  <2>3. Quiescent => \A y \in added' : cleared'[y] = 1
    <3>1. Quiescent => \A y \in added : ~Contains(list, y) => cleared[y] = 1
      BY DEF WIInv, WClears
    <3>2. \A y \in added : Contains(list, y) => cleared[y] = 0
      BY <1>2 DEF WIInv, WClears
    <3>. QED
      BY <1>1, <1>2, <3>1, <3>2
  <2>. QED
    BY <1>11, <2>1, <2>2, <2>3 DEF WClears
<1>. QED
  BY <1>6, <1>9, <1>10, <1>13, <1>14 DEF WIInv, WUpdates

-----------------------------------------------------------------------------
LEMMA WInitIInv ==
    ASSUME W!WorkAssumption, W!Init
    PROVE  WIInv
<1>1. /\ work = "none" /\ list = <<>> /\ added = {} /\ cleared = [c \in Check |-> 0]
      /\ stack = [t \in Thread |-> <<>>] /\ calls = [t \in Thread |-> 0]
      /\ owner = [l \in W!Lock |-> [by |-> Nobody, n |-> 0]]
      /\ MaxCalls \in Nat /\ MaxDepth \in Nat /\ Nobody \notin Thread
  BY DEF W!Init, W!WorkAssumption
<1>2. <<>> \in Seq(WFrame) /\ <<>> \in Seq(Check) /\ Len(<<>>) = 0
      /\ \A x : ~Contains(<<>>, x)
  BY DEF Contains
<1>3. WShape
  BY <1>1, <1>2 DEF WShape
<1>4. \A u \in Thread : \A i \in 1..Len(stack[u]) : FALSE
  BY <1>1
<1>5. WNested /\ WCursors /\ WUpdates
  BY <1>4 DEF WNested, WCursors, WUpdates, WApart
<1>6. WClears
  BY <1>1, <1>2 DEF WClears, Once
<1>7. WLocks
  <2>1. \A u \in Thread, l \in W!Lock : WHolding(u, l) = {}
    BY <1>4 DEF WHolding
  <2>2. \A l \in W!Lock : owner[l].by = Nobody /\ owner[l].n = 0
    BY <1>1
  <2>. QED
    BY <1>1, <2>1, <2>2 DEF WLocks
<1>. QED
  BY <1>3, <1>5, <1>6, <1>7 DEF WIInv

LEMMA WNextIInv ==
    ASSUME W!WorkAssumption, ~SelfRemoval, WIInv, [W!Next]_(W!vars)
    PROVE  WIInv'
<1>1. CASE UNCHANGED W!vars
  <2>1. /\ work' = work /\ list' = list /\ added' = added /\ cleared' = cleared
        /\ stack' = stack /\ owner' = owner /\ calls' = calls
    BY <1>1 DEF W!vars
  <2>2. \A u \in Thread, l \in W!Lock : WHolding(u, l)' = WHolding(u, l)
    BY <2>1 DEF WHolding
  <2>3. WLocks'
    BY <2>1, <2>2, WLocksKept DEF WIInv
  <2>4. WShape' /\ WNested' /\ WCursors'
    BY <2>1 DEF WIInv, WShape, WNested, WCursors
  <2>5. WUpdates' /\ WClears'
    BY <2>1 DEF WIInv, WUpdates, WApart, WClears
  <2>. QED
    BY <2>3, <2>4, <2>5 DEF WIInv
<1>2. ASSUME NEW t \in Thread, W!Step(t)
      PROVE  WIInv'
  BY <1>2, AddCheckKeeps, RemoveCheckKeeps, EnterControlKeeps, FindWorkKeeps, EnterTestKeeps,
     AskKeeps, LeaveTestKeeps, AnswerKeeps DEF W!Step
<1>3. ASSUME NEW t \in Thread, W!CreateWork(t) \/ W!DestroyWork(t)
      PROVE  WIInv'
  BY <1>3, CreateWorkKeeps, DestroyWorkKeeps
<1>4. ASSUME NEW t \in Thread, NEW c \in Check, NEW control \in BOOLEAN,
             W!StartAdd(t, c, control) \/ W!StartRemove(t, c, control)
      PROVE  WIInv'
  BY <1>4, StartAddKeeps, StartRemoveKeeps
<1>5. ASSUME NEW t \in Thread, NEW mode \in BOOLEAN, W!StartTest(t, mode)
      PROVE  WIInv'
  BY <1>5, StartTestKeeps
<1>. QED
  BY <1>1, <1>2, <1>3, <1>4, <1>5 DEF W!Next

(* The invariant of a work and its checks: a test has the answers of all   *)
(* the checks before its cursor, updates are one call's business, a check  *)
(* is cleared when it leaves the list, locks count the calls that hold     *)
(* them.                                                                   *)
THEOREM ChecksInvariant ==
    ASSUME W!WorkAssumption, ~SelfRemoval
    PROVE  W!Spec => []WIInv
<1>1. W!Init => WIInv
  BY WInitIInv
<1>2. WIInv /\ [W!Next]_(W!vars) => WIInv'
  BY WNextIInv
<1>. QED
  BY <1>1, <1>2, PTL DEF W!Spec

(* What acore_work_test returns is exact for every check that was there    *)
(* from its first step to its last, and it asks none that was cleared, for *)
(* any number of threads, checks and nested calls, when no check removes   *)
(* itself while it is asked.                                               *)
THEOREM TestsAreExact ==
    ASSUME W!WorkAssumption, ~SelfRemoval
    PROVE  W!Spec => []W!TestIsExact
<1>1. ASSUME WIInv
      PROVE  W!TestIsExact
  <2>1. ASSUME NEW t \in Thread, NEW i \in DOMAIN stack[t]
        PROVE  LET f == stack[t][i] IN
               /\ f.op = "test" /\ f.at = "asking" => cleared[f.c] = 0
               /\ f.op = "test" /\ f.at = "end" =>
                    IF f.mode
                    THEN /\ W!Result(f) => f.passed # {}
                         /\ ~W!Result(f) => f.must \subseteq f.failed /\ f.passed = {}
                    ELSE /\ W!Result(f) => f.must \subseteq f.passed /\ f.failed = {}
                         /\ ~W!Result(f) => f.failed # {}
    <3>1. stack[t] \in Seq(WFrame) /\ DOMAIN stack[t] = 1..Len(stack[t])
      BY <1>1, LenProperties DEF WIInv, WShape
    <3>2. stack[t][i] \in WFrame /\ WCursor(stack[t][i], list)
      BY <1>1, <2>1, <3>1, ElementOfSeq DEF WIInv, WCursors
    <3>3. SUFFICES ASSUME NEW f \in WFrame, WCursor(f, list), f.op = "test"
                   PROVE  /\ f.at = "asking" => cleared[f.c] = 0
                          /\ f.at = "end" =>
                               IF f.mode
                               THEN /\ W!Result(f) => f.passed # {}
                                    /\ ~W!Result(f) => f.must \subseteq f.failed /\ f.passed = {}
                               ELSE /\ W!Result(f) => f.must \subseteq f.passed /\ f.failed = {}
                                    /\ ~W!Result(f) => f.failed # {}
      BY <3>2
    <3>4. f.at = "asking" => cleared[f.c] = 0
      BY <1>1, <3>3 DEF WIInv, WClears, WCursor, WFrame
    <3>5. CASE f.at = "end" /\ f.mode
      BY <3>3, <3>5 DEF WCursor, W!Result, Stops, GoesOn
    <3>6. CASE f.at = "end" /\ ~f.mode
      BY <3>3, <3>6 DEF WCursor, W!Result, Stops, GoesOn
    <3>. QED
      BY <3>4, <3>5, <3>6
  <2>. QED
    BY <2>1 DEF W!TestIsExact
<1>. QED
  BY <1>1, ChecksInvariant, PTL

(* A check that was added is in the list of a work that can be found until *)
(* it is cleared, and it is cleared once, for any number of threads, checks*)
(* and nested calls, when no check removes itself while it is asked and no *)
(* call is on its way when the work is destroyed.                          *)
THEOREM ChecksAreKept ==
    ASSUME W!WorkAssumption, ~SelfRemoval, Quiescent
    PROVE  W!Spec => []W!NoCheckIsLost
<1>1. ASSUME WIInv
      PROVE  W!NoCheckIsLost
  <2>1. /\ work \in {"none", "listed", "gone"} /\ list \in Seq(Check) /\ added \in SUBSET Check
        /\ cleared \in [Check -> 0..2] /\ stack \in [Thread -> Seq(WFrame)]
        /\ owner \in [W!Lock -> [by : Thread \cup {Nobody}, n : Nat]]
        /\ calls \in [Thread -> 0..MaxCalls]
    BY <1>1 DEF WIInv, WShape
  <2>2. W!IsInjective(list) /\ W!ToSet(list) \subseteq added
    <3>1. \A i \in DOMAIN list : list[i] \in Check /\ Contains(list, list[i])
      BY <2>1, ListFacts
    <3>. QED
      BY <1>1, <3>1, SameLists DEF WIInv, WClears, Once, W!IsInjective, ToSet
  <2>3. W!Frames \subseteq WFrame
    <3>1. \A u \in Thread : \A i \in DOMAIN stack[u] : stack[u][i] \in WFrame
      BY <2>1, LenProperties, ElementOfSeq
    <3>. QED
      BY <3>1 DEF W!Frames
  <2>4. owner \in [W!Lock -> [by : Thread \cup {Nobody}, n : 0..MaxDepth]]
    <3>1. ASSUME NEW l \in W!Lock
          PROVE  owner[l] \in [by : Thread \cup {Nobody}, n : 0..MaxDepth]
      <4>1. owner[l] \in [by : Thread \cup {Nobody}, n : Nat]
        BY <2>1
      <4>2. MaxDepth \in Nat
        BY DEF W!WorkAssumption
      <4>3. CASE owner[l].by = Nobody
        BY <1>1, <4>1, <4>2, <4>3 DEF WIInv, WLocks
      <4>4. CASE owner[l].by # Nobody
        <5>1. PICK u \in Thread : u = owner[l].by
          BY <4>1, <4>4
        <5>2. owner[l].n = Cardinality(WHolding(u, l))
          BY <1>1, <5>1 DEF WIInv, WLocks
        <5>3. PICK n \in Nat : n = Len(stack[u]) /\ n <= MaxDepth
          BY <1>1, <2>1, LenProperties DEF WIInv, WShape
        <5>4. WHolding(u, l) \subseteq 1..n /\ IsFiniteSet(1..n) /\ Cardinality(1..n) = n
          <6>1. 1 \in Int /\ n \in Int
            BY <5>3
          <6>2. IsFiniteSet(1..n) /\ Cardinality(1..n) = n
            <7>1. /\ IsFiniteSet(1..n)
                  /\ Cardinality(1..n) = IF 1 > n THEN 0 ELSE n - 1 + 1
              BY <6>1, FS_Interval
            <7>. QED
              BY <5>3, <7>1
          <6>. QED
            BY <5>3, <6>2 DEF WHolding
        <5>5. Cardinality(WHolding(u, l)) <= n
          BY <5>4, FS_Subset
        <5>. QED
          BY <4>1, <4>2, <5>2, <5>3, <5>5
      <4>. QED
        BY <4>3, <4>4
    <3>. QED
      BY <2>1, <3>1
  <2>5. \A f \in WFrame :
          /\ f.op \in {"add", "remove", "test"} /\ f.c \in Check \cup {Ring}
          /\ f.at \in {"sip", "find", "lock", "walk", "asking", "end"}
          /\ {f.control, f.mode} \subseteq BOOLEAN
          /\ f.must \cup f.passed \cup f.failed \subseteq Check
    BY DEF WFrame
  <2>6. W!TypeOK
    BY <2>1, <2>2, <2>3, <2>4, <2>5 DEF W!TypeOK
  <2>7. \A c \in added :
          /\ cleared[c] <= 1
          /\ cleared[c] = 0 <=> Contains(list, c)
          /\ cleared[c] = 0 => work = "listed"
    BY <1>1, <2>1 DEF WIInv, WClears
  <2>. QED
    BY <2>6, <2>7, SameLists DEF W!NoCheckIsLost
<1>. QED
  BY <1>1, ChecksInvariant, PTL
=============================================================================
