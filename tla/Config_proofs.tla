---------------------------- MODULE Config_proofs ----------------------------
(***************************************************************************)
(* Proofs about Config for all names, keys, values and files of any        *)
(* length: lists and look-ups yield what the file says, and patterns do    *)
(* not form chains or circles.                                             *)
(***************************************************************************)
EXTENDS Config, FiniteSetTheorems, WellFoundedInduction, TLAPS

(* A set of natural numbers that is not empty has a least one.             *)
LEMMA LeastOf ==
    ASSUME NEW S \in SUBSET Nat, S # {}
    PROVE  /\ Min(S) \in S
           /\ \A x \in S : Min(S) <= x
  <1>1. PICK m \in S : \A y \in S : ~(<<y, m>> \in OpToRel(<, Nat))
    BY WFMin, NatLessThanWellFounded
  <1>2. \A y \in S : m <= y
    <2>1. TAKE y \in S
    <2>2. ~(y < m)
      BY <1>1 DEF OpToRel
    <2>. QED
      BY <2>2
  <1>. QED
    BY <1>2 DEF Min

(* What is least stays so under new, larger numbers.                       *)
LEMMA LeastStays ==
    ASSUME NEW S \in SUBSET Nat, NEW T \in SUBSET Nat, S # {}, S \subseteq T,
           \A y \in T \ S : \A x \in S : x < y
    PROVE  Min(T) = Min(S)
  <1> DEFINE s == Min(S)  t == Min(T)
  <1>1. s \in S /\ \A x \in S : s <= x
    BY LeastOf
  <1>2. t \in T /\ \A x \in T : t <= x
    BY LeastOf
  <1>. HIDE DEF s, t
  <1>3. t <= s /\ s \in Nat /\ t \in Nat
    BY <1>1, <1>2
  <1>4. t \in S
    BY <1>1, <1>2, <1>3
  <1>5. s = t
    BY <1>1, <1>3, <1>4
  <1>. QED
    BY <1>5 DEF s, t

(* A set of numbers up to n that is not empty has a greatest one.          *)
LEMMA GreatestOf ==
    ASSUME NEW n \in Nat, NEW S \in SUBSET (0..n), S # {}
    PROVE  /\ Max(S) \in S
           /\ \A x \in S : Max(S) >= x
  <1> DEFINE T == {n - x : x \in S}
  <1>1. T \in SUBSET Nat /\ T # {}
    <2>1. \A x \in S : n - x \in Nat
      OBVIOUS
    <2>2. \A y \in T : y \in Nat
      BY <2>1
    <2>3. PICK x \in S : TRUE
      OBVIOUS
    <2>4. n - x \in T
      OBVIOUS
    <2>. QED
      BY <2>2, <2>4
  <1>2. PICK m \in S : Min(T) = n - m
    BY <1>1, LeastOf
  <1>3. \A x \in S : n - m <= n - x
    BY <1>1, <1>2, LeastOf
  <1>4. \A x \in S : m >= x
    BY <1>3
  <1>. QED
    BY <1>4 DEF Max

(* The place of a number in a list is how many are there up to it.         *)
LEMMA NthIs ==
    ASSUME NEW n \in Nat, NEW S \in SUBSET (1..n), NEW i \in S
    PROVE  Nth(S, Cardinality(S \cap 1..i)) = i
  <1>1. \A h \in S : IsFiniteSet(S \cap 1..h)
    BY FS_Interval, FS_Subset
  <1>2. ASSUME NEW h \in S, NEW g \in S, h < g
        PROVE  Cardinality(S \cap 1..h) # Cardinality(S \cap 1..g)
    <2>1. S \cap 1..h \subseteq S \cap 1..g
      BY <1>2
    <2>2. g \in S \cap 1..g /\ g \notin S \cap 1..h
      BY <1>2
    <2>. QED
      BY <1>1, <2>1, <2>2, FS_Subset
  <1>3. \A h \in S : Cardinality(S \cap 1..h) = Cardinality(S \cap 1..i) => h = i
    <2>1. SUFFICES ASSUME NEW h \in S, Cardinality(S \cap 1..h) = Cardinality(S \cap 1..i)
                   PROVE  h = i
      OBVIOUS
    <2>2. ~(h < i) /\ ~(i < h)
      BY <1>2, <2>1
    <2>. QED
      BY <2>2
  <1>. QED
    BY <1>3 DEF Nth

(* Every place of a list has its line.                                     *)
Indexed(S) == \A j \in 1..Cardinality(S) : \E i \in S : Cardinality(S \cap 1..i) = j

(* A larger number comes behind all places, which stay what they were.     *)
LEMMA NthMore ==
    ASSUME NEW n \in Nat, NEW S \in SUBSET (1..n), Indexed(S), NEW m \in Nat, n < m
    PROVE  /\ Cardinality(S) \in Nat
           /\ Cardinality(S \cup {m}) = Cardinality(S) + 1
           /\ Nth(S \cup {m}, Cardinality(S) + 1) = m
           /\ \A j \in 1..Cardinality(S) :
                Nth(S, j) \in S /\ Nth(S \cup {m}, j) = Nth(S, j)
           /\ Indexed(S \cup {m})
  <1> DEFINE T == S \cup {m}
  <1>1. IsFiniteSet(S) /\ Cardinality(S) \in Nat
    <2>1. IsFiniteSet(1..n)
      BY FS_Interval
    <2>2. IsFiniteSet(S)
      BY <2>1, FS_Subset
    <2>. QED
      BY <2>2, FS_CardinalityType
  <1>2. Cardinality(T) = Cardinality(S) + 1
    BY <1>1, FS_AddElement
  <1>3. T \cap 1..m = T /\ T \in SUBSET (1..m) /\ m \in T
    <2>1. \A x \in T : x \in 1..m
      OBVIOUS
    <2>. QED
      BY <2>1
  <1>4. \A i \in S : T \cap 1..i = S \cap 1..i
    OBVIOUS
  <1>. HIDE DEF T
  <1>5. Nth(T, Cardinality(S) + 1) = m
    BY <1>2, <1>3, NthIs
  <1>6. ASSUME NEW j \in 1..Cardinality(S)
        PROVE  /\ Nth(S, j) \in S
               /\ Nth(T, j) = Nth(S, j)
               /\ \E i \in T : Cardinality(T \cap 1..i) = j
    <2>1. PICK i \in S : Cardinality(S \cap 1..i) = j
      BY DEF Indexed
    <2>2. Nth(S, j) = i
      BY <2>1, NthIs
    <2>3. i \in T
      BY DEF T
    <2>4. Cardinality(T \cap 1..i) = j
      BY <1>4, <2>1
    <2>5. Nth(T, j) = i
      BY <1>3, <2>3, <2>4, NthIs
    <2>. QED
      BY <2>2, <2>3, <2>4, <2>5
  <1>7. ASSUME NEW j \in 1..Cardinality(T)
        PROVE  \E i \in T : Cardinality(T \cap 1..i) = j
    <2>1. CASE j = Cardinality(S) + 1
      BY <1>2, <1>3, <2>1
    <2>2. CASE j # Cardinality(S) + 1
      <3>1. j \in 1..Cardinality(S)
        BY <1>1, <1>2, <2>2
      <3>. QED
        BY <1>6, <3>1
    <2>. QED
      BY <2>1, <2>2
  <1>. QED
    BY <1>1, <1>2, <1>5, <1>6, <1>7 DEF T, Indexed

(* A line is taken when a key that stands alone right before it is not.    *)
LEMMA TakenAfter ==
    ASSUME NEW t, NEW i \in Nat, i # 0
    PROVE  Taken(t, i + 1) <=> t[i] \in Alone /\ ~Taken(t, i)
  <1> DEFINE from(h) == {j \in 0..h-1 : \A n \in j+1..h-1 : t[n] \in Alone}
             m == Min(from(i))
  <1>0. /\ from(i) \in SUBSET Nat /\ i - 1 \in from(i)
        /\ \A j \in from(i) : j <= i - 1
    OBVIOUS
  <1>1. m \in 0..i-1
    BY <1>0, LeastOf
  <1>4. Taken(t, i) <=> (i - 1 - m) % 2 = 1
    BY DEF Taken
  <1>5. Taken(t, i + 1) <=> ((i + 1) - 1 - Min(from(i + 1))) % 2 = 1
    BY DEF Taken
  <1>2. CASE t[i] \notin Alone
    <2>1. from(i + 1) = {i}
      <3>1. i \in from(i + 1)
        OBVIOUS
      <3>2. \A j \in from(i + 1) : j = i
        <4>1. TAKE j \in from(i + 1)
        <4>2. j < i => i \in j+1..i+1-1
          OBVIOUS
        <4>. QED
          BY <1>2, <4>2
      <3>. QED
        BY <3>1, <3>2
    <2>2. Min({i}) = i
      BY LeastOf
    <2>. HIDE DEF from
    <2>3. Taken(t, i + 1) <=> ((i + 1) - 1 - i) % 2 = 1
      BY <1>5, <2>1, <2>2
    <2>. QED
      BY <1>2, <2>3
  <1>3. CASE t[i] \in Alone
    <2>1. from(i + 1) = from(i) \cup {i}
      <3>1. i \in from(i + 1) /\ i \notin from(i)
        OBVIOUS
      <3>2. ASSUME NEW j \in 0..i-1
            PROVE  j \in from(i + 1) <=> j \in from(i)
        BY <1>3
      <3>. QED
        BY <3>1, <3>2
    <2>2. Min(from(i + 1)) = m
      <3>1. from(i) # {} /\ from(i + 1) \in SUBSET Nat /\ from(i) \subseteq from(i + 1)
        BY <1>0, <2>1
      <3>2. \A y \in from(i + 1) \ from(i) : \A x \in from(i) : x < y
        BY <1>0, <2>1
      <3>. HIDE DEF from
      <3>. QED
        BY <1>0, <3>1, <3>2, LeastStays
    <2>. HIDE DEF m
    <2>. HIDE DEF from
    <2>3. Taken(t, i + 1) <=> ((i + 1) - 1 - m) % 2 = 1
      BY <1>5, <2>2
    <2>. QED
      BY <1>1, <1>3, <1>4, <2>3
  <1>. QED
    BY <1>2, <1>3

(* Nothing has been read before the first line.                            *)
LEMMA FirstNotTaken ==
    ASSUME NEW t
    PROVE  ~Taken(t, 1)
  <1>1. {j \in 0..1-1 : \A n \in j+1..1-1 : t[n] \in Alone} = {0}
    OBVIOUS
  <1>2. Min({0}) = 0
    BY LeastOf
  <1>3. Taken(t, 1) <=> (1 - 1 - 0) % 2 = 1
    BY <1>1, <1>2 DEF Taken
  <1>. QED
    BY <1>3

-----------------------------------------------------------------------------
(* Files and what is added to them. *)

(* The file u goes on where t ends.                                        *)
Extends(u, t) ==
    /\ t \in Seq(Line) /\ u \in Seq(Line)
    /\ Len(t) <= Len(u)
    /\ \A i \in 1..Len(t) : u[i] = t[i]

(* Whether a line is taken depends on the lines above it only, ...         *)
LEMMA TakenExtends ==
    ASSUME NEW t, NEW u, Extends(u, t), NEW i \in 1..Len(t)+1
    PROVE  Taken(u, i) <=> Taken(t, i)
  <1>0. Len(t) \in Nat
    BY DEF Extends
  <1>1. \A n \in 1..i-1 : u[n] = t[n]
    BY <1>0 DEF Extends
  <1>2. {j \in 0..i-1 : \A n \in j+1..i-1 : u[n] \in Alone}
          = {j \in 0..i-1 : \A n \in j+1..i-1 : t[n] \in Alone}
    <2>1. ASSUME NEW j \in 0..i-1
          PROVE  (\A n \in j+1..i-1 : u[n] \in Alone) <=> (\A n \in j+1..i-1 : t[n] \in Alone)
      <3>1. \A n \in j+1..i-1 : u[n] = t[n]
        BY <1>0, <1>1
      <3>. QED
        BY <3>1
    <2>. QED
      BY <2>1
  <1>. QED
    BY <1>2 DEF Taken

(* ... so what it opens does, ...                                          *)
LEMMA OpensExtends ==
    ASSUME NEW t, NEW u, Extends(u, t), NEW i \in 1..Len(t)
    PROVE  Opens(u, i) <=> Opens(t, i)
  <1>1. i \in 1..Len(t)+1 /\ u[i] = t[i]
    BY DEF Extends
  <1>. QED
    BY <1>1, TakenExtends DEF Opens

HeadersOf(u, t, c) == {i \in Len(t)+1..Len(u) : Opens(u, i) /\ u[i].name = c}

(* ... and new headers come behind the others.                             *)
LEMMA HeadersExtends ==
    ASSUME NEW t, NEW u, Extends(u, t), NEW c
    PROVE  /\ Headers(t, c) \in SUBSET (1..Len(t))
           /\ HeadersOf(u, t, c) \in SUBSET (Len(t)+1..Len(u))
           /\ Headers(u, c) = Headers(t, c) \cup HeadersOf(u, t, c)
  <1>1. DOMAIN t = 1..Len(t) /\ DOMAIN u = 1..Len(u) /\ Len(t) \in Nat /\ Len(u) \in Nat
    BY DEF Extends
  <1>2. DOMAIN u = DOMAIN t \cup (Len(t)+1..Len(u))
    BY <1>1 DEF Extends
  <1>3. \A i \in DOMAIN t : u[i] = t[i] /\ (Opens(u, i) <=> Opens(t, i))
    BY <1>1, OpensExtends DEF Extends
  <1>. QED
    BY <1>1, <1>2, <1>3 DEF Headers, HeadersOf

(* The context of a line depends on the lines up to it.                    *)
LEMMA AroundExtends ==
    ASSUME NEW t, NEW u, Extends(u, t), NEW i \in 0..Len(t)
    PROVE  Around(u, i) = Around(t, i)
  <1> DEFINE above(x) == {j \in 1..i : Opens(x, j)}
  <1>0. Len(t) \in Nat
    BY DEF Extends
  <1>1. above(u) = above(t)
    BY <1>0, OpensExtends
  <1>2. CASE above(t) = {}
    BY <1>1, <1>2 DEF Around
  <1>3. CASE above(t) # {}
    <2>1. above(t) \in SUBSET (0..i) /\ i \in Nat
      OBVIOUS
    <2>2. Max(above(t)) \in 1..i
      BY <1>3, <2>1, GreatestOf
    <2>3. u[Max(above(t))] = t[Max(above(t))]
      BY <1>0, <2>2 DEF Extends
    <2>. QED
      BY <1>1, <1>3, <2>3 DEF Around
  <1>. QED
    BY <1>2, <1>3

(* A line stands in the context that it opens, or in that of the line      *)
(* above.                                                                  *)
LEMMA AroundNext ==
    ASSUME NEW t, NEW i \in Nat, i # 0
    PROVE  Around(t, i) = IF Opens(t, i) THEN t[i].name ELSE Around(t, i - 1)
  <1> DEFINE above(n) == {j \in 1..n : Opens(t, j)}
  <1>1. CASE Opens(t, i)
    <2>1. above(i) \in SUBSET (0..i) /\ i \in above(i)
      BY <1>1
    <2>2. Max(above(i)) \in 0..i /\ Max(above(i)) >= i
      BY <2>1, GreatestOf
    <2>3. Max(above(i)) = i
      BY <2>2
    <2>. QED
      BY <1>1, <2>1, <2>3 DEF Around
  <1>2. CASE ~Opens(t, i)
    <2>1. above(i) = above(i - 1)
      BY <1>2
    <2>. QED
      BY <1>2, <2>1 DEF Around
  <1>. QED
    BY <1>1, <1>2

(* A line of a whole file, in which no key waits for a value, says the     *)
(* same whatever follows it.                                               *)
LEMMA SaysExtends ==
    ASSUME NEW t, NEW u, Extends(u, t), ~Taken(t, Len(t) + 1),
           NEW i \in 1..Len(t), NEW c, NEW k
    PROVE  /\ Says(u, i, c, k) <=> Says(t, i, c, k)
           /\ Says(t, i, c, k) => Said(u, i) = Said(t, i)
  <1>0. Len(t) \in Nat /\ Len(u) \in Nat /\ Len(t) <= Len(u)
    BY DEF Extends
  <1>1. u[i] = t[i] /\ (Taken(u, i) <=> Taken(t, i)) /\ Around(u, i) = Around(t, i)
    BY <1>0, TakenExtends, AroundExtends DEF Extends
  <1>2. CASE i < Len(t)
    <2>1. u[i + 1] = t[i + 1] /\ i < Len(u)
      BY <1>0, <1>2 DEF Extends
    <2>. QED
      BY <1>1, <1>2, <2>1 DEF Says, Said
  <1>3. CASE i = Len(t)
    <2>1. t[i] \in Alone => Taken(t, i)
      BY <1>3, TakenAfter
    <2>. QED
      BY <1>1, <1>3, <2>1 DEF Says, Said
  <1>. QED
    BY <1>0, <1>2, <1>3

(* The lines for a key are the old ones and then the new ones.             *)
LEMMA SayingExtends ==
    ASSUME NEW t, NEW u, Extends(u, t), ~Taken(t, Len(t) + 1), NEW c, NEW k
    PROVE  /\ Saying(t, c, k) \in SUBSET (1..Len(t))
           /\ \A i \in Saying(t, c, k) : Said(u, i) = Said(t, i)
           /\ Saying(u, c, k) =
                Saying(t, c, k) \cup {i \in Len(t)+1..Len(u) : Says(u, i, c, k)}
  <1>1. DOMAIN t = 1..Len(t) /\ DOMAIN u = 1..Len(u) /\ Len(t) \in Nat /\ Len(u) \in Nat
    BY DEF Extends
  <1>2. DOMAIN u = DOMAIN t \cup (Len(t)+1..Len(u))
    BY <1>1 DEF Extends
  <1>3. \A i \in DOMAIN t : /\ Says(u, i, c, k) <=> Says(t, i, c, k)
                            /\ Says(t, i, c, k) => Said(u, i) = Said(t, i)
    BY <1>1, SaysExtends
  <1>. QED
    BY <1>1, <1>2, <1>3 DEF Saying

(* A list is as it was when no new line is for it, ...                     *)
LEMMA WrittenStays ==
    ASSUME NEW t, NEW u, Extends(u, t), ~Taken(t, Len(t) + 1), NEW c, NEW k,
           Indexed(Saying(t, c, k)),
           \A i \in Len(t)+1..Len(u) : ~Says(u, i, c, k)
    PROVE  /\ Written(u, c, k) = Written(t, c, k)
           /\ Indexed(Saying(u, c, k))
  <1> DEFINE S == Saying(t, c, k)
  <1>0. Len(t) \in Nat
    BY DEF Extends
  <1>1. /\ S \in SUBSET (1..Len(t))
        /\ \A i \in S : Said(u, i) = Said(t, i)
        /\ Saying(u, c, k) = S
    BY SayingExtends
  <1>2. Indexed(S)
    OBVIOUS
  <1>. HIDE DEF S
  <1>3. Len(t) + 1 \in Nat /\ Len(t) < Len(t) + 1
    BY <1>0
  <1>4. \A j \in 1..Cardinality(S) : Nth(S, j) \in S
    BY <1>0, <1>1, <1>2, <1>3, NthMore
  <1>. QED
    BY <1>1, <1>4 DEF Written, S

(* ... and one longer when one is.                                         *)
LEMMA WrittenGrows ==
    ASSUME NEW t, NEW u, Extends(u, t), ~Taken(t, Len(t) + 1), NEW c, NEW k,
           Indexed(Saying(t, c, k)),
           NEW m \in Len(t)+1..Len(u),
           \A i \in Len(t)+1..Len(u) : Says(u, i, c, k) <=> i = m
    PROVE  /\ Written(u, c, k) = Append(Written(t, c, k), Said(u, m))
           /\ Indexed(Saying(u, c, k))
  <1> DEFINE S == Saying(t, c, k)
             n == Cardinality(S)
  <1>0. Len(t) \in Nat /\ m \in Nat /\ Len(t) < m
    BY DEF Extends
  <1>1. /\ S \in SUBSET (1..Len(t))
        /\ \A i \in S : Said(u, i) = Said(t, i)
        /\ Saying(u, c, k) = S \cup {m}
    BY SayingExtends
  <1>2. Indexed(S)
    OBVIOUS
  <1>. HIDE DEF S
  <1>3. /\ n \in Nat
        /\ Cardinality(S \cup {m}) = n + 1
        /\ Nth(S \cup {m}, n + 1) = m
        /\ \A j \in 1..n : Nth(S, j) \in S /\ Nth(S \cup {m}, j) = Nth(S, j)
        /\ Indexed(S \cup {m})
    BY <1>0, <1>1, <1>2, NthMore
  <1>. HIDE DEF n
  <1>4. Written(t, c, k) = [j \in 1..n |-> Said(t, Nth(S, j))]
    BY DEF Written, S, n
  <1>5. Written(u, c, k) = [j \in 1..n+1 |-> Said(u, Nth(S \cup {m}, j))]
    BY <1>1, <1>3 DEF Written
  <1>6. Len(Written(t, c, k)) = n
    BY <1>3, <1>4
  <1>7. Append(Written(t, c, k), Said(u, m))
          = [j \in 1..n+1 |-> IF j <= n THEN Written(t, c, k)[j] ELSE Said(u, m)]
    BY <1>3, <1>4, <1>6
  <1>8. ASSUME NEW j \in 1..n+1
        PROVE  Said(u, Nth(S \cup {m}, j)) = IF j <= n THEN Written(t, c, k)[j] ELSE Said(u, m)
    <2>1. CASE j <= n
      <3>1. j \in 1..n
        BY <1>3, <2>1
      <3>2. Nth(S, j) \in S /\ Nth(S \cup {m}, j) = Nth(S, j)
        BY <1>3, <3>1
      <3>3. Said(u, Nth(S, j)) = Said(t, Nth(S, j))
        BY <1>1, <3>2
      <3>. QED
        BY <1>4, <2>1, <3>1, <3>2, <3>3
    <2>2. CASE j = n + 1
      BY <1>3, <2>2
    <2>. QED
      BY <1>3, <2>1, <2>2
  <1>9. Written(u, c, k) = Append(Written(t, c, k), Said(u, m))
    BY <1>5, <1>7, <1>8
  <1>. QED
    BY <1>1, <1>3, <1>9

(* A whole file t, and the same with one line more.                        *)
OneMore(u, t, l) ==
    /\ t \in Seq(Line) /\ ~Taken(t, Len(t) + 1)
    /\ l \in Line
    /\ u = t \o <<l>>

TwoMore(u, t, l, n) ==
    /\ t \in Seq(Line) /\ ~Taken(t, Len(t) + 1)
    /\ l \in Alone /\ n \in Line
    /\ u = t \o <<l, n>>

(* One line more that is not a key alone: ...                              *)
LEMMA OneLine ==
    ASSUME NEW t, NEW u, NEW l, OneMore(u, t, l), l \notin Alone
    PROVE  /\ Extends(u, t)
           /\ Len(t) \in Nat /\ Len(u) = Len(t) + 1 /\ u[Len(t) + 1] = l
           /\ ~Taken(u, Len(t) + 1)
           /\ ~Taken(u, Len(u) + 1)
  <1>1. /\ Extends(u, t)
        /\ Len(t) \in Nat /\ Len(u) = Len(t) + 1 /\ u[Len(t) + 1] = l
    BY DEF Extends, OneMore
  <1>2. ~Taken(u, Len(t) + 1)
    BY <1>1, TakenExtends DEF OneMore
  <1>3. Len(t) + 1 \in Nat /\ Len(t) + 1 # 0
    BY <1>1
  <1>4. ~Taken(u, (Len(t) + 1) + 1)
    BY <1>1, <1>3, TakenAfter
  <1>. QED
    BY <1>1, <1>2, <1>4

(* ... and a key alone with the line that it takes.                        *)
LEMMA TwoLines ==
    ASSUME NEW t, NEW u, NEW l, NEW n, TwoMore(u, t, l, n)
    PROVE  /\ Extends(u, t)
           /\ Len(t) \in Nat /\ Len(u) = Len(t) + 2
           /\ u[Len(t) + 1] = l /\ u[Len(t) + 2] = n
           /\ ~Taken(u, Len(t) + 1)
           /\ Taken(u, Len(t) + 2)
           /\ ~Taken(u, Len(u) + 1)
  <1>1. l \in Line /\ l \in Alone /\ n \in Line /\ t \in Seq(Line)
        /\ u = t \o <<l, n>> /\ ~Taken(t, Len(t) + 1)
    BY DEF Line, TwoMore
  <1>2. <<l, n>> \in Seq(Line) /\ Len(<<l, n>>) = 2
    BY <1>1
  <1>3. /\ Len(t) \in Nat /\ u \in Seq(Line) /\ Len(u) = Len(t) + 2
        /\ u[Len(t) + 1] = l /\ u[Len(t) + 2] = n
    BY <1>1, <1>2
  <1>4. Extends(u, t)
    BY <1>1, <1>2, <1>3 DEF Extends
  <1>5. ~Taken(u, Len(t) + 1)
    BY <1>1, <1>3, <1>4, TakenExtends
  <1>6. Len(t) + 1 \in Nat /\ Len(t) + 1 # 0 /\ Len(t) + 2 \in Nat /\ Len(t) + 2 # 0
    BY <1>3
  <1>7. Taken(u, (Len(t) + 1) + 1)
    BY <1>1, <1>3, <1>5, <1>6, TakenAfter
  <1>8. (Len(t) + 1) + 1 = Len(t) + 2
    BY <1>3
  <1>9. ~Taken(u, (Len(t) + 2) + 1)
    BY <1>6, <1>7, <1>8, TakenAfter
  <1>. QED
    BY <1>3, <1>4, <1>5, <1>7, <1>8, <1>9

(* The first header of a context stays the first, ...                      *)
LEMMA FirstStays ==
    ASSUME NEW t, NEW u, Extends(u, t), NEW c, Headers(t, c) # {}
    PROVE  /\ Headers(u, c) # {}
           /\ Min(Headers(u, c)) = Min(Headers(t, c))
           /\ Min(Headers(t, c)) \in 1..Len(t)
           /\ u[Min(Headers(t, c))] = t[Min(Headers(t, c))]
  <1> DEFINE S == Headers(t, c)
             T == Headers(u, c)
  <1>0. Len(t) \in Nat /\ Len(u) \in Nat
    BY DEF Extends
  <1>1. /\ S \in SUBSET (1..Len(t))
        /\ T = S \cup HeadersOf(u, t, c)
        /\ HeadersOf(u, t, c) \in SUBSET (Len(t)+1..Len(u))
    BY HeadersExtends
  <1>2. S # {}
    OBVIOUS
  <1>. HIDE DEF S, T
  <1>3. /\ S \in SUBSET Nat /\ T \in SUBSET Nat /\ S \subseteq T
        /\ \A y \in T \ S : \A x \in S : x < y
    <2>1. \A x \in S : x \in Nat /\ x <= Len(t) /\ x \in T
      BY <1>0, <1>1
    <2>2. \A y \in T : y \in S \/ (y \in Nat /\ Len(t) < y)
      BY <1>0, <1>1
    <2>3. \A y \in T \ S : \A x \in S : x < y
      BY <1>0, <2>1, <2>2
    <2>. QED
      BY <2>1, <2>2, <2>3
  <1>4. Min(T) = Min(S)
    BY <1>2, <1>3, LeastStays
  <1>5. Min(S) \in 1..Len(t)
    BY <1>1, <1>2, <1>3, LeastOf
  <1>6. u[Min(S)] = t[Min(S)]
    BY <1>5 DEF Extends
  <1>. QED
    BY <1>2, <1>3, <1>4, <1>5, <1>6 DEF S, T

(* ... and its mark that of the context.                                   *)
LEMMA MarkStays ==
    ASSUME NEW t, NEW u, Extends(u, t), NEW c,
           \/ c = Core
           \/ Headers(t, c) # {}
           \/ Headers(u, c) = {}
    PROVE  Mark(u, c) = Mark(t, c)
  <1>1. Headers(u, c) = {} => Headers(t, c) = {}
    BY FirstStays
  <1>2. CASE Headers(t, c) # {}
    BY <1>2, FirstStays DEF Mark
  <1>. QED
    BY <1>1, <1>2 DEF Mark

(* What a context inherits depends on two marks and on which came first.   *)
LEMMA InheritsStays ==
    ASSUME NEW t, NEW u, Extends(u, t), NEW c \in Context, NEW p \in Context,
           Mark(u, c) = Mark(t, c), Mark(u, p) = Mark(t, p)
    PROVE  Inherits(u, c, p) <=> Inherits(t, c, p)
  <1>1. Mark(t, c) = p => Headers(t, c) # {}
    BY ConfigAssumption DEF Mark
  <1>2. Mark(t, p) = Bang => Headers(t, p) # {}
    BY ConfigAssumption DEF Mark
  <1>3. CASE Headers(t, c) # {} /\ Headers(t, p) # {}
    BY <1>3, FirstStays DEF Inherits
  <1>. QED
    BY <1>1, <1>2, <1>3 DEF Inherits

(* Lines that open nothing leave the contexts alone.                       *)
LEMMA ContextsStay ==
    ASSUME NEW t, NEW u, Extends(u, t), \A i \in Len(t)+1..Len(u) : ~Opens(u, i)
    PROVE  /\ \A c \in Context : /\ Headers(u, c) = Headers(t, c)
                                 /\ Mark(u, c) = Mark(t, c)
           /\ \A c, p \in Context : Inherits(u, c, p) <=> Inherits(t, c, p)
  <1>1. \A c \in Context : Headers(u, c) = Headers(t, c)
    <2>1. TAKE c \in Context
    <2>2. HeadersOf(u, t, c) = {}
      BY DEF HeadersOf
    <2>3. Headers(u, c) = Headers(t, c) \cup HeadersOf(u, t, c)
      BY HeadersExtends
    <2>. QED
      BY <2>2, <2>3
  <1>2. \A c \in Context : Mark(u, c) = Mark(t, c)
    <2>1. TAKE c \in Context
    <2>2. Headers(t, c) # {} \/ Headers(u, c) = {}
      BY <1>1
    <2>. QED
      BY <2>2, MarkStays
  <1>. QED
    BY <1>1, <1>2, InheritsStays

(* A header opens its context, ...                                         *)
LEMMA HeaderAdds ==
    ASSUME NEW t, NEW u, NEW l \in Header, OneMore(u, t, l)
    PROVE  /\ Around(u, Len(u)) = l.name
           /\ Headers(u, l.name) = Headers(t, l.name) \cup {Len(t) + 1}
  <1>1. l \in Line /\ l \notin Alone
    BY DEF Line, Header, Alone
  <1>2. /\ Extends(u, t)
        /\ Len(t) \in Nat /\ Len(u) = Len(t) + 1 /\ u[Len(t) + 1] = l
        /\ ~Taken(u, Len(t) + 1)
    BY <1>1, OneLine
  <1>3. Len(t) + 1 \in Nat /\ Len(t) + 1 # 0 /\ Len(t)+1..Len(u) = {Len(t) + 1}
    BY <1>2
  <1>4. Opens(u, Len(t) + 1)
    BY <1>2 DEF Opens
  <1>5. Around(u, Len(t) + 1) = l.name
    BY <1>2, <1>3, <1>4, AroundNext
  <1>6. HeadersOf(u, t, l.name) = {Len(t) + 1}
    BY <1>2, <1>3, <1>4 DEF HeadersOf
  <1>7. Headers(u, l.name) = Headers(t, l.name) \cup HeadersOf(u, t, l.name)
    BY <1>2, HeadersExtends
  <1>. QED
    BY <1>2, <1>5, <1>6, <1>7

(* ... and no other.                                                       *)
LEMMA HeaderAddsNoOther ==
    ASSUME NEW t, NEW u, NEW l \in Header, OneMore(u, t, l), NEW c, c # l.name
    PROVE  Headers(u, c) = Headers(t, c)
  <1>1. l \in Line /\ l \notin Alone
    BY DEF Line, Header, Alone
  <1>2. /\ Extends(u, t)
        /\ Len(t) \in Nat /\ Len(u) = Len(t) + 1 /\ u[Len(t) + 1] = l
    BY <1>1, OneLine
  <1>3. HeadersOf(u, t, c) = {}
    BY <1>2 DEF HeadersOf
  <1>4. Headers(u, c) = Headers(t, c) \cup HeadersOf(u, t, c)
    BY <1>2, HeadersExtends
  <1>. QED
    BY <1>3, <1>4

(* A context that is opened again stays what it was, ...                   *)
LEMMA ReopenStays ==
    ASSUME NEW t, NEW u, NEW l \in Header, OneMore(u, t, l), l.name = Core \/ Headers(t, l.name) # {}
    PROVE  /\ \A c \in Context : c = Core \/ (Headers(u, c) # {} <=> Headers(t, c) # {})
           /\ \A c \in Context : Mark(u, c) = Mark(t, c)
           /\ \A c, p \in Context : Inherits(u, c, p) <=> Inherits(t, c, p)
  <1>1. l \in Line /\ l \notin Alone
    BY DEF Line, Header, Alone
  <1>2. Extends(u, t)
    BY <1>1, OneLine
  <1>3. /\ Headers(u, l.name) = Headers(t, l.name) \cup {Len(t) + 1}
        /\ \A c \in Context : c # l.name => Headers(u, c) = Headers(t, c)
    <2>1. ASSUME NEW c \in Context, c # l.name
          PROVE  Headers(u, c) = Headers(t, c)
      BY <2>1, HeaderAddsNoOther
    <2>. QED
      BY <2>1, HeaderAdds
  <1>4. \A c \in Context : Mark(u, c) = Mark(t, c)
    <2>1. TAKE c \in Context
    <2>2. c = Core \/ Headers(t, c) # {} \/ Headers(u, c) = {}
      BY <1>3
    <2>. QED
      BY <1>2, <2>2, MarkStays
  <1>. QED
    BY <1>2, <1>3, <1>4, InheritsStays

(* ... and a new one is what its header says, and inherits what was marked *)
(* before.                                                                 *)
LEMMA NewContext ==
    ASSUME NEW t, NEW u, NEW l \in Header, OneMore(u, t, l), l.name # Core, Headers(t, l.name) = {}
    PROVE  /\ \A c \in Context :
                /\ Headers(u, c) # {} <=> c = l.name \/ Headers(t, c) # {}
                /\ Mark(u, c) = IF c = l.name THEN l.mark ELSE Mark(t, c)
           /\ \A c, p \in Context : Inherits(u, c, p) <=>
                IF c = l.name THEN l.mark = p /\ p # c /\ Mark(t, p) = Bang
                ELSE Inherits(t, c, p)
  <1>1. l \in Line /\ l \notin Alone /\ l.name \in Context
    BY DEF Line, Header, Alone
  <1>2. /\ Extends(u, t)
        /\ Len(t) \in Nat /\ u[Len(t) + 1] = l
    BY <1>1, OneLine
  <1>3. /\ Headers(u, l.name) = Headers(t, l.name) \cup {Len(t) + 1}
        /\ \A c \in Context : c # l.name => Headers(u, c) = Headers(t, c)
    <2>1. ASSUME NEW c \in Context, c # l.name
          PROVE  Headers(u, c) = Headers(t, c)
      BY <2>1, HeaderAddsNoOther
    <2>. QED
      BY <2>1, HeaderAdds
  <1>4. Headers(u, l.name) = {Len(t) + 1} /\ Min(Headers(u, l.name)) = Len(t) + 1
    <2>1. Headers(u, l.name) = {Len(t) + 1}
      BY <1>1, <1>3
    <2>2. {Len(t) + 1} \in SUBSET Nat /\ {Len(t) + 1} # {}
      BY <1>2
    <2>3. Min({Len(t) + 1}) = Len(t) + 1
      BY <2>2, LeastOf
    <2>. QED
      BY <2>1, <2>3
  <1>5. Mark(u, l.name) = l.mark
    BY <1>2, <1>4 DEF Mark
  <1>6. \A c \in Context : c # l.name => Mark(u, c) = Mark(t, c)
    <2>1. SUFFICES ASSUME NEW c \in Context, c # l.name PROVE Mark(u, c) = Mark(t, c)
      OBVIOUS
    <2>2. Headers(t, c) # {} \/ Headers(u, c) = {}
      BY <1>3, <2>1
    <2>. QED
      BY <1>2, <2>2, MarkStays
  <1>7. Mark(t, l.name) = None
    BY DEF Mark
  <1>8. ASSUME NEW c \in Context, NEW p \in Context
        PROVE  Inherits(u, c, p) <=>
                 IF c = l.name THEN l.mark = p /\ p # c /\ Mark(t, p) = Bang
                 ELSE Inherits(t, c, p)
    <2>1. CASE c # l.name /\ p # l.name
      BY <1>2, <1>6, <2>1, InheritsStays
    <2>2. CASE c # l.name /\ p = l.name
      <3>1. ~Inherits(t, c, p)
        BY <1>7, <2>2, ConfigAssumption DEF Inherits
      <3>2. CASE Mark(u, c) = p
        <4>1. Headers(t, c) # {}
          BY <1>6, <2>2, <3>2, ConfigAssumption DEF Mark
        <4>2. Min(Headers(u, c)) \in 1..Len(t)
          BY <1>2, <4>1, FirstStays
        <4>3. ~(Len(t) + 1 < Min(Headers(u, c)))
          BY <1>2, <4>2
        <4>. QED
          BY <1>4, <2>2, <3>1, <4>3 DEF Inherits
      <3>. QED
        BY <2>2, <3>1, <3>2 DEF Inherits
    <2>3. CASE c = l.name /\ p = l.name
      <3>1. ~(Len(t) + 1 < Len(t) + 1)
        BY <1>2
      <3>2. ~(Min(Headers(u, l.name)) < Min(Headers(u, l.name)))
        BY <1>4, <3>1
      <3>. QED
        BY <2>3, <3>2 DEF Inherits
    <2>4. CASE c = l.name /\ p # l.name
      <3>1. CASE Mark(t, p) = Bang
        <4>1. Headers(t, p) # {}
          BY <3>1, ConfigAssumption DEF Mark
        <4>2. Min(Headers(u, p)) \in 1..Len(t)
          BY <1>2, <4>1, FirstStays
        <4>3. Min(Headers(u, p)) < Len(t) + 1
          BY <1>2, <4>2
        <4>. QED
          BY <1>4, <1>5, <1>6, <2>4, <3>1, <4>3 DEF Inherits
      <3>. QED
        BY <1>5, <1>6, <2>4, <3>1 DEF Inherits
    <2>. QED
      BY <2>1, <2>2, <2>3, <2>4
  <1>9. \A c \in Context : Headers(u, c) # {} <=> c = l.name \/ Headers(t, c) # {}
    BY <1>3
  <1>. QED
    BY <1>5, <1>6, <1>8, <1>9

-----------------------------------------------------------------------------
(* The shape of the state and the patterns. *)

(* Reading one or two lines keeps a text a sequence of lines.              *)
LEMMA ReadOneType ==
    ASSUME TypeOK, NEW l \in Line, Read(<<l>>)
    PROVE  text' \in Seq(Line)
  BY DEF TypeOK, Read

(* A file of two lines has the type of the text.                           *)
LEMMA ReadTwoType ==
    ASSUME TypeOK, NEW l \in Line, NEW n \in Line, Read(<<l, n>>)
    PROVE  text' \in Seq(Line)
  <1>1. <<l, n>> \in Seq(Line)
    OBVIOUS
  <1>. QED
    BY <1>1 DEF TypeOK, Read

(* add_ele appends to one list of one context.                             *)
LEMMA AddEleType ==
    ASSUME TypeOK, NEW c \in Context, NEW k \in Key, NEW v \in Text, AddEle(c, k, v)
    PROVE  values' \in [Context -> [Key -> Seq(Text)]]
  <1>1. Append(values[c][k], v) \in Seq(Text)
    BY DEF TypeOK
  <1>2. [values[c] EXCEPT ![k] = Append(@, v)] \in [Key -> Seq(Text)]
    BY <1>1 DEF TypeOK
  <1>. QED
    BY <1>2 DEF TypeOK, AddEle

(* A new context is a pattern, or has one that was declared as such, or    *)
(* neither; whatever is a pattern already keeps inheriting from nothing.   *)
LEMMA AddContextFlat ==
    ASSUME PatternsAreFlat, NEW l \in Header, AddContext(l), text' \in Seq(Line)
    PROVE  PatternsAreFlat'
  <1>1. /\ l.name \in Context
        /\ l.mark \in Context \cup {None, Bang}
    BY DEF Header
  <1>2. TypeOK'
    BY <1>1 DEF PatternsAreFlat, TypeOK, AddContext
  <1>3. ASSUME NEW c \in Context, pattern'[c] # None
        PROVE  /\ pattern'[c] \in isPattern'
               /\ c \notin isPattern'
               /\ pattern'[pattern'[c]] = None
    <2>1. CASE c = l.name
      <3>1. l.mark \in isPattern /\ pattern'[c] = l.mark
        BY <1>1, <1>3, <2>1 DEF PatternsAreFlat, TypeOK, AddContext
      <3>2. l.mark \in Context /\ l.mark # Bang /\ l.mark # c
        BY <2>1, <3>1, ConfigAssumption DEF PatternsAreFlat, TypeOK, AddContext
      <3>3. pattern'[l.mark] = pattern[l.mark] /\ pattern[l.mark] = None
        BY <2>1, <3>1, <3>2 DEF PatternsAreFlat, TypeOK, AddContext
      <3>4. c \notin isPattern'
        BY <2>1, <3>2 DEF PatternsAreFlat, TypeOK, AddContext
      <3>. QED
        BY <3>1, <3>3, <3>4 DEF AddContext
    <2>2. CASE c # l.name
      <3>1. pattern'[c] = pattern[c]
        BY <2>2 DEF PatternsAreFlat, TypeOK, AddContext
      <3>2. /\ pattern[c] \in isPattern
            /\ c \notin isPattern
            /\ pattern[pattern[c]] = None
        BY <1>3, <3>1 DEF PatternsAreFlat
      <3>3. pattern[c] \in Context /\ pattern[c] # l.name
        BY <3>2 DEF PatternsAreFlat, TypeOK, AddContext
      <3>4. pattern'[pattern[c]] = pattern[pattern[c]]
        BY <3>3 DEF PatternsAreFlat, TypeOK, AddContext
      <3>. QED
        BY <2>2, <3>1, <3>2, <3>4 DEF AddContext
    <2>. QED
      BY <2>1, <2>2
  <1>. QED
    BY <1>2, <1>3 DEF PatternsAreFlat

(* PatternsAreFlat is inductive. *)
LEMMA FlatStep ==
    ASSUME PatternsAreFlat, [Next]_vars
    PROVE  PatternsAreFlat'
<1>1. TypeOK
  BY DEF PatternsAreFlat
<1>2. CASE ReadHeader
  <2>1. PICK l \in Header : Read(<<l>>) /\ (AddContext(l) \/ ReopenContext(l))
    BY <1>2 DEF ReadHeader
  <2>2. text' \in Seq(Line)
    BY <1>1, <2>1, ReadOneType DEF Line
  <2>3. CASE AddContext(l)
    BY <2>2, <2>3, AddContextFlat
  <2>4. CASE ReopenContext(l)
    BY <2>2, <2>4 DEF PatternsAreFlat, TypeOK, ReopenContext
  <2>. QED
    BY <2>1, <2>3, <2>4
<1>3. CASE ReadSetting
  <2>1. PICK l \in Setting :
          /\ Read(<<l>>)
          /\ AddEle(current, l.key, l.value)
          /\ UNCHANGED <<declared, isPattern, pattern, current>>
    BY <1>3 DEF ReadSetting
  <2>2. l.key \in Key /\ l.value \in Text /\ current \in Context
    BY <1>1, <2>1 DEF Setting, Text, TypeOK
  <2>3. text' \in Seq(Line) /\ values' \in [Context -> [Key -> Seq(Text)]]
    BY <1>1, <2>1, <2>2, ReadOneType, AddEleType DEF Line
  <2>. QED
    BY <2>1, <2>3 DEF PatternsAreFlat, TypeOK
<1>4. CASE SkipLine
  <2>1. PICK l \in Comment \cup Noted :
          /\ Read(<<l>>)
          /\ UNCHANGED <<declared, isPattern, pattern, values, current>>
    BY <1>4 DEF SkipLine
  <2>2. text' \in Seq(Line)
    BY <1>1, <2>1, ReadOneType DEF Line
  <2>. QED
    BY <2>1, <2>2 DEF PatternsAreFlat, TypeOK
<1>5. CASE ReadAlone
  <2>1. PICK l \in Alone, n \in Line \ Comment :
          /\ Read(<<l, n>>)
          /\ AddEle(current, l.key, n)
          /\ UNCHANGED <<declared, isPattern, pattern, current>>
    BY <1>5 DEF ReadAlone
  <2>2. l.key \in Key /\ n \in Text /\ current \in Context
    BY <1>1, <2>1 DEF Alone, Text, TypeOK
  <2>3. text' \in Seq(Line) /\ values' \in [Context -> [Key -> Seq(Text)]]
    BY <1>1, <2>1, <2>2, ReadTwoType, AddEleType DEF Line
  <2>. QED
    BY <2>1, <2>3 DEF PatternsAreFlat, TypeOK
<1>6. CASE ReadAloneComment
  <2>1. PICK l \in Alone, n \in Comment :
          /\ Read(<<l, n>>)
          /\ UNCHANGED <<declared, isPattern, pattern, values, current>>
    BY <1>6 DEF ReadAloneComment
  <2>2. text' \in Seq(Line)
    BY <1>1, <2>1, ReadTwoType DEF Line
  <2>. QED
    BY <2>1, <2>2 DEF PatternsAreFlat, TypeOK
<1>7. CASE UNCHANGED vars
  BY <1>7 DEF PatternsAreFlat, TypeOK, vars
<1>. QED
  BY <1>2, <1>3, <1>4, <1>5, <1>6, <1>7 DEF Next

(* A look-up goes one level deep: the recursive function has the values    *)
(* that are written here without recursion.                                *)
LEMMA LookUp ==
    ASSUME PatternsAreFlat, NEW c \in Context, NEW k \in Key
    PROVE  GetStr(c, k) =
             IF values[c][k] # <<>> THEN Head(values[c][k])
             ELSE IF pattern[c] # None /\ values[pattern[c]][k] # <<>>
             THEN Head(values[pattern[c]][k]) ELSE None
  <1> DEFINE once(g) == [x \in Context |->
                 IF values[x][k] # <<>> THEN Head(values[x][k])
                 ELSE IF pattern[x] # None THEN g[pattern[x]] ELSE None]
             flat == [x \in Context |->
                 IF values[x][k] # <<>> THEN Head(values[x][k])
                 ELSE IF pattern[x] # None /\ values[pattern[x]][k] # <<>>
                 THEN Head(values[pattern[x]][k]) ELSE None]
             get == CHOOSE g : g = once(g)
  <1>1. flat = once(flat)
    BY ConfigAssumption DEF PatternsAreFlat, TypeOK
  <1>2. get = once(get)
    BY <1>1
  <1>3. GetStr(c, k) = get[c]
    BY DEF GetStr
  <1>. HIDE DEF get, flat
  <1>4. \A x \in Context : get[x] =
          IF values[x][k] # <<>> THEN Head(values[x][k])
          ELSE IF pattern[x] # None THEN get[pattern[x]] ELSE None
    BY <1>2
  <1>5. pattern[c] # None =>
          /\ pattern[c] \in Context
          /\ pattern[pattern[c]] = None
    BY DEF PatternsAreFlat, TypeOK
  <1>6. pattern[c] # None => get[pattern[c]] =
          IF values[pattern[c]][k] # <<>> THEN Head(values[pattern[c]][k]) ELSE None
    BY <1>4, <1>5
  <1>. QED
    BY <1>3, <1>4, <1>6

-----------------------------------------------------------------------------
(* What the parser has made of the lines so far, and that no key waits for *)
(* the next one.                                                           *)
Standing == ~Taken(text, Len(text) + 1) /\ current = Around(text, Len(text))

Declared ==
    /\ declared = {Core} \cup {c \in Context : Headers(text, c) # {}}
    /\ \A c \in Context : c \in isPattern <=> Mark(text, c) = Bang
    /\ \A c, p \in Context : pattern[c] = p <=> Inherits(text, c, p)

Listed ==
    \A c \in Context, k \in Key :
        /\ values[c][k] = Written(text, c, k)
        /\ Indexed(Saying(text, c, k))

IInv == PatternsAreFlat /\ Standing /\ Declared /\ Listed

(* The invariant holds of an empty file.                                   *)
LEMMA InitIInv == Init => IInv
  <1>. SUFFICES ASSUME Init PROVE IInv
    OBVIOUS
  <1>1. PatternsAreFlat
    BY ConfigAssumption DEF Init, PatternsAreFlat, TypeOK
  <1>2. text = <<>> /\ Len(text) = 0 /\ DOMAIN text = {}
    BY DEF Init
  <1>3. Standing
    <2>1. ~Taken(text, Len(text) + 1)
      BY <1>2, FirstNotTaken
    <2>2. {j \in 1..0 : Opens(text, j)} = {}
      OBVIOUS
    <2>3. Around(text, 0) = Core
      BY <2>2 DEF Around
    <2>. QED
      BY <1>2, <2>1, <2>3 DEF Init, Standing
  <1>4. Declared
    <2>1. \A c \in Context : Headers(text, c) = {} /\ Mark(text, c) = None
      BY <1>2 DEF Headers, Mark
    <2>2. \A c, p \in Context : ~Inherits(text, c, p)
      BY <2>1, ConfigAssumption DEF Inherits
    <2>. QED
      BY <2>1, <2>2, ConfigAssumption DEF Init, Declared
  <1>5. Listed
    <2>1. ASSUME NEW c \in Context, NEW k \in Key
          PROVE  Written(text, c, k) = <<>> /\ Indexed(Saying(text, c, k))
      <3>1. Saying(text, c, k) = {} /\ Cardinality({}) = 0
        BY <1>2, FS_EmptySet DEF Saying
      <3>. QED
        BY <3>1 DEF Written, Indexed
    <2>. QED
      BY <2>1 DEF Init, Listed
  <1>. QED
    BY <1>1, <1>3, <1>4, <1>5 DEF IInv

(* Behind lines that open nothing the context is the one before them.      *)
LEMMA AroundStays ==
    ASSUME NEW t, NEW u, Extends(u, t), \A i \in Len(t)+1..Len(u) : ~Opens(u, i),
           NEW i \in Len(t)..Len(u), i <= Len(t) + 2
    PROVE  Around(u, i) = Around(t, Len(t))
  <1>0. Len(t) \in Nat /\ Len(u) \in Nat /\ Len(t) <= Len(u)
    BY DEF Extends
  <1>1. Around(u, Len(t)) = Around(t, Len(t))
    BY <1>0, AroundExtends
  <1>2. ASSUME NEW j \in Len(t)+1..Len(u)
        PROVE  Around(u, j) = Around(u, j - 1)
    <2>1. j \in Nat /\ j # 0 /\ ~Opens(u, j)
      BY <1>0
    <2>. QED
      BY <2>1, AroundNext
  <1>3. CASE i = Len(t)
    BY <1>1, <1>3
  <1>4. CASE i = Len(t) + 1
    <2>1. Around(u, i) = Around(u, i - 1) /\ i - 1 = Len(t)
      BY <1>0, <1>2, <1>4
    <2>. QED
      BY <1>1, <2>1
  <1>5. CASE i = Len(t) + 2
    <2>1. Around(u, i) = Around(u, i - 1) /\ i - 1 = Len(t) + 1
      BY <1>0, <1>2, <1>5
    <2>2. Len(t) + 1 \in Len(t)+1..Len(u)
      BY <1>0, <1>5
    <2>3. Around(u, Len(t) + 1) = Around(u, (Len(t) + 1) - 1) /\ (Len(t) + 1) - 1 = Len(t)
      BY <1>0, <1>2, <2>2
    <2>. QED
      BY <1>1, <2>1, <2>3
  <1>. QED
    BY <1>0, <1>3, <1>4, <1>5

(* A line of another kind, and a line that is taken, gives no value.       *)
LEMMA SaysNothing ==
    ASSUME NEW t, NEW i, NEW c, NEW k,
           Taken(t, i) \/ (t[i] \notin Setting /\ t[i] \notin Alone)
    PROVE  ~Says(t, i, c, k)
  BY DEF Says

(* What a line that opens nothing and gives no value leaves as it was.     *)
LEMMA QuietLine ==
    ASSUME Standing, Declared, Listed, Extends(text', text),
           Len(text') <= Len(text) + 2,
           ~Taken(text', Len(text') + 1),
           \A i \in Len(text)+1..Len(text') : ~Opens(text', i),
           UNCHANGED <<declared, isPattern, pattern, current>>
    PROVE  Standing' /\ Declared'
  <1>1. Around(text', Len(text')) = Around(text, Len(text))
    <2>1. Len(text') \in Len(text)..Len(text')
      BY DEF Extends
    <2>. QED
      BY <2>1, AroundStays
  <1>2. Standing'
    BY <1>1 DEF Standing
  <1>3. /\ \A c \in Context : /\ Headers(text', c) = Headers(text, c)
                              /\ Mark(text', c) = Mark(text, c)
        /\ \A c, p \in Context : Inherits(text', c, p) <=> Inherits(text, c, p)
    BY ContextsStay
  <1>4. declared' = {Core} \cup {c \in Context : Headers(text', c) # {}}
    BY <1>3 DEF Declared
  <1>5. Declared'
    BY <1>3, <1>4 DEF Declared
  <1>. QED
    BY <1>2, <1>5

(* Lines that give no value, and leave the lists alone.                    *)
LEMMA ListedStays ==
    ASSUME Standing, Listed, Extends(text', text),
           \A c \in Context, k \in Key :
             \A i \in Len(text)+1..Len(text') : ~Says(text', i, c, k),
           UNCHANGED values
    PROVE  Listed'
  <1>1. ASSUME NEW c \in Context, NEW k \in Key
        PROVE  /\ Written(text', c, k) = Written(text, c, k)
               /\ Indexed(Saying(text', c, k))
    <2>1. ~Taken(text, Len(text) + 1) /\ Indexed(Saying(text, c, k))
      BY DEF Standing, Listed
    <2>2. \A i \in Len(text)+1..Len(text') : ~Says(text', i, c, k)
      OBVIOUS
    <2>. QED
      BY <2>1, <2>2, WrittenStays
  <1>. QED
    BY <1>1 DEF Listed

(* add_ele puts the value at the end of the list of the current context,   *)
(* where the only new line that says something has it.                     *)
LEMMA ListedGrows ==
    ASSUME TypeOK, Standing, Listed, Extends(text', text),
           NEW key \in Key, NEW m \in Len(text)+1..Len(text'),
           \A c \in Context, k \in Key : \A i \in Len(text)+1..Len(text') :
             Says(text', i, c, k) <=> i = m /\ c = current /\ k = key,
           AddEle(current, key, Said(text', m))
    PROVE  Listed'
  <1>0. current \in Context
    BY DEF TypeOK
  <1>1. ASSUME NEW c \in Context, NEW k \in Key
        PROVE  /\ values'[c][k] = Written(text', c, k)
               /\ Indexed(Saying(text', c, k))
    <2>1. ~Taken(text, Len(text) + 1) /\ Indexed(Saying(text, c, k))
          /\ values[c][k] = Written(text, c, k)
      BY DEF Standing, Listed
    <2>2. CASE c = current /\ k = key
      <3>1. values'[c][k] = Append(values[c][k], Said(text', m))
        BY <1>0, <2>2 DEF TypeOK, AddEle
      <3>2. \A i \in Len(text)+1..Len(text') : Says(text', i, c, k) <=> i = m
        BY <2>2
      <3>3. /\ Written(text', c, k) = Append(Written(text, c, k), Said(text', m))
            /\ Indexed(Saying(text', c, k))
        BY <2>1, <3>2, WrittenGrows
      <3>. QED
        BY <2>1, <3>1, <3>3
    <2>3. CASE ~(c = current /\ k = key)
      <3>1. values'[c][k] = values[c][k]
        BY <1>0, <2>3 DEF TypeOK, AddEle
      <3>2. \A i \in Len(text)+1..Len(text') : ~Says(text', i, c, k)
        BY <2>3
      <3>3. /\ Written(text', c, k) = Written(text, c, k)
            /\ Indexed(Saying(text', c, k))
        BY <2>1, <3>2, WrittenStays
      <3>. QED
        BY <2>1, <3>1, <3>3
    <2>. QED
      BY <2>2, <2>3
  <1>. QED
    BY <1>1 DEF Listed

(* key = value: the line is in the current context and gives the value.    *)
LEMMA SettingStep ==
    ASSUME IInv, ReadSetting
    PROVE  Standing' /\ Declared' /\ Listed'
  <1>1. PICK l \in Setting :
          /\ Read(<<l>>)
          /\ AddEle(current, l.key, l.value)
          /\ UNCHANGED <<declared, isPattern, pattern, current>>
    BY DEF ReadSetting
  <1>2. /\ l \in Line /\ l \notin Alone /\ l \notin Header
        /\ l.key \in Key
    BY DEF Line, Setting, Alone, Header
  <1>3. TypeOK /\ Standing /\ Declared /\ Listed
    BY DEF IInv, PatternsAreFlat
  <1>4. OneMore(text', text, l)
    BY <1>1, <1>2, <1>3 DEF OneMore, Read, TypeOK, Standing
  <1>5. /\ Extends(text', text)
        /\ Len(text) \in Nat /\ Len(text') = Len(text) + 1 /\ text'[Len(text) + 1] = l
        /\ ~Taken(text', Len(text) + 1)
        /\ ~Taken(text', Len(text') + 1)
    BY <1>2, <1>4, OneLine
  <1>6. Len(text) + 1 \in Len(text)+1..Len(text') /\ Len(text)+1..Len(text') = {Len(text) + 1}
        /\ Len(text') <= Len(text) + 2
    BY <1>5
  <1>7. \A i \in Len(text)+1..Len(text') : ~Opens(text', i)
    BY <1>2, <1>5, <1>6 DEF Opens
  <1>8. Around(text', Len(text) + 1) = current
    <2>1. Len(text) + 1 \in Len(text)..Len(text') /\ Len(text) + 1 <= Len(text) + 2
      BY <1>5
    <2>. QED
      BY <1>3, <1>5, <1>7, <2>1, AroundStays DEF Standing
  <1>9. ASSUME NEW c \in Context, NEW k \in Key, NEW i \in Len(text)+1..Len(text')
        PROVE  Says(text', i, c, k) <=> i = Len(text) + 1 /\ c = current /\ k = l.key
    <2>1. i = Len(text) + 1
      BY <1>6
    <2>2. text'[i] = l /\ ~Taken(text', i) /\ Around(text', i) = current
      BY <1>5, <1>8, <2>1
    <2>. QED
      BY <1>1, <1>2, <2>1, <2>2 DEF Says
  <1>10. Said(text', Len(text) + 1) = l.value
    BY <1>1, <1>5 DEF Said
  <1>11. AddEle(current, l.key, Said(text', Len(text) + 1))
    BY <1>1, <1>10
  <1>12. Listed'
    BY <1>2, <1>3, <1>5, <1>6, <1>9, <1>11, ListedGrows
  <1>. QED
    BY <1>1, <1>3, <1>5, <1>6, <1>7, <1>12, QuietLine

(* A comment, or a line without a value: nothing is said.                  *)
LEMMA SkipStep ==
    ASSUME IInv, SkipLine
    PROVE  Standing' /\ Declared' /\ Listed'
  <1>1. PICK l \in Comment \cup Noted :
          /\ Read(<<l>>)
          /\ UNCHANGED <<declared, isPattern, pattern, values, current>>
    BY DEF SkipLine
  <1>2. l \in Line /\ l \notin Alone /\ l \notin Header /\ l \notin Setting
    BY DEF Line, Setting, Alone, Header, Comment, Noted
  <1>3. TypeOK /\ Standing /\ Declared /\ Listed
    BY DEF IInv, PatternsAreFlat
  <1>4. OneMore(text', text, l)
    BY <1>1, <1>2, <1>3 DEF OneMore, Read, TypeOK, Standing
  <1>5. /\ Extends(text', text)
        /\ Len(text) \in Nat /\ Len(text') = Len(text) + 1 /\ text'[Len(text) + 1] = l
        /\ ~Taken(text', Len(text') + 1)
    BY <1>2, <1>4, OneLine
  <1>6. Len(text)+1..Len(text') = {Len(text) + 1} /\ Len(text') <= Len(text) + 2
    BY <1>5
  <1>7. \A i \in Len(text)+1..Len(text') : ~Opens(text', i)
    BY <1>2, <1>5, <1>6 DEF Opens
  <1>8. \A c \in Context, k \in Key :
          \A i \in Len(text)+1..Len(text') : ~Says(text', i, c, k)
    BY <1>2, <1>5, <1>6, SaysNothing
  <1>9. Listed'
    BY <1>1, <1>3, <1>5, <1>8, ListedStays
  <1>. QED
    BY <1>1, <1>3, <1>5, <1>6, <1>7, <1>9, QuietLine

(* What a key that stands alone and the line it takes do to both.          *)
LEMMA AloneLines ==
    ASSUME TypeOK, Standing, NEW l \in Alone, NEW n \in Line, Read(<<l, n>>)
    PROVE  /\ Extends(text', text)
           /\ Len(text) \in Nat /\ Len(text') = Len(text) + 2
           /\ text'[Len(text) + 1] = l /\ text'[Len(text) + 2] = n
           /\ ~Taken(text', Len(text) + 1)
           /\ Taken(text', Len(text) + 2)
           /\ ~Taken(text', Len(text') + 1)
           /\ Around(text', Len(text) + 1) = current
           /\ \A i \in Len(text)+1..Len(text') :
                ~Opens(text', i) /\ (i = Len(text) + 1 \/ i = Len(text) + 2)
  <1>1. l \notin Header
    BY DEF Alone, Header
  <1>2. TwoMore(text', text, l, n)
    BY DEF TwoMore, TypeOK, Standing, Read
  <1>3. /\ Extends(text', text)
        /\ Len(text) \in Nat /\ Len(text') = Len(text) + 2
        /\ text'[Len(text) + 1] = l /\ text'[Len(text) + 2] = n
        /\ ~Taken(text', Len(text) + 1)
        /\ Taken(text', Len(text) + 2)
        /\ ~Taken(text', Len(text') + 1)
    BY <1>2, TwoLines
  <1>4. \A i \in Len(text)+1..Len(text') : i = Len(text) + 1 \/ i = Len(text) + 2
    BY <1>3
  <1>5. \A i \in Len(text)+1..Len(text') : ~Opens(text', i)
    BY <1>1, <1>3, <1>4 DEF Opens
  <1>6. Around(text', Len(text) + 1) = current
    <2>1. Len(text) + 1 \in Len(text)..Len(text') /\ Len(text) + 1 <= Len(text) + 2
      BY <1>3
    <2>. QED
      BY <1>3, <1>5, <2>1, AroundStays DEF Standing
  <1>. QED
    BY <1>3, <1>4, <1>5, <1>6

(* A key alone takes the next line, which is no header then.               *)
LEMMA AloneStep ==
    ASSUME IInv, ReadAlone
    PROVE  Standing' /\ Declared' /\ Listed'
  <1>1. PICK l \in Alone, n \in Line \ Comment :
          /\ Read(<<l, n>>)
          /\ AddEle(current, l.key, n)
          /\ UNCHANGED <<declared, isPattern, pattern, current>>
    BY DEF ReadAlone
  <1>2. l \notin Setting /\ l.key \in Key
    BY DEF Alone, Setting
  <1>3. TypeOK /\ Standing /\ Declared /\ Listed
    BY DEF IInv, PatternsAreFlat
  <1>4. /\ Extends(text', text)
        /\ Len(text) \in Nat /\ Len(text') = Len(text) + 2
        /\ text'[Len(text) + 1] = l /\ text'[Len(text) + 2] = n
        /\ ~Taken(text', Len(text) + 1)
        /\ Taken(text', Len(text) + 2)
        /\ ~Taken(text', Len(text') + 1)
        /\ Around(text', Len(text) + 1) = current
        /\ \A i \in Len(text)+1..Len(text') :
             ~Opens(text', i) /\ (i = Len(text) + 1 \/ i = Len(text) + 2)
    BY <1>1, <1>3, AloneLines
  <1>5. Len(text) + 1 \in Len(text)+1..Len(text') /\ Len(text) + 1 < Len(text')
        /\ (Len(text) + 1) + 1 = Len(text) + 2 /\ Len(text') <= Len(text) + 2
        /\ Len(text) + 1 # Len(text) + 2
    BY <1>4
  <1>6. ASSUME NEW c \in Context, NEW k \in Key, NEW i \in Len(text)+1..Len(text')
        PROVE  Says(text', i, c, k) <=> i = Len(text) + 1 /\ c = current /\ k = l.key
    <2>1. CASE i = Len(text) + 1
      <3>1. /\ text'[i] = l /\ ~Taken(text', i) /\ Around(text', i) = current
            /\ i < Len(text') /\ text'[i + 1] = n
        BY <1>4, <1>5, <2>1
      <3>. QED
        BY <1>1, <1>2, <2>1, <3>1 DEF Says
    <2>2. CASE i = Len(text) + 2
      BY <1>4, <1>5, <2>2, SaysNothing
    <2>. QED
      BY <1>4, <2>1, <2>2
  <1>7. Said(text', Len(text) + 1) = n
    BY <1>2, <1>4, <1>5 DEF Said
  <1>8. AddEle(current, l.key, Said(text', Len(text) + 1))
    BY <1>1, <1>7
  <1>9. Listed'
    BY <1>2, <1>3, <1>4, <1>5, <1>6, <1>8, ListedGrows
  <1>. QED
    BY <1>1, <1>3, <1>4, <1>5, <1>9, QuietLine

(* A key alone with a comment behind it gives no value.                    *)
LEMMA AloneCommentStep ==
    ASSUME IInv, ReadAloneComment
    PROVE  Standing' /\ Declared' /\ Listed'
  <1>1. PICK l \in Alone, n \in Comment :
          /\ Read(<<l, n>>)
          /\ UNCHANGED <<declared, isPattern, pattern, values, current>>
    BY DEF ReadAloneComment
  <1>2. l \notin Setting /\ n \in Line
    BY DEF Alone, Setting, Line
  <1>3. TypeOK /\ Standing /\ Declared /\ Listed
    BY DEF IInv, PatternsAreFlat
  <1>4. /\ Extends(text', text)
        /\ Len(text) \in Nat /\ Len(text') = Len(text) + 2
        /\ text'[Len(text) + 1] = l /\ text'[Len(text) + 2] = n
        /\ Taken(text', Len(text) + 2)
        /\ ~Taken(text', Len(text') + 1)
        /\ \A i \in Len(text)+1..Len(text') :
             ~Opens(text', i) /\ (i = Len(text) + 1 \/ i = Len(text) + 2)
    BY <1>1, <1>2, <1>3, AloneLines
  <1>5. (Len(text) + 1) + 1 = Len(text) + 2 /\ Len(text') <= Len(text) + 2
    BY <1>4
  <1>6. ASSUME NEW c \in Context, NEW k \in Key, NEW i \in Len(text)+1..Len(text')
        PROVE  ~Says(text', i, c, k)
    <2>1. CASE i = Len(text) + 1
      <3>1. text'[i] = l /\ text'[i + 1] = n
        BY <1>4, <1>5, <2>1
      <3>. QED
        BY <1>1, <1>2, <3>1 DEF Says
    <2>2. CASE i = Len(text) + 2
      BY <1>4, <2>2, SaysNothing
    <2>. QED
      BY <1>4, <2>1, <2>2
  <1>7. Listed'
    BY <1>1, <1>3, <1>4, <1>6, ListedStays
  <1>. QED
    BY <1>1, <1>3, <1>4, <1>5, <1>7, QuietLine

(* A header: the context is new, or it is opened again.                    *)
LEMMA HeaderStep ==
    ASSUME IInv, ReadHeader
    PROVE  Standing' /\ Declared' /\ Listed'
  <1>1. PICK l \in Header : Read(<<l>>) /\ (AddContext(l) \/ ReopenContext(l))
    BY DEF ReadHeader
  <1>2. /\ l \in Line /\ l \notin Alone /\ l \notin Setting
        /\ l.name \in Context /\ l.mark \in Context \cup {None, Bang}
    BY DEF Line, Setting, Alone, Header
  <1>3. PatternsAreFlat /\ TypeOK /\ Standing /\ Declared /\ Listed
    BY DEF IInv, PatternsAreFlat
  <1>4. OneMore(text', text, l)
    BY <1>1, <1>2, <1>3 DEF OneMore, Read, TypeOK, Standing
  <1>5. /\ Extends(text', text)
        /\ Len(text) \in Nat /\ Len(text') = Len(text) + 1 /\ text'[Len(text) + 1] = l
        /\ ~Taken(text', Len(text') + 1)
    BY <1>2, <1>4, OneLine
  <1>6. Standing'
    <2>1. Around(text', Len(text')) = l.name /\ current' = l.name
      BY <1>1, <1>4, HeaderAdds DEF AddContext, ReopenContext
    <2>. QED
      BY <1>5, <2>1 DEF Standing
  <1>7. Listed'
    <2>1. \A i \in Len(text)+1..Len(text') : i = Len(text) + 1
      BY <1>5
    <2>2. \A c \in Context, k \in Key :
            \A i \in Len(text)+1..Len(text') : ~Says(text', i, c, k)
      BY <1>2, <1>5, <2>1, SaysNothing
    <2>3. UNCHANGED values
      BY <1>1 DEF AddContext, ReopenContext
    <2>. QED
      BY <1>3, <1>5, <2>2, <2>3, ListedStays
  <1>8. Declared'
    <2>1. CASE ReopenContext(l)
      <3>1. l.name = Core \/ Headers(text, l.name) # {}
        BY <1>2, <1>3, <2>1 DEF ReopenContext, Declared
      <3>2. /\ \A c \in Context : c = Core \/ (Headers(text', c) # {} <=> Headers(text, c) # {})
            /\ \A c \in Context : Mark(text', c) = Mark(text, c)
            /\ \A c, p \in Context : Inherits(text', c, p) <=> Inherits(text, c, p)
        BY <1>4, <3>1, ReopenStays
      <3>3. UNCHANGED <<declared, isPattern, pattern>>
        BY <2>1 DEF ReopenContext
      <3>4. declared' = {Core} \cup {c \in Context : Headers(text', c) # {}}
        BY <1>3, <3>2, <3>3 DEF Declared
      <3>. QED
        BY <1>3, <3>2, <3>3, <3>4 DEF Declared
    <2>2. CASE AddContext(l)
      <3>1. l.name # Core /\ Headers(text, l.name) = {}
        BY <1>2, <1>3, <2>2 DEF AddContext, Declared
      <3>2. /\ \A c \in Context :
                 /\ Headers(text', c) # {} <=> c = l.name \/ Headers(text, c) # {}
                 /\ Mark(text', c) = IF c = l.name THEN l.mark ELSE Mark(text, c)
            /\ \A c, p \in Context : Inherits(text', c, p) <=>
                 IF c = l.name THEN l.mark = p /\ p # c /\ Mark(text, p) = Bang
                 ELSE Inherits(text, c, p)
        BY <1>4, <3>1, NewContext
      <3>3. declared' = {Core} \cup {c \in Context : Headers(text', c) # {}}
        BY <1>2, <1>3, <2>2, <3>2 DEF AddContext, Declared
      <3>4. l.name \notin isPattern
        BY <1>3, <2>2 DEF AddContext, TypeOK
      <3>5. ASSUME NEW c \in Context
            PROVE  c \in isPattern' <=> Mark(text', c) = Bang
        <4>1. c \in isPattern <=> Mark(text, c) = Bang
          BY <1>3 DEF Declared
        <4>2. c \in isPattern' <=> (c \in isPattern \/ (c = l.name /\ l.mark = Bang))
          BY <2>2 DEF AddContext
        <4>. QED
          BY <3>2, <3>4, <4>1, <4>2
      <3>6. ASSUME NEW c \in Context, NEW p \in Context
            PROVE  pattern'[c] = p <=> Inherits(text', c, p)
        <4>1. CASE c # l.name
          <5>1. pattern'[c] = pattern[c]
            BY <1>3, <2>2, <4>1 DEF AddContext, TypeOK
          <5>2. pattern[c] = p <=> Inherits(text, c, p)
            BY <1>3 DEF Declared
          <5>. QED
            BY <3>2, <4>1, <5>1, <5>2
        <4>2. CASE c = l.name
          <5>1. pattern'[c] = IF l.mark \in isPattern THEN l.mark ELSE None
            BY <1>3, <2>2, <4>2 DEF AddContext, TypeOK
          <5>2. p \in isPattern <=> Mark(text, p) = Bang
            BY <1>3 DEF Declared
          <5>3. p # None /\ (p \in isPattern => p # c)
            BY <3>4, <4>2, ConfigAssumption
          <5>4. Inherits(text', c, p) <=> l.mark = p /\ p # c /\ Mark(text, p) = Bang
            BY <3>2, <4>2
          <5>. QED
            BY <5>1, <5>2, <5>3, <5>4
        <4>. QED
          BY <4>1, <4>2
      <3>. QED
        BY <3>3, <3>5, <3>6 DEF Declared
    <2>. QED
      BY <1>1, <2>1, <2>2
  <1>. QED
    BY <1>6, <1>7, <1>8

(* What the parser has made answers as the file says.                      *)
LEMMA IInvReads ==
    ASSUME IInv
    PROVE  ReadsAsWritten
  <1>1. PatternsAreFlat /\ TypeOK /\ Declared /\ Listed
    BY DEF IInv, PatternsAreFlat
  <1>2. ASSUME NEW c \in Context, NEW k \in Key
        PROVE  GetStr(c, k) = Expected(text, c, k)
    <2> DEFINE inherited == {p \in Context : Inherits(text, c, p) /\ Written(text, p, k) # <<>>}
    <2>1. \A x \in Context : values[x][k] = Written(text, x, k)
      BY <1>1 DEF Listed
    <2>2. GetStr(c, k) =
             IF values[c][k] # <<>> THEN Head(values[c][k])
             ELSE IF pattern[c] # None /\ values[pattern[c]][k] # <<>>
             THEN Head(values[pattern[c]][k]) ELSE None
      BY <1>1, LookUp
    <2>3. Expected(text, c, k) =
             IF Written(text, c, k) # <<>> THEN Head(Written(text, c, k))
             ELSE IF inherited # {}
             THEN Head(Written(text, CHOOSE p \in inherited : TRUE, k)) ELSE None
      BY DEF Expected
    <2>4. \A p \in Context : pattern[c] = p <=> Inherits(text, c, p)
      BY <1>1 DEF Declared
    <2>5. CASE pattern[c] # None /\ values[pattern[c]][k] # <<>>
      <3>1. pattern[c] \in Context
        BY <1>1, <2>5 DEF TypeOK
      <3>2. inherited = {pattern[c]}
        BY <2>1, <2>4, <2>5, <3>1
      <3>3. (CHOOSE p \in {pattern[c]} : TRUE) = pattern[c]
        OBVIOUS
      <3>. HIDE DEF inherited
      <3>. QED
        BY <2>1, <2>2, <2>3, <2>5, <3>1, <3>2, <3>3
    <2>6. CASE ~(pattern[c] # None /\ values[pattern[c]][k] # <<>>)
      <3>1. inherited = {}
        BY <2>1, <2>4, <2>6, ConfigAssumption
      <3>. HIDE DEF inherited
      <3>. QED
        BY <2>1, <2>2, <2>3, <2>6, <3>1
    <2>. QED
      BY <2>5, <2>6
  <1>3. \A c \in Context : c \in declared <=> c = Core \/ Headers(text, c) # {}
    BY <1>1 DEF Declared
  <1>4. \A c \in Context, k \in Key : ListValue(c, k) = Written(text, c, k)
    BY <1>1 DEF Listed, ListValue
  <1>. QED
    BY <1>2, <1>3, <1>4 DEF ReadsAsWritten

(* The invariant is inductive. *)
LEMMA IInvStep ==
    ASSUME IInv, [Next]_vars
    PROVE  IInv'
  <1>1. PatternsAreFlat'
    BY FlatStep DEF IInv
  <1>2. CASE UNCHANGED vars
    BY <1>1, <1>2 DEF IInv, vars, Standing, Declared, Listed
  <1>3. CASE Next
    <2>1. Standing' /\ Declared' /\ Listed'
      BY <1>3, HeaderStep, SettingStep, SkipStep, AloneStep, AloneCommentStep DEF Next
    <2>. QED
      BY <1>1, <2>1 DEF IInv
  <1>. QED
    BY <1>2, <1>3

(* What the parser has made of the lines so far is what they say: of the   *)
(* context it stands in, of the contexts and their patterns, of each list. *)
THEOREM InductiveInvariant == Spec => []IInv
<1>1. Init => IInv
  BY InitIInv
<1>2. IInv /\ [Next]_vars => IInv'
  BY IInvStep
<1>. QED
  BY <1>1, <1>2, PTL DEF Spec

(* Lists have all values of their context in the order of the file, and a  *)
(* look-up yields the first, or the first of the pattern declared above,   *)
(* for files of any length.                                                *)
THEOREM FilesReadAsWritten == Spec => []ReadsAsWritten
<1>1. IInv => ReadsAsWritten
  BY IInvReads
<1>. QED
  BY <1>1, InductiveInvariant, PTL

(* Only patterns are inherited from and a pattern inherits from nothing,   *)
(* in files of any length: the recursion of acore_context_get_str ends     *)
(* after one level.                                                        *)
THEOREM FlatPatterns == Spec => []PatternsAreFlat
<1>1. IInv => PatternsAreFlat
  BY DEF IInv
<1>. QED
  BY <1>1, InductiveInvariant, PTL
=============================================================================
