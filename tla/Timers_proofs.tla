---------------------------- MODULE Timers_proofs ----------------------------
(***************************************************************************)
(* Proofs about Timers for any finite set of timers, any finite set of     *)
(* trigger times and any amount of work per poll: the phase of a timer     *)
(* does not drift, and its lateness is bounded while some timer is kept    *)
(* alive.                                                                  *)
(***************************************************************************)
EXTENDS Timers, FiniteSetTheorems, NaturalsInduction, TLAPS

Longest == Max(Trigger)
Longest2 == Max({Idle} \cup Trigger)    \* the longest sleep without an overrun

Instants == {"off", "starting", "check", "count", "poll", "callback", "sleep", "ended"}
Polling  == {"poll", "callback"}

(* The types of the variables, without the bounds.                         *)
Shape ==
    /\ due \in [Entry -> Int \cup {None}]
    /\ age \in [Entry -> Int]
    /\ trig \in [Entry -> Trigger]
    /\ period \in [Entry -> Trigger]
    /\ is_loop \in [Entry -> BOOLEAN]
    /\ running \in Entry \cup {None}
    /\ at \in Instants
    /\ busy \in 0..MaxWork
    /\ delay \in Nat
    /\ ahead \in Int
    /\ loop \in BOOLEAN
    /\ quiet \subseteq Entry
    /\ dismissed \subseteq Entry
    /\ closed \in {"no", "early", "heard"}
    /\ running # None <=> at = "callback"
    /\ busy # 0 => at \in Polling

(* The expiry and last_triger of any entry stay within a few periods, even *)
(* when it is registered under its own call-back.                          *)
Bounds ==
    \A e \in Entry :
        /\ age[e] <= Ancient /\ age[e] >= -2 * Longest
        /\ due[e] # None =>
             /\ -Late - 1 <= due[e] /\ due[e] <= 3 * Longest
             /\ age[e] >= -Longest \/ due[e] + age[e] >= -Longest
        /\ running = e => /\ age[e] >= -Longest
                          /\ due[e] # None => age[e] >= 0

(* The phase: an entry expires one period after its last_triger, later     *)
(* only when the model no longer tells its lateness apart.                 *)
Phase ==
    \A e \in Entry \ dismissed :
        /\ running = e => due[e] = None
        /\ due[e] # None =>
             /\ due[e] + age[e] >= period[e]
             /\ due[e] >= -Late => due[e] + age[e] = period[e]

Alive(k) == due[k] # None \/ running = k

(* The timers that are kept alive never leave the heap for good.           *)
Kept ==
    /\ \A k \in KeepAlive :
         /\ is_loop[k] /\ period[k] = trig[k] /\ k \notin dismissed
         /\ due[k] # None => due[k] <= Longest
         /\ running = k => age[k] >= trig[k]
    /\ KeepAlive # {} =>
         \/ \E k \in KeepAlive : Alive(k)
         \/ Scheduled = {} /\ running = None /\ at \notin Polling /\ delay = Idle

(* How far the instant pre of the loop is ahead of the present poll, and   *)
(* how long it sleeps.                                                     *)
Credit ==
    KeepAlive # {} =>
        /\ at # "sleep" => 0 <= ahead + busy /\ ahead + busy <= MaxWork
        /\ at = "sleep" => 0 <= ahead /\ ahead <= Longest2 + MaxWork

(* How late a timer can be, counted to the end of a sleep and from the     *)
(* beginning of a poll.                                                    *)
Lateness ==
    KeepAlive # {} =>
        \A e \in Scheduled :
            due[e] + busy - (IF at = "sleep" THEN ahead ELSE 0) > -(Longest2 + MaxWork)

IInv ==
    /\ Shape
    /\ Bounds
    /\ Phase
    /\ Kept
    /\ Credit
    /\ Lateness

-----------------------------------------------------------------------------
(* Among finitely many timers one is the first by any measure.             *)
LEMMA FirstExists ==
    ASSUME NEW S, IsFiniteSet(S), S # {}, NEW g \in [S -> Int]
    PROVE  \E e \in S : \A f \in S : g[e] <= g[f]
<1>. DEFINE Below(e) == {f \in S : g[f] < g[e]}
            T == {Below(e) : e \in S}
<1>1. T \subseteq FiniteSubsetsOf(S) /\ T # {}
  <2>1. \A e \in S : IsFiniteSet(Below(e))
    BY FS_Subset
  <2>. QED
    BY <2>1 DEF FiniteSubsetsOf
<1>2. PICK B \in T : \A C \in T : <<C, B>> \notin StrictSubsetOrdering(S)
  <2>. HIDE DEF T
  <2>. QED
    BY <1>1, FS_StrictSubsetOrderingWellFounded, WFMin
<1>3. PICK e \in S : B = Below(e)
  BY <1>2
<1>4. ASSUME NEW f \in S, g[f] < g[e]
      PROVE  FALSE
  <2>1. Below(f) \in T
    OBVIOUS
  <2>2. Below(f) \subseteq Below(e) /\ f \in Below(e) /\ f \notin Below(f)
    BY <1>4
  <2>3. <<Below(f), Below(e)>> \in StrictSubsetOrdering(S)
    BY <2>2 DEF StrictSubsetOrdering
  <2>. QED
    BY <1>2, <1>3, <2>1, <2>3
<1>. QED
  BY <1>4

(* Max and Min of a finite set of instants are what their names say.       *)
LEMMA MaxIs ==
    ASSUME NEW S, IsFiniteSet(S), S # {}, S \subseteq Int
    PROVE  Max(S) \in S /\ \A x \in S : x <= Max(S)
<1>. DEFINE g == [x \in S |-> -x]
<1>1. g \in [S -> Int]
  OBVIOUS
<1>2. PICK m \in S : \A x \in S : g[m] <= g[x]
  <2>. HIDE DEF g
  <2>. QED
    BY <1>1, FirstExists
<1>3. \A x \in S : m >= x
  BY <1>2
<1>. QED
  BY <1>3 DEF Max

(* A set with a least element has it as its minimum.                       *)
LEMMA MinIs ==
    ASSUME NEW S, NEW m \in S, S \subseteq Int, \A x \in S : m <= x
    PROVE  Min(S) \in S /\ \A x \in S : Min(S) <= x
BY DEF Min

(* What the parameters of the module amount to.                            *)
LEMMA Parameters ==
    /\ Longest \in Nat \ {0} /\ Longest2 \in Nat \ {0}
    /\ Idle \in Nat \ {0} /\ Idle <= Longest2 /\ Longest <= Longest2
    /\ Longest2 <= Longest + Idle
    /\ MaxWork \in Nat /\ Late \in Nat
    /\ \A d \in Trigger : d \in Nat \ {0} /\ d <= Longest
    /\ Ancient = 2 * Longest + Late
    /\ Forever = 100 * (Ancient + Idle + MaxWork)
    /\ None \notin Entry /\ None \notin Int
<1>. USE TimerAssumption
<1>1. Longest \in Trigger /\ \A d \in Trigger : d <= Longest
  <2>1. Trigger \subseteq Int
    OBVIOUS
  <2>. QED
    BY <2>1, MaxIs DEF Longest
<1>2. IsFiniteSet({Idle} \cup Trigger) /\ {Idle} \cup Trigger \subseteq Int
  BY FS_AddElement
<1>3. Longest2 \in {Idle} \cup Trigger /\ \A d \in {Idle} \cup Trigger : d <= Longest2
  BY <1>2, MaxIs DEF Longest2
<1>. QED
  <2>1. Longest \in Nat \ {0} /\ Longest2 \in Nat \ {0}
    BY <1>1, <1>3
  <2>2. Longest <= Longest2 /\ Idle <= Longest2 /\ Longest2 <= Longest + Idle
    BY <1>1, <1>3
  <2>3. Ancient = 2 * Longest + Late
    BY DEF Ancient, Longest
  <2>. QED
    BY <1>1, <2>1, <2>2, <2>3 DEF Forever

(* The greater of two.                                                     *)
LEMMA MaxOfTwo ==
    ASSUME NEW a \in Int, NEW b \in Int
    PROVE  Max({a, b}) = IF a >= b THEN a ELSE b
<1>1. Max({a, b}) = CHOOSE x \in {a, b} : \A y \in {a, b} : x >= y
  BY DEF Max
<1>2. \E x \in {a, b} : \A y \in {a, b} : x >= y
  OBVIOUS
<1>. QED
  BY <1>1, <1>2

(* The lesser of two.                                                      *)
LEMMA MinOfTwo ==
    ASSUME NEW a \in Int, NEW b \in Int
    PROVE  Min({a, b}) = IF a <= b THEN a ELSE b
<1>1. Min({a, b}) = CHOOSE x \in {a, b} : \A y \in {a, b} : x <= y
  BY DEF Min
<1>2. \E x \in {a, b} : \A y \in {a, b} : x <= y
  OBVIOUS
<1>. QED
  BY <1>1, <1>2

-----------------------------------------------------------------------------
(* Before anything is registered no timer is in the heap.                  *)
LEMMA InitIInv == Init => IInv
<1>. SUFFICES ASSUME Init
              PROVE  IInv
  OBVIOUS
<1>. USE Parameters, TimerAssumption DEF Init
<1>1. \A e \in Entry : due[e] = None /\ age[e] = Ancient /\ is_loop[e] = TRUE
  OBVIOUS
<1>2. Ancient \in Int
  OBVIOUS
<1>3. is_loop \in [Entry -> BOOLEAN]
  OBVIOUS
<1>4. Shape
  <2>1. due \in [Entry -> Int \cup {None}] /\ age \in [Entry -> Int]
    BY <1>2
  <2>2. trig \in [Entry -> Trigger] /\ period \in [Entry -> Trigger]
    OBVIOUS
  <2>. QED
    BY <1>3, <2>1, <2>2 DEF Shape, Instants, Polling
<1>5. Bounds /\ Phase
  BY <1>1 DEF Bounds, Phase
<1>6. Kept
  BY <1>1 DEF Kept, Scheduled, Polling
<1>7. Credit /\ Lateness
  BY <1>1 DEF Credit, Lateness, Scheduled
<1>. QED
  BY <1>4, <1>5, <1>6, <1>7 DEF IInv

(* Registering an entry, from either function: it expires one period from  *)
(* now, unless it is in the heap already.                                  *)
LEMMA RegisterIInv ==
    ASSUME IInv, NEW e \in Entry, Register(e)
    PROVE  IInv'
<1>. USE Parameters, TimerAssumption DEF Register, Schedule, thread
<1>. USE DEF IInv
<1>1. trig[e] \in Nat \ {0} /\ trig[e] <= Longest
  BY DEF Shape
<1>2. Shape'
  BY <1>1 DEF Shape, Instants, Polling
<1>3. Bounds'
  BY <1>1 DEF Shape, Bounds
<1>4. Phase'
  BY <1>1 DEF Shape, Phase
<1>5. Kept'
  BY <1>1 DEF Shape, Kept, Alive, Scheduled, MayStart, Polling
<1>6. Credit' /\ Lateness'
  BY <1>1 DEF Shape, Credit, Lateness, Scheduled
<1>. QED
  BY <1>2, <1>3, <1>4, <1>5, <1>6

(* acore_main_unregister, which registers the timer.                       *)
LEMMA MainUnregisterIInv ==
    ASSUME IInv, NEW e \in Entry, MainUnregister(e)
    PROVE  IInv'
<1>. USE Parameters, TimerAssumption DEF MainUnregister, Schedule, thread
<1>. USE DEF IInv
<1>1. trig[e] \in Nat \ {0} /\ trig[e] <= Longest
  BY DEF Shape
<1>2. Shape'
  BY <1>1 DEF Shape, Instants, Polling
<1>3. Bounds'
  BY <1>1 DEF Shape, Bounds
<1>4. Phase'
  BY <1>1 DEF Shape, Phase
<1>5. Kept'
  BY <1>1 DEF Shape, Kept, Alive, Scheduled, MayStart, Polling
<1>6. Credit' /\ Lateness'
  BY <1>1 DEF Shape, Credit, Lateness, Scheduled
<1>. QED
  BY <1>2, <1>3, <1>4, <1>5, <1>6

(* Taking an entry out of the heap leaves the timers that are kept alive.  *)
LEMMA UnregisterIInv ==
    ASSUME IInv, NEW e \in Entry, Unregister(e)
    PROVE  IInv'
<1>. USE Parameters, TimerAssumption DEF Unregister, thread
<1>. USE DEF IInv
<1>1. Shape'
  BY DEF Shape, Instants, Polling
<1>2. Bounds'
  BY DEF Shape, Bounds
<1>3. Phase'
  BY DEF Shape, Phase
<1>4. Kept'
  BY DEF Shape, Kept, Alive, Scheduled, Polling
<1>5. Credit' /\ Lateness'
  BY DEF Shape, Credit, Lateness, Scheduled
<1>. QED
  BY <1>1, <1>2, <1>3, <1>4, <1>5

(* Changing an entry does not move its expiry.                             *)
LEMMA ChangeIInv ==
    ASSUME IInv, NEW e \in Entry,
           \/ \E b \in BOOLEAN : SetLoop(e, b)
           \/ \E d \in Trigger : ChangeTrigger(e, d)
    PROVE  IInv'
<1>. USE Parameters, TimerAssumption DEF SetLoop, ChangeTrigger, thread, ghosts
<1>. USE DEF IInv
<1>1. Shape'
  <2>1. is_loop' \in [Entry -> BOOLEAN] /\ trig' \in [Entry -> Trigger]
    BY DEF Shape
  <2>. QED
    BY <2>1 DEF Shape, Instants, Polling
<1>2. Bounds' /\ Phase'
  BY DEF Bounds, Phase
<1>3. Kept'
  BY DEF Shape, Kept, Alive, Scheduled, Polling
<1>4. Credit' /\ Lateness'
  BY DEF Shape, Credit, Lateness, Scheduled
<1>. QED
  BY <1>1, <1>2, <1>3, <1>4

(* The steps that leave the heap and the sleep alone.                      *)
LEMMA ControlIInv ==
    ASSUME IInv, SendClose \/ LoopRegisters \/ LoopStarts \/ Check \/ Wake
    PROVE  IInv'
<1>0. at' = at \/ (at # "sleep" /\ at' # "sleep") \/ Wake
  BY DEF SendClose, LoopRegisters, LoopStarts, Check, thread
<1>. USE Parameters, TimerAssumption
     DEF SendClose, LoopRegisters, LoopStarts, Check, Wake, entries, thread, ghosts
<1>. USE DEF IInv
<1>1. Shape'
  BY DEF Shape, Instants, Polling
<1>2. Bounds' /\ Phase'
  BY DEF Bounds, Phase
<1>3. Kept'
  <2>1. UNCHANGED <<due, trig, is_loop, period, age, running, dismissed, delay>>
    OBVIOUS
  <2>2. at' \in Polling => at \in Polling
    BY DEF Polling
  <2>. QED
    BY <2>1, <2>2 DEF IInv, Kept, Alive, Scheduled
<1>4. Credit'
  <2>1. busy \in Nat /\ ahead \in Int /\ (busy # 0 => at \in Polling)
    BY DEF Shape
  <2>2. ahead' = ahead /\ busy' = busy
    OBVIOUS
  <2>3. CASE Wake
    BY <2>1, <2>2, <2>3 DEF Credit, Polling
  <2>4. CASE ~Wake
    BY <1>0, <2>1, <2>2, <2>4 DEF Credit
  <2>. QED
    BY <2>3, <2>4
<1>5. Lateness'
  BY DEF Shape, Lateness, Scheduled
<1>. QED
  BY <1>1, <1>2, <1>3, <1>4, <1>5

(* The callback of an entry starts only once that entry has expired.       *)
LEMMA FireIInv ==
    ASSUME IInv, NEW e \in Entry, Fire(e)
    PROVE  IInv'
<1>0. trig[e] \in Int /\ age[e] \in Int
  BY Parameters DEF IInv, Shape
<1>. USE Parameters, TimerAssumption DEF Fire, Expired, ghosts
<1>. USE DEF IInv
<1>1. due[e] \in Int /\ due[e] + busy <= 0 /\ running = None /\ busy \in Nat
  BY DEF Shape, Scheduled
<1>2. Shape'
  BY DEF Shape, Instants, Polling, Scheduled
<1>3. Bounds'
  BY <1>1 DEF Shape, Bounds
<1>4. Phase'
  BY <1>1 DEF Shape, Phase
<1>5. Kept'
  <2>1. ASSUME e \in KeepAlive
        PROVE  age[e] >= trig[e]
    <3>1. period[e] = trig[e] /\ e \notin dismissed
      BY <2>1 DEF Kept
    <3>2. due[e] + age[e] >= period[e]
      BY <1>1, <3>1 DEF Phase
    <3>. QED
      BY <1>0, <1>1, <3>1, <3>2
  <2>2. \A k \in KeepAlive : Alive(k)' <=> Alive(k)
    BY <1>1 DEF Shape, Alive
  <2>3. KeepAlive # {} => \E k \in KeepAlive : Alive(k)'
    BY <2>2 DEF Kept, Polling
  <2>. QED
    BY <1>1, <2>1, <2>3 DEF Shape, Kept
<1>6. Credit' /\ Lateness'
  BY <1>1 DEF Shape, Credit, Lateness, Scheduled
<1>. QED
  BY <1>2, <1>3, <1>4, <1>5, <1>6

(* With an empty heap, and a timer kept alive that is not registered yet,  *)
(* the loop sleeps for the delay of the controller.                        *)
LEMMA CountIInv ==
    ASSUME IInv, Count
    PROVE  IInv'
<1>. USE Parameters, TimerAssumption DEF IInv
<1>1. Cardinality(Scheduled) > 0 <=> Scheduled # {}
  <2>1. IsFiniteSet(Scheduled) /\ Cardinality(Scheduled) \in Nat
    BY FS_Subset, FS_CardinalityType DEF Scheduled
  <2>. QED
    BY <2>1, FS_EmptySet
<1>2. /\ at = "count" /\ running = None /\ busy = 0
      /\ UNCHANGED <<entries, running, busy, loop, ghosts>>
      /\ \/ Scheduled # {} /\ at' = "poll" /\ UNCHANGED <<delay, ahead>>
         \/ Scheduled = {} /\ delay' = delay /\ Sleep
  BY <1>1 DEF Count, Shape, Polling
<1>3. delay \in Nat /\ ahead \in Int /\ (KeepAlive # {} => 0 <= ahead /\ ahead <= MaxWork)
  BY <1>2 DEF Shape, Credit
<1>4. Scheduled = {} /\ KeepAlive # {} => delay = Idle
  BY <1>2 DEF Kept, Alive, Scheduled
<1>5. Shape'
  BY <1>2, <1>3 DEF Shape, Instants, Polling, entries, ghosts, Sleep
<1>6. Bounds' /\ Phase'
  BY <1>2 DEF Bounds, Phase, entries, ghosts
<1>7. Kept'
  BY <1>2, <1>3, <1>4 DEF Kept, Alive, Scheduled, Polling, entries, ghosts, Sleep
<1>8. Credit'
  BY <1>2, <1>3, <1>4 DEF Credit, Sleep
<1>9. Lateness'
  BY <1>2 DEF Lateness, Scheduled, entries, Sleep
<1>. QED
  BY <1>5, <1>6, <1>7, <1>8, <1>9

(* The poll over, the loop sleeps to the first expiry; what the poll took  *)
(* longer than that is taken from the sleep.                               *)
LEMMA PollEndIInv ==
    ASSUME IInv, PollEnd
    PROVE  IInv'
<1>. USE Parameters, TimerAssumption DEF IInv
<1>1. /\ at = "poll" /\ running = None /\ busy \in Nat /\ busy <= MaxWork
      /\ ahead \in Int /\ due \in [Entry -> Int \cup {None}]
      /\ UNCHANGED <<entries, running, loop, ghosts>> /\ busy' = 0 /\ Sleep
  BY DEF PollEnd, Shape, Polling
<1>2. \A e \in Scheduled : due[e] \in Int /\ due[e] + busy > 0
  BY <1>1 DEF PollEnd, Expired, Scheduled
<1>3. PICK n \in Nat : delay' = n /\ \A e \in Scheduled : n <= due[e] + busy
  <2>1. CASE Scheduled = {}
    BY <2>1 DEF PollEnd
  <2>2. CASE Scheduled # {}
    <3>. DEFINE g == [e \in Scheduled |-> due[e] + busy]
                M == {due[e] + busy : e \in Scheduled}
    <3>1. g \in [Scheduled -> Int] /\ IsFiniteSet(Scheduled)
      BY <1>1, <1>2, FS_Subset DEF Scheduled
    <3>2. PICK e \in Scheduled : \A f \in Scheduled : g[e] <= g[f]
      <4>. HIDE DEF g
      <4>. QED
        BY <2>2, <3>1, FirstExists
    <3>3. due[e] + busy \in M /\ M \subseteq Int /\ \A x \in M : due[e] + busy <= x
      BY <1>1, <1>2, <3>2
    <3>4. Min(M) \in M /\ \A x \in M : Min(M) <= x
      <4>. HIDE DEF M
      <4>. QED
        BY <3>3, MinIs
    <3>5. delay' = Min(M)
      BY <2>2 DEF PollEnd
    <3>6. PICK f \in Scheduled : Min(M) = due[f] + busy
      BY <3>4
    <3>7. due[f] + busy \in Nat
      BY <1>1, <1>2
    <3>8. \A h \in Scheduled : due[f] + busy <= due[h] + busy
      BY <3>4, <3>6
    <3>. QED
      BY <3>5, <3>6, <3>7, <3>8
  <2>. QED
    BY <2>1, <2>2
<1>4. PICK h \in Int :
        /\ ahead' = h
        /\ \/ ahead + n < 0 /\ h = n /\ at' = "check"
           \/ ahead + n >= 0 /\ h = ahead + n /\ at' = "sleep"
  <2>1. \/ ahead + n < 0 /\ ahead' = n /\ at' = "check"
        \/ ~(ahead + n < 0) /\ ahead' = ahead + n /\ at' = "sleep"
    BY <1>1, <1>3 DEF Sleep
  <2>. QED
    BY <1>1, <2>1
<1>5. KeepAlive # {} => \E k \in KeepAlive : k \in Scheduled /\ due[k] <= Longest
  BY <1>1 DEF Kept, Alive, Scheduled, Polling
<1>6. Shape'
  BY <1>1, <1>3, <1>4 DEF Shape, Instants, Polling, entries, ghosts
<1>7. Bounds' /\ Phase'
  BY <1>1 DEF Bounds, Phase, entries, ghosts
<1>8. Kept'
  BY <1>1, <1>5 DEF Kept, Alive, Scheduled, Polling, entries, ghosts
<1>9. ASSUME KeepAlive # {}
      PROVE  /\ 0 <= ahead + busy /\ ahead + busy <= MaxWork /\ n <= Longest + busy
             /\ 0 <= h /\ h <= Longest2 + MaxWork /\ (at' # "sleep" => h <= MaxWork)
  <2>1. 0 <= ahead + busy /\ ahead + busy <= MaxWork
    BY <1>1, <1>9 DEF Credit
  <2>2. n <= Longest + busy
    BY <1>1, <1>2, <1>3, <1>5, <1>9
  <2>. QED
    BY <1>1, <1>4, <2>1, <2>2
<1>10. Credit'
  BY <1>1, <1>4, <1>9 DEF Credit
<1>11. Lateness'
  <2>1. Scheduled' = Scheduled /\ due' = due
    BY <1>1 DEF Scheduled, entries
  <2>2. ASSUME KeepAlive # {}, NEW e \in Scheduled
        PROVE  due[e] + 0 - (IF at' = "sleep" THEN h ELSE 0) > -(Longest2 + MaxWork)
    BY <1>1, <1>2, <1>3, <1>4, <1>9, <2>2
  <2>. QED
    BY <1>1, <1>4, <2>1, <2>2 DEF Lateness
<1>. QED
  BY <1>6, <1>7, <1>8, <1>10, <1>11

(* The call-back over, its entry expires one period after it did.          *)
LEMMA CallbackEndIInv ==
    ASSUME IInv, CallbackEnd
    PROVE  IInv'
<1>. PICK e \in Entry : e = running
  BY DEF CallbackEnd, IInv, Shape
<1>. DEFINE next == 2 * trig[e] - age[e]
<1>1. /\ running = e /\ e # None /\ age[e] \in Int /\ is_loop[e] \in BOOLEAN
      /\ trig[e] \in Trigger /\ trig[e] \in Nat \ {0} /\ trig[e] <= Longest
      /\ due \in [Entry -> Int \cup {None}] /\ age \in [Entry -> Int]
      /\ period \in [Entry -> Trigger] /\ trig \in [Entry -> Trigger]
      /\ due[e] \in Int \cup {None} /\ period[e] \in Trigger
      /\ at = "callback" /\ at' = "poll" /\ running' = None
      /\ UNCHANGED <<trig, is_loop, busy, delay, ahead, loop, quiet, dismissed, closed>>
  BY Parameters DEF CallbackEnd, IInv, Shape, ghosts
<1>. DEFINE d == IF next < 0 THEN trig[e] ELSE next
            a == IF ~is_loop[e] THEN Ancient
                 ELSE IF next < 0 THEN 0 ELSE age[e] - trig[e]
<1>2. /\ d \in Int /\ a \in Int
      /\ age' = [age EXCEPT ![e] = a]
      /\ \/ ~is_loop[e] /\ UNCHANGED <<due, period>>
         \/ /\ is_loop[e] /\ due[e] = None
            /\ due' = [due EXCEPT ![e] = d]
            /\ period' = [period EXCEPT ![e] = trig[e]]
         \/ is_loop[e] /\ due[e] # None /\ UNCHANGED <<due, period>>
  <2>1. next \in Int /\ Ancient \in Int /\ d \in Int /\ a \in Int
    BY <1>1, Parameters
  <2>2. CASE ~is_loop[e]
    BY <1>1, <2>1, <2>2 DEF CallbackEnd
  <2>3. CASE is_loop[e] /\ next < 0
    BY <1>1, <2>1, <2>3 DEF CallbackEnd, Schedule
  <2>4. CASE is_loop[e] /\ ~(next < 0)
    BY <1>1, <2>1, <2>4 DEF CallbackEnd, Schedule
  <2>. QED
    BY <2>2, <2>3, <2>4
<1>3. age[e] >= -Longest /\ (due[e] # None => age[e] >= 0) /\ age[e] <= Ancient
  BY <1>1 DEF IInv, Bounds
<1>4. /\ a <= Ancient /\ a >= -2 * Longest /\ d >= 0 /\ d <= 3 * Longest
      /\ due[e] # None => a >= -Longest
      /\ is_loop[e] => d + a = trig[e]
  BY <1>1, <1>2, <1>3, Parameters
<1>. HIDE DEF next, d, a
<1>. USE Parameters, TimerAssumption DEF IInv
<1>5. Shape'
  BY <1>1, <1>2 DEF Shape, Instants, Polling
<1>6. Bounds'
  <2>. SUFFICES ASSUME NEW f \in Entry
                PROVE  /\ age'[f] <= Ancient /\ age'[f] >= -2 * Longest
                       /\ due'[f] # None =>
                            /\ -Late - 1 <= due'[f] /\ due'[f] <= 3 * Longest
                            /\ age'[f] >= -Longest \/ due'[f] + age'[f] >= -Longest
    BY <1>1 DEF Bounds
  <2>1. CASE f = e
    BY <1>1, <1>2, <1>4, <2>1 DEF Bounds
  <2>2. CASE f # e
    BY <1>1, <1>2, <2>2 DEF Bounds
  <2>. QED
    BY <2>1, <2>2
<1>7. Phase'
  <2>. SUFFICES ASSUME NEW f \in Entry \ dismissed, due'[f] # None
                PROVE  /\ due'[f] + age'[f] >= period'[f]
                       /\ due'[f] >= -Late => due'[f] + age'[f] = period'[f]
    BY <1>1 DEF Phase
  <2>1. CASE f = e
    BY <1>1, <1>2, <1>4, <2>1 DEF Phase
  <2>2. CASE f # e
    BY <1>1, <1>2, <2>2 DEF Phase
  <2>. QED
    BY <2>1, <2>2
<1>8. Kept'
  <2>1. ASSUME e \in KeepAlive
        PROVE  is_loop[e] /\ due[e] = None /\ due' = [due EXCEPT ![e] = d] /\ d <= Longest
    <3>1. is_loop[e] /\ age[e] >= trig[e] /\ e \notin dismissed
      BY <1>1, <2>1 DEF Kept
    <3>2. due[e] = None
      BY <1>1, <3>1 DEF Phase
    <3>. QED
      BY <1>1, <1>2, <1>3, <3>1, <3>2, Parameters DEF next, d
  <2>2. \A k \in KeepAlive : Alive(k) => Alive(k)'
    BY <1>1, <1>2, <2>1 DEF Alive
  <2>3. KeepAlive # {} => \E k \in KeepAlive : Alive(k)'
    BY <1>1, <2>2 DEF Kept
  <2>4. \A k \in KeepAlive :
          /\ is_loop'[k] /\ period'[k] = trig'[k] /\ k \notin dismissed'
          /\ due'[k] # None => due'[k] <= Longest
    BY <1>1, <1>2, <2>1 DEF Kept
  <2>. QED
    BY <1>1, <2>3, <2>4 DEF Kept
<1>9. Credit' /\ Lateness'
  <2>1. Credit'
    BY <1>1 DEF Credit
  <2>2. Lateness'
    <3>1. busy \in Nat /\ \A f \in Entry : due'[f] # None => due'[f] \in Int
      BY <1>5 DEF Shape
    <3>. SUFFICES ASSUME KeepAlive # {}, NEW f \in Entry, due'[f] # None
                  PROVE  due'[f] + busy > -(Longest2 + MaxWork)
      BY <1>1, <3>1 DEF Lateness, Scheduled
    <3>2. CASE due[f] # None
      BY <1>1, <1>2, <3>1, <3>2 DEF Lateness, Scheduled
    <3>3. CASE due[f] = None
      BY <1>1, <1>2, <1>4, <3>1, <3>3
    <3>. QED
      BY <3>2, <3>3
  <2>. QED
    BY <2>1, <2>2
<1>. QED
  BY <1>5, <1>6, <1>7, <1>8, <1>9

(* One tick passes, for the expiry and last_triger of every entry alike.   *)
LEMMA TickIInv ==
    ASSUME IInv, Tick
    PROVE  IInv'
<1>1. \A e \in Entry : /\ age[e] \in Int
                       /\ due[e] # None => due[e] \in Int
                       /\ trig[e] \in Trigger /\ period[e] \in Nat /\ period[e] <= Longest
  BY Parameters DEF IInv, Shape
<1>2. \A e \in Entry :
        /\ age'[e] = IF age[e] + 1 <= Ancient THEN age[e] + 1 ELSE Ancient
        /\ due'[e] = IF due[e] = None THEN None
                     ELSE IF due[e] - 1 >= -Late - 1 THEN due[e] - 1 ELSE -Late - 1
  BY <1>1, Parameters, MaxOfTwo, MinOfTwo DEF Tick
<1>3. /\ \/ at = "sleep" /\ ahead > 0 /\ busy' = busy
         \/ at = "callback" /\ busy < MaxWork /\ busy' = busy + 1
      /\ ahead' = (IF ahead < Forever - Ancient THEN ahead - 1 ELSE ahead)
      /\ ahead \in Int /\ busy \in 0..MaxWork
      /\ DOMAIN due' = Entry /\ DOMAIN age' = Entry
      /\ due' = [e \in Entry |-> due'[e]] /\ age' = [e \in Entry |-> age'[e]]
      /\ UNCHANGED <<trig, is_loop, period, running, at, delay, loop, quiet, dismissed, closed>>
  BY DEF Tick, IInv, Shape, ghosts
<1>. USE Parameters, TimerAssumption DEF IInv
<1>4. Shape'
  <2>1. due' \in [Entry -> Int \cup {None}] /\ age' \in [Entry -> Int]
    BY <1>1, <1>2, <1>3
  <2>2. ahead' \in Int /\ busy' \in 0..MaxWork /\ (busy' # 0 => at \in Polling)
    BY <1>3 DEF Shape, Polling
  <2>. QED
    BY <1>3, <2>1, <2>2 DEF Shape
<1>5. Bounds'
  BY <1>1, <1>2, <1>3 DEF Bounds
<1>6. Phase'
  BY <1>1, <1>2, <1>3 DEF Bounds, Phase
<1>7. Kept'
  <2>1. \A k \in KeepAlive : Alive(k)' <=> Alive(k)
    BY <1>1, <1>2, <1>3 DEF Alive
  <2>2. \A k \in KeepAlive :
          /\ due'[k] # None => due'[k] <= Longest
          /\ running = k => age'[k] >= trig[k]
    BY <1>1, <1>2, <1>3 DEF Kept, Bounds
  <2>3. Scheduled' = Scheduled
    BY <1>1, <1>2, <1>3 DEF Scheduled
  <2>. QED
    BY <1>3, <2>1, <2>2, <2>3 DEF Kept
<1>8. KeepAlive # {} => ahead < Forever - Ancient
  BY <1>3 DEF Credit
<1>9. Credit'
  BY <1>3, <1>8 DEF Credit
<1>10. Lateness'
  <2>. SUFFICES ASSUME KeepAlive # {}, NEW e \in Entry, due'[e] # None
                PROVE  due'[e] + busy' - (IF at = "sleep" THEN ahead' ELSE 0)
                         > -(Longest2 + MaxWork)
    BY <1>3 DEF Lateness, Scheduled
  <2>1. due[e] \in Int /\ due'[e] \in Int /\ due'[e] >= due[e] - 1
    BY <1>1, <1>2
  <2>2. due[e] + busy - (IF at = "sleep" THEN ahead ELSE 0) > -(Longest2 + MaxWork)
    BY <2>1 DEF Lateness, Scheduled
  <2>. QED
    BY <1>3, <1>8, <2>1, <2>2
<1>. QED
  BY <1>4, <1>5, <1>6, <1>7, <1>9, <1>10

(* Every step of the loop and of the application preserves the invariant.  *)
LEMMA NextIInv ==
    ASSUME IInv, [Next]_vars
    PROVE  IInv'
<1>1. CASE LoopStep
  BY <1>1, ControlIInv, CountIInv, CallbackEndIInv, PollEndIInv, FireIInv DEF LoopStep
<1>2. CASE Tick
  BY <1>2, TickIInv
<1>3. CASE Application
  <2>1. CASE LoopRegisters \/ SendClose
    BY <2>1, ControlIInv
  <2>2. CASE \E e \in Entry : Register(e) \/ Unregister(e) \/ MainUnregister(e)
    BY <2>2, RegisterIInv, UnregisterIInv, MainUnregisterIInv
  <2>3. CASE \E e \in Entry : \/ \E b \in BOOLEAN : SetLoop(e, b)
                              \/ \E d \in Trigger : ChangeTrigger(e, d)
    BY <2>3, ChangeIInv
  <2>. QED
    BY <1>3, <2>1, <2>2, <2>3 DEF Application
<1>4. CASE UNCHANGED vars
  BY <1>4 DEF vars, entries, thread, ghosts, IInv, Shape, Bounds, Phase,
              Kept, Alive, Credit, Lateness, Scheduled
<1>. QED
  BY <1>1, <1>2, <1>3, <1>4 DEF Next

(* The invariant holds in every state of every behaviour.                  *)
THEOREM InductiveInvariant == Spec => []IInv
<1>1. Init => IInv
  BY InitIInv
<1>2. IInv /\ [Next]_vars => IInv'
  BY NextIInv
<1>. QED
  BY <1>1, <1>2, PTL DEF Spec

(* What the invariant says of the phase, with the bounds of every          *)
(* variable.                                                               *)
LEMMA IInvKeepsPhase == IInv => KeepsPhase
<1>. SUFFICES ASSUME IInv
              PROVE  KeepsPhase
  OBVIOUS
<1>. USE Parameters, TimerAssumption DEF IInv
<1>1. \A e \in Entry : /\ due[e] \in {None} \cup -Late - 1 .. 2 * Ancient
                       /\ age[e] \in -Ancient .. Ancient
  BY DEF Shape, Bounds
<1>2. KeepAlive # {} => ahead \in -MaxWork .. Longest2 + MaxWork
  BY DEF Shape, Credit
<1>3. TypeOK
  BY <1>1, <1>2 DEF TypeOK, Shape, Instants, Longest2
<1>4. \A e \in Scheduled \ dismissed : due[e] >= -Late => due[e] + age[e] = period[e]
  BY DEF Phase, Scheduled
<1>. QED
  BY <1>3, <1>4 DEF KeepsPhase

(* The bound of a timer's lateness follows from the invariant.             *)
LEMMA IInvNeverLate == IInv => NeverLate
<1>. SUFFICES ASSUME IInv, KeepAlive # {}, NEW e \in Scheduled
              PROVE  due[e] > -(Longest2 + 2 * MaxWork)
  BY DEF NeverLate, Longest2
<1>. USE Parameters, TimerAssumption DEF IInv
<1>1. due[e] \in Int /\ ahead \in Int /\ busy \in Nat /\ busy <= MaxWork
  BY DEF Shape, Scheduled
<1>2. due[e] + busy - (IF at = "sleep" THEN ahead ELSE 0) > -(Longest2 + MaxWork)
  BY DEF Lateness
<1>3. at = "sleep" => ahead >= 0
  BY DEF Credit
<1>. QED
  BY <1>1, <1>2, <1>3

(* A timer expires one trigger time after the instant that last_triger     *)
(* records, whatever its call-backs and those of the others take.          *)
THEOREM PhaseDoesNotDrift == Spec => []KeepsPhase
BY InductiveInvariant, IInvKeepsPhase, PTL

(* While one timer is kept alive, no timer is ever later than the longest  *)
(* sleep and the work of two polls.                                        *)
THEOREM LatenessIsBounded == Spec => []NeverLate
BY InductiveInvariant, IInvNeverLate, PTL
=============================================================================
