------------------------------- MODULE Timers -------------------------------
(***************************************************************************)
(* The timers of src/core/acore_timer.c and the main loop that serves them *)
(* (acore_loop of src/core/acore_main.c).  One thread runs the loop; the   *)
(* others register, unregister and change timers and send the close event. *)
(*                                                                         *)
(* Time is counted in ticks, and every instant is kept relative to now:    *)
(* due[e] ticks from now entry e expires, age[e] ticks ago was its         *)
(* last_triger, in ahead ticks comes the instant pre of the loop.  Time    *)
(* passes while the loop sleeps and while it is in a call-back.            *)
(***************************************************************************)
EXTENDS Integers, FiniteSetsExt

CONSTANTS
    Entry,        \* the timers
    KeepAlive,    \* those registered before the others, for ever and unchanged
    Trigger,      \* the trigger times in use, in ticks
    Idle,         \* the delay of the controller, in ticks
    MaxWork,      \* bound: the ticks that the call-backs of one poll take
    Late,         \* bound: more than Late ticks late is not told apart
    None          \* not a timer, not a number: no call-back, no expiry

ASSUME TimerAssumption ==
    /\ IsFiniteSet(Entry) /\ KeepAlive \subseteq Entry
    /\ IsFiniteSet(Trigger) /\ Trigger \subseteq Nat \ {0} /\ Trigger # {}
    /\ Idle \in Nat \ {0} /\ MaxWork \in Nat /\ Late \in Nat
    /\ None \notin Entry /\ None \notin Int

Ancient == 2 * Max(Trigger) + Late    \* last_triger.sec = 0: before any period
Forever == 100 * (Ancient + Idle + MaxWork)    \* PJ_MAXINT32 seconds

VARIABLES
    due, trig, is_loop, age,    \* the timer entries
    period,     \* the trigger time each entry was last scheduled with
    running,    \* the entry whose call-back is running, or None
    at,         \* where the loop thread stands
    busy,       \* how long ago the current poll read the time
    delay,      \* the local variable of acore_timer_loop
    ahead,      \* its pre, minus now: while it sleeps, the rest of the sleep
    loop,       \* the flag of acore_main.c
    quiet,      \* unregistered by acore_timer_unregister, not registered since
    dismissed,  \* unregistered by acore_main_timer_unregister
    closed      \* the close event: "no", "early" or "heard" by the loop

entries == <<due, trig, is_loop, age, period>>
thread  == <<running, at, busy, delay, ahead>>
ghosts  == <<quiet, dismissed, closed>>
vars == <<entries, thread, loop, ghosts>>

Scheduled == {e \in Entry : due[e] # None}

(* pj_timer_heap_schedule refuses an entry that is in the heap. *)
Schedule(e, d) ==
    IF due[e] = None
    THEN due' = [due EXCEPT ![e] = d] /\ period' = [period EXCEPT ![e] = trig[e]]
    ELSE UNCHANGED <<due, period>>

Init ==
    /\ trig \in [Entry -> Trigger]
    /\ due = [e \in Entry |-> None]
    /\ age = [e \in Entry |-> Ancient]
    /\ is_loop = [e \in Entry |-> TRUE]
    /\ period = trig
    /\ running = None
    /\ at = "off"
    /\ busy = 0
    /\ delay = Idle
    /\ ahead = 0
    /\ loop = FALSE
    /\ quiet = {}
    /\ dismissed = {}
    /\ closed = "no"

-----------------------------------------------------------------------------
(* The timers that are kept alive, as the SIP module's, come first. *)
MayStart(e) ==
    e \in KeepAlive \/ \A k \in KeepAlive : due[k] # None \/ running = k

(* acore_timer_register, of an entry that is at rest. *)
Register(e) ==
    /\ due[e] = None /\ e # running
    /\ MayStart(e)
    /\ age' = [age EXCEPT ![e] = 0]
    /\ Schedule(e, trig[e])
    /\ quiet' = quiet \ {e}
    /\ dismissed' = dismissed \ {e}
    /\ UNCHANGED <<trig, is_loop, thread, loop, closed>>

(* acore_main_timer_unregister registers the entry, as it may be already.  *)
MainUnregister(e) ==
    /\ e \notin KeepAlive
    /\ MayStart(e)
    /\ age' = [age EXCEPT ![e] = 0]
    /\ Schedule(e, trig[e])
    /\ quiet' = quiet \ {e}
    /\ dismissed' = dismissed \cup {e}
    /\ UNCHANGED <<trig, is_loop, thread, loop, closed>>

(* acore_timer_unregister takes the entry out of the heap.  One whose      *)
(* call-back runs is in no heap, and is scheduled when the call-back ends. *)
Unregister(e) ==
    /\ e \notin KeepAlive
    /\ due' = [due EXCEPT ![e] = None]
    /\ age' = [age EXCEPT ![e] = Ancient]
    /\ quiet' = quiet \cup {e}
    /\ UNCHANGED <<trig, is_loop, period, thread, loop, dismissed, closed>>

(* acore_timer_entry_setloop and acore_timer_entry_change_trigger_time     *)
(* assign; what is scheduled already does not move.                        *)
SetLoop(e, b) ==
    /\ e \notin KeepAlive
    /\ is_loop' = [is_loop EXCEPT ![e] = b]
    /\ UNCHANGED <<due, trig, age, period, thread, loop, ghosts>>

ChangeTrigger(e, d) ==
    /\ e \notin KeepAlive
    /\ trig' = [trig EXCEPT ![e] = d]
    /\ UNCHANGED <<due, is_loop, age, period, thread, loop, ghosts>>

(* The close event, sent once, reaches evt_handle from when acore_loop has *)
(* registered it.                                                          *)
SendClose ==
    /\ closed = "no"
    /\ closed' = IF at \in {"off", "starting"} THEN "early" ELSE "heard"
    /\ loop' = IF at = "off" THEN loop ELSE FALSE
    /\ UNCHANGED <<entries, thread, quiet, dismissed>>

-----------------------------------------------------------------------------
(* acore_loop registers its handler, then sets the flag, and only then     *)
(* starts acore_timer_loop.                                                *)
LoopRegisters ==
    /\ at = "off"
    /\ at' = "starting"
    /\ UNCHANGED <<entries, running, busy, delay, ahead, loop, ghosts>>

LoopStarts ==
    /\ at = "starting"
    /\ at' = "check"
    /\ loop' = TRUE
    /\ UNCHANGED <<entries, running, busy, delay, ahead, ghosts>>

CheckAlways ==    \* faulty variant
    /\ at = "check"
    /\ at' = "count"
    /\ UNCHANGED <<entries, running, busy, delay, ahead, loop, ghosts>>

(* The head of the loop.  time_change is never set again, so that delay    *)
(* keeps what the polls leave in it.                                       *)
Check ==
    /\ at = "check"
    /\ at' = IF loop THEN "count" ELSE "ended"
    /\ UNCHANGED <<entries, running, busy, delay, ahead, loop, ghosts>>

SleepTwice ==    \* faulty variant
    IF ahead + delay' < 0
    THEN ahead' = delay' /\ at' = "check"
    ELSE ahead' = ahead + 2 * delay' /\ at' = "sleep"

(* The tail of the loop: sleep until pre + delay, or begin anew from now,  *)
(* without a sleep, when that is over already.                             *)
Sleep ==
    IF ahead + delay' < 0
    THEN ahead' = delay' /\ at' = "check"
    ELSE ahead' = ahead + delay' /\ at' = "sleep"

CountOffByOne ==    \* faulty variant
    /\ at = "count"
    /\ IF Cardinality(Scheduled) > 1
       THEN at' = "poll" /\ UNCHANGED <<delay, ahead>>
       ELSE delay' = delay /\ Sleep
    /\ UNCHANGED <<entries, running, busy, loop, ghosts>>

(* An empty heap is not polled: the loop sleeps as long as the last time. *)
Count ==
    /\ at = "count"
    /\ IF Cardinality(Scheduled) > 0
       THEN at' = "poll" /\ UNCHANGED <<delay, ahead>>
       ELSE delay' = delay /\ Sleep
    /\ UNCHANGED <<entries, running, busy, loop, ghosts>>

(* pj_timer_heap_poll runs what had expired when it read the time, the     *)
(* earliest first, without the lock of the heap.                           *)
Expired == {e \in Scheduled : due[e] + busy <= 0}

Fire(e) ==
    /\ at = "poll"
    /\ e \in Expired /\ \A f \in Expired : due[e] <= due[f]
    /\ due' = [due EXCEPT ![e] = None]
    /\ running' = e
    /\ at' = "callback"
    /\ UNCHANGED <<trig, is_loop, age, period, busy, delay, ahead, loop, ghosts>>

CallbackEndDrifts ==    \* faulty variant
    LET e == running IN
    /\ at = "callback"
    /\ at' = "poll"
    /\ running' = None
    /\ IF is_loop[e]
       THEN Schedule(e, trig[e]) /\ age' = [age EXCEPT ![e] = @ - trig[e]]
       ELSE age' = [age EXCEPT ![e] = Ancient] /\ UNCHANGED <<due, period>>
    /\ UNCHANGED <<trig, is_loop, busy, delay, ahead, loop, ghosts>>

(* timer_callback, after timer_func: the next expiry is one period after   *)
(* the one that was due, unless that is over already.                      *)
CallbackEnd ==
    LET e == running
        next == 2 * trig[e] - age[e]
    IN
    /\ at = "callback"
    /\ at' = "poll"
    /\ running' = None
    /\ IF ~is_loop[e]
       THEN age' = [age EXCEPT ![e] = Ancient] /\ UNCHANGED <<due, period>>
       ELSE IF next < 0
       THEN Schedule(e, trig[e]) /\ age' = [age EXCEPT ![e] = 0]
       ELSE Schedule(e, next) /\ age' = [age EXCEPT ![e] = @ - trig[e]]
    /\ UNCHANGED <<trig, is_loop, busy, delay, ahead, loop, ghosts>>

(* The poll leaves in delay the time to the next expiry, counted from when *)
(* it read the time; with no timer left, PJ_MAXINT32.                      *)
PollEnd ==
    /\ at = "poll"
    /\ Expired = {}
    /\ delay' = IF Scheduled = {} THEN Forever
                ELSE Min({due[e] + busy : e \in Scheduled})
    /\ busy' = 0
    /\ Sleep
    /\ UNCHANGED <<entries, running, loop, ghosts>>

Wake ==
    /\ at = "sleep"
    /\ ahead = 0
    /\ at' = "check"
    /\ UNCHANGED <<entries, running, busy, delay, ahead, loop, ghosts>>

(* Time passes.  A sleep of Forever does not end. *)
Tick ==
    /\ \/ at = "sleep" /\ ahead > 0
       \/ at = "callback" /\ busy < MaxWork
    /\ due' = [e \in Entry |-> IF due[e] = None THEN None ELSE Max({due[e] - 1, -Late - 1})]
    /\ age' = [e \in Entry |-> Min({age[e] + 1, Ancient})]
    /\ busy' = IF at = "callback" THEN busy + 1 ELSE busy
    /\ ahead' = IF ahead < Forever - Ancient THEN ahead - 1 ELSE ahead
    /\ UNCHANGED <<trig, is_loop, period, running, at, delay, loop, ghosts>>

LoopStep ==
    \/ LoopStarts \/ Check \/ Count \/ CallbackEnd \/ PollEnd \/ Wake
    \/ \E e \in Entry : Fire(e)

Application ==
    \/ LoopRegisters \/ SendClose
    \/ \E e \in Entry :
         \/ Register(e) \/ Unregister(e) \/ MainUnregister(e)
         \/ \E b \in BOOLEAN : SetLoop(e, b)
         \/ \E d \in Trigger : ChangeTrigger(e, d)

Next == LoopStep \/ Tick \/ Application

Spec == Init /\ [][Next]_vars

(* The loop thread runs and time passes. *)
FairSpec == Spec /\ WF_vars(LoopStep) /\ WF_vars(Tick)

-----------------------------------------------------------------------------
Running == at \notin {"off", "starting", "ended"}

(* The shape of the state.  While one timer is kept alive, the loop sleeps *)
(* no longer than for one delay and the work of a poll.                    *)
TypeOK ==
    /\ \A e \in Entry :
         /\ due[e] \in {None} \cup -Late - 1 .. 2 * Ancient
         /\ age[e] \in -Ancient .. Ancient
    /\ trig \in [Entry -> Trigger]
    /\ period \in [Entry -> Trigger]
    /\ is_loop \in [Entry -> BOOLEAN]
    /\ running \in Entry \cup {None}
    /\ at \in {"off", "starting", "check", "count", "poll", "callback", "sleep", "ended"}
    /\ busy \in 0..MaxWork
    /\ delay \in Nat
    /\ KeepAlive # {} =>
         ahead \in -MaxWork .. Max({Idle} \cup Trigger) + MaxWork
    /\ loop \in BOOLEAN
    /\ quiet \subseteq Entry /\ dismissed \subseteq Entry
    /\ closed \in {"no", "early", "heard"}

(* A timer expires one trigger time after the instant that last_triger     *)
(* records, however late its call-backs run: its phase does not drift      *)
(* (timer_callback, "count ting jitter").                                  *)
KeepsPhase ==
    /\ TypeOK
    /\ \A e \in Scheduled \ dismissed :
         due[e] >= -Late => due[e] + age[e] = period[e]

(* While a timer is kept alive, a timer is run less than the longest sleep *)
(* and the work of two polls too late, even one that is registered while   *)
(* the loop sleeps: an overrun makes the loop skip one sleep and lengthens *)
(* the next by what it skipped, and no more; and the timers that expire    *)
(* together wait for one another.                                          *)
NeverLate ==
    KeepAlive # {} =>
        \A e \in Scheduled : due[e] > -(Max({Idle} \cup Trigger) + 2 * MaxWork)

(* While the loop runs, every timer that is scheduled is run some day,     *)
(* unregistered, or the loop ends.                                         *)
RegisteredFires ==
    \A e \in Entry : Running /\ due[e] # None ~> running = e \/ due[e] = None \/ ~Running

(* A close event that reaches the loop ends it. *)
CloseEndsLoop == closed = "heard" ~> at = "ended"

-----------------------------------------------------------------------------
(* What the code does not keep, checked by no run; README.md, section 3,   *)
(* says what TLC finds.                                                    *)

Starts(e) == running # e /\ running' = e

(* Unregistering takes a timer out of the controller (timer.h,             *)
(* acore_timer_unregister): no call-back starts for it until it is         *)
(* registered again.                                                       *)
UnregisteredIsQuiet == [][\A e \in quiet : ~Starts(e)]_vars

(* The same of acore_main_timer_unregister, after which asip_close frees   *)
(* the pool that its timer is in.                                          *)
MainUnregisteredIsQuiet == [][\A e \in dismissed : ~Starts(e)]_vars
=============================================================================
