----------------------------- MODULE WorkChecks -----------------------------
(***************************************************************************)
(* One work of src/core/acore_work.c and its checks: the control of calls, *)
(* which src/sip/asip_init.c creates and src/sip/asip_call.c offers to the *)
(* application.  A test walks the checks under the core lock and asks them *)
(* one by one; a check is a call-back and may call in again, so that every *)
(* thread has a stack of calls.  acore_work_add_check and acore_work_test  *)
(* look the work up before they take the lock.                             *)
(*                                                                         *)
(* asip_call_add_control and asip_call_remove_control hold the SIP lock    *)
(* around the same calls.                                                  *)
(***************************************************************************)
EXTENDS AcoreList, FiniteSets

CONSTANTS
    Thread,
    Check,          \* the checks that are ever added
    Nobody,         \* the owner of a free lock
    Ring,           \* the sentinel of the list of checks, a NULL
    MaxCalls,       \* bound: the calls a thread may start
    MaxDepth,       \* bound: the calls nested in one another
    Quiescent,      \* no call is on its way when the work is destroyed
    SelfRemoval,    \* a check may remove itself while it is asked
    CheckControls   \* a check may add or remove controls

Lock == {"core", "sip"}

ASSUME WorkAssumption ==
    /\ Nobody \notin Thread
    /\ Ring \notin Check
    /\ {MaxCalls, MaxDepth} \subseteq Nat
    /\ {Quiescent, SelfRemoval, CheckControls} \subseteq BOOLEAN

VARIABLES
    work,       \* "none", "listed" in work_list, or "gone"
    list,       \* work->check
    added,      \* the checks that acore_work_add_check has returned
    cleared,    \* how often each check's clear call-back has run
    stack,      \* the calls each thread is in, the innermost one last
    owner,      \* who holds each lock, and how often
    calls       \* the calls each thread has started

vars == <<work, list, added, cleared, stack, owner, calls>>

(* A call: what it does, where it stands, its check or its cursor, whether *)
(* it came through asip_call.c; and, for a test, its mode, the checks in   *)
(* the list ever since the walk began, and those that said yes and no.     *)
Call(op, at, c, control, mode) ==
    [op |-> op, at |-> at, c |-> c, control |-> control, mode |-> mode,
     must |-> {}, passed |-> {}, failed |-> {}]

Top(t) == Last(stack[t])
IsAt(t, op, at) == stack[t] # <<>> /\ Top(t).op = op /\ Top(t).at = at

Push(t, f) == stack' = [stack EXCEPT ![t] = Append(@, f)]
Pop(t)     == stack' = [stack EXCEPT ![t] = Front(@)]
Become(t, f) == stack' = [stack EXCEPT ![t] = ReplaceAt(@, Len(@), f)]

Free(l, t) == owner[l].by \in {Nobody, t}
Acquire(l, t) ==
    /\ Free(l, t)
    /\ owner' = [owner EXCEPT ![l] = [by |-> t, n |-> @.n + 1]]
Release(l) ==
    owner' = [owner EXCEPT ![l] =
                IF @.n = 1 THEN [by |-> Nobody, n |-> 0] ELSE [by |-> @.by, n |-> @.n - 1]]
(* END of asip_call.c, when the call is in a section of it. *)
ReleaseControl(t) == IF Top(t).control THEN Release("sip") ELSE UNCHANGED owner

(* A thread starts a call from its own code or from a check. *)
MayCall(t) ==
    /\ calls[t] < MaxCalls
    /\ Len(stack[t]) < MaxDepth
    /\ stack[t] = <<>> \/ IsAt(t, "test", "asking")
MayControl(t) == stack[t] = <<>> \/ CheckControls

Started(t) == calls' = [calls EXCEPT ![t] = @ + 1]

Frames == UNION {{stack[t][i] : i \in DOMAIN stack[t]} : t \in Thread}
Asked(t) == {stack[t][i].c : i \in {j \in DOMAIN stack[t] : stack[t][j].op = "test"}}
Pending == {f.c : f \in {g \in Frames : g.op \in {"add", "remove"}}}

(* A check that leaves the list is no longer owed to any test. *)
Forget(C) ==
    [t \in Thread |-> [i \in DOMAIN stack[t] |->
        [stack[t][i] EXCEPT !.must = @ \ C]]]

Init ==
    /\ work = "none"
    /\ list = <<>>
    /\ added = {}
    /\ cleared = [c \in Check |-> 0]
    /\ stack = [t \in Thread |-> <<>>]
    /\ owner = [l \in Lock |-> [by |-> Nobody, n |-> 0]]
    /\ calls = [t \in Thread |-> 0]

-----------------------------------------------------------------------------
(* Faulty variants. *)

EnterTestUnlocked(t) ==
    /\ IsAt(t, "test", "lock")
    /\ Become(t, [Top(t) EXCEPT !.at = "walk", !.c = FirstOf(list, Ring), !.must = ToSet(list)])
    /\ UNCHANGED <<work, list, added, cleared, calls, owner>>

DestroyKeepsChecks(t) ==
    /\ work = "listed"
    /\ stack[t] = <<>>
    /\ Quiescent => Frames = {}
    /\ Free("core", t)
    /\ work' = "gone"
    /\ UNCHANGED <<list, added, cleared, stack, owner, calls>>

LeaveTestLocked(t) ==
    /\ IsAt(t, "test", "end")
    /\ Pop(t)
    /\ UNCHANGED <<work, list, added, cleared, calls, owner>>

-----------------------------------------------------------------------------
(* acore_work_create *)
CreateWork(t) ==
    /\ work = "none"
    /\ stack[t] = <<>>
    /\ Free("core", t)
    /\ work' = "listed"
    /\ UNCHANGED <<list, added, cleared, stack, owner, calls>>

(* work_clear destroys the list of checks. *)
ClearedByWork ==
    [c \in Check |-> IF Contains(list, c) THEN cleared[c] + 1 ELSE cleared[c]]

(* acore_work_destroy, and _acore_work_close for this work, erase it.      *)
DestroyWork(t) ==
    /\ work = "listed"
    /\ stack[t] = <<>>
    /\ Quiescent => Frames = {}
    /\ Free("core", t)
    /\ work' = "gone"
    /\ list' = <<>>
    /\ cleared' = ClearedByWork
    /\ stack' = Forget(ToSet(list))
    /\ UNCHANGED <<added, owner, calls>>

-----------------------------------------------------------------------------
(* acore_work_add_check, alone or in asip_call_add_control. *)
StartAdd(t, c, control) ==
    /\ MayCall(t) /\ (control => MayControl(t))
    /\ work # "none"
    /\ c \notin added \cup Pending
    /\ Push(t, Call("add", IF control THEN "sip" ELSE "find", c, control, FALSE))
    /\ Started(t)
    /\ UNCHANGED <<work, list, added, cleared, owner>>

AddCheck(t) ==
    /\ IsAt(t, "add", "lock")
    /\ Free("core", t)
    /\ list' = AddUnsorted(list, Top(t).c)
    /\ added' = added \cup {Top(t).c}
    /\ ReleaseControl(t)
    /\ Pop(t)
    /\ UNCHANGED <<work, cleared, calls>>

(* acore_work_remove_check, alone or in asip_call_remove_control, for a    *)
(* check that is not cleared yet and that no other call is removing.       *)
StartRemove(t, c, control) ==
    /\ MayCall(t) /\ (control => MayControl(t))
    /\ c \in added /\ cleared[c] = 0 /\ c \notin Pending
    /\ SelfRemoval \/ c \notin Asked(t)
    /\ Push(t, Call("remove", IF control THEN "sip" ELSE "lock", c, control, FALSE))
    /\ Started(t)
    /\ UNCHANGED <<work, list, added, cleared, owner>>

RemoveCheck(t) ==
    /\ IsAt(t, "remove", "lock")
    /\ Free("core", t)
    /\ cleared[Top(t).c] < 2
    /\ list' = Erase(list, Top(t).c)
    /\ cleared' = [cleared EXCEPT ![Top(t).c] = @ + 1]
    /\ stack' = [Forget({Top(t).c}) EXCEPT ![t] = Front(@)]
    /\ ReleaseControl(t)
    /\ UNCHANGED <<work, added, calls>>

(* BEGIN of asip_call.c *)
EnterControl(t) ==
    /\ stack[t] # <<>> /\ Top(t).at = "sip"
    /\ Acquire("sip", t)
    /\ Become(t, [Top(t) EXCEPT !.at = IF Top(t).op = "add" THEN "find" ELSE "lock"])
    /\ UNCHANGED <<work, list, added, cleared, calls>>

-----------------------------------------------------------------------------
(* acore_list_get_id, before the lock.  Without the work nothing is added, *)
(* and a test says TRUE.                                                   *)
FindWork(t) ==
    /\ stack[t] # <<>> /\ Top(t).at = "find"
    /\ IF work = "listed"
       THEN Become(t, [Top(t) EXCEPT !.at = "lock"]) /\ UNCHANGED owner
       ELSE Pop(t) /\ ReleaseControl(t)
    /\ UNCHANGED <<work, list, added, cleared, calls>>

(* acore_work_test *)
StartTest(t, mode) ==
    /\ MayCall(t)
    /\ work # "none"
    /\ Push(t, Call("test", "find", Ring, FALSE, mode))
    /\ Started(t)
    /\ UNCHANGED <<work, list, added, cleared, owner>>

EnterTest(t) ==
    /\ IsAt(t, "test", "lock")
    /\ Acquire("core", t)
    /\ Become(t, [Top(t) EXCEPT !.at = "walk", !.c = FirstOf(list, Ring), !.must = ToSet(list)])
    /\ UNCHANGED <<work, list, added, cleared, calls>>

(* pj_list_search: the next check is asked, or the walk is over; ...       *)
Ask(t) ==
    /\ IsAt(t, "test", "walk")
    /\ Become(t, [Top(t) EXCEPT !.at = IF Top(t).c = Ring THEN "end" ELSE "asking"])
    /\ UNCHANGED <<work, list, added, cleared, owner, calls>>

(* ... work_check stops it at a yes or at a no, according to the mode.     *)
Answer(t, yes) ==
    /\ IsAt(t, "test", "asking")
    /\ LET f == Top(t)
           g == IF yes THEN [f EXCEPT !.passed = @ \cup {f.c}]
                       ELSE [f EXCEPT !.failed = @ \cup {f.c}]
       IN  Become(t, IF yes = f.mode THEN [g EXCEPT !.at = "end"]
                     ELSE [g EXCEPT !.at = "walk", !.c = NextOf(list, @, Ring)])
    /\ UNCHANGED <<work, list, added, cleared, owner, calls>>

LeaveTest(t) ==
    /\ IsAt(t, "test", "end")
    /\ Release("core")
    /\ Pop(t)
    /\ UNCHANGED <<work, list, added, cleared, calls>>

(* What acore_work_test returns. *)
Result(f) == IF f.mode THEN f.c # Ring ELSE f.c = Ring

Step(t) ==
    \/ AddCheck(t) \/ RemoveCheck(t) \/ EnterControl(t) \/ FindWork(t)
    \/ EnterTest(t) \/ Ask(t) \/ LeaveTest(t)
    \/ \E yes \in BOOLEAN : Answer(t, yes)

Next ==
    \E t \in Thread :
        \/ CreateWork(t) \/ DestroyWork(t) \/ Step(t)
        \/ \E c \in Check, control \in BOOLEAN :
             StartAdd(t, c, control) \/ StartRemove(t, c, control)
        \/ \E mode \in BOOLEAN : StartTest(t, mode)

Spec == Init /\ [][Next]_vars /\ \A t \in Thread : WF_vars(Step(t))

-----------------------------------------------------------------------------
(* The shape of the state. *)
TypeOK ==
    /\ work \in {"none", "listed", "gone"}
    /\ IsInjective(list) /\ ToSet(list) \subseteq added
    /\ added \subseteq Check
    /\ cleared \in [Check -> 0..2]
    /\ DOMAIN stack = Thread
    /\ \A f \in Frames :
         /\ f.op \in {"add", "remove", "test"} /\ f.c \in Check \cup {Ring}
         /\ f.at \in {"sip", "find", "lock", "walk", "asking", "end"}
         /\ {f.control, f.mode} \subseteq BOOLEAN
         /\ f.must \cup f.passed \cup f.failed \subseteq Check
    /\ owner \in [Lock -> [by : Thread \cup {Nobody}, n : 0..MaxDepth]]
    /\ calls \in [Thread -> 0..MaxCalls]

(* A test asks no check that was cleared, and what it returns is what      *)
(* work.h:27-28 promises of every check that was there from its first step *)
(* to its last: TRUE without a mode means that each of them passed, FALSE  *)
(* in the mode that none did, and the other two that some check said so,   *)
(* whatever else was added or removed meanwhile, by a check as well.       *)
TestIsExact ==
    \A t \in Thread : \A i \in DOMAIN stack[t] :
        LET f == stack[t][i] IN
        /\ f.op = "test" /\ f.at = "asking" => cleared[f.c] = 0
        /\ f.op = "test" /\ f.at = "end" =>
             IF f.mode
             THEN /\ Result(f) => f.passed # {}
                  /\ ~Result(f) => f.must \subseteq f.failed /\ f.passed = {}
             ELSE /\ Result(f) => f.must \subseteq f.passed /\ f.failed = {}
                  /\ ~Result(f) => f.failed # {}

(* A check that was added is in the list of a work that can be found until *)
(* it is cleared, and it is cleared once: none is left behind when the     *)
(* work is destroyed, and none is given back twice.                        *)
NoCheckIsLost ==
    /\ TypeOK
    /\ \A c \in added :
         /\ cleared[c] <= 1
         /\ cleared[c] = 0 <=> Contains(list, c)
         /\ cleared[c] = 0 => work = "listed"

(* Every call returns: no walk stays on one check for ever, no lock is     *)
(* kept by a thread that has left, and there is no circle of waiting       *)
(* threads: a control takes the core lock inside the SIP lock, and a check *)
(* is asked inside the core lock.                                          *)
CallsReturn == \A t \in Thread : stack[t] # <<>> ~> stack[t] = <<>>
=============================================================================
