------------------------------ MODULE EventBus ------------------------------
(***************************************************************************)
(* One event of src/core/acore_event.c: threads register handlers with it, *)
(* unregister them, send it and finally destroy it.  A send walks the list *)
(* of handlers under the event's recursive lock and runs them one by one;  *)
(* a handler may itself call into the event, or enter the section of an    *)
(* outer lock, so that every thread has a stack of calls.                  *)
(*                                                                         *)
(* Two locks stand around the event: the core lock (acore_start), which    *)
(* acore_event_destroy holds, and the SIP lock (asip_start), which         *)
(* src/sip/asip_call.c holds while it sends.  Which of them callers hold   *)
(* and handlers take is theirs to say, so that both are parameters.        *)
(***************************************************************************)
EXTENDS AcoreList, FiniteSets

CONSTANTS
    Thread,
    Handler,        \* the handler nodes that are ever created
    Initial,        \* the handlers in the list at the start, in order
    Nobody,         \* the owner of a free lock
    Ring,           \* the sentinel of the handler list
    MaxCalls,       \* bound: the calls a thread may start
    MaxDepth,       \* bound: the calls nested in one another
    CallingLocks,   \* the outer locks in whose sections the event is called
    HandlerLocks,   \* the outer locks whose sections handlers enter
    SelfRemoval,    \* handlers unregister a handler that is being run
    IdleDestroy     \* the event is destroyed while no call on it is under way

Lock == {"event", "core", "sip"}

ASSUME EventAssumption ==
    /\ Nobody \notin Thread
    /\ Ring \notin Handler
    /\ Initial \in Seq(Handler) /\ IsInjective(Initial)
    /\ MaxCalls \in Nat
    /\ MaxDepth \in Nat \ {0}
    /\ CallingLocks \subseteq {"core", "sip"}
    /\ HandlerLocks \subseteq {"core", "sip"}
    /\ SelfRemoval \in BOOLEAN /\ IdleDestroy \in BOOLEAN

VARIABLES
    list,       \* evt->list
    linked,     \* the event is in hlist and not marked is_destroy
    lockDead,   \* pj_lock_destroy(evt->lock) has been called
    cleared,    \* how often each handler's clear call-back has run
    stack,      \* the calls each thread is in, the innermost one last
    owner,      \* who holds each lock, and how often
    calls       \* the calls each thread has started

vars == <<list, linked, lockDead, cleared, stack, owner, calls>>

-----------------------------------------------------------------------------
(* A call: what it does, where it stands, the handler it is about (the     *)
(* cursor of a send), the lock of a section; and, for a send, the handlers *)
(* it has run and those in the list ever since it began.                   *)
Call(op, at, h, l) ==
    [op |-> op, at |-> at, h |-> h, lock |-> l, ran |-> {}, must |-> {}]

Top(t) == Last(stack[t])
IsAt(t, op, at) == stack[t] # <<>> /\ Top(t).op = op /\ Top(t).at = at

Push(t, c) == stack' = [stack EXCEPT ![t] = Append(@, c)]
Pop(t)     == stack' = [stack EXCEPT ![t] = Front(@)]
Become(t, c) == stack' = [stack EXCEPT ![t] = ReplaceAt(@, Len(@), c)]

Free(l, t) == owner[l].by \in {Nobody, t}
Acquire(l, t) ==
    /\ Free(l, t)
    /\ owner' = [owner EXCEPT ![l] = [by |-> t, n |-> @.n + 1]]
Release(l) ==
    owner' = [owner EXCEPT ![l] =
                IF @.n = 1 THEN [by |-> Nobody, n |-> 0] ELSE [by |-> @.by, n |-> @.n - 1]]

(* A thread starts a call from its own code, from a handler, or inside the *)
(* section of an outer lock.                                               *)
MayCall(t) ==
    /\ calls[t] < MaxCalls
    /\ Len(stack[t]) < MaxDepth
    /\ \/ stack[t] = <<>>
       \/ IsAt(t, "send", "handler")
       \/ IsAt(t, "section", "body") /\ Top(t).lock \in CallingLocks

Started(t) == calls' = [calls EXCEPT ![t] = @ + 1]

(* The handlers that a send of some thread is running. *)
Running(t) == {stack[t][i].h : i \in {j \in DOMAIN stack[t] : stack[t][j].op = "send"}}

(* The handlers that a call in progress registers or unregisters. *)
Calls == UNION {{stack[t][i] : i \in DOMAIN stack[t]} : t \in Thread}
Pending == {f.h : f \in {g \in Calls : g.op \in {"register", "unregister"}}}

Idle == \A t \in Thread : stack[t] = <<>>

Init ==
    /\ list = Initial
    /\ linked = TRUE
    /\ lockDead = FALSE
    /\ cleared = [h \in Handler |-> 0]
    /\ stack = [t \in Thread |-> <<>>]
    /\ owner = [l \in Lock |-> [by |-> Nobody, n |-> 0]]
    /\ calls = [t \in Thread |-> 0]

-----------------------------------------------------------------------------
(* Faulty variants. *)

StepOverErased(t) ==
    /\ IsAt(t, "send", "handler")
    /\ Become(t, [Top(t) EXCEPT !.at = "walk", !.h = FirstOf(list, Ring)])
    /\ UNCHANGED <<list, linked, lockDead, cleared, owner, calls>>

HandlerEndSkipping(t) ==
    /\ IsAt(t, "send", "handler")
    /\ Become(t, [Top(t) EXCEPT !.at = "walk",
                                !.h = NextOf(list, NextOf(list, @, Ring), Ring)])
    /\ UNCHANGED <<list, linked, lockDead, cleared, owner, calls>>

UnregisterUnlocked(t) ==
    /\ IsAt(t, "unregister", "lock")
    /\ UNCHANGED owner
    /\ list' = Erase(list, Top(t).h)
    /\ cleared' = [cleared EXCEPT ![Top(t).h] = @ + 1]
    /\ Pop(t)
    /\ UNCHANGED <<linked, lockDead, calls>>

-----------------------------------------------------------------------------
(* acore_event_send finds the event, tests is_destroy, and waits for the   *)
(* lock.                                                                   *)
StartSend(t) ==
    /\ MayCall(t)
    /\ linked
    /\ Push(t, Call("send", "lock", Ring, "event"))
    /\ Started(t)
    /\ UNCHANGED <<list, linked, lockDead, cleared, owner>>

SendLock(t) ==
    /\ IsAt(t, "send", "lock")
    /\ Acquire("event", t)
    /\ Become(t, [Top(t) EXCEPT !.at = "walk",
                                !.h = FirstOf(list, Ring),
                                !.must = ToSet(list)])
    /\ UNCHANGED <<list, linked, lockDead, cleared, calls>>

(* send_event runs the handler under the cursor ... *)
RunHandler(t) ==
    /\ IsAt(t, "send", "walk")
    /\ Top(t).h # Ring
    /\ Become(t, [Top(t) EXCEPT !.at = "handler", !.ran = @ \cup {Top(t).h}])
    /\ UNCHANGED <<list, linked, lockDead, cleared, owner, calls>>

(* ... and asks for more, so pj_list_search follows its next pointer.      *)
HandlerEnd(t) ==
    /\ IsAt(t, "send", "handler")
    /\ Become(t, [Top(t) EXCEPT !.at = "walk", !.h = NextOf(list, @, Ring)])
    /\ UNCHANGED <<list, linked, lockDead, cleared, owner, calls>>

SendReturn(t) ==
    /\ IsAt(t, "send", "walk")
    /\ Top(t).h = Ring
    /\ Release("event")
    /\ Pop(t)
    /\ UNCHANGED <<list, linked, lockDead, cleared, calls>>

(* acore_event_resister_handle: a fresh node, added under the lock. *)
StartRegister(t, h) ==
    /\ MayCall(t)
    /\ linked
    /\ ~Contains(list, h) /\ cleared[h] = 0 /\ h \notin Pending
    /\ Push(t, Call("register", "lock", h, "event"))
    /\ Started(t)
    /\ UNCHANGED <<list, linked, lockDead, cleared, owner>>

Register(t) ==
    /\ IsAt(t, "register", "lock")
    /\ Free("event", t)
    /\ list' = AddUnsorted(list, Top(t).h)
    /\ Pop(t)
    /\ UNCHANGED <<linked, lockDead, cleared, owner, calls>>

(* acore_event_unregister_handle: each handler has one owner that removes  *)
(* it, once.                                                               *)
StartUnregister(t, h) ==
    /\ MayCall(t)
    /\ linked
    /\ Contains(list, h) /\ h \notin Pending
    /\ ~SelfRemoval => h \notin Running(t)
    /\ Push(t, Call("unregister", "lock", h, "event"))
    /\ Started(t)
    /\ UNCHANGED <<list, linked, lockDead, cleared, owner>>

(* acore_list_remove: erase the node, run its clear call-back.  No send    *)
(* still has to run it.                                                    *)
Unregister(t) ==
    /\ IsAt(t, "unregister", "lock")
    /\ Free("event", t)
    /\ list' = Erase(list, Top(t).h)
    /\ cleared' = [cleared EXCEPT ![Top(t).h] = @ + 1]
    /\ stack' = [u \in Thread |->
                   LET s == IF u = t THEN Front(stack[u]) ELSE stack[u]
                   IN  [i \in DOMAIN s |-> [s[i] EXCEPT !.must = @ \ {Top(t).h}]]]
    /\ UNCHANGED <<linked, lockDead, owner, calls>>

(* Once the event is destroyed, or marked so, all three return at once.    *)
CallDestroyed(t) ==
    /\ MayCall(t)
    /\ ~linked
    /\ Started(t)
    /\ UNCHANGED <<list, linked, lockDead, cleared, stack, owner>>

(* The section of an outer lock: acore_start or asip_start ... *)
StartSection(t, l) ==
    /\ MayCall(t)
    /\ stack[t] # <<>> => Top(t).op = "send" /\ l \in HandlerLocks
    /\ Push(t, Call("section", "lock", Ring, l))
    /\ Started(t)
    /\ UNCHANGED <<list, linked, lockDead, cleared, owner>>

SectionLock(t) ==
    /\ IsAt(t, "section", "lock")
    /\ Acquire(Top(t).lock, t)
    /\ Become(t, [Top(t) EXCEPT !.at = "body"])
    /\ UNCHANGED <<list, linked, lockDead, cleared, calls>>

(* ... and acore_end or asip_end. *)
SectionEnd(t) ==
    /\ IsAt(t, "section", "body")
    /\ Release(Top(t).lock)
    /\ Pop(t)
    /\ UNCHANGED <<list, linked, lockDead, cleared, calls>>

(* acore_event_destroy: the core lock, the event out of hlist, ...         *)
StartDestroy(t) ==
    /\ MayCall(t)
    /\ IdleDestroy => Idle
    /\ linked
    /\ Acquire("core", t)
    /\ linked' = FALSE
    /\ Push(t, Call("destroy", "lock", Ring, "event"))
    /\ Started(t)
    /\ UNCHANGED <<list, lockDead, cleared>>

(* ... then clear_evt: every handler is erased and cleared under the lock, *)
(* and the lock destroyed.                                                 *)
Destroy(t) ==
    /\ IsAt(t, "destroy", "lock")
    /\ Free("event", t)
    /\ list' = <<>>
    /\ cleared' = [h \in Handler |-> cleared[h] + IF Contains(list, h) THEN 1 ELSE 0]
    /\ lockDead' = TRUE
    /\ Release("core")
    /\ Pop(t)
    /\ UNCHANGED <<linked, calls>>

Step(t) ==
    \/ SendLock(t) \/ RunHandler(t) \/ HandlerEnd(t) \/ SendReturn(t)
    \/ Register(t) \/ Unregister(t)
    \/ SectionLock(t) \/ SectionEnd(t) \/ Destroy(t)

Start(t) ==
    \/ StartSend(t) \/ StartDestroy(t) \/ CallDestroyed(t)
    \/ \E h \in Handler : StartRegister(t, h) \/ StartUnregister(t, h)
    \/ \E l \in {"core", "sip"} : StartSection(t, l)

Next == \E t \in Thread : Step(t) \/ Start(t)

Spec == Init /\ [][Next]_vars

(* A thread in a call goes on when it can: handlers and sections end. *)
FairSpec == Spec /\ \A t \in Thread : WF_vars(Step(t))

-----------------------------------------------------------------------------
(* The shape of the state. *)
TypeOK ==
    /\ list \in Seq(Handler)
    /\ linked \in BOOLEAN
    /\ lockDead \in BOOLEAN
    /\ cleared \in [Handler -> Nat]
    /\ \A l \in Lock : owner[l] \in [by : Thread \cup {Nobody}, n : Nat]
    /\ \A t \in Thread :
         /\ Len(stack[t]) <= MaxDepth
         /\ \A i \in DOMAIN stack[t] :
              /\ stack[t][i].op \in {"send", "register", "unregister", "section", "destroy"}
              /\ stack[t][i].at \in {"lock", "walk", "handler", "body"}

(* No send is about to run a handler whose clear call-back has run: its    *)
(* user data and its node are gone.  Every handler is cleared once at most,*)
(* and when the event is destroyed the ones it still had are, with nobody  *)
(* left who waits for its lock (event.h:31, "call close funtion all event  *)
(* handle").                                                               *)
NoCallAfterClear ==
    /\ TypeOK
    /\ \A t \in Thread :
         IsAt(t, "send", "walk") /\ Top(t).h # Ring => cleared[Top(t).h] = 0
    /\ \A h \in Handler : cleared[h] <= IF Contains(list, h) THEN 0 ELSE 1
    /\ lockDead => /\ \A h \in ToSet(Initial) : cleared[h] = 1
                   /\ owner["event"].by = Nobody
                   /\ \A t \in Thread : \A i \in DOMAIN stack[t] : stack[t][i].lock # "event"

(* A send runs no handler twice, and in the end it has run every handler   *)
(* that was registered all the time; one that is registered meanwhile may  *)
(* or may not be run, because it goes behind the first node.               *)
SendRunsEachOnce ==
    \A t \in Thread : IsAt(t, "send", "walk") =>
        /\ Top(t).h \notin Top(t).ran
        /\ Top(t).h = Ring => Top(t).must \subseteq Top(t).ran

(* Every call returns: no thread stays in a dispatch or waits for ever.    *)
CallsReturn == \A t \in Thread : stack[t] # <<>> ~> stack[t] = <<>>

-----------------------------------------------------------------------------
(* What the code does not keep, checked by no run; README.md, section 3,   *)
(* says what TLC finds.                                                    *)

Wants(t) ==
    IF stack[t] # <<>> /\ Top(t).at = "lock" THEN {Top(t).lock} ELSE {}

(* No threads wait for one another in a circle, whether they take the SIP  *)
(* lock around a send, as asip_ua_call does, or in a handler, as           *)
(* sip_base.h:34 asks them to.                                             *)
NoLockCycle ==
    \A S \in (SUBSET Thread) \ {{}} :
        \E t \in S : \A l \in Wants(t) : owner[l].by \notin S \ {t}
=============================================================================
