------------------------------ MODULE SipCalls ------------------------------
(***************************************************************************)
(* Calls and call modules of src/sip/asip_call.c and src/sip/asip_inv.c.   *)
(* Application threads add and remove call modules and start calls, and    *)
(* the threads that poll the SIP endpoint bring in invites and the         *)
(* call-backs of the invite sessions, which also come in the middle of a   *)
(* call-back or a handler that works on its session.                       *)
(*                                                                         *)
(* What BEGIN and END (the SIP lock) enclose is one step, unless another   *)
(* thread can look in between: the state of a call is also written without *)
(* the lock, and asip_ua_call has returns that leave the lock locked.      *)
(*                                                                         *)
(* An invite session lives at an address.  inv_map leads from the address  *)
(* to the call, and the address is free again when the session is over: the*)
(* allocator may hand it out once more.                                    *)
(***************************************************************************)
EXTENDS MemControl, AcoreList, FiniteSets

CONSTANTS
    Thread,
    Module,         \* the call modules, each added once at most
    Session,        \* the invite sessions, each made once at most
    Addr,           \* the addresses at which sessions are allocated
    Nobody,         \* not a thread: the holder of a free lock
    None,           \* not a module, session or address, and the end of a list
    MaxLeaks,       \* bound: how often a thread leaves with the lock
    SelfRemoval,    \* on_call_incoming may remove the module it runs in
    LateRemoval     \* modules are removed after asip_close

ASSUME SipAssumption ==
    /\ IsFiniteSet(Session) /\ IsFiniteSet(Module)
    /\ Nobody \notin Thread
    /\ MaxLeaks \in Nat
    /\ None \notin Module \cup Session \cup Addr
    /\ {SelfRemoval, LateRemoval} \subseteq BOOLEAN

(* enum app_call_state *)
null == 0
wait == 1
incall == 2
handle == 3
complete == 4

VARIABLES
    type_list,    \* the modules, in the order of their priority
    pri,          \* call_module.pri
    mem,          \* the control table of the modules
    cleared,      \* how often the clear call-back of each module's user ran
    inv_map,      \* [Addr -> Session \cup {None}]
    call,         \* the asip_call of each session
    owner,        \* who holds the SIP lock, and how often
    leaks,        \* how often each thread left asip_ua_call with it
    pc,           \* what each thread is doing
    cb,           \* the call-back of a session that each thread is in
    closed        \* asip_close has been called

vars == <<type_list, pri, mem, cleared, inv_map, call, owner, leaks, pc, cb, closed>>

(* inv is the invite session: "on", "over" once it is disconnected, and    *)
(* "none" before it is made and after it is freed; dlg is the thread that  *)
(* has locked its dialog for good.                                         *)
NoCall == [kind |-> "none", st |-> null, mod |-> None, addr |-> None,
           inv |-> "none", dlg |-> Nobody]

NoCallBack == [at |-> "none", s |-> None]

At(t, a) == pc[t].at = a /\ cb[t] = NoCallBack
Idle(t) == At(t, "idle")
Go(t, a, s) == pc' = [pc EXCEPT ![t] = [at |-> a, s |-> s]]

Free(t) == owner.by \in {Nobody, t}
Acquire(t) == Free(t) /\ owner' = [by |-> t, n |-> owner.n + 1]
Release ==
    owner' = IF owner.n = 1 THEN [by |-> Nobody, n |-> 0] ELSE [owner EXCEPT !.n = @ - 1]

Init ==
    /\ type_list = <<>>
    /\ pri = [m \in Module |-> 0]
    /\ mem = EmptyTable(Module)
    /\ cleared = [m \in Module |-> 0]
    /\ inv_map = [a \in Addr |-> None]
    /\ call = [s \in Session |-> NoCall]
    /\ owner = [by |-> Nobody, n |-> 0]
    /\ leaks = [t \in Thread |-> 0]
    /\ pc = [t \in Thread |-> [at |-> "idle", s |-> None]]
    /\ cb = [t \in Thread |-> NoCallBack]
    /\ closed = FALSE

modules == <<type_list, pri, mem, cleared>>

-----------------------------------------------------------------------------
(* acore_mmap_set keeps the value that is already there.                   *)
MapSet(a, s) == IF inv_map[a] = None THEN [inv_map EXCEPT ![a] = s] ELSE inv_map

(* asip_call_find_by_inv *)
FindByInv(s) == inv_map[call[s].addr]

(* An address for a new session: no session is there now. *)
Unused(a) == \A s \in Session : call[s].inv # "none" => call[s].addr # a

(* The first module in the list that matches the media, when it is         *)
(* available (asip_call.c:129-131, asip_inv.c:109-111); otherwise none.    *)
Matching(M) ==
    LET m == Search(type_list, M, None)
    IN  IF m # None /\ IsAvailable(mem, m) THEN m ELSE None

-----------------------------------------------------------------------------
(* Faulty variants. *)

RemoveClearsAlways(t, m) ==
    /\ Free(t)
    /\ mem[m].bound
    /\ ~closed /\ pc[t].at \in {"idle", "sent", "announce"}
    /\ \A u \in Thread : pc[u].s # m
    /\ mem' = MaskDestroy(mem, m)
    /\ type_list' = Erase(type_list, m)
    /\ cleared' = [cleared EXCEPT ![m] = @ + 1]
    /\ UNCHANGED <<pri, inv_map, call, owner, leaks, pc, cb, closed>>

InviteUncounted(t) ==
    /\ At(t, "incoming")
    /\ Release
    /\ Go(t, "announce", pc[t].s)
    /\ UNCHANGED <<modules, inv_map, call, leaks, cb, closed>>

-----------------------------------------------------------------------------
(* asip_call_add_media_support: event handler and control block first; pri *)
(* is never assigned, so it is whatever the memory holds; ...              *)
AddModule(t, m) ==
    /\ Idle(t) /\ ~closed
    /\ ~mem[m].bound /\ cleared[m] = 0 /\ \A u \in Thread : pc[u].s # m
    /\ \E p \in {0, 1} : pri' = [pri EXCEPT ![m] = p]
    /\ mem' = Bind(mem, m)
    /\ Go(t, "add", m)
    /\ UNCHANGED <<type_list, cleared, inv_map, call, owner, leaks, cb, closed>>

(* ... then the list, under the lock.                                      *)
LinkModule(t) ==
    /\ At(t, "add")
    /\ Free(t)
    /\ type_list' = AddSorted(type_list, pc[t].s, pri)
    /\ Go(t, "idle", None)
    /\ UNCHANGED <<pri, mem, cleared, inv_map, call, owner, leaks, cb, closed>>

(* asip_call_remove_media_support, also from a handler or a call-back;     *)
(* clear_module takes the module out of the list, which runs the clear     *)
(* call-back of its user.                                                  *)
RemoveModule(t, m) ==
    /\ Free(t)
    /\ mem[m].bound
    /\ closed => LateRemoval
    /\ pc[t].at \in {"idle", "sent", "announce"} \/ (SelfRemoval /\ pc[t].at = "incoming")
    /\ \A u \in Thread : pc[u].s # m
    /\ mem' = MaskDestroy(mem, m)
    /\ IF Cleared(mem, mem', m)
       THEN /\ type_list' = Erase(type_list, m)
            /\ cleared' = [cleared EXCEPT ![m] = @ + 1]
       ELSE UNCHANGED <<type_list, cleared>>
    /\ UNCHANGED <<pri, inv_map, call, owner, leaks, pc, cb, closed>>

-----------------------------------------------------------------------------
(* asip_ua_call, past the login state and the checks of the SIP control.   *)
StartCall(t, s) ==
    /\ Idle(t) /\ ~closed
    /\ call[s] = NoCall /\ \A u \in Thread : pc[u].s # s
    /\ Go(t, "callLock", s)
    /\ UNCHANGED <<modules, inv_map, call, owner, leaks, cb, closed>>

(* No module: the function returns, and the lock stays locked.             *)
CallRefused(t, M) ==
    /\ At(t, "callLock")
    /\ Acquire(t)
    /\ Matching(M) = None
    /\ leaks[t] < MaxLeaks
    /\ leaks' = [leaks EXCEPT ![t] = @ + 1]
    /\ Go(t, "idle", None)
    /\ UNCHANGED <<modules, inv_map, call, cb, closed>>

(* No dialog or no credentials: the same.                                  *)
CallFails(t, M) ==
    /\ At(t, "callLock")
    /\ Acquire(t)
    /\ Matching(M) # None
    /\ leaks[t] < MaxLeaks
    /\ leaks' = [leaks EXCEPT ![t] = @ + 1]
    /\ Go(t, "idle", None)
    /\ UNCHANGED <<modules, inv_map, call, cb, closed>>

(* The call is recorded, its state not yet assigned, and takes a reference *)
(* on the module before on_start_call runs.                                *)
CallMade(t, M, a, v) ==
    LET s == pc[t].s IN
    /\ At(t, "callLock")
    /\ Acquire(t)
    /\ Matching(M) # None
    /\ Unused(a)
    /\ call' = [call EXCEPT ![s] = [NoCall EXCEPT !.kind = "out", !.st = v,
                                        !.mod = Matching(M), !.addr = a, !.inv = "on"]]
    /\ inv_map' = MapSet(a, s)
    /\ mem' = AddRef(mem, Matching(M))
    /\ Go(t, "sent", s)
    /\ UNCHANGED <<type_list, pri, cleared, leaks, cb, closed>>

(* The invite has been sent and call-backs may have come: only now is the  *)
(* state assigned and the start of the call announced.                     *)
CallReturns(t) ==
    /\ At(t, "sent")
    /\ call' = [call EXCEPT ![pc[t].s].st = wait]
    /\ Release
    /\ Go(t, "idle", None)
    /\ UNCHANGED <<modules, inv_map, leaks, cb, closed>>

-----------------------------------------------------------------------------
(* cb_on_invite, past the checks: the session is there and its dialog is   *)
(* locked by this thread, which never gives it back.                       *)
Invite(t, s, a) ==
    /\ Idle(t) /\ ~closed
    /\ call[s] = NoCall /\ \A u \in Thread : pc[u].s # s
    /\ Unused(a)
    /\ call' = [call EXCEPT ![s].addr = a, ![s].inv = "on", ![s].dlg = t]
    /\ Go(t, "inviteLock", s)
    /\ UNCHANGED <<modules, inv_map, owner, leaks, cb, closed>>

(* What a session that ends leaves, call_on_state_changed included: the    *)
(* call that inv_map has for it is complete.                               *)
Ended(s) ==
    LET c == FindByInv(s)
        over == [call EXCEPT ![s].inv = "over"]
    IN  IF c = None THEN over ELSE [over EXCEPT ![c].st = complete]

(* No module: the session is ended with a response.                        *)
InviteRefused(t, M) ==
    /\ At(t, "inviteLock")
    /\ Free(t)
    /\ Matching(M) = None
    /\ call' = Ended(pc[t].s)
    /\ Go(t, "idle", None)
    /\ UNCHANGED <<modules, inv_map, owner, leaks, cb, closed>>

(* The call is recorded and on_call_incoming runs ...                      *)
InviteAccepted(t, M) ==
    LET s == pc[t].s IN
    /\ At(t, "inviteLock")
    /\ Acquire(t)
    /\ Matching(M) # None
    /\ call' = [call EXCEPT ![s].kind = "in", ![s].st = wait, ![s].mod = Matching(M)]
    /\ inv_map' = MapSet(call[s].addr, s)
    /\ Go(t, "incoming", s)
    /\ UNCHANGED <<modules, leaks, cb, closed>>

(* ... before the reference on the module is taken.                        *)
InviteCounted(t) ==
    /\ At(t, "incoming")
    /\ mem' = AddRef(mem, call[pc[t].s].mod)
    /\ Release
    /\ Go(t, "announce", pc[t].s)
    /\ UNCHANGED <<type_list, pri, cleared, inv_map, call, leaks, cb, closed>>

(* The handlers of the event that announces it have run. *)
InviteAnnounced(t) ==
    /\ At(t, "announce")
    /\ Go(t, "idle", None)
    /\ UNCHANGED <<modules, inv_map, call, owner, leaks, cb, closed>>

-----------------------------------------------------------------------------
(* The call-backs of a session come under its dialog's lock, to a thread   *)
(* that may have it: one that polls, the one that is making or taking the  *)
(* call, or one whose handler works on the session in a call-back of it.   *)
CanCallBack(t, s) ==
    /\ ~closed
    /\ call[s].kind # "none"
    /\ call[s].dlg \in {Nobody, t}
    /\ \A u \in Thread \ {t} : cb[u].s # s
    /\ \/ Idle(t)
       \/ cb[t] = NoCallBack /\ pc[t].s = s
       \/ cb[t].s = s

CallBack(t, a, s) == cb' = [cb EXCEPT ![t] = [at |-> a, s |-> s]]
CallBackEnds(t)   == cb' = [cb EXCEPT ![t] = NoCallBack]

(* call_on_tsx_state_changed, without the lock; the one for the final      *)
(* response comes after the session is disconnected.                       *)
TsxCompleted(t, s) ==
    LET c == FindByInv(s) IN
    /\ CanCallBack(t, s) /\ call[s].inv # "none"
    /\ c # None /\ call[c].st < handle
    /\ call' = [call EXCEPT ![c].st = handle]
    /\ UNCHANGED <<modules, inv_map, owner, leaks, pc, cb, closed>>

(* call_on_media_update, under it: the handlers of the event run ...       *)
MediaUpdate(t, s) ==
    LET c == FindByInv(s) IN
    /\ CanCallBack(t, s) /\ call[s].inv = "on"
    /\ cb[t] = NoCallBack
    /\ Acquire(t)
    /\ c # None /\ call[c].st < handle
    /\ CallBack(t, "media", s)
    /\ UNCHANGED <<modules, inv_map, call, leaks, pc, closed>>

(* ... before the state is written, whatever it has become.                *)
MediaUpdated(t) ==
    /\ cb[t].at = "media"
    /\ call' = [call EXCEPT ![FindByInv(cb[t].s)].st = incall]
    /\ Release
    /\ CallBackEnds(t)
    /\ UNCHANGED <<modules, inv_map, leaks, pc, closed>>

(* call_on_state_changed with PJSIP_INV_STATE_DISCONNECTED, without it;    *)
(* inv_map and the module keep the call.                                   *)
Disconnected(t, s) ==
    /\ CanCallBack(t, s) /\ call[s].inv = "on"
    /\ call' = Ended(s)
    /\ IF owner.by = t THEN UNCHANGED cb ELSE CallBack(t, "end", s)
    /\ UNCHANGED <<modules, inv_map, owner, leaks, pc, closed>>

(* At the end it takes the lock to release the call, which is bound to     *)
(* nothing.                                                                *)
DisconnectEnds(t) ==
    /\ cb[t].at = "end"
    /\ Free(t)
    /\ CallBackEnds(t)
    /\ UNCHANGED <<modules, inv_map, call, owner, leaks, pc, closed>>

(* The session is freed, and with it the asip_call, unless its dialog is   *)
(* still locked; inv_map keeps the address.                                *)
SessionFreed(s) ==
    /\ call[s].inv = "over"
    /\ call[s].dlg = Nobody
    /\ \A t \in Thread : pc[t].s # s /\ cb[t].s # s
    /\ call' = [call EXCEPT ![s].inv = "none"]
    /\ UNCHANGED <<modules, inv_map, owner, leaks, pc, cb, closed>>

(* asip_close, when no thread is in a call: the map goes, and destroying   *)
(* the list runs the clear call-backs of the users, not clear_module.      *)
AsipClose(t) ==
    /\ ~closed
    /\ \A u \in Thread : Idle(u)
    /\ Free(t)
    /\ closed' = TRUE
    /\ inv_map' = [a \in Addr |-> None]
    /\ type_list' = <<>>
    /\ cleared' = [m \in Module |-> cleared[m] + IF Contains(type_list, m) THEN 1 ELSE 0]
    /\ UNCHANGED <<pri, mem, call, owner, leaks, pc, cb>>

ThreadStep(t) ==
    \/ \E m \in Module : AddModule(t, m) \/ RemoveModule(t, m)
    \/ LinkModule(t)
    \/ \E s \in Session :
         \/ StartCall(t, s) \/ \E a \in Addr : Invite(t, s, a)
         \/ TsxCompleted(t, s) \/ MediaUpdate(t, s) \/ Disconnected(t, s)
    \/ \E M \in SUBSET Module :
         \/ CallRefused(t, M) \/ CallFails(t, M)
         \/ \E a \in Addr, v \in null..complete : CallMade(t, M, a, v)
         \/ InviteRefused(t, M) \/ InviteAccepted(t, M)
    \/ CallReturns(t)
    \/ InviteCounted(t) \/ InviteAnnounced(t)
    \/ MediaUpdated(t) \/ DisconnectEnds(t)
    \/ AsipClose(t)

Next ==
    \/ \E t \in Thread : ThreadStep(t)
    \/ \E s \in Session : SessionFreed(s)

Spec == Init /\ [][Next]_vars

-----------------------------------------------------------------------------
(* The shape of the state. *)
TypeOK ==
    /\ type_list \in Seq(Module)
    /\ pri \in [Module -> {0, 1}]
    /\ mem \in [Module -> Block]
    /\ cleared \in [Module -> Nat]
    /\ inv_map \in [Addr -> Session \cup {None}]
    /\ \A s \in Session :
         /\ call[s].kind \in {"none", "in", "out"}
         /\ call[s].st \in null..complete
         /\ call[s].mod \in Module \cup {None}
         /\ call[s].addr \in Addr \cup {None}
    /\ owner \in [by : Thread \cup {Nobody}, n : Nat]
    /\ leaks \in [Thread -> Nat]
    /\ \A t \in Thread :
         /\ pc[t].s \in Module \cup Session \cup {None}
         /\ cb[t].s \in Session \cup {None}

Made == {s \in Session : call[s].kind # "none"}

(* A call never outlives the module that handles it: the module is there   *)
(* as long as on_start_call, on_call_incoming or an event may use it.      *)
ModuleOfCallLives == \A s \in Made : mem[call[s].mod].bound

(* Until the end, the list holds the modules that are bound and not being  *)
(* added, each once and by priority; no freed module stays in the list.  A *)
(* module that is removed stays only if it ever had a call, and its user's *)
(* clear call-back runs once.                                              *)
ListHoldsModules ==
    /\ TypeOK
    /\ ~closed =>
         /\ \A m \in Module :
              Contains(type_list, m) <=>
                  mem[m].bound /\ \A t \in Thread : pc[t].at = "add" => pc[t].s # m
         /\ \A i, j \in DOMAIN type_list :
              i < j => type_list[i] # type_list[j] /\ pri[type_list[i]] <= pri[type_list[j]]
    /\ \A m \in Module :
         /\ cleared[m] <= 1
         /\ mem[m].bound /\ mem[m].des => \E s \in Made : call[s].mod = m

(* A thread that has left asip_ua_call does not hold the SIP lock          *)
(* (sip_base.h:36, "MUST call this after call asip_start()").              *)
LockIsReturned == \A t \in Thread : Idle(t) => owner.by # t

-----------------------------------------------------------------------------
(* What the code does not keep, checked by no run; README.md, section 3,   *)
(* says what TLC finds.                                                    *)

(* A call-back of a session finds the call of that session, and no other:  *)
(* what was set for the address last (mem.h:74, "F(p1)=p2").               *)
CallBackFindsCall ==
    ~closed => \A s \in Made : call[s].inv # "none" => FindByInv(s) = s
=============================================================================
