----------------------------- MODULE MemThreads -----------------------------
(***************************************************************************)
(* The calls of src/core/acore_mem.c on one object, statement by statement *)
(* and from several threads.  Clients run acore_runtime_get_clone and      *)
(* acore_runtime_release_clone as often as they like, the owner binds the  *)
(* object and later marks it for destruction.                              *)
(*                                                                         *)
(* Two facts about the code are parameters.  MemLock says whether the      *)
(* library is built with ACORE_MEM_LOCK, which puts a mutex around the     *)
(* updates of a control block, but never around the lookup in mem_tree     *)
(* (lines 118, 133, 165 stand before _mbegin).  Quiescent says whether the *)
(* callers make sure that no get_clone is running when the owner starts to *)
(* unregister, and that none starts afterwards.                            *)
(***************************************************************************)
EXTENDS Integers, FiniteSets

CONSTANTS
    Client,      \* the threads that take and release clones
    Owner,       \* the thread that binds the object and gives it up
    Nobody,      \* not a thread: the holder of a free lock
    MemLock,     \* ACORE_MEM_LOCK is defined
    Quiescent    \* unregistering waits for, and shuts out, get_clone

ASSUME ThreadAssumption ==
    /\ IsFiniteSet(Client)
    /\ Owner \notin Client
    /\ Nobody \notin Client \cup {Owner}
    /\ MemLock \in BOOLEAN
    /\ Quiescent \in BOOLEAN

Thread == Client \cup {Owner}

VARIABLES
    inTree,    \* mem_tree has a node for the object
    ref, des,  \* the fields of its control block
    cleared,   \* how often the clear call-back has run
    lock,      \* the thread in the _mbegin section, or Nobody
    pc,        \* the next statement of each thread
    cmd,       \* what its last find_mem returned: the block, or NULL (FALSE)
    reg,       \* the counter value it has read
    hold       \* the clients that own a reference

vars == <<inTree, ref, des, cleared, lock, pc, cmd, reg, hold>>

(* Where the threads of get_clone stand before their reference counts. *)
Cloning == {"avail", "addFind", "addLock", "addRead", "addWrite"}

(* The statements that read or write the control block through cmd. *)
Deref == {"avail", "addRead", "addWrite", "decRead", "decWrite", "decTest",
          "maskTest", "maskDes", "erase", "clear"}

Init ==
    /\ inTree = FALSE
    /\ ref = 0
    /\ des = FALSE
    /\ cleared = 0
    /\ lock = Nobody
    /\ pc = [t \in Thread |-> IF t = Owner THEN "new" ELSE "idle"]
    /\ cmd = [t \in Thread |-> FALSE]
    /\ reg = [t \in Thread |-> 0]
    /\ hold = {}

Goto(t, from, to) == pc[t] = from /\ pc' = [pc EXCEPT ![t] = to]

(* find_mem, outside of any lock. *)
Find(t) == cmd' = [cmd EXCEPT ![t] = inTree]

(* Faulty variants: _mbegin that does not lock, _mend that does not unlock. *)
AcquireNothing(t) == UNCHANGED lock
LeaveLocked(t) == UNCHANGED lock

(* _mbegin and _mend. *)
Acquire(t) == IF MemLock THEN lock = Nobody /\ lock' = t ELSE UNCHANGED lock
Leave(t)   == IF MemLock THEN lock' = Nobody ELSE UNCHANGED lock

block == <<inTree, ref, des, cleared>>

-----------------------------------------------------------------------------
(* Faulty variants. *)

DecWriteTwice(t) ==
    /\ Goto(t, "decWrite", "decTest")
    /\ ref' = reg[t] - 2
    /\ reg' = [reg EXCEPT ![t] = @ - 2]
    /\ hold' = hold \ {t}
    /\ UNCHANGED <<inTree, des, cleared, lock, cmd>>

DecTestNotPositive(t) ==
    \E v \in {reg[t], ref} :
        /\ Goto(t, "decTest", IF v <= 0 THEN "erase" ELSE "leave")
        /\ UNCHANGED <<inTree, ref, des, cleared, lock, cmd, reg, hold>>

-----------------------------------------------------------------------------
(* acore_mem_bind by the owner: the block is inserted complete. *)
Bind ==
    /\ Goto(Owner, "new", "idle")
    /\ inTree' = TRUE
    /\ UNCHANGED <<ref, des, cleared, lock, cmd, reg, hold>>

(* acore_runtime_get_clone calls acore_mem_is_available: look up ... *)
StartClone(t) ==
    /\ Quiescent => pc[Owner] = "idle"
    /\ Goto(t, "idle", "avail")
    /\ Find(t)
    /\ UNCHANGED <<block, lock, reg, hold>>

(* ... and read des.  A block that is not available ends the call. *)
TestAvailable(t) ==
    /\ Goto(t, "avail", IF cmd[t] /\ ~des THEN "addFind" ELSE "idle")
    /\ UNCHANGED <<block, lock, cmd, reg, hold>>

(* acore_mem_add_ref: the second lookup, before the lock. *)
AddFind(t) ==
    /\ Goto(t, "addFind", "addLock")
    /\ Find(t)
    /\ UNCHANGED <<block, lock, reg, hold>>

(* Without a block add_ref fails, and get_clone returns the API all the    *)
(* same: it does not look at the result (acore_runtime.c:60-61).           *)
AddLock(t) ==
    /\ Acquire(t)
    /\ Goto(t, "addLock", IF cmd[t] THEN "addRead" ELSE "addLeave")
    /\ hold' = IF cmd[t] THEN hold ELSE hold \cup {t}
    /\ UNCHANGED <<block, cmd, reg>>

AddRead(t) ==
    /\ Goto(t, "addRead", "addWrite")
    /\ reg' = [reg EXCEPT ![t] = ref]
    /\ UNCHANGED <<block, lock, cmd, hold>>

AddWrite(t) ==
    /\ Goto(t, "addWrite", "addLeave")
    /\ ref' = reg[t] + 1
    /\ hold' = hold \cup {t}
    /\ UNCHANGED <<inTree, des, cleared, lock, cmd, reg>>

AddLeave(t) ==
    /\ Goto(t, "addLeave", "using")
    /\ Leave(t)
    /\ UNCHANGED <<block, cmd, reg, hold>>

(* acore_mem_dec_ref: lookup, lock, read, write, test. *)
DecFind(t) ==
    /\ Goto(t, "using", "decLock")
    /\ Find(t)
    /\ UNCHANGED <<block, lock, reg, hold>>

DecLock(t) ==
    /\ Acquire(t)
    /\ Goto(t, "decLock", IF cmd[t] THEN "decRead" ELSE "leave")
    /\ hold' = IF cmd[t] THEN hold ELSE hold \ {t}
    /\ UNCHANGED <<block, cmd, reg>>

DecRead(t) ==
    /\ Goto(t, "decRead", "decWrite")
    /\ reg' = [reg EXCEPT ![t] = ref]
    /\ UNCHANGED <<block, lock, cmd, hold>>

DecWrite(t) ==
    /\ Goto(t, "decWrite", IF t = Owner THEN "maskDes" ELSE "decTest")
    /\ ref' = reg[t] - 1
    /\ reg' = [reg EXCEPT ![t] = @ - 1]
    /\ hold' = hold \ {t}
    /\ UNCHANGED <<inTree, des, cleared, lock, cmd>>

(* The counter that is tested is the one just computed or the one in       *)
(* memory, whichever the compiler takes.                                   *)
DecTest(t) ==
    \E v \in {reg[t], ref} :
        /\ Goto(t, "decTest", IF v < 0 THEN "erase" ELSE "leave")
        /\ UNCHANGED <<block, lock, cmd, reg, hold>>

Erase(t) ==
    /\ Goto(t, "erase", "clear")
    /\ inTree' = FALSE
    /\ UNCHANGED <<ref, des, cleared, lock, cmd, reg, hold>>

(* The clear call-back frees the object and the block with it. *)
Clear(t) ==
    /\ cleared < 2    \* a second run is already an error
    /\ Goto(t, "clear", "leave")
    /\ cleared' = cleared + 1
    /\ UNCHANGED <<inTree, ref, des, lock, cmd, reg, hold>>

Return(t) ==
    /\ Goto(t, "leave", IF t = Owner THEN "done" ELSE "idle")
    /\ Leave(t)
    /\ UNCHANGED <<block, cmd, reg, hold>>

(* acore_mem_mask_destroy: the owner's reference goes, then des is set,    *)
(* then the counter is tested as in dec_ref.                               *)
MaskFind ==
    /\ Quiescent => \A t \in Client : pc[t] \notin Cloning
    /\ Goto(Owner, "idle", "maskLock")
    /\ Find(Owner)
    /\ UNCHANGED <<block, lock, reg, hold>>

MaskLock ==
    /\ Acquire(Owner)
    /\ Goto(Owner, "maskLock", "maskTest")
    /\ UNCHANGED <<block, cmd, reg, hold>>

MaskTest ==
    /\ Goto(Owner, "maskTest", IF cmd[Owner] /\ ~des THEN "decRead" ELSE "leave")
    /\ UNCHANGED <<block, lock, cmd, reg, hold>>

MaskDes ==
    /\ Goto(Owner, "maskDes", "decTest")
    /\ des' = TRUE
    /\ UNCHANGED <<inTree, ref, cleared, lock, cmd, reg, hold>>

CloneStep(t) ==
    \/ TestAvailable(t) \/ AddFind(t) \/ AddLock(t)
    \/ AddRead(t) \/ AddWrite(t) \/ AddLeave(t)

DropStep(t) ==
    \/ DecLock(t) \/ DecRead(t) \/ DecWrite(t) \/ DecTest(t)
    \/ Erase(t) \/ Clear(t) \/ Return(t)

MaskStep == MaskLock \/ MaskTest \/ MaskDes

Next ==
    \/ Bind \/ MaskFind \/ MaskStep
    \/ \E t \in Client : StartClone(t) \/ CloneStep(t) \/ DecFind(t)
    \/ \E t \in Thread : DropStep(t)

Spec == Init /\ [][Next]_vars

(* Every thread that is in a call goes on, and a client that owns a clone  *)
(* gives it back; nobody is obliged to start a call.                       *)
FairSpec ==
    /\ Spec
    /\ \A t \in Client : WF_vars(CloneStep(t) \/ DecFind(t))
    /\ \A t \in Thread : WF_vars(DropStep(t))
    /\ WF_vars(MaskStep)

-----------------------------------------------------------------------------
PcOK ==
    pc \in [Thread -> Cloning \cup Deref \cup
                {"new", "idle", "addLeave", "using", "decLock", "leave",
                 "maskLock", "done"}]

(* The shape of the state; the counter stays between the value that clears *)
(* the object and the number of clients.                                   *)
TypeOK ==
    /\ inTree \in BOOLEAN
    /\ ref \in -1 .. Cardinality(Client)
    /\ des \in BOOLEAN
    /\ cleared \in 0..2
    /\ lock \in Thread \cup {Nobody}
    /\ PcOK
    /\ cmd \in [Thread -> BOOLEAN]
    /\ reg \in [Thread -> Int]
    /\ hold \in SUBSET Client

(* After the clear call-back no client owns a reference to the object      *)
(* (mem.h:13-14, "use it to avoid error when delete data is using"), and   *)
(* no thread is about to touch its control block: what find_mem returned   *)
(* before the lock is still valid behind it.                               *)
NoStaleBlock ==
    cleared > 0 => /\ hold = {}
                   /\ \A t \in Thread : pc[t] \in Deref => ~cmd[t]

(* Whenever no update is under way the counter is exact: no update was     *)
(* lost.                                                                   *)
NoLostUpdate ==
    /\ TypeOK
    /\ (\A t \in Thread : pc[t] \notin {"addWrite", "decWrite", "maskDes"}) =>
         ref = Cardinality(hold) - (IF des THEN 1 ELSE 0)

(* Unregistering completes: once the owner waits to mark the object, every *)
(* release under way ends, the remaining clones come back and the object   *)
(* is cleared.  (Before that a release may wait for ever behind others: a  *)
(* POSIX mutex promises no turn.)                                          *)
UnregisterCompletes ==
    pc[Owner] = "maskLock" ~>
        cleared = 1 /\ \A t \in Thread : pc[t] \in {"idle", "done"}

-----------------------------------------------------------------------------
(* The object these statements implement.  It is gone from the moment the  *)
(* counter has gone below zero, and doomed from the moment des is set.     *)
phase ==
    [o \in {"object"} |->
        IF pc[Owner] = "new" \/ ref < 0 THEN "absent"
        ELSE IF des THEN "doomed" ELSE "live"]

held == [o \in {"object"} |-> hold]

Shared == INSTANCE SharedObject WITH Obj <- {"object"}, Handle <- Client

(* The statements under the lock implement the atomic calls.               *)
ImplementsSharedObject == Shared!Spec
=============================================================================
