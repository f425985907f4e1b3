---------------------------- MODULE SharedObject ----------------------------
(***************************************************************************)
(* What acore promises of a shared object: its owner publishes it, clients *)
(* take and drop handles on it, and the owner may doom it at any moment.   *)
(* A doomed object hands out no new handle and is reclaimed exactly when   *)
(* the last handle is dropped: never while a client still holds one, and   *)
(* never later.                                                            *)
(*                                                                         *)
(* This is the contract of include/acore/mem.h ("memmory control for       *)
(* object: use it to avoid error when delete data is using").  The modules *)
(* AcoreRuntime and MemThreads are shown to implement it.                  *)
(***************************************************************************)

CONSTANTS
    Obj,      \* the objects under control
    Handle    \* the references a client may own, each taken and dropped once

VARIABLES
    phase,    \* [Obj -> {"absent", "live", "doomed"}]
    held      \* [Obj -> SUBSET Handle], the handles taken and not dropped

vars == <<phase, held>>

Init ==
    /\ phase = [o \in Obj |-> "absent"]
    /\ held = [o \in Obj |-> {}]

(* The owner makes an absent object available. *)
Publish(o) ==
    /\ phase[o] = "absent"
    /\ phase' = [phase EXCEPT ![o] = "live"]
    /\ UNCHANGED held

(* A client takes an unused handle on an object that is not doomed. *)
Take(o, h) ==
    /\ phase[o] = "live"
    /\ h \notin held[o]
    /\ held' = [held EXCEPT ![o] = @ \cup {h}]
    /\ UNCHANGED phase

(* A client drops its handle; the last drop of a doomed object reclaims it. *)
Drop(o, h) ==
    /\ h \in held[o]
    /\ held' = [held EXCEPT ![o] = @ \ {h}]
    /\ phase' = IF phase[o] = "doomed" /\ held[o] = {h}
                THEN [phase EXCEPT ![o] = "absent"]
                ELSE phase

(* The owner gives the object up: reclaimed at once if nobody holds it. *)
Doom(o) ==
    /\ phase[o] = "live"
    /\ phase' = [phase EXCEPT ![o] = IF held[o] = {} THEN "absent" ELSE "doomed"]
    /\ UNCHANGED held

Next ==
    \E o \in Obj :
        \/ Publish(o)
        \/ Doom(o)
        \/ \E h \in Handle : Take(o, h) \/ Drop(o, h)

Spec == Init /\ [][Next]_vars
=============================================================================
