------------------------------ MODULE MediaWav ------------------------------
(***************************************************************************)
(* The media system of src/core_media/media_base.c with the wav module of  *)
(* src/module/wav/wav_mod.c plugged into it.  Four shared objects and the  *)
(* audio ports hold references on one another through acore_mem: a port    *)
(* holds the media system, its factory and the wav module; the factory and *)
(* the API of the module hold the module.  Releasing one of them runs its  *)
(* clear call-back, which releases the next one.                           *)
(*                                                                         *)
(* Creating and destroying a port take several steps, because no lock      *)
(* covers them: several threads create and destroy ports and one closes    *)
(* the module and the media system meanwhile.  Every acore_mem call is one *)
(* step; MemThreads takes those apart.                                     *)
(***************************************************************************)
EXTENDS MemControl, FiniteSets

CONSTANTS
    Port,        \* the audio ports that exist at the same time
    MaxApi,      \* bound: the ports made through the API, and its failures
    MediaLast    \* the application closes the modules before the media system

ASSUME MediaAssumption ==
    /\ IsFiniteSet(Port)
    /\ MaxApi \in Nat
    /\ MediaLast \in BOOLEAN

Shared == {"msys", "fac", "wav", "api"}
Part   == {"in", "out", "main"}    \* a full port has a part for each direction
Dir    == {"in", "out", "full"}

VARIABLES
    mem,       \* the control table of the shared objects
    part,      \* the control table of the parts of each port
    phase,     \* how far each port is made or destroyed
    dir,       \* the direction each port was asked for
    module,    \* "new", "running" or "closed": wav_module_init, wav_module_close
    facNull,   \* wav->fac is NULL: the factory was refused
    api        \* ports made by the API and still there, its failures, its clears

vars == <<mem, part, phase, dir, module, facNull, api>>

Creating == {"checked", "half", "made"}
InUse    == {"open", "destroyed", "released"}

Init ==
    /\ mem = [EmptyTable(Shared) EXCEPT !["msys"] = Fresh]
    /\ part = [p \in Port |-> EmptyTable(Part)]
    /\ phase = [p \in Port |-> "none"]
    /\ dir = [p \in Port |-> "in"]
    /\ module = "new"
    /\ facNull = FALSE
    /\ api = [open |-> 0, failed |-> 0, cleared |-> 0]

-----------------------------------------------------------------------------
(* Faulty variant. *)

DestroyPartKeepsHalves(q, o) == MaskDestroy(q, o)

-----------------------------------------------------------------------------
(* acore_mem_dec_ref(wav), k times. *)
DroppedBy(b, k) == IF b.ref < k THEN Unbound ELSE [b EXCEPT !.ref = @ - k]

DropWav(m, k) ==
    IF m["wav"].bound THEN [m EXCEPT !["wav"] = DroppedBy(@, k)] ELSE m

(* release_audio: the factory leaves the list of the media system, and the *)
(* list runs its clear call-back, wav_clear.                               *)
ReleaseAudio(m, n) == IF Cleared(m, n, "fac") THEN DropWav(n, 1) ELSE n

MainPart(p) == IF dir[p] = "full" THEN "main" ELSE dir[p]

(* acore_mem_mask_destroy of a part, with the clear call-backs: that of a  *)
(* full port (wav_media_bi_port_destroy) releases its two halves.          *)
DestroyPart(q, o) ==
    LET n == MaskDestroy(q, o)
    IN  IF Cleared(q, n, "main") THEN DecRef(DecRef(n, "in"), "out") ELSE n

(* Each part that goes gives back one reference on the module.             *)
PartsGone(q, n) == Cardinality({o \in Part : Cleared(q, n, o)})

Destroyed(p, o) ==
    LET n == DestroyPart(part[p], o)
    IN  /\ part' = [part EXCEPT ![p] = n]
        /\ mem' = DropWav(mem, PartsGone(part[p], n))

Goto(p, from, to) == phase[p] = from /\ phase' = [phase EXCEPT ![p] = to]

-----------------------------------------------------------------------------
(* Faulty variants. *)

ReleaseFactoryLast(p) ==
    /\ Goto(p, "destroyed", "released")
    /\ mem' = DecRef(mem, "msys")
    /\ UNCHANGED <<part, dir, module, facNull, api>>

ReleaseMediaNever(p) ==
    /\ Goto(p, "released", "none")
    /\ UNCHANGED <<mem, part, dir, module, facNull, api>>

-----------------------------------------------------------------------------
(* wav_module_init: the module takes one reference on itself for its API   *)
(* and one for its factory, which the media system refuses when it is      *)
(* closed; the second reference is taken all the same.                     *)
WavModuleInit ==
    /\ module = "new"
    /\ module' = "running"
    /\ facNull' = ~IsAvailable(mem, "msys")
    /\ LET m == Bind(AddRef(Bind(mem, "wav"), "wav"), "api")
       IN  mem' = AddRef(IF facNull' THEN m ELSE Bind(m, "fac"), "wav")
    /\ UNCHANGED <<part, phase, dir, api>>

(* No port is being created while something is closed: see Quiescent of    *)
(* MemThreads.                                                             *)
Quiet == \A p \in Port : phase[p] \notin Creating

(* wav_module_close.  acore_runtime_unregister_api is called with the      *)
(* function table, which is bound to nothing, and has no effect.           *)
WavModuleClose ==
    /\ module = "running"
    /\ Quiet
    /\ module' = "closed"
    /\ mem' = MaskDestroy(ReleaseAudio(mem, MaskDestroy(mem, "fac")), "wav")
    /\ UNCHANGED <<part, phase, dir, facNull, api>>

(* acore_media_close; the clear call-back frees the media system. *)
MediaClose ==
    /\ IsAvailable(mem, "msys")
    /\ Quiet
    /\ MediaLast => module # "running"
    /\ mem' = MaskDestroy(mem, "msys")
    /\ UNCHANGED <<part, phase, dir, module, facNull, api>>

-----------------------------------------------------------------------------
(* acore_media_audio_create: the media system and the factory are there.   *)
StartCreate(p, d) ==
    /\ IsAvailable(mem, "msys")
    /\ IsAvailable(mem, "fac")
    /\ Goto(p, "none", "checked")
    /\ dir' = [dir EXCEPT ![p] = d]
    /\ UNCHANGED <<mem, part, module, facNull, api>>

(* wav_media_create_callback refuses when the module is not available.     *)
CreateRefused(p) ==
    /\ ~IsAvailable(mem, "wav")
    /\ Goto(p, "checked", "none")
    /\ UNCHANGED <<mem, part, dir, module, facNull, api>>

(* The input port is made and takes its reference on the module ...        *)
CreateInput(p) ==
    /\ IsAvailable(mem, "wav")
    /\ dir[p] # "out"
    /\ Goto(p, "checked", IF dir[p] = "full" THEN "half" ELSE "made")
    /\ part' = [part EXCEPT ![p] = Bind(@, "in")]
    /\ mem' = AddRef(mem, "wav")
    /\ UNCHANGED <<dir, module, facNull, api>>

(* ... or it cannot be made.                                               *)
CreateInputFails(p) ==
    /\ IsAvailable(mem, "wav")
    /\ dir[p] # "out"
    /\ Goto(p, "checked", "none")
    /\ UNCHANGED <<mem, part, dir, module, facNull, api>>

(* The output port; in a full port the bidirectional port comes after it,  *)
(* with a reference of its own.                                            *)
CreateOutput(p) ==
    /\ dir[p] # "in"
    /\ dir[p] = "out" => IsAvailable(mem, "wav")
    /\ Goto(p, IF dir[p] = "full" THEN "half" ELSE "checked", "made")
    /\ part' = [part EXCEPT ![p] = Bind(Bind(@, "out"), MainPart(p))]
    /\ mem' = IF dir[p] = "full" THEN AddRef(AddRef(mem, "wav"), "wav")
              ELSE AddRef(mem, "wav")
    /\ UNCHANGED <<dir, module, facNull, api>>

(* Without an output port the input port goes again.                       *)
CreateOutputFails(p) ==
    /\ dir[p] # "in"
    /\ dir[p] = "out" => IsAvailable(mem, "wav")
    /\ Goto(p, IF dir[p] = "full" THEN "half" ELSE "checked", "none")
    /\ Destroyed(p, "in")
    /\ UNCHANGED <<dir, module, facNull, api>>

(* The port is entered in the map and takes its references on the factory  *)
(* and on the media system.                                                *)
Publish(p) ==
    /\ Goto(p, "made", "open")
    /\ mem' = AddRef(AddRef(mem, "fac"), "msys")
    /\ UNCHANGED <<part, dir, module, facNull, api>>

(* acore_media_port_destroy: under the lock of the media system the port   *)
(* leaves the map and wav_media_port_destroy marks it; ...                 *)
PortDestroy(p) ==
    /\ Goto(p, "open", "destroyed")
    /\ Destroyed(p, MainPart(p))
    /\ UNCHANGED <<dir, module, facNull, api>>

(* ... then the factory is released, and with its last port the list entry *)
(* and the reference it has on the module; ...                             *)
ReleaseFactory(p) ==
    /\ Goto(p, "destroyed", "released")
    /\ mem' = ReleaseAudio(mem, DecRef(mem, "fac"))
    /\ UNCHANGED <<part, dir, module, facNull, api>>

(* ... and last the media system.                                          *)
ReleaseMedia(p) ==
    /\ Goto(p, "released", "none")
    /\ mem' = DecRef(mem, "msys")
    /\ UNCHANGED <<part, dir, module, facNull, api>>

-----------------------------------------------------------------------------
(* wav_api_create_input and wav_api_create_output: a port that is made     *)
(* takes no reference, ...                                                 *)
ApiCreate ==
    /\ IsAvailable(mem, "wav")
    /\ api.open + api.failed + api.cleared < MaxApi
    /\ api' = [api EXCEPT !.open = @ + 1]
    /\ UNCHANGED <<mem, part, phase, dir, module, facNull>>

(* ... one that cannot be made takes one, ...                              *)
ApiCreateFails ==
    /\ IsAvailable(mem, "wav")
    /\ api.open + api.failed + api.cleared < MaxApi
    /\ api' = [api EXCEPT !.failed = @ + 1]
    /\ mem' = AddRef(mem, "wav")
    /\ UNCHANGED <<part, phase, dir, module, facNull>>

(* ... and port_destroy, the clear_port of the API, gives one back.        *)
ApiClearPort ==
    /\ api.open > 0
    /\ api' = [api EXCEPT !.open = @ - 1, !.cleared = @ + 1]
    /\ mem' = DropWav(mem, 1)
    /\ UNCHANGED <<part, phase, dir, module, facNull>>

CreateStep(p) ==
    \/ CreateRefused(p)
    \/ CreateInput(p) \/ CreateInputFails(p)
    \/ CreateOutput(p) \/ CreateOutputFails(p)
    \/ Publish(p)

DestroyStep(p) == PortDestroy(p) \/ ReleaseFactory(p) \/ ReleaseMedia(p)

Next ==
    \/ WavModuleInit \/ WavModuleClose \/ MediaClose
    \/ ApiCreate \/ ApiCreateFails \/ ApiClearPort
    \/ \E p \in Port :
         \/ \E d \in Dir : StartCreate(p, d)
         \/ CreateStep(p) \/ DestroyStep(p)

Spec == Init /\ [][Next]_vars

(* A creation ends, and whoever made a port destroys it some day. *)
FairSpec ==
    Spec /\ \A p \in Port : WF_vars(CreateStep(p)) /\ WF_vars(DestroyStep(p))

-----------------------------------------------------------------------------
(* The shape of the state. *)
TypeOK ==
    /\ mem \in [Shared -> Block]
    /\ part \in [Port -> [Part -> Block]]
    /\ phase \in [Port -> {"none"} \cup Creating \cup InUse]
    /\ dir \in [Port -> Dir]
    /\ module \in {"new", "running", "closed"}
    /\ facNull \in BOOLEAN
    /\ api \in [open : 0..MaxApi, failed : 0..MaxApi, cleared : 0..MaxApi]

Live(p) == {o \in Part : part[p][o].bound}
Parts == {x \in Port \X Part : x[2] \in Live(x[1])}
Marked(o) == IF mem[o].des THEN 1 ELSE 0
In(S) == Cardinality({p \in Port : phase[p] \in S})

(* The references on the module are those of its API, of its factory and   *)
(* of every part of every port, failed API calls counted in and cleared    *)
(* API ports counted out.                                                  *)
WavAccount ==
    mem["wav"].bound =>
        LET factory == IF facNull \/ mem["fac"].bound THEN 1 ELSE 0
        IN  mem["wav"].ref = 1 + factory + Cardinality(Parts)
                               + api.failed - api.cleared - Marked("wav")

(* The ports that still have to release them hold the factory and the      *)
(* media system, through every order of closing them.                      *)
MediaAccount ==
    /\ mem["fac"].bound =>
         mem["fac"].ref = In({"open", "destroyed"}) - Marked("fac")
    /\ mem["msys"].bound => mem["msys"].ref = In(InUse) - Marked("msys")
    /\ In({"open", "destroyed"}) > 0 => mem["fac"].bound
    /\ In(InUse) > 0 => mem["msys"].bound

(* A port is there with all its parts, or not at all.                      *)
PortIsWhole ==
    \A p \in Port :
        /\ phase[p] \in {"made", "open"} =>
             Live(p) = IF dir[p] = "full" THEN Part ELSE {dir[p]}
        /\ phase[p] \notin {"half", "made", "open"} => Live(p) = {}

(* Every counter is exact and every port whole, whatever closes first and  *)
(* whatever fails half-way.                                                *)
Accounts == TypeOK /\ WavAccount /\ MediaAccount /\ PortIsWhole

(* Whatever is still registered or open keeps the module it runs in.       *)
WavLivesWhileUsed ==
    (\/ mem["api"].bound \/ mem["fac"].bound
     \/ \E p \in Port : Live(p) # {}) => mem["wav"].bound

(* Nothing is freed under a user: the module lives for its ports, its API  *)
(* and its factory, as long as the API gives back no more references than  *)
(* it has taken; and release_audio takes the lock of a media system that   *)
(* is there, which the factory never outlives.                             *)
NothingFreedInUse ==
    /\ api.cleared <= api.failed => WavLivesWhileUsed
    /\ mem["fac"].bound => mem["msys"].bound

(* Once both are closed, the factory and the media system are freed.       *)
ClosedIsFreed ==
    mem["msys"].des /\ module = "closed" ~>
        ~mem["fac"].bound /\ ~mem["msys"].bound
=============================================================================
