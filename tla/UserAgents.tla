----------------------------- MODULE UserAgents -----------------------------
(***************************************************************************)
(* The SIP accounts of src/sip/asip_ua.c and their registrations in        *)
(* src/sip/asip_login.c, from asip_init to asip_close.  Accounts stand in  *)
(* ua_list, a ring of next and prev pointers that no lock guards; each has *)
(* at most one registration client of pjsip, whose answers the polling     *)
(* thread brings to reg_cb.                                                *)
(*                                                                         *)
(* The application creates, registers, unregisters and destroys accounts,  *)
(* in its own threads or from the handlers of the events that reg_cb sends.*)
(* It may keep these calls apart from one another with asip_start, but not *)
(* from the polling thread, which runs reg_cb and looks up the account of  *)
(* an incoming call without any lock.  pjsip_regc is external: a client    *)
(* that is destroyed while its request is out, or while it calls back, goes*)
(* later and is silent.                                                    *)
(***************************************************************************)
EXTENDS Integers, FiniteSets

CONSTANTS
    UA,             \* the accounts that are ever created
    Client,         \* addresses of registration clients
    Ring,           \* the sentinel of ua_list
    None,           \* no client, a zeroed pointer
    MaxMisses,      \* bound: how far below zero timeouts count false_cont
    InSections      \* the application makes its calls inside asip_start

ASSUME UserAgentsAssumption ==
    /\ Ring \notin UA
    /\ None \notin UA \cup Client \cup {Ring} /\ None \notin Int
    /\ MaxMisses \in Nat \ {0}
    /\ InSections \in BOOLEAN

Node  == UA \cup {Ring}
State == {"null", "login", "disconnect", "error"}
Code  == {"ok", "denied", "timeout", "other"}     \* 2xx, 401, 408, the rest

(* Where the application's call on an account is: "back" and "forth" in    *)
(* asip_ua_create, "again" and "make" in asip_ua_register, "out" and       *)
(* "forget" in asip_ua_unregister.                                         *)
Stage == {"none", "back", "forth", "again", "make", "out", "forget"}

VARIABLES
    up,         \* sip_init, and the endpoint with it
    next, prev, \* the pointers of the ring
    life,       \* what became of each account
    doing,      \* the call on each account that is under way
    regc, state, false_cont,                      \* ua->login
    client,     \* the registration clients of pjsip
    seek,       \* the look-up of the polling thread
    cb,         \* the reg_cb that runs
    streak      \* the timeouts in a row since the last login, or None

ring   == <<next, prev, life>>
login  == <<regc, state, false_cont, client, streak>>
vars   == <<up, ring, doing, login, seek, cb>>

NoClient == [at |-> "free", ua |-> None, doomed |-> FALSE,
             refresh |-> FALSE, transport |-> "none"]
NoSeek   == [at |-> None, want |-> None, was |-> FALSE, torn |-> FALSE]
NoCb     == [at |-> "none", c |-> None, code |-> "none"]

Init ==
    /\ up = FALSE
    /\ next = [n \in Node |-> None]
    /\ prev = [n \in Node |-> None]
    /\ life = [u \in UA |-> "none"]
    /\ doing = [u \in UA |-> "none"]
    /\ regc = [u \in UA |-> None]
    /\ state = [u \in UA |-> "null"]
    /\ false_cont = [u \in UA |-> 0]
    /\ client = [c \in Client |-> NoClient]
    /\ streak = [u \in UA |-> None]
    /\ seek = NoSeek
    /\ cb = NoCb

-----------------------------------------------------------------------------
(* pj_list_erase of a node that pj_bzero then zeroes. *)
Unlink(n, links, back) ==
    [[links EXCEPT ![back[n]] = links[n]] EXCEPT ![n] = None]

(* Faulty variant: a client whose request is out is forgotten. *)
DestroyClientIdle(c) ==
    IF client[c].at = "idle" THEN [client EXCEPT ![c] = NoClient] ELSE client

(* pjsip_regc_destroy: a busy client is told to go, and loses its cb. *)
DestroyClient(c) ==
    [client EXCEPT ![c] =
        IF @.at \in {"sent", "calling"} THEN [@ EXCEPT !.doomed = TRUE] ELSE NoClient]

(* The application has one call at a time under way on each account, and   *)
(* one altogether when it keeps to the sections.                           *)
MayCall(u) ==
    /\ up /\ doing[u] = "none"
    /\ InSections => \A v \in UA : doing[v] = "none"

Goes(u, stage) == doing' = [doing EXCEPT ![u] = stage]

-----------------------------------------------------------------------------
(* Faulty variant: the pointer that a look-up follows comes first. *)
CreateUaForthFirst(u) ==
    /\ MayCall(u)
    /\ life[u] = "none"
    /\ life' = [life EXCEPT ![u] = "new"]
    /\ prev' = [prev EXCEPT ![u] = prev[Ring]]
    /\ next' = [next EXCEPT ![prev[Ring]] = u, ![u] = None]
    /\ Goes(u, "forth")
    /\ UNCHANGED <<up, login, seek, cb>>

-----------------------------------------------------------------------------
(* asip_init *)
InitSip ==
    /\ ~up
    /\ up' = TRUE
    /\ next' = [next EXCEPT ![Ring] = Ring]
    /\ prev' = [prev EXCEPT ![Ring] = Ring]
    /\ UNCHANGED <<life, doing, login, seek, cb>>

(* asip_ua_create fills a new account and inserts it before the sentinel:  *)
(* first its own pointers, ...                                             *)
CreateUa(u) ==
    /\ MayCall(u)
    /\ life[u] = "none"
    /\ life' = [life EXCEPT ![u] = "new"]
    /\ prev' = [prev EXCEPT ![u] = prev[Ring]]
    /\ next' = [next EXCEPT ![u] = next[prev[Ring]]]
    /\ Goes(u, "back")
    /\ UNCHANGED <<up, login, seek, cb>>

(* ... then the pointer that leads back to it, ... *)
LinkBack(u) ==
    /\ doing[u] = "back"
    /\ prev' = [prev EXCEPT ![next[prev[u]]] = u]
    /\ Goes(u, "forth")
    /\ UNCHANGED <<up, next, life, login, seek, cb>>

(* ... and last the one that a look-up follows.                            *)
LinkForth(u) ==
    /\ doing[u] = "forth"
    /\ next' = [next EXCEPT ![prev[u]] = u]
    /\ life' = [life EXCEPT ![u] = "live"]
    /\ Goes(u, "none")
    /\ UNCHANGED <<up, prev, login, seek, cb>>

(* asip_ua_destroy leaves the client to itself: it is erased from the      *)
(* account with everything else, the pool that should be released too.     *)
(* torn records for a look-up under way that an account went meanwhile.    *)
DestroyUa(u) ==
    /\ MayCall(u)
    /\ life[u] = "live"
    /\ next' = Unlink(u, next, prev)
    /\ prev' = Unlink(u, prev, next)
    /\ life' = [life EXCEPT ![u] = "gone"]
    /\ regc' = [regc EXCEPT ![u] = None]
    /\ state' = [state EXCEPT ![u] = "null"]
    /\ false_cont' = [false_cont EXCEPT ![u] = 0]
    /\ streak' = [streak EXCEPT ![u] = None]
    /\ seek' = IF seek = NoSeek THEN seek ELSE [seek EXCEPT !.torn = TRUE]
    /\ UNCHANGED <<up, doing, client, cb>>

(* asip_close, when the loop and all calls have ended.  _asip_close_ua     *)
(* destroys every account but the last one of the ring, which is left as it*)
(* is; with the endpoint the clients go.                                   *)
CloseSip ==
    /\ up /\ seek = NoSeek /\ cb = NoCb
    /\ \A u \in UA : doing[u] = "none"
    /\ LET kept == prev[Ring]
           ends == {u \in UA : life[u] = "live" /\ u # kept}
       IN  /\ next' = [n \in Node |-> IF n \in ends THEN None
                                      ELSE IF n = Ring THEN kept ELSE next[n]]
           /\ prev' = [n \in Node |-> IF n \in ends THEN None
                                      ELSE IF n = kept THEN Ring ELSE prev[n]]
           /\ life' = [u \in UA |-> IF u \in ends THEN "gone"
                                    ELSE IF u = kept THEN "left" ELSE life[u]]
           /\ regc' = [u \in UA |-> IF u \in ends THEN None ELSE regc[u]]
           /\ state' = [u \in UA |-> IF u \in ends THEN "null" ELSE state[u]]
           /\ false_cont' = [u \in UA |-> IF u \in ends THEN 0 ELSE false_cont[u]]
           /\ streak' = [u \in UA |-> IF u \in ends THEN None ELSE streak[u]]
    /\ up' = FALSE
    /\ client' = [c \in Client |-> NoClient]
    /\ UNCHANGED <<doing, seek, cb>>

-----------------------------------------------------------------------------
(* asip_ua_register and asip_ua_unregister begin alike: with a client the  *)
(* state is reset, without one it stays as it is, ...                      *)
Begin(u, with, without) ==
    /\ MayCall(u)
    /\ life[u] = "live"
    /\ IF regc[u] # None
       THEN state' = [state EXCEPT ![u] = "null"] /\ Goes(u, with)
       ELSE UNCHANGED state /\ Goes(u, without)
    /\ UNCHANGED <<up, ring, regc, false_cont, client, streak, seek, cb>>

Register(u)   == Begin(u, "again", "make")
Unregister(u) == Begin(u, "out", "forget")

(* ... and then the client is destroyed; the account still points at it.   *)
DropClient(u) ==
    /\ doing[u] \in {"again", "out"}
    /\ client' = DestroyClient(regc[u])
    /\ Goes(u, IF doing[u] = "again" THEN "make" ELSE "forget")
    /\ UNCHANGED <<up, ring, regc, state, false_cont, streak, seek, cb>>

(* A new client is made and sends; both may fail.                          *)
MakeClient(u) ==
    /\ doing[u] = "make"
    /\ \/ /\ regc' = [regc EXCEPT ![u] = None]
          /\ UNCHANGED client
       \/ \E c \in Client, outcome \in {"sent", "idle"} :
            /\ client[c].at = "free"
            /\ regc' = [regc EXCEPT ![u] = c]
            /\ client' = [client EXCEPT ![c] = [NoClient EXCEPT !.at = outcome, !.ua = u]]
    /\ Goes(u, "none")
    /\ UNCHANGED <<up, ring, state, false_cont, streak, seek, cb>>

(* asip_ua_unregister tells the registrar nothing. *)
ForgetClient(u) ==
    /\ doing[u] = "forget"
    /\ regc' = [regc EXCEPT ![u] = None]
    /\ Goes(u, "none")
    /\ UNCHANGED <<up, ring, state, false_cont, client, streak, seek, cb>>

-----------------------------------------------------------------------------
(* The polling thread is not in a call-back or a look-up. *)
PollFree == up /\ cb = NoCb /\ seek = NoSeek

(* The client's own timer sends again before a registration expires. *)
Refresh(c) ==
    /\ PollFree
    /\ client[c].at = "idle" /\ client[c].refresh
    /\ client' = [client EXCEPT ![c].at = "sent", ![c].refresh = FALSE]
    /\ UNCHANGED <<up, ring, doing, regc, state, false_cont, streak, seek, cb>>

(* An answer to a client that was destroyed meanwhile. *)
AnswerDoomed(c) ==
    /\ PollFree
    /\ client[c].at = "sent" /\ client[c].doomed
    /\ client' = [client EXCEPT ![c] = NoClient]
    /\ UNCHANGED <<up, ring, doing, regc, state, false_cont, streak, seek, cb>>

(* An answer, or the timeout of the request, with or without a transport.  *)
Answer(c, code, transport) ==
    /\ PollFree
    /\ client[c].at = "sent" /\ ~client[c].doomed
    /\ code = "timeout" => false_cont[client[c].ua] > -MaxMisses
    /\ client' = [client EXCEPT ![c].at = "calling",
                                ![c].refresh = (code = "ok"),
                                ![c].transport = transport]
    /\ cb' = [at |-> "write", c |-> c, code |-> code]
    /\ UNCHANGED <<up, ring, doing, regc, state, false_cont, streak, seek>>

(* What reg_cb writes into the account that the client names. *)
Writes(u, s, n) ==
    /\ state' = [state EXCEPT ![u] = s]
    /\ false_cont' = [false_cont EXCEPT ![u] = n]
    /\ cb' = [cb EXCEPT !.at = "event"]
    /\ UNCHANGED <<up, ring, doing, regc, seek>>

RegCbOkOneRetry ==
    /\ cb.at = "write" /\ cb.code = "ok"
    /\ LET u == client[cb.c].ua
       IN  Writes(u, "login", 1) /\ streak' = [streak EXCEPT ![u] = 0]
    /\ UNCHANGED client

RegCbOk ==
    /\ cb.at = "write" /\ cb.code = "ok"
    /\ LET u == client[cb.c].ua
       IN  Writes(u, "login", 2) /\ streak' = [streak EXCEPT ![u] = 0]
    /\ UNCHANGED client

RegCbRefused ==
    /\ cb.at = "write" /\ cb.code \in {"denied", "other"}
    /\ LET u == client[cb.c].ua
       IN  /\ Writes(u, IF cb.code = "denied" THEN "error" ELSE "disconnect", 0)
           /\ streak' = [streak EXCEPT ![u] = None]
    /\ UNCHANGED client

(* After a timeout reg_cb asks the account, not its parameter, for the     *)
(* client.  One with a transport loses it when the count is below zero;    *)
(* without a client at that place the answer is whatever the memory holds. *)
RegCbTimeout ==
    /\ cb.at = "write" /\ cb.code = "timeout"
    /\ LET u == client[cb.c].ua
           c == regc[u]
           n == false_cont[u] - 1
       IN  /\ streak' = [streak EXCEPT ![u] = IF @ = None THEN None ELSE @ + 1]
           /\ IF c = None \/ client[c].at = "free"
              THEN /\ \E s \in {"disconnect", "null"} : Writes(u, s, n)
                   /\ UNCHANGED client
              ELSE IF client[c].transport # "none"
              THEN /\ Writes(u, "disconnect", n)
                   /\ client' = IF n < 0 THEN [client EXCEPT ![c].transport = "shut"]
                                         ELSE client
              ELSE Writes(u, "null", n) /\ UNCHANGED client

(* The handlers have run; a client that they destroyed goes now. *)
RegCbReturn ==
    /\ cb.at = "event"
    /\ client' = [client EXCEPT ![cb.c] =
                    IF @.doomed THEN NoClient ELSE [@ EXCEPT !.at = "idle"]]
    /\ cb' = NoCb
    /\ UNCHANGED <<up, ring, doing, regc, state, false_cont, streak, seek>>

-----------------------------------------------------------------------------
Listed(u) == life[u] = "live"

(* asip_ua_find_by_uri for an incoming call: pj_list_search, node by node. *)
StartSeek(u) ==
    /\ PollFree
    /\ seek' = [at |-> next[Ring], want |-> u, was |-> Listed(u), torn |-> FALSE]
    /\ UNCHANGED <<up, ring, doing, login, cb>>

(* The node that is sought; one that was destroyed has no name any more.   *)
Found == seek.at = seek.want /\ life[seek.want] # "gone"

SeekStep ==
    /\ seek.at \in UA /\ ~Found
    /\ seek' = [seek EXCEPT !.at = next[@]]
    /\ UNCHANGED <<up, ring, doing, login, cb>>

SeekEnd ==
    /\ seek # NoSeek
    /\ seek.at = Ring \/ (seek.at \in UA /\ Found)
    /\ seek' = NoSeek
    /\ UNCHANGED <<up, ring, doing, login, cb>>

Application ==
    \/ InitSip \/ CloseSip
    \/ \E u \in UA : \/ CreateUa(u) \/ LinkBack(u) \/ LinkForth(u) \/ DestroyUa(u)
                     \/ Register(u) \/ Unregister(u)
                     \/ DropClient(u) \/ MakeClient(u) \/ ForgetClient(u)

Polling ==
    \/ RegCbOk \/ RegCbRefused \/ RegCbTimeout \/ RegCbReturn \/ SeekStep \/ SeekEnd
    \/ \E u \in UA : StartSeek(u)
    \/ \E c \in Client :
         \/ Refresh(c) \/ AnswerDoomed(c)
         \/ \E code \in Code, transport \in {"none", "up"} : Answer(c, code, transport)

Next == Application \/ Polling

Spec == Init /\ [][Next]_vars

-----------------------------------------------------------------------------
(* The shape of the state. *)
TypeOK ==
    /\ up \in BOOLEAN
    /\ next \in [Node -> Node \cup {None}]
    /\ prev \in [Node -> Node \cup {None}]
    /\ life \in [UA -> {"none", "new", "live", "gone", "left"}]
    /\ doing \in [UA -> Stage]
    /\ regc \in [UA -> Client \cup {None}]
    /\ state \in [UA -> State]
    /\ false_cont \in [UA -> -MaxMisses..2]
    /\ client \in [Client -> [at : {"free", "idle", "sent", "calling"},
                              ua : UA \cup {None},
                              doomed : BOOLEAN, refresh : BOOLEAN,
                              transport : {"none", "up", "shut"}]]
    /\ streak \in [UA -> (0..2 + MaxMisses) \cup {None}]
    /\ seek \in [at : Node \cup {None}, want : UA \cup {None},
                 was : BOOLEAN, torn : BOOLEAN]
    /\ cb \in [at : {"none", "write", "event"},
               c : Client \cup {None}, code : Code \cup {"none"}]

(* What still refreshes or answers for an account that is there is the     *)
(* client that the account knows, never a second one; and between two      *)
(* calls an account points at nothing or at a client of its own that is    *)
(* neither freed nor on its way out, whatever reg_cb does meanwhile.       *)
ClientsMatchAccounts ==
    /\ TypeOK
    /\ \A c \in Client :
         /\ client[c].at # "free" /\ ~client[c].doomed
         /\ Listed(client[c].ua)
         => regc[client[c].ua] = c
    /\ \A u \in UA :
         Listed(u) /\ doing[u] = "none" /\ regc[u] # None =>
             LET c == client[regc[u]]
             IN  c.at # "free" /\ ~c.doomed /\ c.ua = u

(* A look-up finds every account that was there when it began, also while  *)
(* others are inserted, and leaves the ring at its end only, unless an     *)
(* account is destroyed meanwhile; and when none is being inserted the ring*)
(* holds exactly the accounts that are there.                              *)
AccountsAreFound ==
    /\ seek # NoSeek /\ ~seek.torn =>
         /\ seek.at \in Node
         /\ seek.at = Ring => ~seek.was
    /\ up /\ (\A u \in UA : doing[u] \notin {"back", "forth"}) =>
         \A n, m \in Node \ {u \in UA : life[u] = "left"} :
             /\ n # Ring => (next[n] \in Node <=> Listed(n))
             /\ next[n] = m => prev[m] = n

(* The transport of an account that has logged in is not given up before   *)
(* the third timeout in a row, however many registrations these are spread *)
(* over.                                                                   *)
TransportOutlivesTimeouts ==
    [][\A c \in Client :
         client[c].transport = "up" /\ client'[c].transport = "shut" =>
             streak[client[c].ua] \notin {0, 1}]_vars

-----------------------------------------------------------------------------
(* What the code does not keep, checked by no run; README.md, section 3,   *)
(* says what TLC finds.                                                    *)

(* A look-up of the polling thread is not led out of the ring by what the  *)
(* application does inside its sections (sip_base.h:34, "to avoid conflict *)
(* of resource the application should call asip_start()").                 *)
LookUpStaysInRing == seek # NoSeek => seek.at \in Node

(* Nor is an account that was unregistered inside them logged in.          *)
UnregisteredIsLoggedOut ==
    \A u \in UA :
        Listed(u) /\ doing[u] = "none" /\ regc[u] = None => state[u] # "login"
=============================================================================
