-------------------------- MODULE UserAgents_proofs --------------------------
(***************************************************************************)
(* Proofs about UserAgents for any set of accounts and any set of clients. *)
(* What concerns the registrations is proved for every application; what   *)
(* concerns the ring for one that makes its calls inside asip_start, since *)
(* two insertions at once can lose an account.                             *)
(***************************************************************************)
EXTENDS UserAgents, TLAPS

ClientRecord == [at : {"free", "idle", "sent", "calling"}, ua : UA \cup {None},
                 doomed : BOOLEAN, refresh : BOOLEAN,
                 transport : {"none", "up", "shut"}]
Seeking      == [at : Node \cup {None}, want : UA \cup {None},
                 was : BOOLEAN, torn : BOOLEAN]

(* The types of the variables; what stands in the ring or is being put     *)
(* there has something before it.                                          *)
Shape ==
    /\ up \in BOOLEAN
    /\ life \in [UA -> {"none", "new", "live", "gone", "left"}]
    /\ doing \in [UA -> Stage]
    /\ state \in [UA -> State]
    /\ seek \in Seeking
    /\ cb \in [at : {"none", "write", "event"},
               c : Client \cup {None}, code : Code \cup {"none"}]
    /\ next \in [Node -> Node \cup {None}]
    /\ prev \in [Node -> Node \cup {None}]
    /\ up => prev[Ring] \in Node
    /\ \A u \in UA : life[u] \in {"new", "live"} => prev[u] \in Node

(* The call that is under way on an account, and what became of it.        *)
Stages ==
    \A u \in UA :
        /\ doing[u] \in {"back", "forth"} <=> life[u] = "new"
        /\ doing[u] \in {"again", "make", "out", "forget"} => life[u] = "live"
        /\ life[u] \in {"none", "new", "gone"} => regc[u] = None
        /\ ~up => doing[u] = "none" /\ life[u] # "live"

(* The timeouts since a login and false_cont count the same thing.         *)
Counts ==
    /\ false_cont \in [UA -> -MaxMisses..2]
    /\ streak \in [UA -> Int \cup {None}]
    /\ \A u \in UA : streak[u] # None => false_cont[u] = 2 - streak[u] /\ streak[u] >= 0
    /\ cb.at = "write" /\ cb.code = "timeout" =>
         false_cont[client[cb.c].ua] > -MaxMisses

(* From the moment a call destroys the client of an account until it gives *)
(* it another one the account points at what is not its own; otherwise the *)
(* two know one another, and a client that its account does not know is    *)
(* doomed.                                                                 *)
Knows(u) == life[u] = "live" /\ doing[u] \notin {"make", "forget"}

Clients ==
    /\ regc \in [UA -> Client \cup {None}]
    /\ client \in [Client -> ClientRecord]
    /\ \A c \in Client : client[c].at # "free" =>
         /\ client[c].ua \in UA /\ life[client[c].ua] \in {"live", "gone"}
         /\ ~client[c].doomed /\ life[client[c].ua] = "live" =>
              Knows(client[c].ua) /\ regc[client[c].ua] = c
    /\ \A u \in UA : Knows(u) /\ regc[u] # None =>
         /\ client[regc[u]].ua = u /\ ~client[regc[u]].doomed
         /\ client[regc[u]].at # "free"

(* The client that calls back is the one of cb.                            *)
Calling ==
    /\ cb.at = "none" => cb = NoCb
    /\ cb.at # "none" => cb.c \in Client /\ client[cb.c].at = "calling" /\ cb.code \in Code
    /\ \A c \in Client : client[c].at = "calling" => cb.at # "none" /\ cb.c = c

(* A client that the account got while an answer to the old one waits to   *)
(* be written has no transport yet, for reg_cb asks the account for it.    *)
Transports ==
    cb.at = "write" =>
        LET c == regc[client[cb.c].ua]
        IN  c # None /\ c # cb.c => client[c].transport = "none"

LInv == Shape /\ Stages /\ Counts /\ Clients /\ Calling /\ Transports

-----------------------------------------------------------------------------
(* What the updates of a client and of a look-up leave in its record.      *)
LEMMA FreeClient ==
    /\ NoClient \in ClientRecord
    /\ NoClient.at = "free" /\ NoClient.ua = None /\ ~NoClient.doomed
    /\ NoClient.transport = "none"
BY DEF NoClient, ClientRecord

(* The record of a client that has just been made.                         *)
LEMMA NewClient ==
    ASSUME NEW u \in UA, NEW at \in {"sent", "idle"}
    PROVE  /\ [NoClient EXCEPT !.at = at, !.ua = u] \in ClientRecord
           /\ [NoClient EXCEPT !.at = at, !.ua = u].at = at
           /\ [NoClient EXCEPT !.at = at, !.ua = u].ua = u
           /\ ~[NoClient EXCEPT !.at = at, !.ua = u].doomed
           /\ [NoClient EXCEPT !.at = at, !.ua = u].transport = "none"
BY DEF NoClient, ClientRecord

(* The record of a client that is destroyed while its call-back runs.      *)
LEMMA DoomedClient ==
    ASSUME NEW r \in ClientRecord
    PROVE  /\ [r EXCEPT !.doomed = TRUE] \in ClientRecord
           /\ [r EXCEPT !.doomed = TRUE].at = r.at
           /\ [r EXCEPT !.doomed = TRUE].ua = r.ua
           /\ [r EXCEPT !.doomed = TRUE].doomed
           /\ [r EXCEPT !.doomed = TRUE].transport = r.transport
BY DEF ClientRecord

(* A walk that goes on, or from which an account is taken.                 *)
LEMMA SeekMoves ==
    ASSUME NEW s \in Seeking, NEW n \in Node \cup {None}
    PROVE  /\ [s EXCEPT !.at = n] \in Seeking
           /\ [s EXCEPT !.torn = TRUE] \in Seeking
           /\ [s EXCEPT !.torn = TRUE].torn
BY DEF Seeking

(* Before asip_init there is nothing.                                      *)
LEMMA InitLInv == Init => LInv
<1>. SUFFICES ASSUME Init
              PROVE  LInv
  OBVIOUS
<1>. USE UserAgentsAssumption DEF Init, ClientRecord, Seeking, NoClient, NoSeek, NoCb
<1>1. Shape
  BY DEF Shape, State, Node, Stage
<1>2. Counts
  BY DEF Counts
<1>3. Stages
  BY DEF Stages
<1>4. Clients /\ Calling /\ Transports
  BY DEF Clients, Calling, Transports, Knows
<1>. QED
  BY <1>1, <1>2, <1>3, <1>4 DEF LInv

(* The types of the variables are kept by every step.                      *)
LEMMA NextShape ==
    ASSUME LInv, [Next]_vars
    PROVE  Shape'
<1>. USE UserAgentsAssumption
     DEF LInv, Shape, ring, login, NoCb, State, Code, Node, Stage
<1>0. NoSeek \in Seeking
  BY DEF NoSeek, Seeking
<1>1. CASE InitSip
  BY <1>1 DEF InitSip, Stages
<1>2. CASE CloseSip
  <2>. DEFINE kept == prev[Ring]
              ends == {u \in UA : life[u] = "live" /\ u # kept}
  <2>1. kept \in Node
    BY <1>2 DEF CloseSip
  <2>2. /\ next' = [n \in Node |-> IF n \in ends THEN None
                                   ELSE IF n = Ring THEN kept ELSE next[n]]
        /\ prev' = [n \in Node |-> IF n \in ends THEN None
                                   ELSE IF n = kept THEN Ring ELSE prev[n]]
        /\ life' = [u \in UA |-> IF u \in ends THEN "gone"
                                 ELSE IF u = kept THEN "left" ELSE life[u]]
        /\ state' = [u \in UA |-> IF u \in ends THEN "null" ELSE state[u]]
        /\ up' = FALSE /\ UNCHANGED <<doing, seek, cb>>
    BY <1>2 DEF CloseSip
  <2>3. \A u \in UA : life'[u] \in {"new", "live"} => u \notin ends /\ u # kept /\ life'[u] = life[u]
    BY <2>2
  <2>. HIDE DEF kept, ends
  <2>. QED
    BY <2>1, <2>2, <2>3
<1>3. ASSUME NEW u \in UA, LinkBack(u) \/ LinkForth(u)
      PROVE  Shape'
  BY <1>3 DEF LinkBack, LinkForth, Goes, Stages
<1>4. ASSUME NEW u \in UA, CreateUa(u)
      PROVE  Shape'
  BY <1>4 DEF CreateUa, MayCall, Goes
<1>5. ASSUME NEW u \in UA, DestroyUa(u)
      PROVE  Shape'
  <2>1. seek' \in Seeking
    <3>1. seek' = seek \/ seek' = [seek EXCEPT !.torn = TRUE]
      BY <1>5 DEF DestroyUa
    <3>2. seek \in Seeking /\ seek.at \in Node \cup {None}
      BY DEF Seeking
    <3>. QED
      BY <3>1, <3>2, SeekMoves
  <2>. QED
    BY <1>5, <2>1 DEF DestroyUa, Unlink, MayCall
<1>6. ASSUME NEW u \in UA,
             Register(u) \/ Unregister(u) \/ DropClient(u) \/ MakeClient(u) \/ ForgetClient(u)
      PROVE  Shape'
  BY <1>6 DEF Register, Unregister, Begin, DropClient, MakeClient, ForgetClient, Goes
<1>7. CASE RegCbOk \/ RegCbRefused \/ RegCbTimeout
  <2>1. /\ UNCHANGED <<up, life, doing, seek, next, prev>>
        /\ cb' = [cb EXCEPT !.at = "event"]
        /\ \E u, s : s \in State /\ state' = [state EXCEPT ![u] = s]
    <3>1. CASE RegCbOk
      BY <3>1 DEF RegCbOk, Writes
    <3>2. CASE RegCbRefused
      BY <3>2 DEF RegCbRefused, Writes
    <3>3. CASE RegCbTimeout
      <4>1. \E u, s, n : s \in State /\ Writes(u, s, n)
        BY <3>3 DEF RegCbTimeout
      <4>. QED
        BY <4>1 DEF Writes
    <3>. QED
      BY <1>7, <3>1, <3>2, <3>3
  <2>2. state' \in [UA -> State]
    BY <2>1
  <2>3. cb' \in [at : {"none", "write", "event"},
                  c : Client \cup {None}, code : Code \cup {"none"}]
    BY <2>1
  <2>. QED
    BY <2>1, <2>2, <2>3
<1>8. CASE RegCbReturn
  BY <1>8 DEF RegCbReturn
<1>9. CASE SeekStep \/ SeekEnd
  <2>1. seek.at \in UA => next[seek.at] \in Node \cup {None}
    OBVIOUS
  <2>2. ASSUME SeekStep
        PROVE  seek' \in Seeking
    <3>1. PICK n \in Node \cup {None} : seek' = [seek EXCEPT !.at = n]
      BY <2>1, <2>2 DEF SeekStep
    <3>2. seek \in Seeking
      OBVIOUS
    <3>. QED
      BY <3>1, <3>2, SeekMoves
  <2>3. seek' \in Seeking
    BY <1>0, <1>9, <2>2 DEF SeekEnd
  <2>. QED
    BY <1>9, <2>3 DEF SeekStep, SeekEnd
<1>10. ASSUME NEW u \in UA, StartSeek(u)
       PROVE  Shape'
  <2>1. Listed(u) \in BOOLEAN /\ next[Ring] \in Node \cup {None}
    BY DEF Listed
  <2>. HIDE DEF Listed
  <2>2. seek' \in Seeking
    BY <1>10, <2>1 DEF StartSeek, Seeking
  <2>. QED
    BY <1>10, <2>2 DEF StartSeek
<1>11. CASE \E c \in Client :
              \/ Refresh(c) \/ AnswerDoomed(c)
              \/ \E code \in Code, transport \in {"none", "up"} : Answer(c, code, transport)
  BY <1>11 DEF Refresh, AnswerDoomed, Answer
<1>12. CASE UNCHANGED vars
  BY <1>12 DEF vars
<1>. QED
  BY <1>1, <1>2, <1>3, <1>4, <1>5, <1>6, <1>7, <1>8, <1>9, <1>10, <1>11, <1>12
  DEF Next, Application, Polling

(* A call takes an account from one stage to the next.                     *)
LEMMA NextStages ==
    ASSUME LInv, [Next]_vars
    PROVE  Stages'
<1>. USE UserAgentsAssumption DEF LInv, Shape, Clients, Stages, Stage, Goes, MayCall
<1>1. CASE InitSip
  BY <1>1 DEF InitSip, login
<1>2. CASE CloseSip
  BY <1>2 DEF CloseSip
<1>3. ASSUME NEW u \in UA, CreateUa(u) \/ LinkBack(u) \/ LinkForth(u)
      PROVE  Stages'
  BY <1>3 DEF CreateUa, LinkBack, LinkForth, login
<1>4. ASSUME NEW u \in UA, DestroyUa(u)
      PROVE  Stages'
  BY <1>4 DEF DestroyUa
<1>5. ASSUME NEW u \in UA, Register(u) \/ Unregister(u)
      PROVE  Stages'
  BY <1>5 DEF Register, Unregister, Begin, ring
<1>6. ASSUME NEW u \in UA, DropClient(u) \/ MakeClient(u) \/ ForgetClient(u)
      PROVE  Stages'
  BY <1>6 DEF DropClient, MakeClient, ForgetClient, ring
<1>7. CASE UNCHANGED <<up, life, doing, regc>>
  BY <1>7
<1>8. CASE RegCbOk \/ RegCbRefused \/ RegCbTimeout \/ RegCbReturn \/ SeekStep \/ SeekEnd
  BY <1>7, <1>8 DEF RegCbOk, RegCbRefused, RegCbTimeout, RegCbReturn, SeekStep, SeekEnd,
                    Writes, ring, login
<1>9. ASSUME NEW u \in UA, StartSeek(u)
      PROVE  Stages'
  BY <1>7, <1>9 DEF StartSeek, ring, login
<1>10. ASSUME NEW c \in Client,
              \/ Refresh(c) \/ AnswerDoomed(c)
              \/ \E code \in Code, transport \in {"none", "up"} : Answer(c, code, transport)
       PROVE  Stages'
  BY <1>7, <1>10 DEF Refresh, AnswerDoomed, Answer, ring
<1>11. CASE UNCHANGED vars
  BY <1>7, <1>11 DEF vars, ring, login
<1>. QED
  BY <1>1, <1>2, <1>3, <1>4, <1>5, <1>6, <1>8, <1>9, <1>10, <1>11
  DEF Next, Application, Polling

-----------------------------------------------------------------------------
Registrations == Counts /\ Clients /\ Calling /\ Transports

(* Steps that touch no client and nothing that an account knows of one.    *)
LEMMA LoginUnchanged ==
    ASSUME LInv, UNCHANGED <<regc, client, cb, false_cont, streak>>,
           \A u \in UA : life[u] \in {"live", "gone"} => life'[u] = life[u],
           \A u \in UA : life'[u] = "live" /\ life[u] # "live" => life[u] = "new",
           \A u \in UA : life[u] = "live" => doing'[u] = doing[u]
    PROVE  Registrations'
<1>1. Counts' /\ Calling' /\ Transports'
  BY DEF LInv, Counts, Calling, Transports
<1>2. Clients'
  <2>. USE DEF LInv, Stages, Clients, Knows
  <2>1. \A c \in Client : client[c].at # "free" /\ life'[client[c].ua] = "live" =>
                            life[client[c].ua] = "live"
    OBVIOUS
  <2>2. \A u \in UA : life'[u] = "live" /\ regc[u] # None => life[u] = "live"
    OBVIOUS
  <2>. QED
    BY <2>1, <2>2
<1>. QED
  BY <1>1, <1>2 DEF Registrations

(* A call to register or unregister an account begins.                     *)
LEMMA BeginLogin ==
    ASSUME LInv, NEW u \in UA, Register(u) \/ Unregister(u)
    PROVE  Registrations'
<1>. USE UserAgentsAssumption DEF LInv, Shape
<1>1. /\ life[u] = "live" /\ doing[u] = "none"
      /\ UNCHANGED <<life, regc, client, cb, false_cont, streak>>
      /\ \A v \in UA \ {u} : doing'[v] = doing[v]
      /\ regc[u] # None => doing'[u] \in {"again", "out"}
  BY DEF Register, Unregister, Begin, MayCall, Goes, ring
<1>2. Counts' /\ Calling' /\ Transports'
  BY <1>1 DEF Counts, Calling, Transports
<1>3. Clients'
  BY <1>1 DEF Clients, Knows
<1>. QED
  BY <1>2, <1>3 DEF Registrations

(* The client of an account is told to go, or goes.                        *)
LEMMA DestroyedClient ==
    ASSUME LInv, NEW k \in Client \cup {None}
    PROVE  /\ DestroyClient(k) \in [Client -> ClientRecord]
           /\ \A c \in Client \ {k} : DestroyClient(k)[c] = client[c]
           /\ k # None =>
                /\ DestroyClient(k)[k].doomed \/ DestroyClient(k)[k].at = "free"
                /\ DestroyClient(k)[k].at = "free" => client[k].at # "calling"
                /\ DestroyClient(k)[k].at # "free" =>
                     /\ DestroyClient(k)[k].at = client[k].at
                     /\ DestroyClient(k)[k].ua = client[k].ua
                /\ \/ DestroyClient(k)[k].transport = client[k].transport
                   \/ DestroyClient(k)[k].transport = "none"
<1>. USE UserAgentsAssumption
<1>1. client \in [Client -> ClientRecord]
  BY DEF LInv, Clients
<1>2. CASE k = None
  BY <1>1, <1>2 DEF DestroyClient
<1>3. CASE k \in Client
  <2>. DEFINE b == IF client[k].at \in {"sent", "calling"}
                   THEN [client[k] EXCEPT !.doomed = TRUE] ELSE NoClient
  <2>1. client[k] \in ClientRecord
    BY <1>1, <1>3
  <2>2. /\ b \in ClientRecord /\ (b.doomed \/ b.at = "free")
        /\ b.at = "free" => client[k].at # "calling"
        /\ b.at # "free" => b.at = client[k].at /\ b.ua = client[k].ua
        /\ b.transport = client[k].transport \/ b.transport = "none"
    BY <2>1, DoomedClient, FreeClient
  <2>3. DestroyClient(k) = [client EXCEPT ![k] = b]
    BY <1>1, <1>3 DEF DestroyClient
  <2>. HIDE DEF b
  <2>. QED
    BY <1>1, <1>3, <2>2, <2>3
<1>. QED
  BY <1>2, <1>3

LEMMA DropLogin ==
    ASSUME LInv, NEW u \in UA, DropClient(u)
    PROVE  Registrations'
<1>. USE UserAgentsAssumption DEF LInv, Shape
<1>. DEFINE k == regc[u]
<1>1. /\ life[u] = "live" /\ Knows(u) /\ doing'[u] \in {"make", "forget"}
      /\ client' = DestroyClient(k)
      /\ UNCHANGED <<life, regc, cb, false_cont, streak>>
      /\ \A v \in UA \ {u} : doing'[v] = doing[v]
  BY DEF DropClient, Goes, ring, Stages, Knows
<1>2. k \in Client \cup {None}
  BY DEF Clients
<1>3. /\ client' \in [Client -> ClientRecord]
      /\ \A c \in Client \ {k} : client'[c] = client[c]
      /\ k # None =>
           /\ client'[k].doomed \/ client'[k].at = "free"
           /\ client'[k].at = "free" => client[k].at # "calling"
           /\ client'[k].at # "free" => client'[k].at = client[k].at /\ client'[k].ua = client[k].ua
           /\ client'[k].transport = client[k].transport \/ client'[k].transport = "none"
  BY <1>1, <1>2, DestroyedClient
<1>. HIDE DEF k
<1>4. k = regc[u]
  BY DEF k
<1>5. Clients'
  BY <1>1, <1>2, <1>3, <1>4 DEF Clients, Knows
<1>6. Calling'
  BY <1>1, <1>2, <1>3 DEF Calling
<1>7. cb.at = "write" => client'[cb.c].ua = client[cb.c].ua
  BY <1>1, <1>2, <1>3 DEF Calling
<1>8. Counts'
  BY <1>1, <1>7 DEF Counts
<1>9. Transports'
  <2>1. \A c \in Client : client[c].transport = "none" => client'[c].transport = "none"
    BY <1>2, <1>3
  <2>2. cb.at = "write" => cb.c \in Client /\ client[cb.c].ua \in UA
    BY DEF Calling, Clients
  <2>3. regc \in [UA -> Client \cup {None}]
    BY DEF Clients
  <2>. QED
    BY <1>1, <1>7, <2>1, <2>2, <2>3 DEF Transports
<1>. QED
  BY <1>5, <1>6, <1>8, <1>9 DEF Registrations

(* An account gets a new client, or none.                                  *)
LEMMA MakeLogin ==
    ASSUME LInv, NEW u \in UA, MakeClient(u) \/ ForgetClient(u)
    PROVE  Registrations'
<1>. USE UserAgentsAssumption DEF LInv, Shape
<1>1. /\ life[u] = "live" /\ doing[u] \in {"make", "forget"} /\ doing'[u] = "none"
      /\ UNCHANGED <<life, cb, false_cont, streak>>
      /\ \A v \in UA \ {u} : doing'[v] = doing[v]
  BY DEF MakeClient, ForgetClient, Goes, ring, Stages
<1>2. \A c \in Client : client[c].at # "free" /\ ~client[c].doomed => client[c].ua # u
  BY <1>1 DEF Clients, Knows
<1>3. CASE regc' = [regc EXCEPT ![u] = None] /\ client' = client
  <2>1. /\ regc' \in [UA -> Client \cup {None}] /\ regc'[u] = None
        /\ \A v \in UA \ {u} : regc'[v] = regc[v]
    BY <1>3 DEF Clients
  <2>2. Clients'
    BY <1>1, <1>2, <1>3, <2>1 DEF Clients, Knows
  <2>3. Counts' /\ Calling'
    BY <1>1, <1>3 DEF Counts, Calling
  <2>4. Transports'
    BY <1>1, <1>3, <2>1 DEF Transports, Calling, Clients
  <2>. QED
    BY <2>2, <2>3, <2>4 DEF Registrations
<1>4. ASSUME NEW c \in Client, NEW outcome \in {"sent", "idle"},
             client[c].at = "free", regc' = [regc EXCEPT ![u] = c],
             client' = [client EXCEPT ![c] = [NoClient EXCEPT !.at = outcome, !.ua = u]]
      PROVE  Registrations'
  <2>. DEFINE new == [NoClient EXCEPT !.at = outcome, !.ua = u]
  <2>1. /\ new \in ClientRecord /\ new.at = outcome /\ new.ua = u /\ ~new.doomed
        /\ new.transport = "none"
    BY ONLY NewClient, u \in UA, outcome \in {"sent", "idle"}
  <2>2. client' = [client EXCEPT ![c] = new]
    BY <1>4
  <2>. HIDE DEF new
  <2>3. /\ client'[c] = new /\ \A d \in Client : d # c => client'[d] = client[d]
        /\ client' \in [Client -> ClientRecord]
    BY <2>1, <2>2 DEF Clients
  <2>4. /\ regc' \in [UA -> Client \cup {None}] /\ regc'[u] = c
        /\ \A v \in UA \ {u} : regc'[v] = regc[v]
    BY <1>4 DEF Clients
  <2>5. Clients'
    <3>1. ASSUME NEW d \in Client, client'[d].at # "free"
          PROVE  /\ client'[d].ua \in UA /\ life'[client'[d].ua] \in {"live", "gone"}
                 /\ ~client'[d].doomed /\ life'[client'[d].ua] = "live" =>
                      /\ doing'[client'[d].ua] \notin {"make", "forget"}
                      /\ regc'[client'[d].ua] = d
      <4>1. CASE d = c
        BY <1>1, <2>1, <2>3, <2>4, <4>1 DEF Knows
      <4>2. CASE d # c
        BY <1>1, <1>2, <2>3, <2>4, <3>1, <4>2 DEF Clients, Knows
      <4>. QED
        BY <4>1, <4>2
    <3>2. ASSUME NEW v \in UA, Knows(v)', regc'[v] # None
          PROVE  /\ client'[regc'[v]].ua = v /\ ~client'[regc'[v]].doomed
                 /\ client'[regc'[v]].at # "free"
      <4>1. CASE v = u
        BY <2>1, <2>3, <2>4, <4>1
      <4>2. CASE v # u
        <5>1. Knows(v) /\ regc'[v] = regc[v] /\ regc[v] \in Client
          BY <1>1, <2>4, <3>2, <4>2 DEF Knows, Clients
        <5>. QED
          BY <1>4, <2>3, <5>1 DEF Clients
      <4>. QED
        BY <4>1, <4>2
    <3>. QED
      BY <2>3, <2>4, <3>1, <3>2 DEF Clients, Knows
  <2>6. cb.at # "none" => cb.c \in Client /\ cb.c # c /\ client'[cb.c] = client[cb.c]
                          /\ client[cb.c].ua \in UA
    BY <1>4, <2>3 DEF Calling, Clients
  <2>7. Calling'
    BY <1>1, <1>4, <2>1, <2>3, <2>6 DEF Calling
  <2>8. Counts'
    BY <1>1, <2>6 DEF Counts
  <2>9. Transports'
    <3>1. \A d \in Client : client[d].transport = "none" => client'[d].transport = "none"
      BY <2>1, <2>3
    <3>2. client'[c].transport = "none" /\ regc \in [UA -> Client \cup {None}]
      BY <2>1, <2>3 DEF Clients
    <3>. QED
      BY <1>1, <2>4, <2>6, <3>1, <3>2 DEF Transports
  <2>. QED
    BY <2>5, <2>7, <2>8, <2>9 DEF Registrations
<1>. QED
  BY <1>3, <1>4 DEF MakeClient, ForgetClient, login

(* An account is destroyed and knows its client no more.                   *)
LEMMA DestroyLogin ==
    ASSUME LInv, NEW u \in UA, DestroyUa(u)
    PROVE  Registrations'
<1>. USE UserAgentsAssumption DEF LInv, Shape
<1>1. /\ life[u] = "live" /\ life' = [life EXCEPT ![u] = "gone"]
      /\ regc' = [regc EXCEPT ![u] = None] /\ UNCHANGED <<doing, client, cb>>
      /\ false_cont' = [false_cont EXCEPT ![u] = 0] /\ streak' = [streak EXCEPT ![u] = None]
  BY DEF DestroyUa
<1>2. Clients'
  BY <1>1 DEF Clients, Knows
<1>3. Calling'
  BY <1>1 DEF Calling
<1>4. Counts'
  BY <1>1 DEF Counts
<1>5. Transports'
  <2>1. cb.at = "write" => client[cb.c].ua \in UA
    BY DEF Calling, Clients
  <2>2. \A v \in UA : regc'[v] = regc[v] \/ regc'[v] = None
    BY <1>1 DEF Clients
  <2>. QED
    BY <1>1, <2>1, <2>2 DEF Transports
<1>. QED
  BY <1>2, <1>3, <1>4, <1>5 DEF Registrations

(* With the endpoint the clients go.                                       *)
LEMMA CloseLogin ==
    ASSUME LInv, CloseSip
    PROVE  Registrations'
<1>. USE UserAgentsAssumption DEF LInv, Shape, NoCb
<1>. DEFINE kept == prev[Ring]
            ends == {u \in UA : life[u] = "live" /\ u # kept}
<1>1. /\ cb = NoCb /\ cb' = cb /\ client' = [c \in Client |-> NoClient]
      /\ regc' = [u \in UA |-> IF u \in ends THEN None ELSE regc[u]]
      /\ false_cont' = [u \in UA |-> IF u \in ends THEN 0 ELSE false_cont[u]]
      /\ streak' = [u \in UA |-> IF u \in ends THEN None ELSE streak[u]]
      /\ life' = [u \in UA |-> IF u \in ends THEN "gone"
                               ELSE IF u = kept THEN "left" ELSE life[u]]
  BY DEF CloseSip
<1>2. \A u \in UA : life'[u] # "live"
  BY <1>1
<1>. HIDE DEF kept, ends
<1>3. /\ client' \in [Client -> ClientRecord]
      /\ \A c \in Client : client'[c].at = "free"
  BY <1>1, FreeClient
<1>4. Clients'
  <2>1. regc' \in [UA -> Client \cup {None}]
    BY <1>1 DEF Clients
  <2>. QED
    BY <1>2, <1>3, <2>1 DEF Clients, Knows
<1>5. Calling' /\ Transports'
  BY <1>1, <1>3 DEF Calling, Transports
<1>6. Counts'
  BY <1>1 DEF Counts
<1>. QED
  BY <1>4, <1>5, <1>6 DEF Registrations

(* The steps of pjsip_regc: a refresh, and an answer to a client that is   *)
(* doomed or that calls back.                                              *)
LEMMA ClientLogin ==
    ASSUME LInv, NEW c \in Client,
           \/ Refresh(c) \/ AnswerDoomed(c)
           \/ \E code \in Code, transport \in {"none", "up"} : Answer(c, code, transport)
    PROVE  Registrations'
<1>. USE UserAgentsAssumption DEF LInv, Shape, PollFree
<1>1. client[c] \in ClientRecord /\ cb = NoCb /\ client \in [Client -> ClientRecord]
  BY DEF Refresh, AnswerDoomed, Answer, Clients
<1>2. UNCHANGED <<doing, regc, state, false_cont, streak, life>>
  BY DEF Refresh, AnswerDoomed, Answer, ring
<1>4. CASE AnswerDoomed(c)
  <2>1. /\ client[c].doomed /\ client[c].at = "sent" /\ client' = [client EXCEPT ![c] = NoClient]
        /\ cb' = cb
    BY <1>4 DEF AnswerDoomed
  <2>2. Clients'
    BY <1>1, <1>2, <2>1, FreeClient DEF Clients, Knows
  <2>3. Calling' /\ Counts' /\ Transports'
    BY <1>1, <1>2, <2>1, FreeClient DEF Calling, Counts, Transports, NoCb
  <2>. QED
    BY <2>2, <2>3 DEF Registrations
<1>5. CASE Refresh(c)
  <2>. DEFINE moved == [client[c] EXCEPT !.at = "sent", !.refresh = FALSE]
  <2>1. client[c].at = "idle" /\ client' = [client EXCEPT ![c] = moved] /\ cb' = cb
    BY <1>1, <1>5 DEF Refresh, ClientRecord
  <2>2. /\ moved \in ClientRecord /\ moved.at = "sent" /\ moved.ua = client[c].ua
        /\ moved.doomed <=> client[c].doomed
    BY ONLY <1>1 DEF ClientRecord
  <2>. HIDE DEF moved
  <2>3. Clients'
    BY <1>1, <1>2, <2>1, <2>2 DEF Clients, Knows
  <2>4. Calling' /\ Counts' /\ Transports'
    BY <1>1, <1>2, <2>1, <2>2 DEF Calling, Counts, Transports, NoCb
  <2>. QED
    BY <2>3, <2>4 DEF Registrations
<1>6. ASSUME NEW code \in Code, NEW transport \in {"none", "up"}, Answer(c, code, transport)
      PROVE  Registrations'
  <2>0. PICK refresh \in BOOLEAN : refresh = (code = "ok")
    OBVIOUS
  <2>. DEFINE moved == [client[c] EXCEPT !.at = "calling", !.refresh = refresh,
                                         !.transport = transport]
  <2>1. client' = [client EXCEPT ![c] = moved]
    <3>1. client' = [client EXCEPT ![c].at = "calling", ![c].refresh = refresh,
                                   ![c].transport = transport]
      BY <1>6, <2>0 DEF Answer
    <3>. QED
      BY ONLY <1>1, <3>1, c \in Client DEF ClientRecord
  <2>2. /\ moved \in ClientRecord /\ moved.at = "calling" /\ moved.ua = client[c].ua
        /\ moved.doomed <=> client[c].doomed
    BY ONLY <1>1, <2>0, transport \in {"none", "up"} DEF ClientRecord
  <2>3. /\ client[c].at = "sent" /\ ~client[c].doomed
        /\ code = "timeout" => false_cont[client[c].ua] > -MaxMisses
        /\ cb' = [at |-> "write", c |-> c, code |-> code]
    BY <1>6 DEF Answer
  <2>. HIDE DEF moved
  <2>4. /\ client'[c] = moved /\ \A d \in Client \ {c} : client'[d] = client[d]
        /\ client' \in [Client -> ClientRecord]
    BY <1>1, <2>1, <2>2
  <2>5. Clients'
    BY <1>2, <2>2, <2>3, <2>4 DEF Clients, Knows
  <2>6. Calling' /\ Counts'
    BY <1>1, <1>2, <2>2, <2>3, <2>4 DEF Calling, Counts, NoCb
  <2>7. Transports'
    <3>1. /\ client[c].ua \in UA
          /\ life[client[c].ua] = "live" => regc[client[c].ua] = c
          /\ life[client[c].ua] = "gone" => regc[client[c].ua] = None
          /\ life[client[c].ua] \in {"live", "gone"}
      BY <2>3 DEF Clients, Stages
    <3>. QED
      BY <1>2, <2>2, <2>3, <2>4, <3>1 DEF Transports
  <2>. QED
    BY <2>5, <2>6, <2>7 DEF Registrations
<1>. QED
  BY <1>4, <1>5, <1>6

(* reg_cb writes the answer into the account that the client names, which  *)
(* may have lost that client, or all of itself, meanwhile.                 *)
LEMMA WritingFacts ==
    ASSUME LInv, cb.at = "write"
    PROVE  /\ cb.c \in Client /\ client[cb.c] \in ClientRecord
           /\ client[cb.c].ua \in UA /\ client[cb.c].at = "calling"
           /\ regc[client[cb.c].ua] \in Client \cup {None}
           /\ cb.code \in Code
BY DEF LInv, Shape, Clients, Calling

(* What the call-back of a client writes keeps the counts in step.         *)
LEMMA WriteLogin ==
    ASSUME LInv, RegCbOk \/ RegCbRefused \/ RegCbTimeout
    PROVE  Registrations'
<1>. USE UserAgentsAssumption
<1>1. cb.at = "write"
  BY DEF RegCbOk, RegCbRefused, RegCbTimeout
<1>2. PICK u \in UA, c \in Client, code \in Code :
        /\ u = client[cb.c].ua /\ c = cb.c /\ code = cb.code
        /\ regc[u] \in Client \cup {None} /\ client[c] \in ClientRecord
  BY <1>1, WritingFacts
<1>3. PICK s \in State, n \in -MaxMisses..2 :
        /\ Writes(u, s, n)
        /\ \/ n = 2 /\ streak' = [streak EXCEPT ![u] = 0]
           \/ n = 0 /\ streak' = [streak EXCEPT ![u] = None]
           \/ /\ n = false_cont[u] - 1
              /\ streak' = [streak EXCEPT ![u] = IF @ = None THEN None ELSE @ + 1]
  <2>1. 2 \in -MaxMisses..2 /\ 0 \in -MaxMisses..2
    OBVIOUS
  <2>2. CASE RegCbOk
    BY <1>2, <2>1, <2>2 DEF RegCbOk, State
  <2>3. CASE RegCbRefused
    BY <1>2, <2>1, <2>3 DEF RegCbRefused, State
  <2>4. CASE RegCbTimeout
    <3>1. false_cont[u] - 1 \in -MaxMisses..2
      <4>1. cb.code = "timeout"
        BY <2>4 DEF RegCbTimeout
      <4>2. false_cont[u] \in -MaxMisses..2 /\ false_cont[u] > -MaxMisses
        BY <1>1, <1>2, <4>1 DEF LInv, Counts
      <4>. QED
        BY <4>2
    <3>2. "null" \in State /\ "disconnect" \in State
      BY DEF State
    <3>3. streak' = [streak EXCEPT ![u] = IF @ = None THEN None ELSE @ + 1]
      BY <1>2, <2>4 DEF RegCbTimeout
    <3>4. PICK s \in State : Writes(u, s, false_cont[u] - 1)
      BY <1>2, <2>4, <3>2 DEF RegCbTimeout
    <3>. QED
      BY <3>1, <3>3, <3>4
  <2>. QED
    BY <2>2, <2>3, <2>4
<1>4. /\ state' = [state EXCEPT ![u] = s] /\ false_cont' = [false_cont EXCEPT ![u] = n]
      /\ cb'.at = "event" /\ cb'.c = c /\ cb'.code = code
      /\ UNCHANGED <<regc, life, doing>>
  BY <1>2, <1>3 DEF Writes, ring, LInv, Shape
<1>5. /\ client' \in [Client -> ClientRecord]
      /\ \A d \in Client : /\ client'[d].at = client[d].at /\ client'[d].ua = client[d].ua
                           /\ client'[d].doomed = client[d].doomed
  <2>1. client \in [Client -> ClientRecord]
    BY DEF LInv, Clients
  <2>2. client' = client \/ \E d \in Client : client' = [client EXCEPT ![d].transport = "shut"]
    <3>1. CASE RegCbTimeout /\ (regc[u] = None \/ client[regc[u]].at = "free")
      BY <1>2, <3>1 DEF RegCbTimeout
    <3>2. CASE RegCbTimeout /\ regc[u] # None
      BY <1>2, <3>2 DEF RegCbTimeout
    <3>. QED
      BY <3>1, <3>2 DEF RegCbOk, RegCbRefused
  <2>. QED
    BY ONLY <2>1, <2>2 DEF ClientRecord
<1>6. Clients'
  BY <1>4, <1>5 DEF LInv, Clients, Knows
<1>7. Calling'
  BY <1>1, <1>2, <1>4, <1>5 DEF LInv, Calling
<1>8. Counts'
  <2>1. false_cont \in [UA -> -MaxMisses..2] /\ streak \in [UA -> Int \cup {None}]
    BY DEF LInv, Counts
  <2>2. ASSUME NEW v \in UA, streak'[v] # None
        PROVE  false_cont'[v] = 2 - streak'[v] /\ streak'[v] >= 0
    <3>1. CASE v = u
      BY <1>3, <1>4, <2>1, <2>2, <3>1 DEF LInv, Counts
    <3>2. CASE v # u
      BY <1>3, <1>4, <2>1, <2>2, <3>2 DEF LInv, Counts
    <3>. QED
      BY <3>1, <3>2
  <2>3. streak' \in [UA -> Int \cup {None}] /\ false_cont' \in [UA -> -MaxMisses..2]
    BY <1>3, <1>4, <2>1
  <2>. QED
    BY <1>4, <2>2, <2>3 DEF Counts
<1>9. Transports'
  BY <1>4 DEF Transports
<1>. QED
  BY <1>6, <1>7, <1>8, <1>9 DEF Registrations

(* reg_cb returns; a client that was doomed meanwhile goes.                *)
LEMMA ReturnLogin ==
    ASSUME LInv, RegCbReturn
    PROVE  Registrations'
<1>. USE UserAgentsAssumption
<1>1. PICK c \in Client : c = cb.c /\ client[c] \in ClientRecord /\ client[c].at = "calling"
  BY DEF RegCbReturn, LInv, Shape, Calling, Clients
<1>. DEFINE back == IF client[c].doomed THEN NoClient ELSE [client[c] EXCEPT !.at = "idle"]
<1>2. client' = [client EXCEPT ![c] = back] /\ cb' = NoCb
  BY <1>1 DEF RegCbReturn
<1>3. UNCHANGED <<life, doing, regc, false_cont, streak>>
  BY DEF RegCbReturn, ring
<1>4. /\ back \in ClientRecord /\ back.at \in {"free", "idle"}
      /\ client[c].doomed => back.at = "free"
      /\ ~client[c].doomed => back.at = "idle" /\ back.ua = client[c].ua /\ ~back.doomed
  BY ONLY <1>1, FreeClient DEF ClientRecord
<1>. HIDE DEF back
<1>5. Clients'
  BY <1>1, <1>2, <1>3, <1>4 DEF LInv, Clients, Knows
<1>6. Calling'
  BY <1>1, <1>2, <1>4 DEF LInv, Calling, Clients, NoCb
<1>7. Counts' /\ Transports'
  BY <1>2, <1>3 DEF LInv, Counts, Transports, NoCb
<1>. QED
  BY <1>5, <1>6, <1>7 DEF Registrations

(* No step makes an account and its client lose sight of one another.      *)
LEMMA NextLogin ==
    ASSUME LInv, [Next]_vars
    PROVE  Registrations'
<1>1. CASE InitSip \/ SeekStep \/ SeekEnd \/ UNCHANGED vars \/ \E u \in UA : StartSeek(u)
  <2>1. UNCHANGED <<life, doing, regc, client, cb, false_cont, streak>>
    BY <1>1 DEF InitSip, SeekStep, SeekEnd, StartSeek, ring, login, vars
  <2>. QED
    BY <2>1, LoginUnchanged
<1>2. ASSUME NEW u \in UA, CreateUa(u) \/ LinkBack(u) \/ LinkForth(u)
      PROVE  Registrations'
  <2>1. UNCHANGED <<regc, client, cb, false_cont, streak>>
    BY <1>2 DEF CreateUa, LinkBack, LinkForth, login
  <2>2. /\ life[u] \in {"none", "new"} /\ \A v \in UA \ {u} : life'[v] = life[v]
        /\ life'[u] = "live" => life[u] = "new"
        /\ \A v \in UA \ {u} : doing'[v] = doing[v]
    BY <1>2 DEF CreateUa, LinkBack, LinkForth, Goes, LInv, Shape, Stages
  <2>. QED
    BY <2>1, <2>2, LoginUnchanged
<1>3. CASE CloseSip
  BY <1>3, CloseLogin
<1>4. ASSUME NEW u \in UA, \/ DestroyUa(u) \/ Register(u) \/ Unregister(u)
                           \/ DropClient(u) \/ MakeClient(u) \/ ForgetClient(u)
      PROVE  Registrations'
  BY <1>4, DestroyLogin, BeginLogin, DropLogin, MakeLogin
<1>5. CASE RegCbOk \/ RegCbRefused \/ RegCbTimeout \/ RegCbReturn
  BY <1>5, WriteLogin, ReturnLogin
<1>6. CASE \E c \in Client :
             \/ Refresh(c) \/ AnswerDoomed(c)
             \/ \E code \in Code, transport \in {"none", "up"} : Answer(c, code, transport)
  BY <1>6, ClientLogin
<1>. QED
  BY <1>1, <1>2, <1>3, <1>4, <1>5, <1>6 DEF Next, Application, Polling

(* The invariant of the registrations holds in every state of every        *)
(* behaviour, whatever locks the application takes.                        *)
THEOREM InductiveInvariant == Spec => []LInv
<1>1. LInv /\ [Next]_vars => LInv'
  <2>1. ASSUME LInv, [Next]_vars
        PROVE  Shape' /\ Stages' /\ Registrations'
    BY <2>1, NextShape, NextStages, NextLogin
  <2>. QED
    BY <2>1 DEF LInv, Registrations
<1>. QED
  BY <1>1, InitLInv, PTL DEF Spec

(* The types that the run checks follow from the invariant.                *)
LEMMA LInvTypeOK == LInv => TypeOK
<1>. SUFFICES ASSUME LInv
              PROVE  TypeOK
  OBVIOUS
<1>1. streak \in [UA -> (0..2 + MaxMisses) \cup {None}]
  <2>. SUFFICES ASSUME NEW u \in UA, streak[u] # None
                PROVE  streak[u] \in 0..2 + MaxMisses
    BY DEF LInv, Counts
  <2>1. streak[u] \in Int /\ false_cont[u] \in -MaxMisses..2 /\ false_cont[u] = 2 - streak[u]
        /\ streak[u] >= 0
    BY DEF LInv, Counts
  <2>. QED
    BY <2>1, UserAgentsAssumption
<1>. QED
  BY <1>1 DEF TypeOK, LInv, Shape, Counts, Clients, ClientRecord, Seeking

(* What refreshes or answers for an account that is there is the one       *)
(* client that the account knows, and between two calls an account knows   *)
(* no other, although reg_cb takes no lock.                                *)
THEOREM ClientsAreKnown == Spec => []ClientsMatchAccounts
<1>1. LInv => ClientsMatchAccounts
  <2>. SUFFICES ASSUME LInv
                PROVE  ClientsMatchAccounts
    OBVIOUS
  <2>1. TypeOK
    BY LInvTypeOK
  <2>2. \A c \in Client :
          client[c].at # "free" /\ ~client[c].doomed /\ Listed(client[c].ua) =>
            regc[client[c].ua] = c
    BY DEF LInv, Clients, Listed
  <2>3. \A u \in UA :
          Listed(u) /\ doing[u] = "none" /\ regc[u] # None =>
            /\ client[regc[u]].at # "free" /\ ~client[regc[u]].doomed
            /\ client[regc[u]].ua = u
    BY DEF LInv, Clients, Listed, Knows
  <2>. QED
    BY <2>1, <2>2, <2>3 DEF ClientsMatchAccounts
<1>. QED
  BY <1>1, InductiveInvariant, PTL

(* Only reg_cb gives a transport up, and only after a timeout.             *)
LEMMA OnlyTimeoutShuts ==
    ASSUME LInv, [Next]_vars, ~RegCbTimeout,
           NEW c \in Client, client'[c].transport = "shut"
    PROVE  client[c].transport = "shut"
<1>1. client \in [Client -> ClientRecord] /\ client[c] \in ClientRecord
  BY DEF LInv, Clients
<1>2. CASE client' = client
  BY <1>2
<1>3. CASE client' = [d \in Client |-> NoClient]
  BY <1>3 DEF NoClient
<1>4. ASSUME NEW d \in Client,
             \/ client' = [client EXCEPT ![d] = NoClient]
             \/ client' = [client EXCEPT ![d].at = "sent", ![d].refresh = FALSE]
             \/ client' = [client EXCEPT ![d].at = "idle"]
      PROVE  client[c].transport = "shut"
  BY <1>1, <1>4 DEF NoClient, ClientRecord
<1>5. ASSUME NEW d \in Client, NEW code \in Code, NEW transport \in {"none", "up"},
             client' = [client EXCEPT ![d].at = "calling", ![d].refresh = (code = "ok"),
                                      ![d].transport = transport]
      PROVE  client[c].transport = "shut"
  BY <1>1, <1>5 DEF ClientRecord
<1>6. CASE InitSip \/ SeekStep \/ SeekEnd \/ RegCbOk \/ RegCbRefused \/ UNCHANGED vars
  BY <1>2, <1>6 DEF InitSip, SeekStep, SeekEnd, RegCbOk, RegCbRefused, vars, login
<1>7. CASE CloseSip
  BY <1>3, <1>7 DEF CloseSip
<1>8. CASE RegCbReturn
  <2>1. PICK d \in Client : d = cb.c
    BY <1>8 DEF RegCbReturn, LInv, Calling
  <2>2. client' = [client EXCEPT ![d] = IF @.doomed THEN NoClient ELSE [@ EXCEPT !.at = "idle"]]
    BY <1>8, <2>1 DEF RegCbReturn
  <2>. QED
    BY <1>1, <2>2 DEF NoClient, ClientRecord
<1>9. ASSUME NEW d \in Client, Refresh(d) \/ AnswerDoomed(d)
      PROVE  client[c].transport = "shut"
  BY <1>4, <1>9 DEF Refresh, AnswerDoomed
<1>10. ASSUME NEW d \in Client, NEW code \in Code, NEW transport \in {"none", "up"},
              Answer(d, code, transport)
       PROVE  client[c].transport = "shut"
  BY <1>5, <1>10 DEF Answer
<1>11. ASSUME NEW u \in UA,
              \/ CreateUa(u) \/ LinkBack(u) \/ LinkForth(u) \/ DestroyUa(u) \/ StartSeek(u)
              \/ Register(u) \/ Unregister(u) \/ ForgetClient(u)
       PROVE  client[c].transport = "shut"
  BY <1>2, <1>11 DEF CreateUa, LinkBack, LinkForth, DestroyUa, StartSeek, Register, Unregister,
                     Begin, ForgetClient, login
<1>12. ASSUME NEW u \in UA, DropClient(u)
       PROVE  client[c].transport = "shut"
  <2>1. client' = DestroyClient(regc[u]) /\ regc[u] \in Client \cup {None}
    BY <1>12 DEF DropClient, LInv, Clients
  <2>2. CASE c # regc[u]
    <3>1. client'[c] = client[c]
      BY <2>1, <2>2, DestroyedClient
    <3>. QED
      BY <3>1
  <2>3. CASE c = regc[u]
    <3>1. client'[c].transport = client[c].transport \/ client'[c].transport = "none"
      BY <2>1, <2>3, DestroyedClient, UserAgentsAssumption
    <3>. QED
      BY <3>1
  <2>. QED
    BY <2>2, <2>3
<1>13. ASSUME NEW u \in UA, MakeClient(u)
       PROVE  client[c].transport = "shut"
  <2>1. ASSUME NEW d \in Client, NEW outcome \in {"sent", "idle"},
               client' = [client EXCEPT ![d] = [NoClient EXCEPT !.at = outcome, !.ua = u]]
        PROVE  client[c].transport = "shut"
    <3>1. [NoClient EXCEPT !.at = outcome, !.ua = u].transport = "none"
      BY DEF NoClient
    <3>. QED
      BY <1>1, <2>1, <3>1
  <2>. QED
    BY <1>2, <1>13, <2>1 DEF MakeClient
<1>. QED
  BY <1>6, <1>7, <1>8, <1>9, <1>10, <1>11, <1>12, <1>13 DEF Next, Application, Polling

(* A transport is given up at the third timeout in a row since the last    *)
(* login at the earliest.                                                  *)
THEOREM TransportOutlivesTwoTimeouts == Spec => TransportOutlivesTimeouts
<1>1. ASSUME LInv, [Next]_vars, NEW c \in Client,
             client[c].transport = "up", client'[c].transport = "shut"
      PROVE  streak[client[c].ua] \notin {0, 1}
  <2>1. RegCbTimeout /\ cb.at = "write"
    BY <1>1, OnlyTimeoutShuts DEF RegCbTimeout
  <2>2. PICK u \in UA : u = client[cb.c].ua /\ regc[u] \in Client \cup {None}
    BY <1>1, <2>1, WritingFacts
  <2>3. client \in [Client -> ClientRecord] /\ client' # client
    BY <1>1 DEF LInv, Clients
  <2>4. /\ regc[u] # None /\ client[regc[u]].transport # "none"
        /\ false_cont[u] - 1 < 0 /\ client' = [client EXCEPT ![regc[u]].transport = "shut"]
    BY <2>1, <2>2, <2>3 DEF RegCbTimeout
  <2>5. regc[u] = cb.c
    BY <1>1, <2>1, <2>2, <2>4 DEF LInv, Transports
  <2>6. c = cb.c
    BY <1>1, <2>2, <2>3, <2>4, <2>5
  <2>7. false_cont[u] \in Int /\ streak[u] \in Int \cup {None}
        /\ (streak[u] # None => false_cont[u] = 2 - streak[u] /\ streak[u] >= 0)
    BY <1>1, <2>2, UserAgentsAssumption DEF LInv, Counts
  <2>. QED
    BY <2>2, <2>4, <2>6, <2>7, UserAgentsAssumption
<1>2. LInv /\ [Next]_vars =>
        [\A c \in Client :
           client[c].transport = "up" /\ client'[c].transport = "shut" =>
             streak[client[c].ua] \notin {0, 1}]_vars
  BY <1>1
<1>. QED
  BY <1>2, InductiveInvariant, PTL DEF Spec, TransportOutlivesTimeouts

-----------------------------------------------------------------------------
(* The nodes of the ring; the last account of a session that asip_close    *)
(* left as it was is not one of them any more.                             *)
Members == {Ring} \cup {u \in UA : life[u] = "live"}

(* One call of the application is under way at a time.                     *)
Inserting ==
    /\ \A u, v \in UA : doing[u] # "none" /\ doing[v] # "none" => u = v
    /\ ~up => seek = NoSeek

(* The ring ends in t, which is still the last node for a look-up while an *)
(* account is half inserted behind it.                                     *)
Closed(t) ==
    /\ \A n \in Members : next[n] \in Members /\ (next[n] = Ring <=> n = t)
    /\ \A n \in Members : next[n] # Ring => prev[next[n]] = n
    /\ \A n \in Members \ {Ring} : prev[n] \in Members /\ next[prev[n]] = n
    /\ \A u \in UA : doing[u] \in {"back", "forth"} => next[u] = Ring /\ prev[u] = t
    /\ \A u \in UA : doing[u] = "forth" => prev[Ring] = u
    /\ (\A u \in UA : doing[u] # "forth") => prev[Ring] = t

RingIsClosed ==
    /\ \A u \in UA : life[u] \in {"none", "gone"} => next[u] = None /\ prev[u] = None
    /\ up => \E t \in Members : Closed(t)

(* The order in which the accounts were inserted, r, is the order in which *)
(* next leads through them, and a look-up during which none is destroyed   *)
(* has what it wants before it.                                            *)
Ordered(r) ==
    /\ \A n, m \in Members \ {Ring} : r[n] = r[m] => n = m
    /\ \A n \in Members \ {Ring} : next[n] # Ring => r[n] < r[next[n]]
    /\ \A m \in Members \ {Ring} : next[Ring] # Ring /\ r[next[Ring]] <= r[m]
    /\ \A n, m \in Members \ {Ring} :
         r[n] < r[m] => next[n] # Ring /\ r[next[n]] <= r[m]
    /\ seek # NoSeek /\ ~seek.torn => seek.at \in Members /\ seek.want \in UA
    /\ seek.was /\ ~seek.torn =>
         seek.want \in Members /\ seek.at # Ring /\ r[seek.at] <= r[seek.want]

RingIsOrdered == up => \E r \in [UA -> Int] : Ordered(r)

RInv == Inserting /\ RingIsClosed /\ RingIsOrdered

(* Before asip_init there is no ring.                                      *)
LEMMA InitRInv == Init => RInv
BY UserAgentsAssumption
   DEF Init, RInv, Inserting, RingIsClosed, RingIsOrdered, Members, Node, NoSeek

(* Steps that leave the ring and the look-up alone.                        *)
LEMMA RingUnchanged ==
    ASSUME RInv, UNCHANGED <<up, next, prev, life, seek>>, Inserting',
           \A u \in UA : doing'[u] = doing[u]
                         \/ (doing[u] \notin {"back", "forth"} /\ doing'[u] \notin {"back", "forth"})
    PROVE  RInv'
<1>1. Members' = Members
  BY DEF Members
<1>2. ASSUME NEW t \in Members, Closed(t)
      PROVE  Closed(t)'
  BY <1>1, <1>2 DEF Closed
<1>3. RingIsClosed'
  BY <1>1, <1>2 DEF RInv, RingIsClosed
<1>4. RingIsOrdered'
  BY <1>1 DEF RInv, RingIsOrdered, Ordered
<1>. QED
  BY <1>3, <1>4 DEF RInv

(* Calls to register and to unregister leave the ring alone.               *)
LEMMA RegisterRing ==
    ASSUME InSections, LInv, RInv, NEW u \in UA,
           Register(u) \/ Unregister(u) \/ DropClient(u) \/ MakeClient(u) \/ ForgetClient(u)
    PROVE  RInv'
<1>. USE DEF LInv, Shape
<1>1. UNCHANGED <<up, next, prev, life, seek>>
  BY DEF Register, Unregister, Begin, DropClient, MakeClient, ForgetClient, ring
<1>2. /\ \A v \in UA \ {u} : doing'[v] = doing[v]
      /\ doing[u] \notin {"back", "forth"} /\ doing'[u] \notin {"back", "forth"}
  BY DEF Register, Unregister, Begin, DropClient, MakeClient, ForgetClient, Goes, MayCall
<1>3. \A v \in UA \ {u} : doing[v] = "none"
  BY DEF Register, Unregister, Begin, DropClient, MakeClient, ForgetClient, MayCall,
         RInv, Inserting
<1>4. Inserting'
  BY <1>1, <1>2, <1>3 DEF RInv, Inserting
<1>. QED
  BY <1>1, <1>2, <1>4, RingUnchanged

(* asip_init makes an empty ring; asip_close takes it apart.               *)
LEMMA InitCloseRing ==
    ASSUME LInv, RInv, InitSip \/ CloseSip
    PROVE  RInv'
<1>. USE UserAgentsAssumption DEF LInv, Shape, RInv, Node, Members, NoSeek
<1>1. CASE InitSip
  <2>1. seek = NoSeek /\ \A u \in UA : life[u] # "live" /\ doing[u] = "none"
    BY <1>1 DEF InitSip, Inserting, Stages
  <2>2. Inserting'
    BY <1>1, <2>1 DEF InitSip, Inserting
  <2>3. Ring \in Members' /\ Closed(Ring)'
    BY <1>1, <2>1 DEF InitSip, Closed
  <2>4. RingIsClosed'
    BY <1>1, <2>3 DEF InitSip, RingIsClosed
  <2>5. [u \in UA |-> 0] \in [UA -> Int] /\ Ordered([u \in UA |-> 0])'
    BY <1>1, <2>1 DEF InitSip, Ordered
  <2>. QED
    BY <2>2, <2>4, <2>5 DEF RingIsOrdered
<1>2. CASE CloseSip
  <2>. DEFINE kept == prev[Ring]
              ends == {u \in UA : life[u] = "live" /\ u # kept}
  <2>1. /\ up /\ seek = NoSeek /\ up' = FALSE /\ UNCHANGED <<doing, seek>>
        /\ \A u \in UA : doing[u] = "none"
        /\ next' = [n \in Node |-> IF n \in ends THEN None
                                   ELSE IF n = Ring THEN kept ELSE next[n]]
        /\ prev' = [n \in Node |-> IF n \in ends THEN None
                                   ELSE IF n = kept THEN Ring ELSE prev[n]]
        /\ life' = [u \in UA |-> IF u \in ends THEN "gone"
                                 ELSE IF u = kept THEN "left" ELSE life[u]]
    BY <1>2 DEF CloseSip
  <2>2. kept \in Members
    BY <2>1 DEF RingIsClosed, Closed
  <2>3. ASSUME NEW u \in UA, life'[u] \in {"none", "gone"}
        PROVE  next'[u] = None /\ prev'[u] = None
    <3>1. CASE u \in ends
      BY <2>1, <3>1
    <3>2. CASE u \notin ends
      <4>1. life[u] \in {"none", "gone"} /\ u # kept /\ u # Ring
        BY <2>1, <2>2, <2>3, <3>2
      <4>. QED
        BY <2>1, <3>2, <4>1 DEF RingIsClosed
    <3>. QED
      BY <3>1, <3>2
  <2>. QED
    BY <2>1, <2>3 DEF Inserting, RingIsClosed, RingIsOrdered
<1>. QED
  BY <1>1, <1>2

(* An account is inserted in three steps; for a look-up the ring is whole  *)
(* before, between and after them, and the new account is its last.        *)
LEMMA CreateRing ==
    ASSUME InSections, LInv, RInv, NEW u \in UA, CreateUa(u)
    PROVE  RInv'
<1>. USE UserAgentsAssumption DEF LInv, Shape, RInv, Node, Members, Stage
<1>1. PICK t \in Members : Closed(t)
  BY DEF CreateUa, MayCall, RingIsClosed
<1>2. /\ up /\ u # Ring /\ life[u] = "none" /\ \A v \in UA : doing[v] = "none"
      /\ prev[Ring] = t /\ next[t] = Ring
  BY <1>1 DEF CreateUa, MayCall, Closed
<1>3. /\ Members' = Members /\ u \notin Members
      /\ next' = [next EXCEPT ![u] = Ring] /\ prev' = [prev EXCEPT ![u] = t]
      /\ life' = [life EXCEPT ![u] = "new"] /\ doing' = [doing EXCEPT ![u] = "back"]
      /\ UNCHANGED <<up, seek>>
  BY <1>2 DEF CreateUa, Goes
<1>4. Inserting'
  BY <1>2, <1>3 DEF Inserting
<1>5. Closed(t)'
  BY <1>1, <1>2, <1>3 DEF Closed
<1>6. RingIsClosed'
  BY <1>2, <1>3, <1>5 DEF RingIsClosed
<1>7. RingIsOrdered'
  BY <1>2, <1>3 DEF RingIsOrdered, Ordered
<1>. QED
  BY <1>4, <1>6, <1>7

(* The first half of the insertion writes the back links, ...              *)
LEMMA LinkBackRing ==
    ASSUME LInv, RInv, NEW u \in UA, LinkBack(u)
    PROVE  RInv'
<1>. USE UserAgentsAssumption DEF LInv, Shape, RInv, Node, Members, Stage
<1>0. doing[u] = "back" /\ life[u] = "new" /\ u \notin Members /\ up /\ u # Ring
  BY DEF LinkBack, Stages
<1>1. PICK t \in Members : Closed(t)
  BY <1>0 DEF RingIsClosed
<1>2. /\ \A v \in UA \ {u} : doing[v] = "none"
      /\ next[u] = Ring /\ prev[u] = t /\ next[t] = Ring /\ t # u
  BY <1>0, <1>1 DEF Inserting, Closed
<1>3. /\ Members' = Members /\ prev' = [prev EXCEPT ![Ring] = u]
      /\ doing' = [doing EXCEPT ![u] = "forth"]
      /\ UNCHANGED <<up, seek, next, life>>
  BY <1>2 DEF LinkBack, Goes
<1>4. Inserting'
  BY <1>2, <1>3 DEF Inserting
<1>5. Closed(t)'
  BY <1>0, <1>1, <1>2, <1>3 DEF Closed
<1>6. RingIsClosed'
  BY <1>0, <1>3, <1>5 DEF RingIsClosed
<1>7. RingIsOrdered'
  BY <1>3 DEF RingIsOrdered, Ordered
<1>. QED
  BY <1>4, <1>6, <1>7

(* ... and the second half closes the ring the other way.                  *)
LEMMA LinkForthRing ==
    ASSUME LInv, RInv, NEW u \in UA, LinkForth(u)
    PROVE  RInv'
<1>. USE UserAgentsAssumption DEF LInv, Shape, RInv, Node, Stage
<1>1. doing[u] = "forth" /\ life[u] = "new" /\ u \notin Members /\ up /\ u # Ring
  BY DEF LinkForth, Stages, Members
<1>2. PICK t \in Members : t = prev[u] /\ Closed(t)
  BY <1>1 DEF RingIsClosed, Closed
<1>3. /\ prev[Ring] = u /\ next[u] = Ring /\ t # u
      /\ next' = [next EXCEPT ![t] = u] /\ next'[t] = u /\ next'[u] = Ring
      /\ \A n \in Node : n # t => next'[n] = next[n]
      /\ UNCHANGED <<up, seek, prev>> /\ doing' = [doing EXCEPT ![u] = "none"]
      /\ life' = [life EXCEPT ![u] = "live"]
      /\ \A v \in UA \ {u} : doing[v] = "none"
  BY <1>1, <1>2 DEF LinkForth, Goes, Closed, Inserting, Members
<1>4. Members' = Members \cup {u} /\ Members \subseteq Node
  BY <1>1, <1>3 DEF Members
<1>5. Inserting'
  BY <1>1, <1>3 DEF Inserting
<1>6. \A v \in UA : doing'[v] = "none"
  BY <1>3
<1>7. RingIsClosed'
  <2>1. \A v \in UA : life'[v] \in {"none", "gone"} => next'[v] = None /\ prev'[v] = None
    <3>. SUFFICES ASSUME NEW v \in UA, life'[v] \in {"none", "gone"}
                  PROVE  next'[v] = None /\ prev'[v] = None
      OBVIOUS
    <3>1. v # u /\ v # t /\ life[v] \in {"none", "gone"}
      BY <1>2, <1>3 DEF Members
    <3>. QED
      BY <1>3, <3>1 DEF RingIsClosed
  <2>2. \A n \in Members : next[n] \in Members /\ (next[n] = Ring <=> n = t)
    BY <1>2 DEF Closed
  <2>3. \A n \in Members' : next'[n] \in Members' /\ (next'[n] = Ring <=> n = u)
    BY <1>1, <1>3, <1>4, <2>2
  <2>4. \A n \in Members' : next'[n] # Ring => prev'[next'[n]] = n
    <3>. SUFFICES ASSUME NEW n \in Members', next'[n] # Ring
                  PROVE  prev[next'[n]] = n
      BY <1>3
    <3>1. n \in Members /\ n \in Node
      BY <1>3, <1>4
    <3>2. CASE n = t
      BY <1>2, <1>3, <3>2
    <3>3. CASE n # t
      BY <1>2, <1>3, <3>1, <3>3 DEF Closed
    <3>. QED
      BY <3>2, <3>3
  <2>5. \A n \in Members' \ {Ring} : prev'[n] \in Members' /\ next'[prev'[n]] = n
    <3>1. \A n \in Members \ {Ring} : prev[n] \in Members /\ next[prev[n]] = n /\ prev[n] # t
      BY <1>2, <1>3, <2>2 DEF Closed
    <3>. QED
      <4>. SUFFICES ASSUME NEW n \in Members' \ {Ring}
                    PROVE  prev[n] \in Members' /\ next'[prev[n]] = n
        BY <1>3
      <4>1. CASE n = u
        <5>1. t \in Members' /\ prev[u] = t /\ next'[t] = u
          BY <1>2, <1>3, <1>4
        <5>. QED
          BY <4>1, <5>1
      <4>2. CASE n # u
        <5>1. n \in Members \ {Ring} /\ prev[n] \in Node
          BY <1>4, <3>1, <4>2
        <5>. QED
          BY <1>3, <1>4, <3>1, <5>1
      <4>. QED
        BY <4>1, <4>2
  <2>. QED
    <3>1. u \in Members' /\ Closed(u)'
      BY <1>3, <1>4, <1>6, <2>3, <2>4, <2>5 DEF Closed
    <3>. QED
      BY <1>3, <2>1, <3>1 DEF RingIsClosed
<1>8. RingIsOrdered'
  <2>1. PICK r \in [UA -> Int] : Ordered(r)
    BY <1>1 DEF RingIsOrdered
  <2>. DEFINE k == IF t = Ring THEN 0 ELSE r[t] + 1
              q == [r EXCEPT ![u] = k]
  <2>2. /\ \A n \in Members : n \in UA \/ n = Ring
        /\ \A n \in Members : n \in UA => r[n] \in Int
    BY DEF Members
  <2>3. k \in Int
    BY <1>2, <2>2
  <2>. HIDE DEF k
  <2>4. q \in [UA -> Int] /\ q[u] = k /\ \A n \in UA : n # u => q[n] = r[n]
    <3>1. r \in [UA -> Int] /\ u \in UA
      OBVIOUS
    <3>. QED
      BY ONLY <2>3, <3>1
  <2>. HIDE DEF q
  <2>5. \A n \in Members : next[n] \in Members /\ (next[n] = Ring <=> n = t)
    BY <1>2 DEF Closed
  <2>6. \A n \in Members \ {Ring} : t # Ring /\ r[n] <= r[t]
    <3>1. /\ \A m \in Members \ {Ring} : next[Ring] # Ring
          /\ \A n, m \in Members \ {Ring} : r[n] < r[m] => next[n] # Ring
      BY <2>1 DEF Ordered
    <3>. QED
      BY <1>2, <2>2, <2>5, <3>1
  <2>7. \A n \in Members \ {Ring} : n \in UA /\ n # u /\ q[n] = r[n] /\ q[n] < q[u]
    BY <1>1, <1>2, <2>2, <2>4, <2>6 DEF k
  <2>8. Ordered(q)'
    <3>1. \A n, m \in Members' \ {Ring} : q[n] = q[m] => n = m
      <4>1. \A n, m \in Members \ {Ring} : r[n] = r[m] => n = m
        BY <2>1 DEF Ordered
      <4>. QED
        BY <1>4, <2>2, <2>3, <2>4, <2>7, <4>1
    <3>2. ASSUME NEW m \in Members' \ {Ring}
          PROVE  next'[Ring] # Ring /\ q[next'[Ring]] <= q[m]
      <4>1. CASE t = Ring
        BY <1>3, <1>4, <2>3, <2>4, <2>6, <3>2, <4>1
      <4>2. CASE t # Ring
        <5>1. next'[Ring] = next[Ring] /\ next[Ring] \in Members \ {Ring}
          BY <1>3, <2>5, <4>2 DEF Members
        <5>2. m \in Members => r[next[Ring]] <= r[m]
          BY <2>1, <3>2 DEF Ordered
        <5>. QED
          BY <1>4, <2>2, <2>3, <2>4, <2>7, <3>2, <5>1, <5>2
      <4>. QED
        BY <4>1, <4>2
    <3>3. ASSUME NEW n \in Members' \ {Ring}, NEW m \in Members' \ {Ring}, q[n] < q[m]
          PROVE  next'[n] # Ring /\ q[next'[n]] <= q[m]
      <4>1. n \in Members \ {Ring}
        BY <1>4, <2>2, <2>3, <2>4, <2>7, <3>3
      <4>2. m \in Members => r[n] < r[m] /\ next[n] # Ring /\ r[next[n]] <= r[m]
        BY <2>1, <2>7, <3>3, <4>1 DEF Ordered
      <4>3. CASE n = t
        BY <1>1, <1>3, <1>4, <2>3, <2>4, <2>5, <3>3, <4>1, <4>2, <4>3
      <4>4. CASE n # t
        <5>1. next'[n] = next[n] /\ next[n] \in Members \ {Ring}
          BY <1>3, <1>4, <2>5, <4>1, <4>4
        <5>. QED
          BY <1>4, <2>2, <2>3, <2>4, <2>7, <3>3, <4>2, <5>1
      <4>. QED
        BY <4>3, <4>4
    <3>4. seek # NoSeek /\ ~seek.torn => seek.at \in Members' /\ seek.want \in UA
      BY <1>4, <2>1 DEF Ordered
    <3>5. seek.was /\ ~seek.torn => seek.want \in Members' /\ seek.at # Ring /\ q[seek.at] <= q[seek.want]
      <4>1. seek.was => seek # NoSeek
        BY DEF NoSeek
      <4>2. seek.was /\ ~seek.torn =>
              /\ seek.want \in Members \ {Ring} /\ seek.at \in Members \ {Ring}
              /\ r[seek.at] <= r[seek.want]
        BY <2>1, <4>1 DEF Ordered
      <4>. QED
        BY <1>4, <2>7, <4>2
    <3>6. ASSUME NEW n \in Members' \ {Ring}, next'[n] # Ring
          PROVE  q[n] < q[next'[n]]
      <4>1. n \in Members \ {Ring} /\ n \in Node
        BY <1>3, <1>4, <3>6
      <4>2. CASE n = t
        BY <1>3, <2>7, <4>1, <4>2
      <4>3. CASE n # t
        <5>1. next'[n] = next[n] /\ next[n] \in Members \ {Ring} /\ r[n] < r[next[n]]
          BY <1>3, <2>1, <2>5, <4>1, <4>3 DEF Ordered
        <5>. QED
          BY <2>7, <4>1, <5>1
      <4>. QED
        BY <4>2, <4>3
    <3>. QED
      BY <1>3, <3>1, <3>2, <3>3, <3>4, <3>5, <3>6 DEF Ordered
  <2>. QED
    BY <2>4, <2>8 DEF RingIsOrdered
<1>. QED
  BY <1>5, <1>7, <1>8

(* Destroying an account leaves the others in the ring, in their order.    *)
LEMMA DestroyRing ==
    ASSUME InSections, LInv, RInv, NEW u \in UA, DestroyUa(u)
    PROVE  RInv'
<1>. USE UserAgentsAssumption DEF LInv, Shape, RInv, Node
<1>1. /\ up /\ u # Ring /\ u \in Members \ {Ring}
      /\ \A v \in UA : doing[v] = "none"
      /\ next' = Unlink(u, next, prev) /\ prev' = Unlink(u, prev, next)
      /\ UNCHANGED <<up, doing>> /\ life' = [life EXCEPT ![u] = "gone"]
      /\ seek' = IF seek = NoSeek THEN seek ELSE [seek EXCEPT !.torn = TRUE]
  BY DEF DestroyUa, MayCall, Members
<1>0. PICK t \in Members : Closed(t) /\ t = prev[Ring]
  BY <1>1 DEF RingIsClosed, Closed
<1>2. PICK p \in Members, s \in Members :
        /\ p = prev[u] /\ s = next[u] /\ next[p] = u
        /\ s # Ring => prev[s] = u
        /\ s = Ring => prev[Ring] = u
  BY <1>0, <1>1 DEF Closed
<1>3. Members' = Members \ {u} /\ Members \subseteq Node
  BY <1>1 DEF Members
<1>4. /\ next' = [[next EXCEPT ![p] = s] EXCEPT ![u] = None]
      /\ prev' = [[prev EXCEPT ![s] = p] EXCEPT ![u] = None]
  BY <1>1, <1>2 DEF Unlink
<1>5. /\ prev[Ring] \in Members
      /\ \A n \in Members : next[n] \in Members /\ (next[n] = Ring <=> n = prev[Ring])
      /\ \A n \in Members : next[n] # Ring => prev[next[n]] = n
      /\ \A n \in Members \ {Ring} : prev[n] \in Members /\ next[prev[n]] = n
  BY <1>0 DEF Closed
<1>6. PICK r \in [UA -> Int] : Ordered(r)
  BY <1>1 DEF RingIsOrdered
<1>7. p # u /\ s # u
  <2>1. next[u] # Ring => r[u] < r[next[u]]
    BY <1>1, <1>6 DEF Ordered
  <2>2. r[u] \in Int
    OBVIOUS
  <2>. QED
    BY <1>1, <1>2, <2>1, <2>2
<1>8. /\ next'[p] = s /\ next'[u] = None
      /\ \A n \in Node \ {p, u} : next'[n] = next[n]
      /\ prev'[s] = p /\ prev'[u] = None
      /\ \A n \in Node \ {s, u} : prev'[n] = prev[n]
  BY <1>1, <1>2, <1>3, <1>4, <1>7
<1>9. Inserting'
  BY <1>1 DEF Inserting
<1>10. Ring \in Members'
  BY DEF Members
<1>11. RingIsClosed'
  <2>1. \A v \in UA : life'[v] \in {"none", "gone"} => next'[v] = None /\ prev'[v] = None
    <3>. SUFFICES ASSUME NEW v \in UA, v # u, life'[v] \in {"none", "gone"}
                  PROVE  next'[v] = None /\ prev'[v] = None
      BY <1>8
    <3>1. v \notin Members /\ v \in Node /\ life[v] \in {"none", "gone"}
      BY <1>1 DEF Members
    <3>. QED
      BY <1>2, <1>8, <3>1 DEF RingIsClosed
  <2>2. prev'[Ring] \in Members'
    BY <1>2, <1>3, <1>5, <1>7, <1>8, <1>10
  <2>3. \A n \in Members' : next'[n] \in Members' /\ (next'[n] = Ring <=> n = prev'[Ring])
    <3>. SUFFICES ASSUME NEW n \in Members'
                  PROVE  next'[n] \in Members' /\ (next'[n] = Ring <=> n = prev'[Ring])
      OBVIOUS
    <3>0. n \in Members /\ n # u /\ n \in Node
      BY <1>3
    <3>1. CASE n = p
      BY <1>1, <1>2, <1>3, <1>5, <1>7, <1>8, <1>10, <3>1
    <3>2. CASE n # p
      <4>1. next'[n] = next[n] /\ next[n] # u
        BY <1>1, <1>2, <1>5, <1>8, <3>0, <3>2
      <4>2. s = Ring => next[n] # Ring
        BY <1>2, <1>5, <3>0
      <4>. QED
        BY <1>1, <1>2, <1>3, <1>5, <1>8, <1>10, <3>0, <3>2, <4>1, <4>2
    <3>. QED
      BY <3>1, <3>2
  <2>4. \A n \in Members' : next'[n] # Ring => prev'[next'[n]] = n
    <3>. SUFFICES ASSUME NEW n \in Members', next'[n] # Ring
                  PROVE  prev'[next'[n]] = n
      OBVIOUS
    <3>0. n \in Members /\ n # u /\ n \in Node
      BY <1>3
    <3>1. CASE n = p
      BY <1>8, <3>1
    <3>2. CASE n # p
      <4>1. next'[n] = next[n] /\ next[n] # u /\ prev[next[n]] = n /\ next[n] \in Members
        BY <1>1, <1>2, <1>5, <1>8, <3>0, <3>2
      <4>2. next[n] # s
        BY <1>2, <3>0, <4>1
      <4>. QED
        BY <1>3, <1>8, <4>1, <4>2
    <3>. QED
      BY <3>1, <3>2
  <2>5. \A n \in Members' \ {Ring} : prev'[n] \in Members' /\ next'[prev'[n]] = n
    <3>. SUFFICES ASSUME NEW n \in Members' \ {Ring}
                  PROVE  prev'[n] \in Members' /\ next'[prev'[n]] = n
      OBVIOUS
    <3>0. n \in Members \ {Ring} /\ n # u /\ n \in Node
      BY <1>3
    <3>1. CASE n = s
      BY <1>2, <1>3, <1>7, <1>8, <3>1
    <3>2. CASE n # s
      <4>1. prev'[n] = prev[n] /\ prev[n] \in Members /\ next[prev[n]] = n
        BY <1>5, <1>8, <3>0, <3>2
      <4>2. prev[n] # u /\ prev[n] # p
        BY <1>2, <3>0, <3>2, <4>1
      <4>. QED
        BY <1>3, <1>8, <4>1, <4>2
    <3>. QED
      BY <3>1, <3>2
  <2>. QED
    <3>1. PICK q \in Members' : q = prev'[Ring]
      BY <2>2
    <3>2. Closed(q)'
      BY <1>1, <2>3, <2>4, <2>5, <3>1 DEF Closed
    <3>. QED
      BY <1>1, <2>1, <3>2 DEF RingIsClosed
<1>12. Ordered(r)'
  <2>1. \A n \in Members \ {Ring} : r[n] \in Int
    BY DEF Members
  <2>2. /\ \A n, m \in Members \ {Ring} : r[n] = r[m] => n = m
        /\ \A n \in Members \ {Ring} : next[n] # Ring => r[n] < r[next[n]]
        /\ \A m \in Members \ {Ring} : next[Ring] # Ring /\ r[next[Ring]] <= r[m]
        /\ \A n, m \in Members \ {Ring} :
             r[n] < r[m] => next[n] # Ring /\ r[next[n]] <= r[m]
    BY <1>6 DEF Ordered
  <2>3. p # Ring => r[p] < r[u]
    BY <1>1, <1>2, <2>2
  <2>4. ASSUME NEW m \in Members' \ {Ring}, r[u] < r[m]
        PROVE  s # Ring /\ r[s] <= r[m]
    BY <1>1, <1>2, <1>3, <2>2, <2>4
  <2>5. ASSUME NEW n \in Members' \ {Ring}, next'[n] # Ring
        PROVE  r[n] < r[next'[n]]
    <3>0. n \in Members \ {Ring} /\ n # u /\ n \in Node
      BY <1>3, <2>5
    <3>1. CASE n = p
      BY <1>1, <1>2, <1>8, <2>1, <2>2, <2>3, <2>5, <3>0, <3>1
    <3>2. CASE n # p
      BY <1>8, <2>2, <2>5, <3>0, <3>2
    <3>. QED
      BY <3>1, <3>2
  <2>6. ASSUME NEW m \in Members' \ {Ring}
        PROVE  next'[Ring] # Ring /\ r[next'[Ring]] <= r[m]
    <3>0. m \in Members \ {Ring} /\ m # u
      BY <1>3, <2>6
    <3>1. CASE p = Ring
      <4>1. r[u] < r[m]
        BY <1>1, <1>2, <2>1, <2>2, <3>0, <3>1
      <4>. QED
        BY <1>8, <2>4, <3>1, <4>1
    <3>2. CASE p # Ring
      BY <1>1, <1>8, <2>2, <3>0, <3>2
    <3>. QED
      BY <3>1, <3>2
  <2>7. ASSUME NEW n \in Members' \ {Ring}, NEW m \in Members' \ {Ring}, r[n] < r[m]
        PROVE  next'[n] # Ring /\ r[next'[n]] <= r[m]
    <3>0. /\ n \in Members \ {Ring} /\ n # u /\ n \in Node
          /\ m \in Members \ {Ring} /\ m # u
      BY <1>3, <2>7
    <3>1. CASE n = p
      <4>1. r[u] < r[m]
        BY <1>1, <1>2, <2>1, <2>2, <2>7, <3>0, <3>1
      <4>. QED
        BY <1>8, <2>4, <3>1, <4>1
    <3>2. CASE n # p
      BY <1>8, <2>2, <2>7, <3>0, <3>2
    <3>. QED
      BY <3>1, <3>2
  <2>8. \A n, m \in Members' \ {Ring} : r[n] = r[m] => n = m
    BY <1>3, <2>2
  <2>. QED
    <3>1. seek' = NoSeek \/ seek'.torn
      BY <1>1, SeekMoves DEF Seeking
    <3>2. ~seek'.was \/ seek'.torn
      BY <3>1 DEF NoSeek
    <3>. QED
      BY <2>5, <2>6, <2>7, <2>8, <3>1, <3>2 DEF Ordered
<1>. QED
  BY <1>9, <1>11, <1>12 DEF RingIsOrdered

(* A look-up never passes the account that it looks for.                   *)
LEMMA SeekRing ==
    ASSUME LInv, RInv, SeekStep \/ SeekEnd \/ \E u \in UA : StartSeek(u)
    PROVE  RInv'
<1>. USE UserAgentsAssumption
<1>1. UNCHANGED <<up, next, prev, life, doing>>
  BY DEF SeekStep, SeekEnd, StartSeek, ring
<1>2. Members' = Members
  BY <1>1 DEF Members
<1>3. up
  BY DEF SeekStep, SeekEnd, StartSeek, PollFree, RInv, Inserting, NoSeek
<1>4. PICK r \in [UA -> Int] : Ordered(r)
  BY <1>3 DEF RInv, RingIsOrdered
<1>5. PICK t \in Members : Closed(t)
  BY <1>3 DEF RInv, RingIsClosed
<1>6. /\ \A n \in Members : next[n] \in Members
      /\ \A n \in Members \ {Ring} : n \in UA /\ r[n] \in Int
      /\ Ring \in Members
      /\ \A u \in UA : u \in Members <=> life[u] = "live"
  BY <1>5 DEF Members, Closed
<1>7. /\ seek' # NoSeek /\ ~seek'.torn => seek'.at \in Members /\ seek'.want \in UA
      /\ seek'.was /\ ~seek'.torn =>
           seek'.want \in Members /\ seek'.at # Ring /\ r[seek'.at] <= r[seek'.want]
  <2>1. ASSUME NEW u \in UA, StartSeek(u)
        PROVE  /\ seek'.at \in Members /\ seek'.want = u
               /\ seek'.was => u \in Members /\ seek'.at # Ring /\ r[seek'.at] <= r[u]
    <3>1. seek'.at = next[Ring] /\ seek'.want = u /\ (seek'.was <=> life[u] = "live")
      BY <2>1 DEF StartSeek, Listed
    <3>. QED
      BY <1>4, <1>6, <3>1 DEF Ordered
  <2>2. ASSUME SeekStep, ~seek'.torn
        PROVE  /\ seek'.at \in Members /\ seek'.want \in UA
               /\ seek'.was => /\ seek'.want \in Members /\ seek'.at # Ring
                               /\ r[seek'.at] <= r[seek'.want]
    <3>1. /\ seek'.at = next[seek.at] /\ seek'.want = seek.want /\ seek'.was = seek.was
          /\ seek'.torn = seek.torn
      BY <2>2 DEF SeekStep, LInv, Shape, Seeking
    <3>2. /\ seek # NoSeek /\ ~seek.torn /\ seek.at \in UA
          /\ life[seek.want] # "gone" => seek.at # seek.want
      BY <2>2, <3>1 DEF SeekStep, Found, NoSeek
    <3>3. seek.at \in Members \ {Ring} /\ seek.want \in UA
      BY <1>4, <3>2 DEF Ordered
    <3>4. ASSUME seek.was
          PROVE  next[seek.at] # Ring /\ r[next[seek.at]] <= r[seek.want]
      <4>1. seek.want \in Members /\ r[seek.at] <= r[seek.want] /\ seek.want # Ring
        BY <1>4, <3>2, <3>3, <3>4 DEF Ordered
      <4>2. seek.at # seek.want
        BY <1>6, <3>2, <3>3, <4>1
      <4>3. r[seek.at] # r[seek.want]
        BY <1>4, <3>3, <4>1, <4>2 DEF Ordered
      <4>4. r[seek.at] < r[seek.want]
        BY <1>6, <3>3, <4>1, <4>3
      <4>. QED
        BY <1>4, <3>3, <4>1, <4>4 DEF Ordered
    <3>5. seek.was => seek.want \in Members
      BY <1>4, <3>2 DEF Ordered
    <3>. QED
      BY <1>6, <3>1, <3>3, <3>4, <3>5
  <2>3. SeekEnd => seek' = NoSeek /\ ~seek'.was
    BY DEF SeekEnd, NoSeek
  <2>. QED
    BY <1>6, <2>1, <2>2, <2>3
<1>8. Inserting'
  BY <1>1, <1>3 DEF RInv, Inserting
<1>9. RingIsClosed'
  BY <1>1, <1>2 DEF RInv, RingIsClosed, Closed
<1>10. Ordered(r)'
  BY <1>1, <1>2, <1>4, <1>7 DEF Ordered
<1>. QED
  BY <1>8, <1>9, <1>10 DEF RInv, RingIsOrdered

(* Every step of an application that keeps to asip_start keeps the ring.   *)
LEMMA NextRing ==
    ASSUME InSections, LInv, RInv, [Next]_vars
    PROVE  RInv'
<1>1. CASE InitSip \/ CloseSip
  BY <1>1, InitCloseRing
<1>2. ASSUME NEW u \in UA, CreateUa(u) \/ LinkBack(u) \/ LinkForth(u) \/ DestroyUa(u)
      PROVE  RInv'
  BY <1>2, CreateRing, LinkBackRing, LinkForthRing, DestroyRing
<1>3. ASSUME NEW u \in UA,
             Register(u) \/ Unregister(u) \/ DropClient(u) \/ MakeClient(u) \/ ForgetClient(u)
      PROVE  RInv'
  BY <1>3, RegisterRing
<1>4. CASE UNCHANGED <<up, ring, doing, seek>>
  <2>1. UNCHANGED <<up, next, prev, life, doing, seek>>
    BY <1>4 DEF ring
  <2>2. Inserting'
    BY <2>1 DEF RInv, Inserting
  <2>. QED
    BY <2>1, <2>2, RingUnchanged
<1>5. CASE RegCbOk \/ RegCbRefused \/ RegCbTimeout \/ RegCbReturn \/ UNCHANGED vars
  BY <1>4, <1>5 DEF RegCbOk, RegCbRefused, RegCbTimeout, RegCbReturn, Writes, vars
<1>6. CASE SeekStep \/ SeekEnd \/ \E u \in UA : StartSeek(u)
  BY <1>6, SeekRing
<1>7. ASSUME NEW c \in Client,
             \/ Refresh(c) \/ AnswerDoomed(c)
             \/ \E code \in Code, transport \in {"none", "up"} : Answer(c, code, transport)
      PROVE  RInv'
  BY <1>4, <1>7 DEF Refresh, AnswerDoomed, Answer
<1>. QED
  BY <1>1, <1>2, <1>3, <1>5, <1>6, <1>7 DEF Next, Application, Polling

(* The invariant of the ring holds as long as the calls are kept apart.    *)
THEOREM RingInvariant ==
    ASSUME InSections
    PROVE  Spec => []RInv
<1>1. LInv /\ RInv /\ [Next]_vars => RInv'
  BY NextRing
<1>. QED
  BY <1>1, InitRInv, InductiveInvariant, PTL DEF Spec

(* A look-up during which no account is destroyed finds what was there,    *)
(* and the ring is whole when none is being inserted.                      *)
THEOREM LookUpsFind ==
    ASSUME InSections
    PROVE  Spec => []AccountsAreFound
<1>1. LInv /\ RInv => AccountsAreFound
  <2>. SUFFICES ASSUME LInv, RInv
                PROVE  AccountsAreFound
    OBVIOUS
  <2>. USE UserAgentsAssumption DEF LInv, RInv, Node, Members
  <2>1. ASSUME seek # NoSeek, ~seek.torn
        PROVE  seek.at \in Node /\ (seek.at = Ring => ~seek.was)
    <3>1. up
      BY <2>1 DEF Inserting
    <3>2. PICK r \in [UA -> Int] : Ordered(r)
      BY <3>1 DEF RingIsOrdered
    <3>. QED
      BY <2>1, <3>2 DEF Ordered
  <2>2. ASSUME up, \A u \in UA : doing[u] \notin {"back", "forth"},
               NEW n \in Node \ {u \in UA : life[u] = "left"},
               NEW m \in Node \ {u \in UA : life[u] = "left"}
        PROVE  /\ n # Ring => (next[n] \in Node <=> Listed(n))
               /\ next[n] = m => prev[m] = n
    <3>1. PICK t \in Members : Closed(t) /\ prev[Ring] = t
      BY <2>2 DEF RingIsClosed, Closed
    <3>2. n \in Members => /\ next[n] \in Members
                           /\ next[n] # Ring => prev[next[n]] = n
                           /\ next[n] = Ring => n = prev[Ring]
      BY <3>1 DEF Closed
    <3>3. n \notin Members => n \in UA /\ life[n] \in {"none", "gone"}
      BY <2>2 DEF Stages, Shape
    <3>4. n \notin Members => next[n] = None
      BY <3>3 DEF RingIsClosed
    <3>. QED
      BY <3>2, <3>3, <3>4 DEF Listed
  <2>. QED
    BY <2>1, <2>2 DEF AccountsAreFound
<1>. QED
  BY <1>1, RingInvariant, InductiveInvariant, PTL
=============================================================================
