---------------------------- MODULE SoundControl ----------------------------
(***************************************************************************)
(* The sound control of src/core_media/core_sound.c: it connects a stream  *)
(* port (a call) with the audio source and the audio player that the       *)
(* configuration names, each the sound system or a media module.  The five *)
(* modes differ in what is made, in who moves the frames and in what has   *)
(* to be given back when something fails half-way.                         *)
(*                                                                         *)
(* One thread creates, starts, stops, mutes and destroys the control.  The *)
(* clock thread and the two threads of a sound stream call back meanwhile; *)
(* no lock stands between them.  The life of the media ports that are made *)
(* and destroyed here is in MediaWav.                                      *)
(***************************************************************************)
EXTENDS Naturals, Sequences, SequencesExt

CONSTANTS
    Factory,       \* names of audio factories, besides the sound system
    ThreadMulti    \* thread_multi: a clock of its own beside a sound stream

ASSUME SoundAssumption == ThreadMulti \in BOOLEAN /\ "system_sound" \notin Factory

Name     == Factory \cup {"system_sound"}
Combined == {"mix_playback", "mix_capture"}
Mode     == {"snd_full", "mod_full", "mod_mix"} \cup Combined
Device   == {"clock", "aud", "strm"}                \* what runs call-backs
Resource == Device \cup {"media", "input", "output", "lport"}
Driver   == {"clock", "rec", "play"}                \* the threads that do

VARIABLES
    mode,      \* port_dtl->mode
    op,        \* the call under way, "idle" between calls, "none": no control
    todo,      \* what the call still does
    held,      \* the ports, clock and stream that exist
    going,     \* the devices that are started
    cb,        \* the moves each driver has left in its call-back
    taken,     \* the driver has the frame of its first move: "sound", "silence"
    mute,
    late       \* frames of the source heard since mute, up to 2

vars == <<mode, op, todo, held, going, cb, taken, mute, late>>

Init ==
    /\ mode = "snd_full"
    /\ op = "none"
    /\ todo = <<>>
    /\ held = {}
    /\ going = {}
    /\ cb = [d \in Driver |-> <<>>]
    /\ taken = [d \in Driver |-> "nothing"]
    /\ mute = FALSE
    /\ late = 0

-----------------------------------------------------------------------------
(* How the names in [audio] select the mode. *)
ModeOf(source, player) ==
    CASE source = player /\ source = "system_sound" -> "snd_full"
      [] source = player /\ source # "system_sound" -> "mod_full"
      [] source # player /\ "system_sound" \notin {source, player} -> "mod_mix"
      [] source # player /\ source = "system_sound" -> "mix_playback"
      [] source # player /\ player = "system_sound" -> "mix_capture"

OwnClock == IF ThreadMulti THEN <<"clock">> ELSE <<>>

(* The media ports of each mode. *)
Ports(m) ==
    CASE m = "snd_full" -> <<>>
      [] m = "mod_full" -> <<"media">>
      [] m = "mod_mix"  -> <<"input", "output">>
      [] m \in Combined -> <<"lport">>

(* What acore_media_sound_create_control makes, in its order.              *)
Makes(m) ==
    CASE m = "snd_full" -> <<"aud">>
      [] m \in {"mod_full", "mod_mix"} -> Ports(m) \o <<"clock">>
      [] m \in Combined -> Ports(m) \o <<"strm">> \o OwnClock

Calls(c, s) == [i \in DOMAIN s |-> <<c, s[i]>>]

(* acore_media_sound_start and acore_media_sound_stop. *)
Runs(m) ==
    CASE m \in {"mod_full", "mod_mix"} -> <<"clock">>
      [] m \in Combined                -> OwnClock \o <<"strm">>
      [] m = "snd_full"                -> <<"aud">>

(* A device is stopped before it is destroyed. *)
Ends(s) == FlattenSeq([i \in DOMAIN s |-> <<<<"stop", s[i]>>, <<"free", s[i]>>>>])

(* A move takes a frame from the source to the stream port ("in") or from  *)
(* there to the player ("out"), via a media port or the sound device.      *)
Move(dir, via) == [dir |-> dir, via |-> via]

(* Faulty variants of the definitions that follow. *)

GivesBackOutput(m, r) == IF m = "mod_mix" THEN <<"output">> ELSE <<"media">>

FreesPortsFirst(m) == Calls("free", Ports(m)) \o Ends(Runs(m))

MutedInDevice(m) == m.dir = "in" /\ mute /\ m.via \in Device

ClockMovesInput(m) ==
    IF m = "mod_full" THEN <<Move("in", "media")>>
    ELSE IF m = "mod_mix" THEN <<Move("in", "input")>>
    ELSE <<>>

(* What it destroys when r cannot be made.  With the two ports of mod_mix  *)
(* it tries both, and then destroys the one that it has.                   *)
GivesBack(m, r) ==
    CASE m = "mod_full" /\ r = "clock" -> <<"media">>
      [] m = "mod_mix" /\ r = "clock"  -> <<"input", "output">>
      [] m = "mod_mix" /\ r = "output" -> IF "input" \in held THEN <<"input">> ELSE <<>>
      [] m = "mod_mix" /\ r = "input"  -> <<"output">>
      [] m \in Combined /\ r = "strm"  -> <<"lport">>
      [] m \in Combined /\ r = "clock" -> <<"lport", "strm">>
      [] OTHER                         -> <<>>

(* acore_media_sound_destroy: what calls back goes first, then the ports. *)
Frees(m) == Ends(Runs(m)) \o Calls("free", Ports(m))

-----------------------------------------------------------------------------
(* acore_clock_cb *)
ClockMoves(m) ==
    CASE m = "mod_full"     -> <<Move("in", "media"), Move("out", "media")>>
      [] m = "mod_mix"      -> <<Move("in", "input"), Move("out", "output")>>
      [] m = "mix_capture"  -> <<Move("in", "lport")>>
      [] m = "mix_playback" -> <<Move("out", "lport")>>
      [] m = "snd_full"     -> <<>>

Stream(m) == IF m = "snd_full" THEN "aud" ELSE "strm"

(* What a call-back does: acore_clock_cb, sound_rec_cb, sound_play_cb.     *)
(* Without a clock of its own a sound stream drives the module's side too. *)
Moves(d, m) ==
    LET along == IF ThreadMulti THEN <<>> ELSE ClockMoves(m)
    IN  CASE d = "clock" -> ClockMoves(m)
          [] d = "rec"   -> <<Move("in", Stream(m))>> \o along
          [] d = "play"  -> along \o <<Move("out", Stream(m))>>

(* The device a driver belongs to; the direction of a combined stream is   *)
(* that of the side the sound system has (prm.dir).                        *)
Of(d) == IF d = "clock" THEN "clock" ELSE Stream(mode)

Called(d) ==
    CASE d = "clock" -> TRUE
      [] d = "rec"   -> mode \in {"snd_full", "mix_playback"}
      [] d = "play"  -> mode \in {"snd_full", "mix_capture"}

Quiet(r) == \A d \in Driver : Of(d) = r => cb[d] = <<>>

app == <<mode, op, todo, held, going, mute>>

(* External: a started clock or stream calls back when the last call-back  *)
(* of that thread is over.                                                 *)
CallBack(d) ==
    /\ Called(d)
    /\ Of(d) \in going
    /\ cb[d] = <<>>
    /\ cb' = [cb EXCEPT ![d] = Moves(d, mode)]
    /\ UNCHANGED <<app, taken, late>>

(* The flag is for the frames of the source, whoever moves them. *)
Muted(m) == m.dir = "in" /\ mute

(* put_frame and get_frame: the frame is asked for, with the value of mute *)
(* at that time, ...                                                       *)
TakeFrame(d) ==
    /\ cb[d] # <<>>
    /\ taken[d] = "nothing"
    /\ taken' = [taken EXCEPT ![d] =
                    IF Muted(Head(cb[d])) THEN "silence" ELSE "sound"]
    /\ UNCHANGED <<app, cb, late>>

(* ... and handed on.                                                      *)
GiveFrame(d) ==
    /\ taken[d] # "nothing"
    /\ taken' = [taken EXCEPT ![d] = "nothing"]
    /\ cb' = [cb EXCEPT ![d] = Tail(@)]
    /\ late' = IF mute /\ taken[d] = "sound" /\ Head(cb[d]).dir = "in"
               THEN IF late = 2 THEN 2 ELSE late + 1
               ELSE late
    /\ UNCHANGED app

-----------------------------------------------------------------------------
frames == <<cb, taken, late>>

(* acore_media_sound_create_control, for names that the configuration      *)
(* gives; without [audio], or for a stream that is not audio, it returns   *)
(* before anything is made.                                                *)
Create(source, player) ==
    /\ op = "none"
    /\ op' = "create"
    /\ mode' = ModeOf(source, player)
    /\ todo' = Calls("make", Makes(mode'))
    /\ mute' = FALSE
    /\ late' = 0
    /\ UNCHANGED <<held, going, cb, taken>>

Doing(c) == todo # <<>> /\ Head(todo)[1] = c
It == Head(todo)[2]

(* The second port of mod_mix is there, the first is not.                  *)
HalfMade(S) == mode = "mod_mix" /\ "output" \in S /\ "input" \notin S

GiveUp(s) == op' = "undo" /\ todo' = Calls("free", s)

Make ==
    /\ Doing("make")
    /\ held' = held \cup {It}
    /\ IF HalfMade(held') THEN GiveUp(GivesBack(mode, "input"))
       ELSE todo' = Tail(todo) /\ UNCHANGED op
    /\ UNCHANGED <<mode, going, mute, frames>>

(* acore_media_audio_create, pjmedia_clock_create or                       *)
(* pjmedia_aud_stream_create fails.                                        *)
MakeFails ==
    /\ Doing("make")
    /\ IF It = "input" THEN todo' = Tail(todo) /\ UNCHANGED op
       ELSE GiveUp(GivesBack(mode, It))
    /\ UNCHANGED <<mode, held, going, mute, frames>>

(* A call on a control that was created. *)
Start(c, s) ==
    /\ op = "idle"
    /\ op' = c
    /\ todo' = s
    /\ UNCHANGED <<mode, held, going, mute, frames>>

SoundStart   == Start("start", Calls("start", Runs(mode)))
SoundStop    == Start("stop", Calls("stop", Runs(mode)))
SoundDestroy == Start("destroy", Frees(mode))

(* pjmedia_clock_start, pjmedia_aud_stream_start *)
StartDevice ==
    /\ Doing("start")
    /\ going' = going \cup {It}
    /\ todo' = Tail(todo)
    /\ UNCHANGED <<mode, op, held, mute, frames>>

(* pjmedia_clock_stop, pjmedia_aud_stream_stop: no call-back begins any    *)
(* more, ...                                                               *)
StopDevice ==
    /\ Doing("stop")
    /\ It \in going
    /\ going' = going \ {It}
    /\ UNCHANGED <<mode, op, todo, held, mute, frames>>

(* ... and the one under way is waited for.                                *)
StopReturns ==
    /\ Doing("stop")
    /\ It \notin going
    /\ Quiet(It)
    /\ todo' = Tail(todo)
    /\ UNCHANGED <<mode, op, held, going, mute, frames>>

(* pjmedia_clock_destroy, pjmedia_aud_stream_destroy and                   *)
(* acore_media_port_destroy.                                               *)
Free ==
    /\ Doing("free")
    /\ held' = held \ {It}
    /\ going' = going \ {It}
    /\ todo' = Tail(todo)
    /\ UNCHANGED <<mode, op, mute, frames>>

Return ==
    /\ op \notin {"none", "idle"}
    /\ todo = <<>>
    /\ op' = IF op \in {"undo", "destroy"} THEN "none" ELSE "idle"
    /\ UNCHANGED <<mode, todo, held, going, mute, frames>>

SoundMute ==
    /\ op = "idle"
    /\ mute' = TRUE
    /\ late' = IF mute THEN late ELSE 0
    /\ UNCHANGED <<mode, op, todo, held, going, cb, taken>>

SoundUnmute ==
    /\ op = "idle"
    /\ mute' = FALSE
    /\ UNCHANGED <<mode, op, todo, held, going, frames>>

Step ==
    \/ Make \/ MakeFails \/ Free \/ Return
    \/ StartDevice \/ StopDevice \/ StopReturns

Next ==
    \/ \E source, player \in Name : Create(source, player)
    \/ SoundStart \/ SoundStop \/ SoundDestroy \/ SoundMute \/ SoundUnmute
    \/ Step
    \/ \E d \in Driver : CallBack(d) \/ TakeFrame(d) \/ GiveFrame(d)

Spec == Init /\ [][Next]_vars

(* The application's calls go on, and devices that are started call back.  *)
FairSpec ==
    /\ Spec
    /\ WF_vars(Step)
    /\ \A d \in Driver : WF_vars(CallBack(d) \/ TakeFrame(d) \/ GiveFrame(d))

-----------------------------------------------------------------------------
(* The shape of the state. *)
TypeOK ==
    /\ mode \in Mode
    /\ op \in {"none", "create", "undo", "idle", "start", "stop", "destroy"}
    /\ todo \in Seq({"make", "free", "start", "stop"} \X Resource)
    /\ held \in SUBSET Resource
    /\ going \in SUBSET Device
    /\ cb \in [Driver -> Seq([dir : {"in", "out"}, via : Resource])]
    /\ taken \in [Driver -> {"nothing", "sound", "silence"}]
    /\ mute \in BOOLEAN
    /\ late \in 0..2

(* A control that was returned has exactly the ports, clock and stream of  *)
(* its mode; one that failed at any point, or was destroyed, leaves        *)
(* nothing behind, and nothing that still runs.                            *)
HeldIsExact ==
    /\ TypeOK
    /\ op = "idle" => held = ToSet(Makes(mode))
    /\ op = "none" => held = {} /\ going = {} /\ \A d \in Driver : cb[d] = <<>>

(* A call-back never works on a port, clock or stream that is destroyed:   *)
(* the control is taken down in an order that its threads survive.         *)
OnlyLiveUsed ==
    \A d \in Driver : \A i \in DOMAIN cb[d] :
        /\ Of(d) \in held
        /\ cb[d][i].via \in held

(* After acore_media_sound_mute at most the one frame that was under way   *)
(* is heard, on each of the four ways frames take to the stream port.      *)
MuteBites == late <= 1

Playing == op = "idle" /\ ToSet(Runs(mode)) \subseteq going

Given(dir) ==
    \E d \in Driver : taken[d] # "nothing" /\ Head(cb[d]).dir = dir /\ GiveFrame(d)

(* In every mode a control that stays started moves frames in both         *)
(* directions for ever: each side has a thread that drives it.             *)
FramesFlow ==
    \A dir \in {"in", "out"} : <>[]Playing => []<><<Given(dir)>>_vars
=============================================================================
