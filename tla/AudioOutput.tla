------------------------------ MODULE AudioOutput ------------------------------
(***************************************************************************)
(* The shared audio output of components/audio: the source arbiter, the    *)
(* ES8311 codec opened and closed under one mutex, the amplifier enable    *)
(* pin, the deferred ("lazy") codec close, and the microphone path.        *)
(*                                                                         *)
(* A client is a task that takes the arbiter and then plays or records.    *)
(* For a local client (the playback worker, the tuner task) one task does  *)
(* everything. A Sendspin client opens and closes on its loop task while   *)
(* another task, the sync task, calls audio_write: the two run             *)
(* concurrently, and audio_write takes no lock.                            *)
(***************************************************************************)
EXTENDS Naturals, FiniteSets

CONSTANTS
  Players,    (* local clients that play: open, write and close in one task *)
  Recorders,  (* local clients that capture the microphone                  *)
  Sendspins,  (* clients whose PCM is written by a second task              *)
  Formats,    (* sample rate, width and channel count, as one value         *)
  NoSource    (* AUDIO_SOURCE_NONE                                          *)

Locals  == Players \cup Recorders
Clients == Locals \cup Sendspins

ASSUME ClientsAssumption ==
  /\ Locals \cap Sendspins = {}
  /\ NoSource \notin Clients
  /\ Formats # {}

VARIABLES
  s_active,          (* the arbiter: the client that owns the output        *)
  s_open,            (* a stream is open                                    *)
  s_codec_open,      (* the codec is powered (>= s_open: the lazy close)    *)
  s_codec_fs,        (* the format it was powered with                      *)
  s_paused,
  s_unmute_pending,  (* a fast reopen waits for its first PCM to unmute     *)
  amp,               (* the FM8002E enable pin: "on" or "mute"              *)
  armed,             (* s_close_timer is running                            *)
  fired,             (* its callback was dispatched and waits for s_lock    *)
  recording,         (* the capture device is open                          *)
  pc,                (* where each client is between acquire and release    *)
  writer             (* where the task that calls audio_write is            *)

codecVars == <<s_codec_open, s_codec_fs>>
timerVars == <<armed, fired>>
vars == <<s_active, s_open, codecVars, s_paused, s_unmute_pending, amp,
          timerVars, recording, pc, writer>>

PcStates     == {"idle", "held", "settling", "playing", "recording", "leaving"}
WriterStates == {"out", "feeding", "unmuting"}

Init ==
  /\ s_active = NoSource
  /\ s_open = FALSE
  /\ s_codec_open = FALSE
  /\ s_codec_fs \in Formats
  /\ s_paused = FALSE
  /\ s_unmute_pending = FALSE
  /\ amp = "mute"
  /\ armed = FALSE
  /\ fired = FALSE
  /\ recording = FALSE
  /\ pc = [c \in Clients |-> "idle"]
  /\ writer = [c \in Clients |-> "out"]

Goto(c, l) == pc' = [pc EXCEPT ![c] = l]

(* s_lock is held across a step only while a power-up settles for 80 ms. *)
LockFree == \A c \in Clients : pc[c] # "settling"

-----------------------------------------------------------------------------
(* The arbiter. *)

MutantAlwaysFree(c) == TRUE
ArbiterFree(c) == s_active \in {NoSource, c}

audio_arbiter_acquire(c) ==
  /\ pc[c] = "idle"
  /\ ArbiterFree(c)
  /\ s_active' = c
  /\ Goto(c, "held")
  /\ UNCHANGED <<s_open, codecVars, s_paused, s_unmute_pending, amp, timerVars,
                 recording, writer>>

MutantWrongSentinel(c) == IF s_active = c THEN "released" ELSE s_active
Released(c) == IF s_active = c THEN NoSource ELSE s_active

audio_arbiter_release(c) ==
  /\ pc[c] \in {"held", "leaving"}
  /\ s_active' = Released(c)
  /\ Goto(c, "idle")
  /\ UNCHANGED <<s_open, codecVars, s_paused, s_unmute_pending, amp, timerVars,
                 recording, writer>>

-----------------------------------------------------------------------------
(* audio_open: inside the lazy-close window and at the same format the     *)
(* codec is still powered, and the amp waits for the first PCM. Otherwise  *)
(* the codec is powered up with the amp muted, and unmuted 80 ms later.    *)

OpenFast(c, f) ==
  /\ pc[c] = "held" /\ c \in Players \cup Sendspins
  /\ LockFree
  /\ s_codec_open /\ s_codec_fs = f
  /\ armed' = FALSE
  /\ s_open' = TRUE
  /\ s_paused' = FALSE
  /\ s_unmute_pending' = TRUE
  /\ Goto(c, "playing")
  /\ UNCHANGED <<s_active, codecVars, amp, fired, recording, writer>>

OpenSlow(c, f) ==
  /\ pc[c] = "held" /\ c \in Players \cup Sendspins
  /\ LockFree
  /\ ~(s_codec_open /\ s_codec_fs = f)
  /\ armed' = FALSE
  /\ amp' = "mute"
  /\ \/ /\ s_codec_open' = TRUE
        /\ s_codec_fs' = f
        /\ s_open' = TRUE
        /\ s_paused' = FALSE
        /\ s_unmute_pending' = FALSE
        /\ Goto(c, "settling")
     \/ /\ s_codec_open' = FALSE      \* esp_codec_dev_open failed
        /\ Goto(c, "leaving")
        /\ UNCHANGED <<s_codec_fs, s_open, s_paused, s_unmute_pending>>
  /\ UNCHANGED <<s_active, fired, recording, writer>>

OpenSettled(c) ==
  /\ pc[c] = "settling"
  /\ amp' = "on"
  /\ Goto(c, "playing")
  /\ UNCHANGED <<s_active, s_open, codecVars, s_paused, s_unmute_pending,
                 timerVars, recording, writer>>

-----------------------------------------------------------------------------
(* audio_write, on the client's own task or on Sendspin's sync task.       *)

WriteEnter(c) ==
  /\ pc[c] = "playing"
  /\ writer[c] = "out"
  /\ s_open
  /\ writer' = [writer EXCEPT ![c] = "feeding"]
  /\ UNCHANGED <<s_active, s_open, codecVars, s_paused, s_unmute_pending, amp,
                 timerVars, recording, pc>>

(* A paused stream feeds silence and loops; the chunk goes out afterwards. *)
WritePcm(c) ==
  /\ writer[c] = "feeding"
  /\ ~(s_paused /\ s_open)
  /\ \/ /\ s_codec_open /\ s_unmute_pending
        /\ s_unmute_pending' = FALSE
        /\ writer' = [writer EXCEPT ![c] = "unmuting"]
     \/ /\ s_codec_open => ~s_unmute_pending
        /\ writer' = [writer EXCEPT ![c] = "out"]
        /\ UNCHANGED s_unmute_pending
     \/ /\ s_codec_open /\ s_unmute_pending     \* esp_codec_dev_write failed
        /\ writer' = [writer EXCEPT ![c] = "out"]
        /\ UNCHANGED s_unmute_pending
  /\ UNCHANGED <<s_active, s_open, codecVars, s_paused, amp, timerVars,
                 recording, pc>>

WriteUnmute(c) ==
  /\ writer[c] = "unmuting"
  /\ amp' = "on"
  /\ writer' = [writer EXCEPT ![c] = "out"]
  /\ UNCHANGED <<s_active, s_open, codecVars, s_paused, s_unmute_pending,
                 timerVars, recording, pc>>

-----------------------------------------------------------------------------
(* audio_close: mute, and power the codec down only after the idle window. *)
(* A local client may reopen while it still owns the arbiter (a chained    *)
(* Ogg stream whose format changes).                                       *)

MutantCloseStaysLoud == amp
MutedByClose == "mute"

audio_close(c) ==
  /\ pc[c] = "playing"
  /\ c \in Locals => writer[c] = "out"
  /\ LockFree
  /\ s_open' = FALSE
  /\ s_unmute_pending' = FALSE
  /\ amp' = MutedByClose
  /\ armed' = TRUE
  /\ \/ Goto(c, "leaving")
     \/ c \in Locals /\ Goto(c, "held")
  /\ UNCHANGED <<s_active, codecVars, s_paused, fired, recording, writer>>

TimerFires ==
  /\ armed /\ ~fired
  /\ armed' = FALSE
  /\ fired' = TRUE
  /\ UNCHANGED <<s_active, s_open, codecVars, s_paused, s_unmute_pending, amp,
                 recording, pc, writer>>

MutantNeverPowersDown == s_codec_open
MutantPowersDown == FALSE
StaysPowered == s_codec_open /\ s_open

codec_close_timer_cb ==
  /\ fired
  /\ LockFree
  /\ fired' = FALSE
  /\ s_codec_open' = StaysPowered
  /\ UNCHANGED <<s_active, s_open, s_codec_fs, s_paused, s_unmute_pending, amp,
                 armed, recording, pc, writer>>

-----------------------------------------------------------------------------
(* The microphone: flush a pending lazy close, then open the capture side. *)

audio_record_open(c) ==
  /\ pc[c] = "held" /\ c \in Recorders
  /\ LockFree
  /\ armed' = FALSE
  /\ s_codec_open' = StaysPowered
  /\ \/ recording' = TRUE /\ Goto(c, "recording")
     \/ UNCHANGED recording /\ Goto(c, "leaving")
  /\ UNCHANGED <<s_active, s_open, s_codec_fs, s_paused, s_unmute_pending, amp,
                 fired, writer>>

audio_record_close(c) ==
  /\ pc[c] = "recording"
  /\ LockFree
  /\ recording' = FALSE
  /\ Goto(c, "leaving")
  /\ UNCHANGED <<s_active, s_open, codecVars, s_paused, s_unmute_pending, amp,
                 timerVars, writer>>

-----------------------------------------------------------------------------
(* Calls of the LVGL task, which owns no stream. *)

audio_set_paused(p) ==
  /\ s_paused' = p
  /\ UNCHANGED <<s_active, s_open, codecVars, s_unmute_pending, amp, timerVars,
                 recording, pc, writer>>

audio_output_off ==
  /\ amp' = "mute"
  /\ UNCHANGED <<s_active, s_open, codecVars, s_paused, s_unmute_pending,
                 timerVars, recording, pc, writer>>

-----------------------------------------------------------------------------
ClientStep(c) ==
  \/ audio_arbiter_acquire(c)
  \/ audio_arbiter_release(c)
  \/ \E f \in Formats : OpenFast(c, f) \/ OpenSlow(c, f)
  \/ OpenSettled(c)
  \/ WriteEnter(c)
  \/ WritePcm(c)
  \/ WriteUnmute(c)
  \/ audio_close(c)
  \/ audio_record_open(c)
  \/ audio_record_close(c)

Next ==
  \/ \E c \in Clients : ClientStep(c)
  \/ TimerFires
  \/ codec_close_timer_cb
  \/ \E p \in BOOLEAN : audio_set_paused(p)
  \/ audio_output_off

Spec == Init /\ [][Next]_vars

(* The timer runs, its callback is scheduled, and vTaskDelay returns: the  *)
(* clients themselves may stay where they are for ever.                    *)
Fairness ==
  /\ WF_vars(TimerFires)
  /\ WF_vars(codec_close_timer_cb)
  /\ \A c \in Clients : WF_vars(OpenSettled(c))

FairSpec == Spec /\ Fairness

-----------------------------------------------------------------------------
TypeOK ==
  /\ s_active \in Clients \cup {NoSource}
  /\ s_open \in BOOLEAN
  /\ s_codec_open \in BOOLEAN
  /\ s_codec_fs \in Formats
  /\ s_paused \in BOOLEAN
  /\ s_unmute_pending \in BOOLEAN
  /\ amp \in {"on", "mute"}
  /\ armed \in BOOLEAN
  /\ fired \in BOOLEAN
  /\ recording \in BOOLEAN
  /\ pc \in [Clients -> PcStates]
  /\ writer \in [Clients -> WriterStates]

(* At most one client is anywhere between acquire and release, and it is   *)
(* the one the arbiter names (audio_arbiter.c: "only one audio source is   *)
(* active at a time").                                                     *)
OneOwner == \A c \in Clients : pc[c] # "idle" => s_active = c

(* The deferred close never powers down a codec that a stream has reopened *)
(* in the meantime, even when the callback was already waiting for s_lock. *)
OpenIsPowered == s_open => s_codec_open

(* A stream is open exactly while its owner plays: no error path of        *)
(* audio_open or of a client leaves the output open behind it.             *)
OpenHasPlayer == s_open <=> \E c \in Clients : pc[c] \in {"settling", "playing"}

(* A codec kept powered across a gap is always due to be closed: no order  *)
(* of timer stops, reopens and callbacks leaves the DAC powered for ever.  *)
IdleCodecIsDue == s_codec_open /\ ~s_open => armed \/ fired

(* The capture device is never open while the playback side is: the I2S    *)
(* layer would refuse the record rate (audio.c, audio_record_open).        *)
CaptureExcludesPlayback == recording => ~s_codec_open

(* audio.c: "The amp stays muted through the window" of the lazy close. It *)
(* is on without a stream that plays only when Sendspin's sync task, which *)
(* audio_close does not wait for, unmutes after the close: no power-up, no *)
(* close and no local client amplifies a gap.                              *)
AmpOnlyWhilePlaying ==
  amp = "on" => \E c \in Clients : pc[c] = "playing"

OnlyLateUnmute ==
  [][AmpOnlyWhilePlaying =>
       AmpOnlyWhilePlaying' \/ \E c \in Sendspins : writer[c] = "unmuting"]_vars

(* With nobody reopening it, the codec is powered down in the end.         *)
IdleCodecCloses == [](~s_open /\ s_codec_open => <>(s_open \/ ~s_codec_open))
=============================================================================
