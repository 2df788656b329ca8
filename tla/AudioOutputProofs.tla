---------------------------- MODULE AudioOutputProofs ----------------------------
(***************************************************************************)
(* Proofs about AudioOutput, for any number of clients and formats.        *)
(*                                                                         *)
(* The invariants that TLC checks are not inductive one by one: that a     *)
(* capture excludes playback needs to know who opened what, and that needs *)
(* the arbiter. IInv ties every device to the place its owner is at.       *)
(***************************************************************************)
EXTENDS AudioOutput, TLAPS

(* The capture device is open exactly while its owner records. *)
RecordingHasOwner == recording <=> \E c \in Clients : pc[c] = "recording"

IInv ==
  /\ TypeOK
  /\ OneOwner
  /\ OpenHasPlayer
  /\ RecordingHasOwner
  /\ OpenIsPowered
  /\ IdleCodecIsDue
  /\ CaptureExcludesPlayback

-----------------------------------------------------------------------------
(* Two clients are never both between acquire and release. *)
LEMMA Exclusion ==
  ASSUME OneOwner, NEW c \in Clients, NEW d \in Clients,
         pc[c] # "idle", pc[d] # "idle"
  PROVE  c = d
BY DEF OneOwner

(* The type invariant holds in every behaviour of the audio output. *)
LEMMA TypeInit == Init => TypeOK
BY ClientsAssumption DEF Init, TypeOK, PcStates, WriterStates

LEMMA TypeStep == TypeOK /\ [Next]_vars => TypeOK'
<1> USE DEF TypeOK, PcStates, WriterStates, Goto, Released, StaysPowered,
            Clients, Locals
<1> SUFFICES ASSUME TypeOK, [Next]_vars PROVE TypeOK'
  OBVIOUS
<1>1. ASSUME NEW c \in Clients, ClientStep(c) PROVE TypeOK'
  <2>1. CASE audio_arbiter_acquire(c)
    BY <2>1 DEF audio_arbiter_acquire, codecVars, timerVars
  <2>2. CASE audio_arbiter_release(c)
    BY <2>2 DEF audio_arbiter_release, codecVars, timerVars
  <2>3. ASSUME NEW f \in Formats, OpenFast(c, f) PROVE TypeOK'
    BY <2>3 DEF OpenFast, codecVars
  <2>4. ASSUME NEW f \in Formats, OpenSlow(c, f) PROVE TypeOK'
    BY <2>4 DEF OpenSlow
  <2>5. CASE OpenSettled(c)
    BY <2>5 DEF OpenSettled, codecVars, timerVars
  <2>6. CASE WriteEnter(c)
    BY <2>6 DEF WriteEnter, codecVars, timerVars
  <2>7. CASE WritePcm(c)
    BY <2>7 DEF WritePcm, codecVars, timerVars
  <2>8. CASE WriteUnmute(c)
    BY <2>8 DEF WriteUnmute, codecVars, timerVars
  <2>9. CASE audio_close(c)
    BY <2>9 DEF audio_close, MutedByClose, codecVars
  <2>10. CASE audio_record_open(c)
    BY <2>10 DEF audio_record_open
  <2>11. CASE audio_record_close(c)
    BY <2>11 DEF audio_record_close, codecVars, timerVars
  <2> QED
    BY <1>1, <2>1, <2>2, <2>3, <2>4, <2>5, <2>6, <2>7, <2>8, <2>9, <2>10,
       <2>11 DEF ClientStep
<1>2. CASE TimerFires
  BY <1>2 DEF TimerFires, codecVars
<1>3. CASE codec_close_timer_cb
  BY <1>3 DEF codec_close_timer_cb
<1>4. ASSUME NEW p \in BOOLEAN, audio_set_paused(p) PROVE TypeOK'
  BY <1>4 DEF audio_set_paused, codecVars, timerVars
<1>5. CASE audio_output_off
  BY <1>5 DEF audio_output_off, codecVars, timerVars
<1>6. CASE UNCHANGED vars
  BY <1>6 DEF vars, codecVars, timerVars
<1> QED
  BY <1>1, <1>2, <1>3, <1>4, <1>5, <1>6 DEF Next

(* TypeOK is an invariant of the audio output. *)
THEOREM TypeCorrect == Spec => []TypeOK
BY TypeInit, TypeStep, PTL DEF Spec

-----------------------------------------------------------------------------
(* The inductive step. An action of one client c leaves every other client *)
(* idle, because c owns the arbiter (Exclusion).                           *)

LEMMA InductiveInit == Init => IInv
<1> SUFFICES ASSUME Init PROVE IInv
  OBVIOUS
<1>1. TypeOK
  BY TypeInit
<1>2. OneOwner /\ OpenHasPlayer /\ RecordingHasOwner
  BY DEF Init, OneOwner, OpenHasPlayer, RecordingHasOwner
<1>3. OpenIsPowered /\ IdleCodecIsDue /\ CaptureExcludesPlayback
  BY DEF Init, OpenIsPowered, IdleCodecIsDue, CaptureExcludesPlayback
<1> QED
  BY <1>1, <1>2, <1>3 DEF IInv

(* A step of an active client: only its own place changes. *)
LEMMA MovesAlone ==
  ASSUME TypeOK, OneOwner, NEW c \in Clients, NEW l \in PcStates,
         pc[c] # "idle", Goto(c, l)
  PROVE  /\ pc'[c] = l
         /\ \A d \in Clients : d # c => pc[d] = "idle" /\ pc'[d] = "idle"
BY DEF TypeOK, OneOwner, Goto

LEMMA ClientInductive ==
  ASSUME IInv, TypeOK', NEW c \in Clients, ClientStep(c)
  PROVE  IInv'
<1> USE DEF PcStates
<1> DEFINE Rest == /\ OneOwner' /\ OpenHasPlayer' /\ RecordingHasOwner'
                   /\ OpenIsPowered' /\ IdleCodecIsDue'
                   /\ CaptureExcludesPlayback'
<1>0. TypeOK /\ OneOwner /\ OpenHasPlayer /\ RecordingHasOwner
      /\ OpenIsPowered /\ IdleCodecIsDue /\ CaptureExcludesPlayback
  BY DEF IInv
<1>1. CASE audio_arbiter_acquire(c)
  <2>1. \A d \in Clients : d # c => pc[d] = "idle"
    BY <1>0, <1>1, ClientsAssumption
       DEF audio_arbiter_acquire, ArbiterFree, OneOwner
  <2>2. pc' = [pc EXCEPT ![c] = "held"] /\ pc \in [Clients -> PcStates]
    BY <1>0, <1>1 DEF audio_arbiter_acquire, Goto, TypeOK
  <2>3. UNCHANGED <<s_open, s_codec_open, armed, fired, recording>>
    BY <1>1 DEF audio_arbiter_acquire, codecVars, timerVars
  <2>4. OneOwner'
    BY <1>1, <2>1, <2>2 DEF audio_arbiter_acquire, OneOwner
  <2>5. OpenHasPlayer' /\ RecordingHasOwner'
    BY <1>0, <1>1, <2>2, <2>3
       DEF audio_arbiter_acquire, OpenHasPlayer, RecordingHasOwner
  <2> QED
    BY <1>0, <2>3, <2>4, <2>5
       DEF IInv, OpenIsPowered, IdleCodecIsDue, CaptureExcludesPlayback
<1>2. CASE audio_arbiter_release(c)
  <2>1. /\ pc'[c] = "idle"
        /\ \A d \in Clients : d # c => pc[d] = "idle" /\ pc'[d] = "idle"
    BY <1>0, <1>2, MovesAlone DEF audio_arbiter_release
  <2>2. UNCHANGED <<s_open, s_codec_open, armed, fired, recording>>
    BY <1>2 DEF audio_arbiter_release, codecVars, timerVars
  <2>3. pc[c] \in {"held", "leaving"}
    BY <1>2 DEF audio_arbiter_release
  <2>4. OneOwner' /\ OpenHasPlayer' /\ RecordingHasOwner'
    BY <1>0, <2>1, <2>2, <2>3 DEF OneOwner, OpenHasPlayer, RecordingHasOwner
  <2> QED
    BY <1>0, <2>2, <2>4
       DEF IInv, OpenIsPowered, IdleCodecIsDue, CaptureExcludesPlayback
<1>3. ASSUME NEW f \in Formats, OpenFast(c, f) PROVE IInv'
  <2>1. /\ pc'[c] = "playing"
        /\ \A d \in Clients : d # c => pc[d] = "idle" /\ pc'[d] = "idle"
    BY <1>0, <1>3, MovesAlone DEF OpenFast
  <2>2. pc[c] = "held" /\ s_active' = s_active /\ s_open' = TRUE
        /\ s_codec_open' = s_codec_open /\ s_codec_open
        /\ recording' = recording
    BY <1>3 DEF OpenFast, codecVars
  <2>3. OneOwner' /\ OpenHasPlayer' /\ RecordingHasOwner'
    BY <1>0, <2>1, <2>2 DEF OneOwner, OpenHasPlayer, RecordingHasOwner
  <2> QED
    BY <1>0, <2>2, <2>3
       DEF IInv, OpenIsPowered, IdleCodecIsDue, CaptureExcludesPlayback
<1>4. ASSUME NEW f \in Formats, OpenSlow(c, f) PROVE IInv'
  <2>1. pc[c] = "held" /\ s_active' = s_active /\ recording' = recording
    BY <1>4 DEF OpenSlow
  <2>2. ~s_open /\ ~recording
    BY <1>0, <2>1, Exclusion DEF OpenHasPlayer, RecordingHasOwner
  <2>3. CASE s_codec_open' = TRUE /\ s_open' = TRUE /\ Goto(c, "settling")
    <3>1. /\ pc'[c] = "settling"
          /\ \A d \in Clients : d # c => pc[d] = "idle" /\ pc'[d] = "idle"
      BY <1>0, <2>1, <2>3, MovesAlone
    <3>2. OneOwner' /\ OpenHasPlayer' /\ RecordingHasOwner'
      BY <1>0, <2>1, <2>2, <2>3, <3>1
         DEF OneOwner, OpenHasPlayer, RecordingHasOwner
    <3> QED
      BY <2>1, <2>2, <2>3, <3>2
         DEF IInv, OpenIsPowered, IdleCodecIsDue, CaptureExcludesPlayback
  <2>4. CASE s_codec_open' = FALSE /\ s_open' = s_open /\ Goto(c, "leaving")
    <3>1. /\ pc'[c] = "leaving"
          /\ \A d \in Clients : d # c => pc[d] = "idle" /\ pc'[d] = "idle"
      BY <1>0, <2>1, <2>4, MovesAlone
    <3>2. OneOwner' /\ OpenHasPlayer' /\ RecordingHasOwner'
      BY <1>0, <2>1, <2>2, <2>4, <3>1
         DEF OneOwner, OpenHasPlayer, RecordingHasOwner
    <3> QED
      BY <2>1, <2>2, <2>4, <3>2
         DEF IInv, OpenIsPowered, IdleCodecIsDue, CaptureExcludesPlayback
  <2> QED
    BY <1>4, <2>3, <2>4 DEF OpenSlow
<1>5. CASE OpenSettled(c)
  <2>1. /\ pc'[c] = "playing"
        /\ \A d \in Clients : d # c => pc[d] = "idle" /\ pc'[d] = "idle"
    BY <1>0, <1>5, MovesAlone DEF OpenSettled
  <2>2. UNCHANGED <<s_active, s_open, s_codec_open, armed, fired, recording>>
        /\ pc[c] = "settling"
    BY <1>5 DEF OpenSettled, codecVars, timerVars
  <2>3. OneOwner' /\ OpenHasPlayer' /\ RecordingHasOwner'
    BY <1>0, <2>1, <2>2 DEF OneOwner, OpenHasPlayer, RecordingHasOwner
  <2> QED
    BY <1>0, <2>2, <2>3
       DEF IInv, OpenIsPowered, IdleCodecIsDue, CaptureExcludesPlayback
<1>6. CASE WriteEnter(c) \/ WritePcm(c) \/ WriteUnmute(c)
  <2>1. UNCHANGED <<s_active, s_open, s_codec_open, armed, fired, recording, pc>>
    BY <1>6 DEF WriteEnter, WritePcm, WriteUnmute, codecVars, timerVars
  <2> QED
    BY <1>0, <2>1
       DEF IInv, OneOwner, OpenHasPlayer, RecordingHasOwner, OpenIsPowered,
           IdleCodecIsDue, CaptureExcludesPlayback
<1>7. CASE audio_close(c)
  <2>1. PICK l \in {"leaving", "held"} : Goto(c, l)
    BY <1>7 DEF audio_close
  <2>2. /\ pc'[c] = l
        /\ \A d \in Clients : d # c => pc[d] = "idle" /\ pc'[d] = "idle"
    BY <1>0, <1>7, <2>1, MovesAlone DEF audio_close
  <2>3. pc[c] = "playing" /\ s_active' = s_active /\ s_open' = FALSE
        /\ armed' = TRUE /\ s_codec_open' = s_codec_open
        /\ recording' = recording
    BY <1>7 DEF audio_close, codecVars
  <2>4. OneOwner' /\ OpenHasPlayer' /\ RecordingHasOwner'
    BY <1>0, <2>1, <2>2, <2>3 DEF OneOwner, OpenHasPlayer, RecordingHasOwner
  <2> QED
    BY <1>0, <2>3, <2>4
       DEF IInv, OpenIsPowered, IdleCodecIsDue, CaptureExcludesPlayback
<1>8. CASE audio_record_open(c)
  <2>1. pc[c] = "held" /\ s_active' = s_active /\ s_open' = s_open
        /\ s_codec_open' = (s_codec_open /\ s_open)
    BY <1>8 DEF audio_record_open, StaysPowered
  <2>2. ~s_open
    BY <1>0, <2>1, Exclusion DEF OpenHasPlayer
  <2>3. PICK l \in {"recording", "leaving"} :
          Goto(c, l) /\ recording' = (l = "recording" \/ recording)
    BY <1>0, <1>8 DEF audio_record_open, TypeOK
  <2>4. /\ pc'[c] = l
        /\ \A d \in Clients : d # c => pc[d] = "idle" /\ pc'[d] = "idle"
    BY <1>0, <2>1, <2>3, MovesAlone
  <2>5. OneOwner' /\ OpenHasPlayer' /\ RecordingHasOwner'
    BY <1>0, <2>1, <2>2, <2>3, <2>4
       DEF OneOwner, OpenHasPlayer, RecordingHasOwner
  <2> QED
    BY <2>1, <2>2, <2>5
       DEF IInv, OpenIsPowered, IdleCodecIsDue, CaptureExcludesPlayback
<1>9. CASE audio_record_close(c)
  <2>1. /\ pc'[c] = "leaving"
        /\ \A d \in Clients : d # c => pc[d] = "idle" /\ pc'[d] = "idle"
    BY <1>0, <1>9, MovesAlone DEF audio_record_close
  <2>2. UNCHANGED <<s_active, s_open, s_codec_open, armed, fired>>
        /\ pc[c] = "recording" /\ recording' = FALSE
    BY <1>9 DEF audio_record_close, codecVars, timerVars
  <2>3. OneOwner' /\ OpenHasPlayer' /\ RecordingHasOwner'
    BY <1>0, <2>1, <2>2 DEF OneOwner, OpenHasPlayer, RecordingHasOwner
  <2> QED
    BY <1>0, <2>2, <2>3
       DEF IInv, OpenIsPowered, IdleCodecIsDue, CaptureExcludesPlayback
<1> QED
  BY <1>1, <1>2, <1>3, <1>4, <1>5, <1>6, <1>7, <1>8, <1>9 DEF ClientStep

LEMMA InductiveStep == IInv /\ [Next]_vars => IInv'
<1> SUFFICES ASSUME IInv, [Next]_vars PROVE IInv'
  OBVIOUS
<1>0. TypeOK'
  BY TypeStep DEF IInv
<1>1. ASSUME NEW c \in Clients, ClientStep(c) PROVE IInv'
  BY <1>0, <1>1, ClientInductive
<1>2. CASE TimerFires
  <2>1. UNCHANGED <<s_active, s_open, s_codec_open, recording, pc>> /\ fired'
    BY <1>2 DEF TimerFires, codecVars
  <2> QED
    BY <1>0, <2>1
       DEF IInv, OneOwner, OpenHasPlayer, RecordingHasOwner, OpenIsPowered,
           IdleCodecIsDue, CaptureExcludesPlayback
<1>3. CASE codec_close_timer_cb
  <2>1. UNCHANGED <<s_active, s_open, recording, pc>>
        /\ s_codec_open' = (s_codec_open /\ s_open)
    BY <1>3 DEF codec_close_timer_cb, StaysPowered
  <2> QED
    BY <1>0, <2>1
       DEF IInv, OneOwner, OpenHasPlayer, RecordingHasOwner, OpenIsPowered,
           IdleCodecIsDue, CaptureExcludesPlayback
<1>4. CASE (\E p \in BOOLEAN : audio_set_paused(p)) \/ audio_output_off
           \/ UNCHANGED vars
  <2>1. UNCHANGED <<s_active, s_open, s_codec_open, armed, fired, recording, pc>>
    BY <1>4 DEF audio_set_paused, audio_output_off, vars, codecVars, timerVars
  <2> QED
    BY <1>0, <2>1
       DEF IInv, OneOwner, OpenHasPlayer, RecordingHasOwner, OpenIsPowered,
           IdleCodecIsDue, CaptureExcludesPlayback
<1> QED
  BY <1>1, <1>2, <1>3, <1>4 DEF Next

LEMMA Inductive == Spec => []IInv
BY InductiveInit, InductiveStep, PTL DEF Spec

(* At most one client is between acquire and release, and the arbiter      *)
(* names it: audio_arbiter.c lets one source at a time have the output.    *)
THEOREM ArbiterIsExclusive == Spec => []OneOwner
<1>1. IInv => OneOwner
  BY DEF IInv
<1> QED
  BY Inductive, <1>1, PTL

(* The lazy close of audio.c: a stream is open exactly while its owner     *)
(* plays, on a codec no late callback has powered down, and a codec kept   *)
(* powered across a gap is always due to be closed.                        *)
THEOREM LazyCloseIsSafe == Spec => [](OpenHasPlayer /\ OpenIsPowered /\ IdleCodecIsDue)
<1>1. IInv => OpenHasPlayer /\ OpenIsPowered /\ IdleCodecIsDue
  BY DEF IInv
<1> QED
  BY Inductive, <1>1, PTL

(* The microphone is never open together with the playback side of the     *)
(* codec, also within the lazy-close window (audio_record_open).           *)
THEOREM CaptureIsExclusive == Spec => []CaptureExcludesPlayback
<1>1. IInv => CaptureExcludesPlayback
  BY DEF IInv
<1> QED
  BY Inductive, <1>1, PTL
-----------------------------------------------------------------------------
(* Every local audio_write runs on the task that also closes: it is over   *)
(* before audio_close mutes.                                               *)

WritesWhilePlaying == \A c \in Locals : writer[c] # "out" => pc[c] = "playing"

LEMMA LocalWrites == IInv /\ WritesWhilePlaying /\ [Next]_vars => WritesWhilePlaying'
<1> SUFFICES ASSUME IInv, WritesWhilePlaying, [Next]_vars PROVE WritesWhilePlaying'
  OBVIOUS
<1> USE DEF PcStates, Goto, WritesWhilePlaying
<1>0. /\ pc \in [Clients -> PcStates] /\ writer \in [Clients -> WriterStates]
      /\ Locals \subseteq Clients
  BY DEF IInv, TypeOK, Clients
<1>1. ASSUME NEW c \in Clients, ClientStep(c) PROVE WritesWhilePlaying'
  <2>1. CASE audio_arbiter_acquire(c)
    BY <1>0, <2>1 DEF audio_arbiter_acquire
  <2>2. CASE audio_arbiter_release(c)
    BY <1>0, <2>2 DEF audio_arbiter_release
  <2>3. ASSUME NEW f \in Formats, OpenFast(c, f) PROVE WritesWhilePlaying'
    BY <1>0, <2>3 DEF OpenFast
  <2>4. ASSUME NEW f \in Formats, OpenSlow(c, f) PROVE WritesWhilePlaying'
    <3>1. pc[c] = "held" /\ writer' = writer /\ \E l \in {"settling", "leaving"} : Goto(c, l)
      BY <2>4 DEF OpenSlow
    <3> QED
      BY <1>0, <3>1
  <2>5. CASE OpenSettled(c)
    BY <1>0, <2>5 DEF OpenSettled
  <2>6. CASE WriteEnter(c)
    BY <1>0, <2>6 DEF WriteEnter
  <2>7. CASE WritePcm(c)
    <3>1. /\ writer[c] = "feeding" /\ pc' = pc
          /\ \E l \in {"out", "unmuting"} : writer' = [writer EXCEPT ![c] = l]
      BY <2>7 DEF WritePcm
    <3> QED
      BY <1>0, <3>1
  <2>8. CASE WriteUnmute(c)
    BY <1>0, <2>8 DEF WriteUnmute
  <2>9. CASE audio_close(c)
    <3>1. /\ c \in Locals => writer[c] = "out"
          /\ writer' = writer /\ \E l \in {"leaving", "held"} : Goto(c, l)
      BY <2>9 DEF audio_close
    <3> QED
      BY <1>0, <3>1
  <2>10. CASE audio_record_open(c)
    <3>1. pc[c] = "held" /\ writer' = writer /\ \E l \in {"recording", "leaving"} : Goto(c, l)
      BY <2>10 DEF audio_record_open
    <3> QED
      BY <1>0, <3>1
  <2>11. CASE audio_record_close(c)
    BY <1>0, <2>11 DEF audio_record_close
  <2> QED
    BY <1>1, <2>1, <2>2, <2>3, <2>4, <2>5, <2>6, <2>7, <2>8, <2>9, <2>10, <2>11 DEF ClientStep
<1>2. CASE \/ TimerFires \/ codec_close_timer_cb \/ audio_output_off \/ UNCHANGED vars
           \/ \E p \in BOOLEAN : audio_set_paused(p)
  BY <1>2 DEF TimerFires, codec_close_timer_cb, audio_output_off, audio_set_paused, vars
<1> QED
  BY <1>1, <1>2 DEF Next

LEMMA UnmutesAreExplained ==
  ASSUME IInv, WritesWhilePlaying, [Next]_vars, AmpOnlyWhilePlaying,
         ~(\E c \in Sendspins : writer[c] = "unmuting")
  PROVE  AmpOnlyWhilePlaying'
<1> USE DEF PcStates, Goto, AmpOnlyWhilePlaying
<1>0. pc \in [Clients -> PcStates] /\ Clients = Locals \cup Sendspins
  BY DEF IInv, TypeOK, Clients
<1>1. ASSUME NEW c \in Clients, ClientStep(c) PROVE AmpOnlyWhilePlaying'
  <2>1. CASE audio_arbiter_acquire(c)
    BY <1>0, <2>1 DEF audio_arbiter_acquire
  <2>2. CASE audio_arbiter_release(c)
    BY <1>0, <2>2 DEF audio_arbiter_release
  <2>3. ASSUME NEW f \in Formats, OpenFast(c, f) PROVE AmpOnlyWhilePlaying'
    BY <1>0, <2>3 DEF OpenFast
  <2>4. CASE (\E f \in Formats : OpenSlow(c, f)) \/ audio_close(c)
    <3>1. amp' = "mute"
      BY <2>4 DEF OpenSlow, audio_close, MutedByClose
    <3> QED
      BY <3>1
  <2>5. CASE OpenSettled(c)
    BY <1>0, <2>5 DEF OpenSettled
  <2>6. CASE WriteEnter(c) \/ WritePcm(c)
    BY <2>6 DEF WriteEnter, WritePcm
  <2>7. CASE WriteUnmute(c)
    <3>1. c \in Locals /\ pc[c] = "playing" /\ pc' = pc
      BY <1>0, <2>7 DEF WriteUnmute, WritesWhilePlaying
    <3> QED
      BY <3>1, <1>0
  <2>8. CASE audio_record_open(c)
    <3>1. pc[c] = "held" /\ amp' = amp /\ \E l \in {"recording", "leaving"} : Goto(c, l)
      BY <2>8 DEF audio_record_open
    <3> QED
      BY <1>0, <3>1
  <2>9. CASE audio_record_close(c)
    BY <1>0, <2>9 DEF audio_record_close
  <2> QED
    BY <1>1, <2>1, <2>2, <2>3, <2>4, <2>5, <2>6, <2>7, <2>8, <2>9 DEF ClientStep
<1>2. CASE \/ TimerFires \/ codec_close_timer_cb \/ UNCHANGED vars
           \/ \E p \in BOOLEAN : audio_set_paused(p)
  BY <1>2 DEF TimerFires, codec_close_timer_cb, audio_set_paused, vars
<1>3. CASE audio_output_off
  BY <1>3 DEF audio_output_off
<1> QED
  BY <1>1, <1>2, <1>3 DEF Next

(* audio.c, "The amp stays muted through the window": whatever clients     *)
(* there are, only the sync task of a Sendspin client, which audio_close   *)
(* does not wait for, ever turns the amplifier on outside a stream.        *)
THEOREM GapsAreQuiet == Spec => OnlyLateUnmute
<1>1. Init => WritesWhilePlaying
  BY DEF Init, WritesWhilePlaying, Clients
<1>2. IInv /\ WritesWhilePlaying /\ [Next]_vars => WritesWhilePlaying'
  BY LocalWrites
<1>3. IInv /\ WritesWhilePlaying /\ [Next]_vars
        => [AmpOnlyWhilePlaying =>
              AmpOnlyWhilePlaying' \/ \E c \in Sendspins : writer[c] = "unmuting"]_vars
  BY UnmutesAreExplained
<1> QED
  BY Inductive, <1>1, <1>2, <1>3, PTL DEF Spec, OnlyLateUnmute

=============================================================================
