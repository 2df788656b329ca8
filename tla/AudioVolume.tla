------------------------------ MODULE AudioVolume ------------------------------
(***************************************************************************)
(* The output volume and its ceiling (components/audio). Every request     *)
(* goes through audio_set_volume, which several tasks call: LVGL (slider,  *)
(* web command, alarm ramp, sleep fade) and the Sendspin loop task. The    *)
(* ceiling is changed by the LVGL task only. No lock guards either value,  *)
(* so each access to them is a step of its own.                            *)
(***************************************************************************)
EXTENDS Integers

CONSTANTS
  Callers,    (* the tasks that call audio_set_volume                       *)
  Lvgl,       (* the one that also calls audio_set_volume_limit             *)
  MaxVolume   (* 100 in the code                                            *)

VARIABLES
  s_volume, s_volume_limit,
  codec,       (* the volume last written to the codec                      *)
  stream,      (* "closed", "opening" (audio_open passes s_volume to the    *)
               (* codec driver) or "open"                                   *)
  openArg,     (* the volume audio_open read for that call                  *)
  calls,       (* where each task is in a volume call                       *)
  arg          (* the clamped volume it carries                             *)

volumeVars == <<s_volume, s_volume_limit, codec, stream, openArg, calls, arg>>

stream_open == stream # "closed"

Volumes == 0 .. MaxVolume

Clamp(v, low, high) == IF v < low THEN low ELSE IF v > high THEN high ELSE v

(* 70 and 100 in the code. *)
VolumeInit ==
  /\ s_volume \in Volumes
  /\ s_volume_limit = MaxVolume
  /\ codec = s_volume
  /\ stream = "closed"
  /\ openArg = 0
  /\ calls = [t \in Callers |-> "idle"]
  /\ arg = [t \in Callers |-> 0]

CallTo(t, l) == calls' = [calls EXCEPT ![t] = l]

(* The clamp reads s_volume_limit once; the store comes later. Requests    *)
(* outside 0..MaxVolume reach the function from the web and the slider.    *)
audio_set_volume(t, v) ==
  /\ calls[t] = "idle"
  /\ arg' = [arg EXCEPT ![t] = Clamp(v, 0, s_volume_limit)]
  /\ CallTo(t, "clamped")
  /\ UNCHANGED <<s_volume, s_volume_limit, codec, stream, openArg>>

StoreVolume(t) ==
  /\ calls[t] = "clamped"
  /\ s_volume' = arg[t]
  /\ CallTo(t, IF stream_open THEN "apply" ELSE "idle")
  /\ UNCHANGED <<s_volume_limit, codec, stream, openArg, arg>>

ApplyVolume(t) ==
  /\ calls[t] = "apply"
  /\ codec' = arg[t]
  /\ CallTo(t, "idle")
  /\ UNCHANGED <<s_volume, s_volume_limit, stream, openArg, arg>>

(* A lower ceiling lowers a live volume too: the function then calls       *)
(* audio_set_volume itself.                                                *)
audio_set_volume_limit(limit) ==
  /\ calls[Lvgl] = "idle"
  /\ s_volume_limit' = Clamp(limit, 1, MaxVolume)
  /\ CallTo(Lvgl, "limited")
  /\ UNCHANGED <<s_volume, codec, stream, openArg, arg>>

TooLoud == s_volume > s_volume_limit

LowerLiveVolume ==
  /\ calls[Lvgl] = "limited"
  /\ IF TooLoud
       THEN /\ arg' = [arg EXCEPT ![Lvgl] = s_volume_limit]
            /\ CallTo(Lvgl, "clamped")
       ELSE /\ CallTo(Lvgl, "idle")
            /\ UNCHANGED arg
  /\ UNCHANGED <<s_volume, s_volume_limit, codec, stream, openArg>>

(* audio_open sets s_open, then hands s_volume to the codec driver: the    *)
(* codec volume is per open. Its s_lock does not cover audio_set_volume.   *)
OpenReadsVolume ==
  /\ stream = "closed"
  /\ stream' = "opening"
  /\ openArg' = s_volume
  /\ UNCHANGED <<s_volume, s_volume_limit, codec, calls, arg>>

OpenAppliesVolume ==
  /\ stream = "opening"
  /\ stream' = "open"
  /\ codec' = openArg
  /\ UNCHANGED <<s_volume, s_volume_limit, openArg, calls, arg>>

CloseStream ==
  /\ stream = "open"
  /\ stream' = "closed"
  /\ UNCHANGED <<s_volume, s_volume_limit, codec, openArg, calls, arg>>

VolumeNext ==
  \/ \E t \in Callers :
        \/ \E v \in -1 .. MaxVolume + 1 : audio_set_volume(t, v)
        \/ StoreVolume(t)
        \/ ApplyVolume(t)
  \/ \E limit \in 0 .. MaxVolume + 1 : audio_set_volume_limit(limit)
  \/ LowerLiveVolume
  \/ OpenReadsVolume
  \/ OpenAppliesVolume
  \/ CloseStream

VolumeSpec == VolumeInit /\ [][VolumeNext]_volumeVars

-----------------------------------------------------------------------------
Quiet == \A t \in Callers : calls[t] = "idle"

(* audio.h 46: "Every volume request is clamped to it, whatever the source *)
(* (UI, web, Music Assistant). Lowering it below the current volume lowers *)
(* the volume immediately." Between calls, then, no volume above the       *)
(* ceiling is left behind. One task keeps this, two do not: the ceiling    *)
(* may be lowered between the clamp and the store of the other's request.  *)
VolumeUnderCeiling == Quiet => s_volume <= s_volume_limit
=============================================================================
