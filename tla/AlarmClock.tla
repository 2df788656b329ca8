------------------------------- MODULE AlarmClock -------------------------------
(***************************************************************************)
(* The alarm clock of ui.c: the state machine that the 1 Hz tick drives    *)
(* (IDLE, RINGING, SNOOZED), the beep that stands in for a source that     *)
(* cannot play, the ring of the countdown timer that shares this beep, and *)
(* the two engines that run after the alarm in the same tick, the sleep    *)
(* timer's fade and the parental block. The LVGL task runs one handler at  *)
(* a time; the worker task, which plays and beeps, runs between them and   *)
(* between the engines of one tick. The clock counts minutes, and goes     *)
(* back once.                                                              *)
(***************************************************************************)
EXTENDS Integers

CONSTANTS
  CONFIG_ALARM_COUNT,  (* entries of config_t.alarms                         *)
  AlarmMinute,         (* minute of the day of each alarm                    *)
  AlarmDays,           (* days of the week of each alarm                     *)
  MinutesPerDay, DaysPerWeek,
  BackAt, BackBy,      (* the clocks go back at BackAt, by BackBy minutes    *)
  SnoozeMinutes,
  Levels,              (* volumes, in Nat                                    *)
  BootVolume,          (* the volume the configuration starts with           *)
  RampStart, Target,   (* where the ramp of a ring starts and ends           *)
  MaxWall,             (* bound: minutes of wall clock                       *)
  MaxMoves             (* bound: what users, servers and faults do           *)

None   == "none"
NoFade == -1
Alarms == 0..(CONFIG_ALARM_COUNT - 1)

ASSUME AlarmAssumption ==
  /\ CONFIG_ALARM_COUNT \in Nat \ {0}
  /\ MinutesPerDay \in Nat \ {0} /\ DaysPerWeek \in Nat \ {0}
  /\ AlarmMinute \in [Alarms -> 0..(MinutesPerDay - 1)]
  /\ AlarmDays \in [Alarms -> SUBSET (0..(DaysPerWeek - 1))]
  /\ BackAt \in Nat /\ BackBy \in Nat /\ BackBy < BackAt
  /\ SnoozeMinutes \in Nat \ {0}
  /\ Levels \subseteq Nat /\ {BootVolume, RampStart, Target} \subseteq Levels
  /\ MaxWall \in Nat /\ MaxMoves \in Nat

VARIABLES
  (* the clock *)
  wall,                (* minutes since the epoch; 0 is a clock never set    *)
  stepped,             (* the next tick carries an SNTP jump                 *)
  (* the alarm engine *)
  s_alarm_state, s_alarm_active_idx, s_alarm_fired_min,
  s_alarm_snooze_until, s_alarm_saved_vol,
  s_alarm_ramp_done, s_alarm_beeping, s_alarm_beep_confirmed,
  elapsed,             (* how long it rings: 0 to 20 s, to 60 s, to 30 min, more *)
  enabled,             (* config_t.alarms[].enabled                          *)
  (* the sound *)
  s_play_q,            (* the one place of the request queue                 *)
  s_beep_stop, s_play_failed,
  worker, current,     (* the worker; its play is the newest intent          *)
  sendspin,            (* a Sendspin session: off, on, or asked to stop      *)
  streaming,           (* its stream holds the output                        *)
  volume,
  (* the rest of the LVGL task *)
  tick,                (* the engine that the 1 Hz tick runs next            *)
  screen, s_tmr_ringing,
  s_sleep_choice, s_sleep_fade_saved,
  quiet, s_block_applied,
  (* history and bounds *)
  looked,              (* a tick has looked at this minute since the last change *)
  rung,                (* the local minutes each alarm fired at              *)
  userVol,             (* the volume the user chose                          *)
  excused,             (* in this ring somebody commanded the player, or the *)
                       (* beep that the engine had heard broke off           *)
  moves

clock  == <<wall, stepped>>
ring   == <<s_alarm_state, s_alarm_active_idx, s_alarm_fired_min, s_alarm_snooze_until,
            s_alarm_saved_vol, s_alarm_ramp_done, s_alarm_beeping,
            s_alarm_beep_confirmed, elapsed, rung>>
task   == <<worker, current>>
remote == <<sendspin, streaming>>
sleep  == <<s_sleep_choice, s_sleep_fade_saved>>
block  == <<quiet, s_block_applied>>
timer  == <<s_tmr_ringing>>
sound  == <<s_play_q, s_beep_stop, s_play_failed, task, remote>>
vars   == <<clock, ring, enabled, sound, volume, tick, screen, timer, sleep,
            block, looked, userVol, excused, moves>>

TypeOK ==
  /\ wall \in 0..MaxWall /\ stepped \in BOOLEAN
  /\ s_alarm_state \in {"IDLE", "RINGING", "SNOOZED"}
  /\ s_alarm_active_idx \in Alarms
  /\ s_alarm_fired_min \in [Alarms -> 0..MaxWall]
  /\ s_alarm_snooze_until \in 0..(MaxWall + SnoozeMinutes)
  /\ s_alarm_saved_vol \in Levels
  /\ {s_alarm_ramp_done, s_alarm_beeping, s_alarm_beep_confirmed} \subseteq BOOLEAN
  /\ elapsed \in 0..3
  /\ rung \in [Alarms -> SUBSET (0..MaxWall)]
  /\ enabled \in [Alarms -> BOOLEAN]
  /\ s_play_q \in {None, "play", "stale", "beep", "other"}
  /\ {s_beep_stop, s_play_failed, current, streaming} \subseteq BOOLEAN
  /\ worker \in {"idle", "work", "connect", "retry", "sound", "acquire", "beep"}
  /\ sendspin \in {"off", "on", "stopping"}
  /\ volume \in Levels /\ userVol \in Levels
  /\ tick \in {"rest", "sleep", "block"}
  /\ screen \in {"home", "playing", "alarm", "timer"}
  /\ {s_tmr_ringing, s_sleep_choice, quiet, s_block_applied, looked, excused}
       \subseteq BOOLEAN
  /\ s_sleep_fade_saved \in Levels \union {NoFade}
  /\ moves \in 0..MaxMoves

Init ==
  /\ wall = 0 /\ stepped = FALSE
  /\ s_alarm_state = "IDLE" /\ s_alarm_active_idx = 0
  /\ s_alarm_fired_min = [i \in Alarms |-> 0]
  /\ s_alarm_snooze_until = 0
  /\ s_alarm_ramp_done = FALSE /\ s_alarm_beeping = FALSE
  /\ s_alarm_beep_confirmed = FALSE
  /\ elapsed = 0 /\ rung = [i \in Alarms |-> {}]
  /\ enabled = [i \in Alarms |-> TRUE]
  /\ s_play_q = None /\ s_beep_stop = FALSE /\ s_play_failed = FALSE
  /\ worker = "idle" /\ current = FALSE
  /\ sendspin = "off" /\ streaming = FALSE
  /\ userVol = BootVolume /\ volume = userVol /\ s_alarm_saved_vol = userVol
  /\ tick = "rest" /\ screen = "home" /\ s_tmr_ringing = FALSE
  /\ s_sleep_choice = FALSE /\ s_sleep_fade_saved = NoFade
  /\ quiet = FALSE /\ s_block_applied = FALSE
  /\ looked = FALSE /\ excused = FALSE /\ moves = 0

-----------------------------------------------------------------------------
(* The clock                                                                *)

Local == IF wall < BackAt THEN wall ELSE wall - BackBy

time_valid == wall > 0

Matches(i) ==
  /\ Local % MinutesPerDay = AlarmMinute[i]
  /\ (Local \div MinutesPerDay) % DaysPerWeek \in AlarmDays[i]

(* A minute is over, whether the idle engine has looked at it or not.      *)
NextMinute ==
  /\ tick = "rest" /\ time_valid /\ wall < MaxWall
  /\ wall' = wall + 1 /\ looked' = FALSE
  /\ UNCHANGED <<stepped, ring, enabled, sound, volume, tick, screen, timer,
                 sleep, block, userVol, excused, moves>>

(* SNTP sets the clock, and later corrects it by a minute.                 *)
SetClock ==
  /\ tick = "rest" /\ ~time_valid
  /\ wall' \in {1, 2} \intersect (1..MaxWall) /\ stepped' = TRUE /\ looked' = FALSE
  /\ UNCHANGED <<ring, enabled, sound, volume, tick, screen, timer, sleep, block,
                 userVol, excused, moves>>

CorrectClock ==
  /\ tick = "rest" /\ time_valid /\ moves < MaxMoves /\ moves' = moves + 1
  /\ wall' \in {wall - 1, wall + 1} \intersect (1..MaxWall)
  /\ stepped' = TRUE /\ looked' = FALSE
  /\ UNCHANGED <<ring, enabled, sound, volume, tick, screen, timer, sleep, block,
                 userVol, excused>>

-----------------------------------------------------------------------------
(* What the handlers of the LVGL task share                                 *)

audio_is_active == worker \in {"sound", "beep"} \/ streaming

Cancelled == IF s_play_q = "play" THEN "stale" ELSE s_play_q

SendspinStopped == IF sendspin = "off" THEN "off" ELSE "stopping"

ui_play ==
  /\ s_beep_stop' = TRUE
  /\ s_play_q' = "play" /\ s_play_failed' = FALSE
  /\ current' = FALSE /\ sendspin' = SendspinStopped
  /\ UNCHANGED <<worker, streaming>>

beep_takeover ==
  /\ s_beep_stop' = FALSE
  /\ s_play_q' = "beep"
  /\ current' = FALSE /\ sendspin' = SendspinStopped
  /\ UNCHANGED <<worker, s_play_failed, streaming>>

(* The sound of ui_stop; sleep_clear and the volume are the caller's.      *)
StopSound ==
  /\ s_beep_stop' = TRUE
  /\ s_play_q' = Cancelled
  /\ current' = FALSE
  /\ UNCHANGED <<worker, s_play_failed>>

Unfaded == IF s_sleep_fade_saved = NoFade THEN volume ELSE s_sleep_fade_saved

DisarmSleep == s_sleep_choice' = FALSE /\ s_sleep_fade_saved' = NoFade

ui_stop ==
  /\ StopSound
  /\ DisarmSleep /\ volume' = Unfaded

LeavePlaying == screen' = IF screen = "playing" THEN "home" ELSE screen

Move == tick = "rest" /\ moves < MaxMoves /\ moves' = moves + 1

-----------------------------------------------------------------------------
(* The alarm engine                                                         *)

(* A plausible bug: the minute since the epoch.                            *)
MutantEpochLatch == wall

(* The local day and minute, not the minute since the epoch.               *)
alarm_latch_key == Local

(* A plausible bug: the volume is saved before sleep_clear.                *)
MutantSavesFaded == volume

(* What alarm_fire keeps: the volume after sleep_clear.                    *)
VolumeToRestore == Unfaded

(* A source passes its pre-flight check (the radio is known and the        *)
(* network up, the track is on the card), or the beep takes its place.     *)
alarm_fire(i) ==
  /\ s_alarm_active_idx' = i
  /\ s_alarm_fired_min' = [s_alarm_fired_min EXCEPT ![i] = alarm_latch_key]
  /\ s_alarm_saved_vol' = VolumeToRestore
  /\ s_alarm_beep_confirmed' = FALSE /\ s_alarm_ramp_done' = FALSE
  /\ DisarmSleep /\ volume' = RampStart
  /\ \/ ui_play /\ s_alarm_beeping' = FALSE
     \/ beep_takeover /\ s_alarm_beeping' = TRUE
  /\ elapsed' = 0 /\ s_alarm_state' = "RINGING" /\ screen' = "alarm"
  /\ excused' = FALSE
  /\ UNCHANGED s_alarm_snooze_until

(* alarm_finish, but for the sound, which ui_stop stops.                   *)
EndRing(snooze) ==
  /\ DisarmSleep /\ volume' = s_alarm_saved_vol
  /\ IF snooze THEN /\ s_alarm_snooze_until' = wall + SnoozeMinutes
                    /\ s_alarm_state' = "SNOOZED"
               ELSE /\ s_alarm_state' = "IDLE"
                    /\ UNCHANGED s_alarm_snooze_until
  /\ screen' = "home" /\ looked' = FALSE

Due(i) ==
  /\ enabled[i] /\ time_valid /\ ~stepped
  /\ Matches(i)
  /\ alarm_latch_key # s_alarm_fired_min[i]

(* A plausible bug: the loop ends at the first match, fired or not.        *)
MutantFirstMatch ==
  {i \in Alarms : Due(i) /\ \A j \in Alarms : j < i => ~(enabled[j] /\ Matches(j))}

DueAlarms == {i \in Alarms : Due(i)}

TickIdle ==
  /\ s_alarm_state = "IDLE"
  /\ IF DueAlarms = {}
     THEN /\ looked' = (looked \/ (time_valid /\ ~stepped))
          /\ UNCHANGED <<ring, sound, volume, sleep, screen, excused>>
     ELSE \E i \in DueAlarms :
            /\ \A j \in DueAlarms : i <= j
            /\ alarm_fire(i)
            /\ rung' = [rung EXCEPT ![i] = @ \union {Local}]
            /\ UNCHANGED looked

TickSnoozed ==
  /\ s_alarm_state = "SNOOZED"
  /\ CASE ~enabled[s_alarm_active_idx] ->
            /\ s_alarm_state' = "IDLE" /\ looked' = FALSE
            /\ UNCHANGED <<s_alarm_active_idx, s_alarm_fired_min, s_alarm_snooze_until,
                           s_alarm_saved_vol, s_alarm_ramp_done, s_alarm_beeping,
                           s_alarm_beep_confirmed, elapsed, rung,
                           sound, volume, sleep, screen, excused>>
       [] enabled[s_alarm_active_idx] /\ wall >= s_alarm_snooze_until ->
            /\ alarm_fire(s_alarm_active_idx)
            /\ rung' = [rung EXCEPT ![s_alarm_active_idx] = {Local}]
            /\ UNCHANGED looked
       [] OTHER -> UNCHANGED <<ring, sound, volume, sleep, screen, excused, looked>>

Confirmed == s_alarm_beep_confirmed \/ worker = "beep"

(* A plausible bug: the retry asks whether a beep was posted, not whether  *)
(* it sounded.                                                             *)
MutantPostedIsHeard ==
  /\ ~s_alarm_beeping
  /\ s_play_failed \/ (~audio_is_active /\ elapsed > 0)

(* The source failed, or nothing has sounded for 20 s, and no beep was     *)
(* ever heard in this ring.                                                *)
NeedsBeep ==
  /\ ~Confirmed
  /\ s_play_failed \/ (~audio_is_active /\ elapsed > 0)

RingIsOver == elapsed = 3 \/ ~enabled[s_alarm_active_idx]

RampVolumes ==
  IF elapsed < 2
  THEN {v \in Levels : v \in (RampStart..Target) \union (Target..RampStart)}
  ELSE IF s_alarm_ramp_done THEN {volume} ELSE {Target}

TickRinging ==
  /\ s_alarm_state = "RINGING"
  /\ s_alarm_ramp_done' = (s_alarm_ramp_done \/ elapsed >= 2)
  /\ s_alarm_beep_confirmed' = Confirmed
  /\ s_alarm_beeping' = (s_alarm_beeping \/ NeedsBeep)
  /\ IF RingIsOver
     THEN /\ EndRing(FALSE)
          /\ s_beep_stop' = TRUE /\ current' = FALSE
          /\ IF NeedsBeep THEN s_play_q' = "beep" /\ sendspin' = SendspinStopped
                          ELSE s_play_q' = Cancelled /\ UNCHANGED sendspin
          /\ UNCHANGED <<worker, s_play_failed, streaming>>
     ELSE /\ volume' \in RampVolumes
          /\ IF NeedsBeep THEN beep_takeover ELSE UNCHANGED sound
          /\ UNCHANGED <<s_alarm_state, s_alarm_snooze_until, sleep, screen, looked>>
  /\ UNCHANGED <<s_alarm_active_idx, s_alarm_fired_min, s_alarm_saved_vol, elapsed,
                 rung, excused>>

(* The tick comes every second, the beep looks at its flag every 50 ms: no *)
(* tick finds a beep that was stopped before.                              *)
tick_alarm ==
  /\ tick = "rest" /\ tick' = "sleep" /\ stepped' = FALSE
  /\ ~(worker = "beep" /\ s_beep_stop)
  /\ TickIdle \/ TickSnoozed \/ TickRinging
  /\ UNCHANGED <<wall, enabled, timer, block, userVol, moves>>

(* The two buttons of the ringing screen.                                  *)
on_alarm_button(snooze) ==
  /\ Move /\ s_alarm_state = "RINGING" /\ screen = "alarm"
  /\ EndRing(snooze) /\ StopSound
  /\ UNCHANGED <<clock, s_alarm_active_idx, s_alarm_fired_min, s_alarm_saved_vol,
                 s_alarm_ramp_done, s_alarm_beeping, s_alarm_beep_confirmed, elapsed,
                 rung, enabled, remote, tick, timer, block, userVol, excused>>

(* The settings switch an alarm on or off.                                 *)
ToggleAlarm(i) ==
  /\ Move
  /\ enabled' = [enabled EXCEPT ![i] = ~@] /\ looked' = FALSE
  /\ UNCHANGED <<clock, ring, sound, volume, tick, screen, timer, sleep, block,
                 userVol, excused>>

(* The ring gets older. Half an hour passes with a sound in it: a ring     *)
(* that stays silent is what AlarmSounds is about.                         *)
RingGoesOn ==
  /\ s_alarm_state = "RINGING" /\ elapsed < 3
  /\ elapsed = 2 => audio_is_active
  /\ elapsed' = elapsed + 1
  /\ UNCHANGED <<clock, s_alarm_state, s_alarm_active_idx, s_alarm_fired_min,
                 s_alarm_snooze_until, s_alarm_saved_vol, s_alarm_ramp_done,
                 s_alarm_beeping, s_alarm_beep_confirmed, rung, enabled, sound, volume,
                 tick, screen, timer, sleep, block, looked, userVol, excused, moves>>

-----------------------------------------------------------------------------
(* The engines that follow the alarm in the same tick                       *)

(* tick_sleep_engine: the fade before the deadline, the deadline, and the  *)
(* timer with nothing left to stop.                                        *)
SleepFades ==
  /\ s_sleep_choice /\ sendspin = "off"
  /\ s_sleep_fade_saved' = Unfaded
  /\ volume' \in {v \in Levels : v <= Unfaded}
  /\ UNCHANGED <<s_sleep_choice, sound, screen>>

(* A ramp moved the volume during the fade: the volume is kept.            *)
FadeIsCancelled ==
  /\ s_sleep_choice /\ sendspin = "off"
  /\ s_alarm_state = "RINGING" /\ s_sleep_fade_saved # NoFade
  /\ s_sleep_fade_saved' = NoFade
  /\ UNCHANGED <<s_sleep_choice, volume, sound, screen>>

SleepStops ==
  /\ s_sleep_choice
  /\ DisarmSleep /\ volume' = Unfaded
  /\ sendspin' = SendspinStopped
  /\ IF audio_is_active THEN StopSound
     ELSE UNCHANGED <<s_beep_stop, s_play_q, task, s_play_failed>>
  /\ UNCHANGED streaming /\ LeavePlaying

SleepDisarms ==
  /\ s_sleep_choice /\ ~audio_is_active /\ sendspin = "off"
  /\ DisarmSleep /\ volume' = Unfaded
  /\ UNCHANGED <<sound, screen>>

tick_sleep_engine ==
  /\ tick = "sleep" /\ tick' = "block"
  /\ \/ SleepFades
     \/ FadeIsCancelled
     \/ SleepStops
     \/ SleepDisarms
     \/ UNCHANGED <<sleep, volume, sound, screen>>
  /\ UNCHANGED <<clock, ring, enabled, timer, block, looked, userVol, excused, moves>>

(* The parental block: on its edge it stops what sounds or reconnects,     *)
(* unless an alarm is in progress.                                         *)
BlockStops ==
  /\ quiet /\ s_alarm_state = "IDLE" /\ ~s_alarm_beeping

tick_parental_block ==
  /\ tick = "block" /\ tick' = "rest"
  /\ s_block_applied' = quiet
  /\ IF s_block_applied # quiet /\ BlockStops
     THEN /\ sendspin' = SendspinStopped
          /\ IF audio_is_active \/ worker = "retry" THEN ui_stop
             ELSE UNCHANGED <<s_play_q, s_beep_stop, s_play_failed, task, volume, sleep>>
          /\ UNCHANGED streaming /\ LeavePlaying
     ELSE UNCHANGED <<sound, volume, sleep, screen>>
  /\ UNCHANGED <<clock, ring, enabled, timer, quiet, looked, userVol, excused, moves>>

(* A window of quiet hours opens or closes, or the daily limit is reached. *)
QuietChanges ==
  /\ Move /\ quiet' = ~quiet
  /\ UNCHANGED <<clock, ring, enabled, sound, volume, tick, screen, timer, sleep,
                 s_block_applied, looked, userVol, excused>>

-----------------------------------------------------------------------------
(* The countdown timer                                                      *)

(* A ringing alarm keeps the sound and the screen.                         *)
timer_ring_start ==
  /\ Move
  /\ IF s_alarm_state = "RINGING" THEN UNCHANGED <<sound, s_tmr_ringing, screen>>
     ELSE beep_takeover /\ s_tmr_ringing' = TRUE /\ screen' = "timer"
  /\ UNCHANGED <<clock, ring, enabled, volume, tick, sleep, block, looked, userVol,
                 excused>>

timer_ring_end ==
  /\ s_tmr_ringing' = FALSE
  /\ s_beep_stop' = (s_beep_stop \/ (s_alarm_state # "RINGING" /\ worker = "beep"))
  /\ UNCHANGED <<s_play_q, s_play_failed, task, remote>>

(* The Stop button of the ring's screen.                                   *)
on_tmr_done_stop ==
  /\ tick = "rest" /\ screen = "timer"
  /\ timer_ring_end /\ screen' = "home"
  /\ UNCHANGED <<clock, ring, enabled, volume, tick, sleep, block, looked, userVol,
                 excused, moves>>

(* Another screen took the place of the timer's, or a minute is over.      *)
tick_chrono ==
  /\ tick = "rest" /\ s_tmr_ringing
  /\ timer_ring_end
  /\ UNCHANGED <<clock, ring, enabled, volume, tick, screen, sleep, block, looked,
                 userVol, excused, moves>>

-----------------------------------------------------------------------------
(* The user, on the device and on the web page                              *)

(* Not while a fade runs: see the README.                                  *)
UserVolume(v) ==
  /\ Move /\ s_sleep_fade_saved = NoFade
  /\ volume' = v
  /\ userVol' = IF s_alarm_state = "RINGING" THEN userVol ELSE v
  /\ UNCHANGED <<clock, ring, enabled, sound, tick, screen, timer, sleep, block,
                 looked, excused>>

UserPlays ==
  /\ Move /\ ~quiet
  /\ ui_play /\ screen' = "playing" /\ excused' = TRUE
  /\ UNCHANGED <<clock, ring, enabled, volume, tick, timer, sleep, block, looked, userVol>>

UserStops ==
  /\ Move
  /\ IF sendspin = "off" THEN ui_stop /\ UNCHANGED remote
     ELSE /\ sendspin' = SendspinStopped /\ UNCHANGED streaming
          /\ UNCHANGED <<s_play_q, s_beep_stop, s_play_failed, task, volume, sleep>>
  /\ LeavePlaying /\ excused' = TRUE
  /\ UNCHANGED <<clock, ring, enabled, tick, timer, block, looked, userVol>>

(* sleep_arm, by the button on the player or from the web page, at any     *)
(* time: it ends a fade that runs, and sets the timer or switches it off.  *)
on_sleep_toggle ==
  /\ Move
  /\ s_sleep_choice' \in BOOLEAN
  /\ s_sleep_fade_saved' = NoFade /\ volume' = Unfaded
  /\ excused' = TRUE
  /\ UNCHANGED <<clock, ring, enabled, sound, tick, screen, timer, block, looked, userVol>>

(* The schedulers of the same task post a refresh or a download; only what *)
(* is in the queue then is lost.                                           *)
OtherRequest ==
  /\ Move /\ ~audio_is_active
  /\ s_play_q' = "other"
  /\ UNCHANGED <<clock, ring, enabled, s_beep_stop, s_play_failed, task, remote,
                 volume, tick, screen, timer, sleep, block, looked, userVol, excused>>

-----------------------------------------------------------------------------
(* The worker task and Sendspin                                             *)

lvglState == <<clock, ring, enabled, volume, tick, screen, timer, sleep, block,
               looked, userVol>>

Take ==
  /\ worker = "idle" /\ s_play_q # None
  /\ s_play_q' = None
  /\ worker' = CASE s_play_q = "play"  -> "connect"
                 [] s_play_q = "beep"  -> "acquire"
                 [] s_play_q = "other" -> "work"
                 [] OTHER              -> "idle"
  /\ current' = (current \/ s_play_q = "play")
  /\ UNCHANGED <<s_beep_stop, s_play_failed, remote, lvglState, excused, moves>>

WorkEnds ==
  /\ worker = "work" /\ worker' = "idle"
  /\ UNCHANGED <<s_play_q, s_beep_stop, s_play_failed, current, remote, lvglState, excused, moves>>

Wanted == current /\ s_play_q = None

(* A stream waits for a Sendspin session to end before its first attempt,  *)
(* a file only for the output.                                             *)
Connects ==
  /\ worker \in {"connect", "retry"} /\ Wanted /\ ~streaming
  /\ worker = "retry" => sendspin = "off"
  /\ worker' = "sound"
  /\ UNCHANGED <<s_play_q, s_beep_stop, s_play_failed, current, remote, lvglState, excused, moves>>

(* The source cannot be had or breaks off: a stream is tried again, a file *)
(* and the last attempt end the play. A file may also be at its end. How   *)
(* it ended is recorded unless a Sendspin session is on.                   *)
SourceEnds ==
  /\ worker \in {"connect", "retry", "sound"} /\ Wanted
  /\ \/ sendspin = "off" /\ worker' = "retry" /\ UNCHANGED s_play_failed
     \/ sendspin = "off" /\ worker' = "idle" /\ s_play_failed' = TRUE
     \/ sendspin = "off" /\ worker = "sound" /\ worker' = "idle" /\ s_play_failed' = FALSE
     \/ sendspin # "off" /\ worker' = "idle" /\ UNCHANGED s_play_failed
  /\ UNCHANGED <<s_play_q, s_beep_stop, current, remote, lvglState, excused, moves>>

(* A stop, a takeover, a Sendspin session or its stream ends the attempts; *)
(* it counts as a failure if the wait for the session timed out or if the  *)
(* stream was left without one.                                            *)
SourceLeaves ==
  /\ \/ worker \in {"connect", "retry"} /\ (~Wanted \/ sendspin # "off" \/ streaming)
     \/ worker = "sound" /\ ~current
  /\ worker' = "idle"
  /\ \/ UNCHANGED s_play_failed
     \/ /\ worker # "sound" /\ current
        /\ streaming \/ (worker = "connect" /\ sendspin # "off")
        /\ s_play_failed' = TRUE
  /\ UNCHANGED <<s_play_q, s_beep_stop, current, remote, lvglState, excused, moves>>

(* beep_run *)
BeepStarts ==
  /\ worker = "acquire"
  /\ worker' = IF streaming THEN "idle" ELSE "beep"
  /\ UNCHANGED <<s_play_q, s_beep_stop, s_play_failed, current, remote, lvglState, excused, moves>>

BeepCannotOpen ==
  /\ worker = "acquire" /\ moves < MaxMoves /\ moves' = moves + 1
  /\ worker' = "idle"
  /\ UNCHANGED <<s_play_q, s_beep_stop, s_play_failed, current, remote, lvglState, excused>>

BeepEnds ==
  /\ worker = "beep" /\ s_beep_stop
  /\ worker' = "idle"
  /\ UNCHANGED <<s_play_q, s_beep_stop, s_play_failed, current, remote, lvglState, excused, moves>>

(* A write to the codec fails.                                             *)
BeepBreaks ==
  /\ worker = "beep" /\ moves < MaxMoves /\ moves' = moves + 1
  /\ worker' = "idle"
  /\ excused' = (excused \/ s_alarm_beep_confirmed)
  /\ UNCHANGED <<s_play_q, s_beep_stop, s_play_failed, current, remote, lvglState>>

(* Music Assistant starts to play while nothing holds the output: a        *)
(* session opens, or one whose stream was closed goes on.                  *)
SendspinStarts ==
  /\ ~streaming /\ worker \notin {"sound", "beep"}
  /\ moves < MaxMoves /\ moves' = moves + 1
  /\ streaming' = TRUE
  /\ sendspin' = IF sendspin = "off" THEN "on" ELSE sendspin
  /\ UNCHANGED <<s_play_q, s_beep_stop, s_play_failed, task, lvglState, excused>>

(* on_stream_end: a pause, a stop or the end of the music.                 *)
SendspinCloses ==
  /\ streaming /\ streaming' = FALSE
  /\ UNCHANGED <<s_play_q, s_beep_stop, s_play_failed, task, sendspin, lvglState, excused, moves>>

(* The stop was sent, or the server disconnected.                          *)
SendspinEnds ==
  /\ sendspin # "off" /\ sendspin' = "off"
  /\ UNCHANGED <<s_play_q, s_beep_stop, s_play_failed, task, streaming, lvglState, excused, moves>>

-----------------------------------------------------------------------------

WorkerStep ==
  \/ Take \/ WorkEnds \/ Connects \/ SourceLeaves
  \/ BeepStarts \/ BeepEnds

Tick == tick_alarm \/ tick_sleep_engine \/ tick_parental_block

User ==
  \/ \E snooze \in BOOLEAN : on_alarm_button(snooze)
  \/ \E i \in Alarms : ToggleAlarm(i)
  \/ \E v \in Levels : UserVolume(v)
  \/ UserPlays \/ UserStops \/ on_sleep_toggle

Next ==
  \/ Tick \/ User
  \/ NextMinute \/ SetClock \/ CorrectClock \/ RingGoesOn \/ QuietChanges
  \/ timer_ring_start \/ on_tmr_done_stop \/ tick_chrono \/ OtherRequest
  \/ WorkerStep \/ SourceEnds \/ BeepCannotOpen \/ BeepBreaks
  \/ SendspinStarts \/ SendspinCloses \/ SendspinEnds

(* The tick runs every second, the worker's steps end, a ring gets older.  *)
(* Nothing is assumed of Music Assistant.                                  *)
Fairness ==
  /\ WF_vars(Tick)
  /\ WF_vars(WorkerStep)
  /\ WF_vars(RingGoesOn /\ elapsed < 2)

Spec == Init /\ [][Next]_vars /\ Fairness

-----------------------------------------------------------------------------
(* Properties                                                               *)

(* Towards "the alarm always sounds" (en.md:314-315): a ring that is       *)
(* silent is heard again, whichever source failed, whatever overwrote the  *)
(* beep's request and whatever the worker or Music Assistant was doing,    *)
(* unless the ring is ended or excused: somebody commanded the player, or  *)
(* the codec failed under a beep that the engine had heard, after which    *)
(* nothing starts it again (ui.c:9289-9295; the README says so).           *)
AlarmSounds ==
  (s_alarm_state = "RINGING" /\ ~excused /\ ~audio_is_active)
    ~> (audio_is_active \/ excused \/ s_alarm_state # "RINGING")

(* alarm_latch_key (ui.c:7815-7817): an alarm does not fire twice in one   *)
(* minute of local time, not even in the hour that comes twice or after a  *)
(* correction of the clock. Its snooze starts the count anew (the README   *)
(* says why).                                                              *)
FiresOnce ==
  [][\A i \in Alarms :
       s_alarm_state = "IDLE" /\ s_alarm_state' = "RINGING" /\ s_alarm_active_idx' = i
         => Local \notin rung[i]]_vars

(* No minute at which the idle engine looked and found nothing more to     *)
(* fire ends with an alarm of that minute left out: not behind a lower     *)
(* alarm that has fired already, not on the tick of an SNTP jump.          *)
RingsOnTime ==
  [][wall' = wall + 1 /\ ~stepped' /\ s_alarm_state = "IDLE" /\ looked
       => \A i \in Alarms :
            enabled[i] /\ Matches(i) => s_alarm_fired_min[i] = Local]_vars

(* Outside of a ring the volume is the user's, or the one a fade started   *)
(* from is: neither a ring, nor its snooze, nor a sleep timer that the     *)
(* alarm cut short leaves the device at the volume of a ramp.              *)
VolumeRestored ==
  s_alarm_state # "RINGING" => Unfaded = userVol

(* "The Stop button ends the ring" (en.md:251-252): a beep that sounds and *)
(* that nobody stopped belongs to a ringing alarm or timer.                *)
BeepIsRung ==
  worker = "beep" /\ ~s_beep_stop /\ s_play_q # "beep"
    => s_alarm_state = "RINGING" \/ s_tmr_ringing

(* "During a window the device plays nothing" (en.md:393-394): the tick    *)
(* that applies a block while no alarm is in progress ends what plays.     *)
QuietStops ==
  [][~s_block_applied /\ s_block_applied' /\ s_alarm_state = "IDLE"
       => ~(worker = "sound" /\ current')]_vars
================================================================================
