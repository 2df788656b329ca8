---------------------------- MODULE AlarmClockProofs ----------------------------
(***************************************************************************)
(* Proofs about AlarmClock, for any number of alarms, any calendar, any    *)
(* volumes and any bounds. What every action does to the volume is said    *)
(* once by the invariant VolumeInv; what the idle engine may forget by     *)
(* LookedInv, what of the minutes it fired at may come again by RungInv.   *)
(***************************************************************************)
EXTENDS AlarmClock, TLAPS

-----------------------------------------------------------------------------
(* The volume                                                               *)

(* While an alarm rings, what it will put back is the user's volume; else  *)
(* the volume is the user's, or a fade started from it.                    *)
VolumeInv ==
  /\ {volume, userVol, s_alarm_saved_vol} \subseteq Levels
  /\ s_sleep_fade_saved \in Levels \union {NoFade}
  /\ s_alarm_state = "RINGING" => s_alarm_saved_vol = userVol
  /\ s_alarm_state # "RINGING" => Unfaded = userVol

LEMMA NoFadeIsNoLevel == NoFade \notin Levels
BY AlarmAssumption DEF NoFade

LEMMA VolumeInit == Init => VolumeInv
BY AlarmAssumption DEF Init, VolumeInv, Unfaded

(* After the two handlers that change the state of the alarm.              *)
LEMMA FireKeepsVolume ==
  ASSUME VolumeInv, NEW i, alarm_fire(i), s_alarm_state # "RINGING", UNCHANGED userVol
  PROVE  VolumeInv'
<1>1. Unfaded \in Levels
  BY DEF VolumeInv, Unfaded
<1>2. /\ s_alarm_saved_vol' = Unfaded /\ volume' = RampStart /\ s_alarm_state' = "RINGING"
      /\ s_sleep_fade_saved' = NoFade
  BY DEF alarm_fire, VolumeToRestore, DisarmSleep
<1> QED
  BY <1>1, <1>2, AlarmAssumption DEF VolumeInv

LEMMA EndKeepsVolume ==
  ASSUME VolumeInv, NEW snooze \in BOOLEAN, EndRing(snooze), s_alarm_state = "RINGING",
         UNCHANGED <<userVol, s_alarm_saved_vol>>
  PROVE  VolumeInv'
<1>1. /\ volume' = s_alarm_saved_vol /\ s_sleep_fade_saved' = NoFade
      /\ s_alarm_state' # "RINGING"
  BY DEF EndRing, DisarmSleep
<1> QED
  BY <1>1 DEF VolumeInv, Unfaded

(* A fade is undone.                                                       *)
LEMMA DisarmKeepsVolume ==
  ASSUME VolumeInv, DisarmSleep, volume' = Unfaded,
         UNCHANGED <<userVol, s_alarm_saved_vol, s_alarm_state>>
  PROVE  VolumeInv'
<1>1. Unfaded \in Levels /\ s_sleep_fade_saved' = NoFade
  BY DEF VolumeInv, Unfaded, DisarmSleep
<1> QED
  BY <1>1 DEF VolumeInv, Unfaded

LEMMA VolumeStep == VolumeInv /\ [Next]_vars => VolumeInv'
<1> SUFFICES ASSUME VolumeInv, [Next]_vars PROVE VolumeInv'
  OBVIOUS
<1>0. (UNCHANGED <<volume, userVol, s_alarm_saved_vol, s_sleep_fade_saved, s_alarm_state>>)
        => VolumeInv'
  BY DEF VolumeInv, Unfaded
<1>1. CASE tick_alarm
  <2>0. UNCHANGED userVol
    BY <1>1 DEF tick_alarm
  <2>1. CASE TickIdle
    <3>1. CASE DueAlarms = {}
      BY <1>0, <2>0, <2>1, <3>1 DEF TickIdle, ring, sleep
    <3>2. CASE DueAlarms # {}
      BY <2>0, <2>1, <3>2, FireKeepsVolume DEF TickIdle
    <3> QED
      BY <3>1, <3>2
  <2>2. CASE TickSnoozed
    <3>1. CASE ~enabled[s_alarm_active_idx]
      BY <2>0, <2>2, <3>1 DEF TickSnoozed, VolumeInv, Unfaded, sleep
    <3>2. CASE enabled[s_alarm_active_idx] /\ wall >= s_alarm_snooze_until
      BY <2>0, <2>2, <3>2, FireKeepsVolume DEF TickSnoozed
    <3>3. CASE enabled[s_alarm_active_idx] /\ ~(wall >= s_alarm_snooze_until)
      BY <1>0, <2>0, <2>2, <3>3 DEF TickSnoozed, ring, sleep
    <3> QED
      BY <3>1, <3>2, <3>3
  <2>3. CASE TickRinging
    <3>0. UNCHANGED s_alarm_saved_vol /\ s_alarm_state = "RINGING"
      BY <2>3 DEF TickRinging
    <3>1. CASE RingIsOver
      BY <2>0, <2>3, <3>0, <3>1, EndKeepsVolume DEF TickRinging
    <3>2. CASE ~RingIsOver
      <4>1. volume' \in Levels
        BY <2>3, <3>2, AlarmAssumption DEF TickRinging, RampVolumes, VolumeInv
      <4>2. UNCHANGED <<s_alarm_state, sleep>>
        BY <2>3, <3>2 DEF TickRinging
      <4> QED
        BY <2>0, <3>0, <4>1, <4>2 DEF VolumeInv, sleep
    <3> QED
      BY <3>1, <3>2
  <2> QED
    BY <1>1, <2>1, <2>2, <2>3 DEF tick_alarm
<1>2. CASE tick_sleep_engine
  <2>0. UNCHANGED <<userVol, s_alarm_saved_vol, s_alarm_state>>
    BY <1>2 DEF tick_sleep_engine, ring
  <2>1. CASE SleepFades
    <3>1. Unfaded \in Levels /\ Unfaded # NoFade
      BY NoFadeIsNoLevel DEF VolumeInv, Unfaded
    <3>2. s_sleep_fade_saved' = Unfaded /\ volume' \in Levels
      BY <2>1 DEF SleepFades
    <3>3. Unfaded' = Unfaded
      BY <3>1, <3>2 DEF Unfaded
    <3> QED
      BY <2>0, <3>1, <3>2, <3>3 DEF VolumeInv
  <2>4. CASE FadeIsCancelled
    BY <2>0, <2>4 DEF FadeIsCancelled, VolumeInv
  <2>2. CASE SleepStops \/ SleepDisarms
    BY <2>0, <2>2, DisarmKeepsVolume DEF SleepStops, SleepDisarms
  <2>3. CASE UNCHANGED <<sleep, volume, sound, screen>>
    BY <1>0, <2>0, <2>3 DEF sleep
  <2> QED
    BY <1>2, <2>1, <2>2, <2>3, <2>4 DEF tick_sleep_engine
<1>3. CASE tick_parental_block
  <2>0. UNCHANGED <<userVol, s_alarm_saved_vol, s_alarm_state>>
    BY <1>3 DEF tick_parental_block, ring
  <2>1. UNCHANGED <<volume, sleep>> \/ (DisarmSleep /\ volume' = Unfaded)
    BY <1>3 DEF tick_parental_block, ui_stop
  <2> QED
    BY <1>0, <2>0, <2>1, DisarmKeepsVolume DEF sleep
<1>4. ASSUME NEW snooze \in BOOLEAN, on_alarm_button(snooze) PROVE VolumeInv'
  BY <1>4, EndKeepsVolume DEF on_alarm_button
<1>5. ASSUME NEW v \in Levels, UserVolume(v) PROVE VolumeInv'
  BY <1>5 DEF UserVolume, VolumeInv, Unfaded, ring, sleep
<1>6. CASE UserStops
  <2>0. UNCHANGED <<userVol, s_alarm_saved_vol, s_alarm_state>>
    BY <1>6 DEF UserStops, ring
  <2>1. UNCHANGED <<volume, sleep>> \/ (DisarmSleep /\ volume' = Unfaded)
    BY <1>6 DEF UserStops, ui_stop
  <2> QED
    BY <1>0, <2>0, <2>1, DisarmKeepsVolume DEF sleep
<1>7. CASE \/ \E i \in Alarms : ToggleAlarm(i)
           \/ UserPlays \/ OtherRequest \/ QuietChanges
  BY <1>0, <1>7 DEF ToggleAlarm, UserPlays, OtherRequest, QuietChanges, ring, sleep
<1>12. CASE on_sleep_toggle
  <2>1. Unfaded \in Levels /\ s_sleep_fade_saved' = NoFade /\ volume' = Unfaded
    BY <1>12 DEF on_sleep_toggle, VolumeInv, Unfaded
  <2>2. UNCHANGED <<userVol, s_alarm_saved_vol, s_alarm_state>>
    BY <1>12 DEF on_sleep_toggle, ring
  <2> QED
    BY <2>1, <2>2 DEF VolumeInv, Unfaded
<1>8. CASE NextMinute \/ SetClock \/ CorrectClock \/ RingGoesOn
  BY <1>0, <1>8 DEF NextMinute, SetClock, CorrectClock, RingGoesOn, ring, sleep
<1>9. CASE timer_ring_start \/ on_tmr_done_stop \/ tick_chrono
  BY <1>0, <1>9 DEF timer_ring_start, on_tmr_done_stop, tick_chrono, ring, sleep
<1>10. CASE \/ WorkerStep \/ SourceEnds \/ BeepCannotOpen \/ BeepBreaks
            \/ SendspinStarts \/ SendspinCloses \/ SendspinEnds
  <2>1. UNCHANGED lvglState
    BY <1>10 DEF WorkerStep, Take, WorkEnds, Connects, SourceLeaves, BeepStarts,
                 BeepEnds, SourceEnds, BeepCannotOpen, BeepBreaks,
                 SendspinStarts, SendspinCloses, SendspinEnds
  <2> QED
    BY <1>0, <2>1 DEF lvglState, ring, sleep
<1>11. CASE UNCHANGED vars
  BY <1>0, <1>11 DEF vars, ring, sleep
<1> QED
  BY <1>1, <1>2, <1>3, <1>4, <1>5, <1>6, <1>7, <1>8, <1>9, <1>10, <1>11, <1>12
     DEF Next, Tick, User

(* Outside of a ring the volume is the user's, or the one that a running   *)
(* fade puts back.                                                         *)
THEOREM VolumeComesBack == Spec => []VolumeRestored
<1>1. VolumeInv => VolumeRestored
  BY DEF VolumeInv, VolumeRestored
<1> QED
  BY VolumeInit, VolumeStep, <1>1, PTL DEF Spec

-----------------------------------------------------------------------------
(* The minute                                                               *)

AllFired == \A i \in Alarms : enabled[i] /\ Matches(i) => s_alarm_fired_min[i] = Local

(* What the tick has looked at stays looked at: until the clock or an      *)
(* alarm's switch changes, an idle engine has nothing left to fire.        *)
LookedInv == s_alarm_state = "IDLE" /\ looked => AllFired

LEMMA LookedInit == Init => LookedInv
BY DEF Init, LookedInv

LEMMA LookedStep == LookedInv /\ [Next]_vars => LookedInv'
<1> SUFFICES ASSUME LookedInv, [Next]_vars PROVE LookedInv'
  OBVIOUS
<1>0. UNCHANGED <<wall, enabled, s_alarm_fired_min>> => AllFired' = AllFired
  BY DEF AllFired, Matches, Local
<1>1. UNCHANGED <<wall, enabled, ring, looked>> => LookedInv'
  BY <1>0 DEF LookedInv, ring
<1>2. CASE tick_alarm
  <2>1. CASE TickIdle
    <3>1. CASE DueAlarms = {}
      <4>1. /\ looked' => looked \/ (time_valid /\ ~stepped)
            /\ UNCHANGED <<wall, enabled, ring>> /\ s_alarm_state = "IDLE"
        BY <1>2, <2>1, <3>1 DEF tick_alarm, TickIdle
      <4>2. time_valid /\ ~stepped => AllFired
        BY <3>1 DEF AllFired, DueAlarms, Due, alarm_latch_key, Local
      <4>3. AllFired' = AllFired
        BY <1>0, <4>1 DEF ring
      <4> QED
        BY <4>1, <4>2, <4>3 DEF LookedInv
    <3>2. CASE DueAlarms # {}
      BY <2>1, <3>2 DEF TickIdle, alarm_fire, LookedInv
    <3> QED
      BY <3>1, <3>2
  <2>2. CASE TickSnoozed
    <3>1. CASE ~enabled[s_alarm_active_idx]
      BY <2>2, <3>1 DEF TickSnoozed, LookedInv
    <3>2. CASE enabled[s_alarm_active_idx] /\ wall >= s_alarm_snooze_until
      BY <2>2, <3>2 DEF TickSnoozed, alarm_fire, LookedInv
    <3>3. CASE enabled[s_alarm_active_idx] /\ ~(wall >= s_alarm_snooze_until)
      BY <2>2, <3>3 DEF TickSnoozed, ring, LookedInv
    <3> QED
      BY <3>1, <3>2, <3>3
  <2>3. CASE TickRinging
    BY <2>3 DEF TickRinging, EndRing, LookedInv
  <2> QED
    BY <1>2, <2>1, <2>2, <2>3 DEF tick_alarm
<1>3. CASE tick_sleep_engine \/ tick_parental_block
  BY <1>1, <1>3 DEF tick_sleep_engine, tick_parental_block, clock
<1>4. ASSUME NEW snooze \in BOOLEAN, on_alarm_button(snooze) PROVE LookedInv'
  BY <1>4 DEF on_alarm_button, EndRing, LookedInv
<1>5. CASE \E i \in Alarms : ToggleAlarm(i)
  BY <1>5 DEF ToggleAlarm, LookedInv
<1>6. CASE \/ \E v \in Levels : UserVolume(v)
           \/ UserPlays \/ UserStops \/ on_sleep_toggle
           \/ QuietChanges \/ OtherRequest
  BY <1>1, <1>6 DEF UserVolume, UserPlays, UserStops, on_sleep_toggle,
                    QuietChanges, OtherRequest, clock
<1>7. CASE NextMinute \/ SetClock \/ CorrectClock
  BY <1>7 DEF NextMinute, SetClock, CorrectClock, LookedInv
<1>8. CASE RingGoesOn
  BY <1>8 DEF RingGoesOn, LookedInv
<1>9. CASE timer_ring_start \/ on_tmr_done_stop \/ tick_chrono
  BY <1>1, <1>9 DEF timer_ring_start, on_tmr_done_stop, tick_chrono, clock
<1>10. CASE \/ WorkerStep \/ SourceEnds \/ BeepCannotOpen \/ BeepBreaks
            \/ SendspinStarts \/ SendspinCloses \/ SendspinEnds
  <2>1. UNCHANGED lvglState
    BY <1>10 DEF WorkerStep, Take, WorkEnds, Connects, SourceLeaves, BeepStarts,
                 BeepEnds, SourceEnds, BeepCannotOpen, BeepBreaks,
                 SendspinStarts, SendspinCloses, SendspinEnds
  <2> QED
    BY <1>1, <2>1 DEF lvglState, clock
<1>11. CASE UNCHANGED vars
  BY <1>1, <1>11 DEF vars, clock
<1> QED
  BY <1>2, <1>3, <1>4, <1>5, <1>6, <1>7, <1>8, <1>9, <1>10, <1>11
     DEF Next, Tick, User

(* A minute is left only by NextMinute or by a step of the clock.          *)
LEMMA MinuteEnds ==
  ASSUME LookedInv, Next, wall' = wall + 1, wall \in Nat, ~stepped', s_alarm_state = "IDLE",
         looked
  PROVE  AllFired
<1>0. UNCHANGED wall => FALSE
  OBVIOUS
<1>1. CASE NextMinute
  BY <1>1 DEF NextMinute, LookedInv
<1>2. CASE SetClock \/ CorrectClock
  BY <1>2 DEF SetClock, CorrectClock
<1>3. CASE Tick \/ User
  BY <1>0, <1>3 DEF Tick, tick_alarm, tick_sleep_engine, tick_parental_block, User,
     on_alarm_button, ToggleAlarm, UserVolume, UserPlays, UserStops, on_sleep_toggle, clock
<1>4. CASE \/ RingGoesOn \/ QuietChanges \/ timer_ring_start \/ on_tmr_done_stop
           \/ tick_chrono \/ OtherRequest
  BY <1>0, <1>4 DEF RingGoesOn, QuietChanges, timer_ring_start, on_tmr_done_stop,
                    tick_chrono, OtherRequest, clock
<1>5. CASE \/ WorkerStep \/ SourceEnds \/ BeepCannotOpen \/ BeepBreaks
           \/ SendspinStarts \/ SendspinCloses \/ SendspinEnds
  <2>1. UNCHANGED lvglState
    BY <1>5 DEF WorkerStep, Take, WorkEnds, Connects, SourceLeaves, BeepStarts,
                BeepEnds, SourceEnds, BeepCannotOpen, BeepBreaks,
                 SendspinStarts, SendspinCloses, SendspinEnds
  <2> QED
    BY <1>0, <2>1 DEF lvglState, clock
<1> QED
  BY <1>1, <1>2, <1>3, <1>4, <1>5 DEF Next

-----------------------------------------------------------------------------
(* The types                                                                *)

(* TypeOK in the parts that one action touches together.                   *)
ClockType == wall \in 0..MaxWall /\ stepped \in BOOLEAN /\ looked \in BOOLEAN
RingType ==
  /\ s_alarm_state \in {"IDLE", "RINGING", "SNOOZED"}
  /\ s_alarm_active_idx \in Alarms
  /\ s_alarm_fired_min \in [Alarms -> 0..MaxWall]
  /\ s_alarm_snooze_until \in 0..(MaxWall + SnoozeMinutes)
  /\ s_alarm_ramp_done \in BOOLEAN /\ s_alarm_beeping \in BOOLEAN
  /\ s_alarm_beep_confirmed \in BOOLEAN
  /\ elapsed \in 0..3
  /\ rung \in [Alarms -> SUBSET (0..MaxWall)]
SoundType ==
  /\ s_play_q \in {None, "play", "stale", "beep", "other"}
  /\ s_beep_stop \in BOOLEAN /\ s_play_failed \in BOOLEAN /\ current \in BOOLEAN
  /\ worker \in {"idle", "work", "connect", "retry", "sound", "acquire", "beep"}
  /\ sendspin \in {"off", "on", "stopping"} /\ streaming \in BOOLEAN
RestType ==
  /\ enabled \in [Alarms -> BOOLEAN]
  /\ tick \in {"rest", "sleep", "block"}
  /\ screen \in {"home", "playing", "alarm", "timer"}
  /\ s_tmr_ringing \in BOOLEAN /\ s_sleep_choice \in BOOLEAN
  /\ quiet \in BOOLEAN /\ s_block_applied \in BOOLEAN /\ excused \in BOOLEAN
  /\ moves \in 0..MaxMoves

Types == ClockType /\ RingType /\ SoundType /\ RestType

(* The bounds, without the calendar.                                       *)
LEMMA Bounds ==
  /\ MaxWall \in Nat /\ MaxMoves \in Nat /\ SnoozeMinutes \in Nat
  /\ BackAt \in Nat /\ BackBy \in Nat /\ BackBy < BackAt
  /\ 0 \in Alarms
BY AlarmAssumption DEF Alarms

LEMMA LocalType == ClockType => Local \in 0..MaxWall
BY Bounds DEF ClockType, Local

LEMMA TypeInit == Init => Types
<1> SUFFICES ASSUME Init PROVE Types
  OBVIOUS
<1>1. ClockType
  <2>1. wall \in 0..MaxWall
    BY Bounds DEF Init
  <2> QED
    BY <2>1, Zenon DEF Init, ClockType
<1>2. SoundType
  BY Zenon DEF Init, SoundType
<1>3. RingType
  <2>1. /\ s_alarm_fired_min \in [Alarms -> 0..MaxWall]
        /\ rung \in [Alarms -> SUBSET (0..MaxWall)]
    BY Bounds DEF Init
  <2>2. s_alarm_snooze_until \in 0..(MaxWall + SnoozeMinutes)
    BY Bounds DEF Init
  <2>3. s_alarm_active_idx \in Alarms /\ elapsed \in 0..3
    BY Bounds DEF Init
  <2> QED
    BY <2>1, <2>2, <2>3, Zenon DEF Init, RingType
<1>4. RestType
  <2>1. enabled \in [Alarms -> BOOLEAN] /\ moves \in 0..MaxMoves
    BY Bounds DEF Init
  <2> QED
    BY <2>1, Zenon DEF Init, RestType
<1> QED
  BY <1>1, <1>2, <1>3, <1>4 DEF Types

(* What alarm_fire and the two ways to a silent worker leave.              *)
LEMMA FireTypes ==
  ASSUME Types, NEW i \in Alarms, alarm_fire(i),
         rung' = [rung EXCEPT ![i] = {Local}] \/ rung' = [rung EXCEPT ![i] = @ \union {Local}]
  PROVE  RingType' /\ SoundType' /\ s_sleep_choice' \in BOOLEAN
         /\ screen' = "alarm" /\ excused' = FALSE
<1>1. Local \in 0..MaxWall
  BY LocalType DEF Types
<1>2. RingType'
  <2>1. /\ s_alarm_fired_min' = [s_alarm_fired_min EXCEPT ![i] = Local]
        /\ s_alarm_state' = "RINGING" /\ s_alarm_active_idx' = i /\ elapsed' = 0
        /\ s_alarm_snooze_until' = s_alarm_snooze_until
        /\ s_alarm_ramp_done' \in BOOLEAN /\ s_alarm_beeping' \in BOOLEAN
        /\ s_alarm_beep_confirmed' \in BOOLEAN
    BY DEF alarm_fire, alarm_latch_key
  <2>2. s_alarm_fired_min' \in [Alarms -> 0..MaxWall]
    BY <1>1, <2>1 DEF Types, RingType
  <2>3. rung' \in [Alarms -> SUBSET (0..MaxWall)]
    BY <1>1 DEF Types, RingType
  <2> QED
    BY <2>1, <2>2, <2>3 DEF Types, RingType
<1>3. SoundType'
  BY DEF Types, SoundType, alarm_fire, ui_play, beep_takeover, SendspinStopped
<1> QED
  BY <1>2, <1>3 DEF alarm_fire, DisarmSleep

LEMMA StopTypes ==
  ASSUME SoundType, StopSound, sendspin' \in {sendspin, SendspinStopped},
         UNCHANGED streaming
  PROVE  SoundType'
BY DEF SoundType, StopSound, Cancelled, SendspinStopped

LEMMA MoveType == RestType /\ (Move \/ (moves < MaxMoves /\ moves' = moves + 1))
                     => moves' \in 0..MaxMoves
BY Bounds DEF RestType, Move

LEMMA TypeStep == Types /\ [Next]_vars => Types'
<1> SUFFICES ASSUME Types, [Next]_vars PROVE Types'
  OBVIOUS
<1>0. ClockType /\ RingType /\ SoundType /\ RestType
  BY DEF Types
<1> USE DEF clock, task, remote, sleep, block, timer
<1>a. UNCHANGED sound => SoundType'
  BY <1>0 DEF sound, SoundType
<1>b. UNCHANGED ring => RingType'
  BY <1>0 DEF ring, RingType
<1>1. CASE tick_alarm
  <2>0. /\ UNCHANGED <<wall, enabled, s_tmr_ringing, quiet, s_block_applied, moves>>
        /\ tick' = "sleep" /\ stepped' = FALSE
    BY <1>1 DEF tick_alarm
  <2> DEFINE Others == /\ looked' \in BOOLEAN /\ excused' \in BOOLEAN
                       /\ screen' \in {"home", "playing", "alarm", "timer"}
                       /\ s_sleep_choice' \in BOOLEAN
  <2>1. CASE TickIdle
    <3>1. CASE DueAlarms = {}
      <4>1. RingType' /\ SoundType'
        BY <1>a, <1>b, <2>1, <3>1 DEF TickIdle
      <4>2. Others
        BY <1>0, <2>1, <3>1 DEF TickIdle, ClockType, RestType, time_valid
      <4> QED
        BY <1>0, <2>0, <4>1, <4>2 DEF Types, ClockType, RestType
    <3>2. CASE DueAlarms # {}
      <4>1. PICK i \in Alarms : alarm_fire(i) /\ rung' = [rung EXCEPT ![i] = @ \union {Local}]
        BY <2>1, <3>2 DEF TickIdle, DueAlarms
      <4>2. looked' = looked
        BY <2>1, <3>2 DEF TickIdle
      <4> QED
        BY <1>0, <2>0, <4>1, <4>2, FireTypes DEF Types, ClockType, RestType
    <3> QED
      BY <3>1, <3>2
  <2>2. CASE TickSnoozed
    <3>1. CASE ~enabled[s_alarm_active_idx]
      <4>1. RingType'
        BY <1>0, <2>2, <3>1 DEF TickSnoozed, RingType
      <4>2. SoundType' /\ Others
        BY <1>0, <1>a, <2>2, <3>1 DEF TickSnoozed, ClockType, RestType
      <4> QED
        BY <1>0, <2>0, <4>1, <4>2 DEF Types, ClockType, RestType
    <3>2. CASE enabled[s_alarm_active_idx] /\ wall >= s_alarm_snooze_until
      <4>1. /\ alarm_fire(s_alarm_active_idx)
            /\ rung' = [rung EXCEPT ![s_alarm_active_idx] = {Local}]
            /\ looked' = looked
        BY <2>2, <3>2 DEF TickSnoozed
      <4>2. s_alarm_active_idx \in Alarms
        BY <1>0 DEF RingType
      <4> QED
        BY <1>0, <2>0, <4>1, <4>2, FireTypes DEF Types, ClockType, RestType
    <3>3. CASE enabled[s_alarm_active_idx] /\ ~(wall >= s_alarm_snooze_until)
      <4>1. UNCHANGED <<ring, sound, volume, sleep, screen, excused, looked>>
        BY <2>2, <3>3 DEF TickSnoozed
      <4> QED
        BY <1>0, <1>a, <1>b, <2>0, <4>1 DEF Types, ClockType, RestType
    <3> QED
      BY <3>1, <3>2, <3>3
  <2>3. CASE TickRinging
    <3>1. /\ s_alarm_ramp_done' \in BOOLEAN /\ s_alarm_beeping' \in BOOLEAN
          /\ s_alarm_beep_confirmed' \in BOOLEAN
      BY <1>0, <2>3 DEF TickRinging, RingType, Confirmed, NeedsBeep
    <3>2. CASE RingIsOver
      <4>1. EndRing(FALSE)
        BY <2>3, <3>2 DEF TickRinging
      <4>2. RingType' /\ Others
        BY <1>0, <2>3, <3>1, <4>1
           DEF TickRinging, EndRing, DisarmSleep, RingType, RestType
      <4>3. SoundType'
        BY <1>0, <2>3, <3>2 DEF TickRinging, SoundType, Cancelled, SendspinStopped
      <4> QED
        BY <1>0, <2>0, <4>2, <4>3 DEF Types, ClockType, RestType
    <3>3. CASE ~RingIsOver
      <4>1. UNCHANGED <<s_alarm_state, s_alarm_snooze_until, sleep, screen, looked, excused>>
        BY <2>3, <3>3 DEF TickRinging
      <4>2. RingType'
        BY <1>0, <2>3, <3>1, <4>1 DEF TickRinging, RingType
      <4>3. SoundType'
        BY <1>0, <1>a, <2>3, <3>3 DEF TickRinging, beep_takeover, SendspinStopped, SoundType
      <4> QED
        BY <1>0, <2>0, <4>1, <4>2, <4>3 DEF Types, ClockType, RestType
    <3> QED
      BY <3>2, <3>3
  <2> QED
    BY <1>1, <2>1, <2>2, <2>3 DEF tick_alarm
<1>2. CASE tick_sleep_engine
  <2>1. UNCHANGED <<clock, ring, enabled, timer, block, looked, excused, moves>> /\ tick' = "block"
    BY <1>2 DEF tick_sleep_engine
  <2>2. /\ s_sleep_choice' \in BOOLEAN
        /\ screen' \in {"home", "playing", "alarm", "timer"}
    BY <1>0, <1>2 DEF tick_sleep_engine, SleepFades, FadeIsCancelled, SleepStops, SleepDisarms,
                      DisarmSleep, LeavePlaying, RestType
  <2>3. SoundType'
    <3>1. CASE SleepStops
      <4>1. CASE audio_is_active
        BY <1>0, <3>1, <4>1, StopTypes DEF SleepStops
      <4>2. CASE ~audio_is_active
        BY <1>0, <3>1, <4>2 DEF SleepStops, SoundType, SendspinStopped
      <4> QED
        BY <4>1, <4>2
    <3>2. CASE UNCHANGED sound
      BY <1>a, <3>2
    <3> QED
      BY <1>2, <3>1, <3>2 DEF tick_sleep_engine, SleepFades, FadeIsCancelled, SleepDisarms
  <2> QED
    BY <1>0, <1>b, <2>1, <2>2, <2>3 DEF Types, ClockType, RestType
<1>3. CASE tick_parental_block
  <2>1. /\ UNCHANGED <<clock, ring, enabled, timer, quiet, looked, excused, moves>>
        /\ tick' = "rest" /\ s_block_applied' = quiet
    BY <1>3 DEF tick_parental_block
  <2>2. /\ s_sleep_choice' \in BOOLEAN
        /\ screen' \in {"home", "playing", "alarm", "timer"}
    BY <1>0, <1>3 DEF tick_parental_block, ui_stop, DisarmSleep, LeavePlaying, RestType
  <2>3. SoundType'
    <3>1. CASE UNCHANGED sound
      BY <1>a, <3>1
    <3>2. CASE /\ sendspin' = SendspinStopped /\ UNCHANGED streaming
               /\ ui_stop \/ UNCHANGED <<s_play_q, s_beep_stop, s_play_failed, task>>
      <4>1. CASE ui_stop
        BY <1>0, <3>2, <4>1, StopTypes DEF ui_stop
      <4>2. CASE UNCHANGED <<s_play_q, s_beep_stop, s_play_failed, task>>
        BY <1>0, <3>2, <4>2 DEF SoundType, SendspinStopped
      <4> QED
        BY <3>2, <4>1, <4>2
    <3> QED
      BY <1>3, <3>1, <3>2 DEF tick_parental_block
  <2> QED
    BY <1>0, <1>b, <2>1, <2>2, <2>3 DEF Types, ClockType, RestType
<1>4. ASSUME NEW snooze \in BOOLEAN, on_alarm_button(snooze) PROVE Types'
  <2>1. RingType'
    BY <1>0, <1>4, Bounds DEF on_alarm_button, EndRing, RingType, ClockType
  <2>2. SoundType'
    BY <1>0, <1>4, StopTypes DEF on_alarm_button
  <2>3. ClockType'
    BY <1>0, <1>4 DEF on_alarm_button, EndRing, ClockType
  <2>4. RestType'
    BY <1>0, <1>4, MoveType DEF on_alarm_button, EndRing, DisarmSleep, RestType
  <2> QED
    BY <2>1, <2>2, <2>3, <2>4 DEF Types
<1>5. ASSUME NEW i \in Alarms, ToggleAlarm(i) PROVE Types'
  BY <1>0, <1>5, <1>a, <1>b, MoveType
     DEF ToggleAlarm, Types, ClockType, RestType
<1>6. ASSUME NEW v \in Levels, UserVolume(v) PROVE Types'
  BY <1>0, <1>6, <1>a, <1>b, MoveType
     DEF UserVolume, Types, ClockType, RestType
<1>7. CASE UserPlays
  <2>1. SoundType'
    BY <1>0, <1>7 DEF UserPlays, ui_play, SoundType, SendspinStopped
  <2> QED
    BY <1>0, <1>7, <1>b, <2>1, MoveType
       DEF UserPlays, Types, ClockType, RestType
<1>8. CASE UserStops
  <2>1. SoundType'
    <3>1. CASE sendspin = "off"
      BY <1>0, <1>8, <3>1, StopTypes DEF UserStops, ui_stop
    <3>2. CASE sendspin # "off"
      BY <1>0, <1>8, <3>2 DEF UserStops, SoundType, SendspinStopped
    <3> QED
      BY <3>1, <3>2
  <2>2. s_sleep_choice' \in BOOLEAN /\ screen' \in {"home", "playing", "alarm", "timer"}
    BY <1>0, <1>8 DEF UserStops, ui_stop, DisarmSleep, LeavePlaying, RestType
  <2> QED
    BY <1>0, <1>8, <1>b, <2>1, <2>2, MoveType
       DEF UserStops, Types, ClockType, RestType
<1>9. CASE on_sleep_toggle \/ QuietChanges
  BY <1>0, <1>9, <1>a, <1>b, MoveType
     DEF on_sleep_toggle, QuietChanges, Types, ClockType, RestType
<1>10. CASE OtherRequest
  <2>1. SoundType'
    BY <1>0, <1>10 DEF OtherRequest, SoundType
  <2> QED
    BY <1>0, <1>10, <1>b, <2>1, MoveType
       DEF OtherRequest, Types, ClockType, RestType
<1>11. CASE NextMinute \/ SetClock \/ CorrectClock
  <2>1. RingType' /\ SoundType'
    BY <1>11, <1>a, <1>b DEF NextMinute, SetClock, CorrectClock
  <2>2. ClockType'
    <3>1. wall' \in 0..MaxWall
      BY <1>0, <1>11, Bounds DEF NextMinute, SetClock, CorrectClock, ClockType
    <3>2. looked' \in BOOLEAN /\ stepped' \in BOOLEAN
      BY <1>0, <1>11, Zenon DEF NextMinute, SetClock, CorrectClock, ClockType
    <3> QED
      BY <3>1, <3>2 DEF ClockType
  <2>3. RestType'
    BY <1>0, <1>11, MoveType DEF NextMinute, SetClock, CorrectClock, RestType
  <2> QED
    BY <2>1, <2>2, <2>3 DEF Types
<1>12. CASE RingGoesOn
  <2>1. RingType'
    BY <1>0, <1>12 DEF RingGoesOn, RingType
  <2> QED
    BY <1>0, <1>12, <1>a, <2>1 DEF RingGoesOn, Types, ClockType, RestType
<1>13. CASE timer_ring_start
  <2>1. SoundType'
    BY <1>0, <1>13, <1>a DEF timer_ring_start, beep_takeover, SoundType, SendspinStopped
  <2> QED
    BY <1>0, <1>13, <1>b, <2>1, MoveType
       DEF timer_ring_start, Types, ClockType, RestType
<1>14. CASE on_tmr_done_stop \/ tick_chrono
  <2>1. SoundType'
    BY <1>0, <1>14 DEF on_tmr_done_stop, tick_chrono, timer_ring_end, SoundType
  <2> QED
    BY <1>0, <1>14, <1>b, <2>1
       DEF on_tmr_done_stop, tick_chrono, timer_ring_end, Types, ClockType, RestType
<1>15. CASE \/ WorkerStep \/ SourceEnds \/ BeepCannotOpen \/ BeepBreaks
            \/ SendspinStarts \/ SendspinCloses \/ SendspinEnds
  <2>1. UNCHANGED lvglState
    BY <1>15 DEF WorkerStep, Take, WorkEnds, Connects, SourceLeaves, BeepStarts,
                 BeepEnds, SourceEnds, BeepCannotOpen, BeepBreaks,
                 SendspinStarts, SendspinCloses, SendspinEnds
  <2>2. moves' \in 0..MaxMoves
    BY <1>0, <1>15, MoveType
       DEF RestType, WorkerStep, Take, WorkEnds, Connects, SourceLeaves, BeepStarts,
           BeepEnds, SourceEnds, BeepCannotOpen, BeepBreaks,
                 SendspinStarts, SendspinCloses, SendspinEnds
  <2>4. excused' \in BOOLEAN
    BY <1>0, <1>15
       DEF RestType, RingType, WorkerStep, Take, WorkEnds, Connects, SourceLeaves, BeepStarts,
           BeepEnds, SourceEnds, BeepCannotOpen, BeepBreaks,
           SendspinStarts, SendspinCloses, SendspinEnds
  <2>3. SoundType'
    <3>1. CASE Take
      BY <1>0, <3>1 DEF Take, SoundType
    <3>2. CASE WorkEnds \/ Connects \/ SourceEnds
      BY <1>0, <3>2 DEF WorkEnds, Connects, SourceEnds, SoundType
    <3>3. CASE SourceLeaves
      BY <1>0, <3>3 DEF SourceLeaves, SoundType
    <3>4. CASE BeepStarts \/ BeepEnds \/ BeepCannotOpen \/ BeepBreaks
      BY <1>0, <3>4 DEF BeepStarts, BeepEnds, BeepCannotOpen, BeepBreaks, SoundType
    <3>5. CASE SendspinStarts \/ SendspinCloses \/ SendspinEnds
      BY <1>0, <3>5 DEF SendspinStarts, SendspinCloses, SendspinEnds, SoundType
    <3> QED
      BY <1>15, <3>1, <3>2, <3>3, <3>4, <3>5 DEF WorkerStep
  <2> QED
    BY <1>0, <1>b, <2>1, <2>2, <2>3, <2>4 DEF lvglState, Types, ClockType, RestType
<1>16. CASE UNCHANGED vars
  BY <1>0, <1>16, <1>a, <1>b DEF vars, Types, ClockType, RestType
<1> QED
  BY <1>1, <1>2, <1>3, <1>4, <1>5, <1>6, <1>7, <1>8, <1>9, <1>10, <1>11, <1>12,
     <1>13, <1>14, <1>15, <1>16 DEF Next, Tick, User

(* TypeOK is an invariant of the alarm clock.                              *)
THEOREM TypeCorrect == Spec => []TypeOK
<1>1. Types /\ VolumeInv => TypeOK
  BY DEF Types, ClockType, RingType, SoundType, RestType, VolumeInv, TypeOK
<1> QED
  BY TypeInit, TypeStep, VolumeInit, VolumeStep, <1>1, PTL DEF Spec

(* No minute at which the idle engine looked and found nothing more to     *)
(* fire ends with an alarm of that minute left out, for any number of      *)
(* alarms and any calendar.                                                *)
THEOREM NoMinuteLeftOut == Spec => RingsOnTime
<1> DEFINE OnTime == wall' = wall + 1 /\ ~stepped' /\ s_alarm_state = "IDLE" /\ looked
                       => \A i \in Alarms :
                            enabled[i] /\ Matches(i) => s_alarm_fired_min[i] = Local
<1>1. Types /\ LookedInv /\ [Next]_vars => [OnTime]_vars
  <2>1. Types => wall \in Nat
    BY Bounds DEF Types, ClockType
  <2> QED
    BY <2>1, MinuteEnds DEF AllFired
<1> QED
  BY TypeInit, TypeStep, LookedInit, LookedStep, <1>1, PTL DEF Spec, RingsOnTime


-----------------------------------------------------------------------------
(* The minutes that come twice                                              *)

LocalAt(w) == IF w < BackAt THEN w ELSE w - BackBy

(* It never decreases: a correction that takes a minute back is counted.   *)
Progress == wall + moves

(* r has come already; r cannot come again.                                *)
Came(r) == \E w \in 0..MaxWall : w <= Progress /\ r = LocalAt(w)
Gone(r) == \A w \in 0..MaxWall : Progress <= w + MaxMoves => r < LocalAt(w)

OfTheDay(i, r) == r % MinutesPerDay = AlarmMinute[i]

(* Of the minutes an alarm fired at and could fire at again, only the one  *)
(* that it keeps may come back.                                            *)
RungInv ==
  \A i \in Alarms : \A r \in rung[i] :
    /\ r \in Nat /\ Came(r)
    /\ OfTheDay(i, r) /\ r # s_alarm_fired_min[i] => Gone(r)

LEMMA SameTimeOfDay ==
  ASSUME NEW a \in Nat, NEW b \in Nat, NEW m \in Nat \ {0}, a % m = b % m, a < b
  PROVE  a + m <= b
<1> DEFINE p == a \div m
           q == b \div m
           r == a % m
<1>1. /\ p \in Int /\ q \in Int /\ r \in Int
      /\ a = p * m + r /\ b = q * m + r
  <2>1. /\ a \div m \in Int /\ a = (a \div m) * m + (a % m) /\ a % m \in 0..(m - 1)
        /\ b \div m \in Int /\ b = (b \div m) * m + (b % m)
    OBVIOUS
  <2> QED
    BY <2>1
<1> HIDE DEF p, q, r
<1>2. p < q
  BY <1>1, SMTT(30)
<1>3. \A x, y \in Int : x < y => x * m + m <= y * m
  <2> TAKE x, y \in Int
  <2>1. CASE x < y
    BY <2>1, SMTT(30)
  <2> QED
    BY <2>1
<1>4. p * m + m <= q * m /\ p * m \in Int /\ q * m \in Int
  BY <1>1, <1>2, <1>3
<1> QED
  BY <1>1, <1>4

(* A minute of the same time of day that came earlier is gone for good, as *)
(* neither the corrections nor the change of the clocks make up a day.     *)
LEMMA EarlierIsGone ==
  ASSUME MaxMoves < MinutesPerDay, BackBy <= MinutesPerDay,
         ClockType, moves \in 0..MaxMoves,
         NEW r \in Nat, Came(r),
         r % MinutesPerDay = Local % MinutesPerDay, r # Local
  PROVE  Gone(r)
<1>0. /\ MinutesPerDay \in Nat \ {0} /\ MaxWall \in Nat /\ MaxMoves \in Nat
      /\ BackAt \in Nat /\ BackBy \in Nat /\ BackBy < BackAt
      /\ wall \in 0..MaxWall /\ moves \in 0..MaxMoves /\ Local \in Nat
      /\ Local = LocalAt(wall)
  BY AlarmAssumption, LocalType DEF ClockType, Local, LocalAt
<1>1. ~(Local < r)
  <2> SUFFICES ASSUME Local < r PROVE FALSE
    OBVIOUS
  <2>1. Local + MinutesPerDay <= r
    BY <1>0, SameTimeOfDay
  <2>2. PICK w \in 0..MaxWall : w <= wall + moves /\ r = LocalAt(w)
    BY DEF Came, Progress
  <2> QED
    BY <1>0, <2>1, <2>2 DEF LocalAt
<1>2. r + MinutesPerDay <= Local
  <2>1. r < Local
    BY <1>0, <1>1
  <2> QED
    BY <1>0, <2>1, SameTimeOfDay
<1>3. ASSUME NEW w \in 0..MaxWall, Progress <= w + MaxMoves PROVE r < LocalAt(w)
  <2>1. wall - w < MinutesPerDay /\ w \in Int
    BY <1>0, <1>3 DEF Progress
  <2>2. CASE wall < BackAt
    <3>1. Local = wall
      BY <2>2 DEF Local
    <3> QED
      BY <1>0, <1>2, <2>1, <2>2, <3>1 DEF LocalAt
  <2>3. CASE ~(wall < BackAt)
    <3>1. Local = wall - BackBy
      BY <2>3 DEF Local
    <3> QED
      BY <1>0, <1>2, <2>1, <2>3, <3>1 DEF LocalAt
  <2> QED
    BY <2>2, <2>3
<1> QED
  BY <1>3 DEF Gone

LEMMA RungInit == Init => RungInv
BY DEF Init, RungInv

LEMMA ProgressStep == Types /\ [Next]_vars => Progress <= Progress'
<1> SUFFICES ASSUME Types, [Next]_vars PROVE Progress <= Progress'
  OBVIOUS
<1>0. wall \in Nat /\ moves \in Nat
  BY Bounds DEF Types, ClockType, RestType
<1>a. ASSUME wall' = wall, moves' = moves \/ moves' = moves + 1 PROVE Progress <= Progress'
  <2>1. CASE moves' = moves
    BY <1>0, <1>a, <2>1 DEF Progress
  <2>2. CASE moves' = moves + 1
    BY <1>0, <1>a, <2>2 DEF Progress
  <2> QED
    BY <1>a, <2>1, <2>2
<1>1. CASE NextMinute
  BY <1>0, <1>1 DEF NextMinute, Progress
<1>2. CASE SetClock
  <2>1. wall = 0 /\ moves' = moves /\ wall' \in Nat
    BY <1>0, <1>2, Bounds DEF SetClock, time_valid
  <2>2. PICK n \in Nat : wall' = n
    BY <2>1
  <2>3. Progress' = n + moves
    BY <1>0, <2>1, <2>2 DEF Progress
  <2>4. Progress = moves
    BY <1>0, <2>1 DEF Progress
  <2> QED
    BY <1>0, <2>3, <2>4
<1>3. CASE CorrectClock
  <2>1. moves' = moves + 1 /\ (wall' = wall - 1 \/ wall' = wall + 1)
    BY <1>3 DEF CorrectClock
  <2>2. CASE wall' = wall - 1
    BY <1>0, <2>1, <2>2 DEF Progress
  <2>3. CASE wall' = wall + 1
    BY <1>0, <2>1, <2>3 DEF Progress
  <2> QED
    BY <2>1, <2>2, <2>3
<1>4. CASE Tick
  BY <1>a, <1>4 DEF Tick, tick_alarm, tick_sleep_engine, tick_parental_block, clock
<1>5. CASE User
  BY <1>a, <1>5 DEF User, on_alarm_button, ToggleAlarm, UserVolume, UserPlays, UserStops,
                    on_sleep_toggle, Move, clock
<1>6. CASE \/ RingGoesOn \/ QuietChanges \/ timer_ring_start \/ on_tmr_done_stop
           \/ tick_chrono \/ OtherRequest
  BY <1>a, <1>6 DEF RingGoesOn, QuietChanges, timer_ring_start, on_tmr_done_stop,
                    tick_chrono, OtherRequest, Move, clock
<1>7. CASE WorkerStep \/ SourceEnds \/ BeepCannotOpen \/ BeepBreaks
            \/ SendspinStarts \/ SendspinCloses \/ SendspinEnds
  <2>1. UNCHANGED lvglState /\ (moves' = moves \/ moves' = moves + 1)
    BY <1>7 DEF WorkerStep, Take, WorkEnds, Connects, SourceLeaves, BeepStarts,
                BeepEnds, SourceEnds, BeepCannotOpen, BeepBreaks,
                 SendspinStarts, SendspinCloses, SendspinEnds
  <2> QED
    BY <1>a, <2>1 DEF lvglState, clock
<1>8. CASE UNCHANGED vars
  BY <1>a, <1>8 DEF vars, clock
<1> QED
  BY <1>1, <1>2, <1>3, <1>4, <1>5, <1>6, <1>7, <1>8 DEF Next

LEMMA RungStays ==
  ASSUME RungInv, Types, Types', UNCHANGED <<rung, s_alarm_fired_min>>, Progress <= Progress'
  PROVE  RungInv'
<1>0. Progress \in Int /\ MaxMoves \in Int /\ MaxWall \in Int
  BY Bounds DEF Types, ClockType, RestType, Progress
<1>a. Progress' \in Int
  BY Bounds DEF Types, ClockType, RestType, Progress
<1>1. ASSUME NEW r, Came(r) PROVE Came(r)'
  <2>1. PICK w \in 0..MaxWall : w <= Progress /\ r = LocalAt(w)
    BY <1>1 DEF Came
  <2>2. w <= Progress'
    BY <1>0, <1>a, <2>1
  <2> QED
    BY <2>1, <2>2 DEF Came, LocalAt
<1>2. ASSUME NEW r, Gone(r) PROVE Gone(r)'
  <2> SUFFICES ASSUME NEW w \in 0..MaxWall, Progress' <= w + MaxMoves
               PROVE  r < LocalAt(w)
    BY DEF Gone, LocalAt
  <2>1. Progress <= w + MaxMoves
    BY <1>0, <1>a
  <2> QED
    BY <1>2, <2>1 DEF Gone
<1> QED
  BY <1>1, <1>2 DEF RungInv, OfTheDay

LEMMA NowCame == ClockType /\ moves \in 0..MaxMoves => Came(Local) /\ Local \in Nat
BY LocalType, Bounds DEF Came, Progress, Local, LocalAt, ClockType

LEMMA FireRings ==
  ASSUME MaxMoves < MinutesPerDay, BackBy <= MinutesPerDay,
         RungInv, Types, NEW i \in Alarms, alarm_fire(i), UNCHANGED <<wall, moves>>,
         \/ rung' = [rung EXCEPT ![i] = {Local}]
         \/ rung' = [rung EXCEPT ![i] = @ \union {Local}] /\ Matches(i)
  PROVE  RungInv'
<1>1. s_alarm_fired_min' = [s_alarm_fired_min EXCEPT ![i] = Local]
  BY DEF alarm_fire, alarm_latch_key
<1>2. Came(Local) /\ Local \in Nat
  BY NowCame DEF Types, RestType
<1>3. \A r : Came(r)' = Came(r) /\ Gone(r)' = Gone(r)
  BY DEF Came, Gone, Progress, LocalAt
<1>4. DOMAIN rung = Alarms /\ DOMAIN s_alarm_fired_min = Alarms
  BY DEF Types, RingType
<1> SUFFICES ASSUME NEW j \in Alarms, NEW r \in rung'[j]
             PROVE  /\ r \in Nat /\ Came(r)
                    /\ OfTheDay(j, r) /\ r # s_alarm_fired_min'[j] => Gone(r)
  BY <1>3 DEF RungInv, OfTheDay
<1>5. CASE j # i
  <2>1. rung'[j] = rung[j] /\ s_alarm_fired_min'[j] = s_alarm_fired_min[j]
    BY <1>1, <1>4, <1>5
  <2> QED
    BY <2>1 DEF RungInv
<1>6. CASE j = i
  <2>1. s_alarm_fired_min'[i] = Local
    BY <1>1, <1>4
  <2>2. r = Local \/ (r \in rung[i] /\ Matches(i))
    BY <1>4, <1>6
  <2>3. CASE r = Local
    BY <1>2, <1>6, <2>1, <2>3
  <2>4. CASE r # Local
    <3>1. r \in Nat /\ Came(r)
      BY <2>2, <2>4 DEF RungInv
    <3>2. OfTheDay(i, r) => r % MinutesPerDay = Local % MinutesPerDay
      BY <2>2, <2>4 DEF OfTheDay, Matches
    <3>3. OfTheDay(i, r) => Gone(r)
      BY <2>4, <3>1, <3>2, EarlierIsGone DEF Types, RestType
    <3> QED
      BY <1>6, <3>1, <3>3
  <2> QED
    BY <2>3, <2>4
<1> QED
  BY <1>5, <1>6

LEMMA RungStep ==
  ASSUME MaxMoves < MinutesPerDay, BackBy <= MinutesPerDay
  PROVE  RungInv /\ Types /\ [Next]_vars => RungInv'
<1> SUFFICES ASSUME RungInv, Types, [Next]_vars PROVE RungInv'
  OBVIOUS
<1>0. Types' /\ Progress <= Progress'
  BY TypeStep, ProgressStep
<1>a. UNCHANGED <<rung, s_alarm_fired_min>> => RungInv'
  BY <1>0, RungStays
<1>1. CASE tick_alarm
  <2>1. UNCHANGED <<wall, moves>>
    BY <1>1 DEF tick_alarm
  <2>2. CASE TickIdle /\ DueAlarms # {}
    <3>1. PICK i \in DueAlarms : alarm_fire(i) /\ rung' = [rung EXCEPT ![i] = @ \union {Local}]
      BY <2>2 DEF TickIdle
    <3>2. i \in Alarms /\ Matches(i)
      BY DEF DueAlarms, Due
    <3> QED
      BY <2>1, <3>1, <3>2, FireRings
  <2>3. CASE TickSnoozed /\ enabled[s_alarm_active_idx] /\ wall >= s_alarm_snooze_until
    <3>1. /\ alarm_fire(s_alarm_active_idx)
          /\ rung' = [rung EXCEPT ![s_alarm_active_idx] = {Local}]
      BY <2>3 DEF TickSnoozed
    <3>2. s_alarm_active_idx \in Alarms
      BY DEF Types, RingType
    <3> QED
      BY <2>1, <3>1, <3>2, FireRings
  <2>5. \/ UNCHANGED <<rung, s_alarm_fired_min>>
        \/ TickIdle /\ DueAlarms # {}
        \/ TickSnoozed /\ enabled[s_alarm_active_idx] /\ wall >= s_alarm_snooze_until
    <3>1. CASE TickIdle
      BY <3>1 DEF TickIdle, ring
    <3>2. CASE TickSnoozed
      BY <3>2 DEF TickSnoozed, ring
    <3>3. CASE TickRinging
      BY <3>3 DEF TickRinging
    <3> QED
      BY <1>1, <3>1, <3>2, <3>3 DEF tick_alarm
  <2> QED
    BY <1>a, <2>2, <2>3, <2>5
<1>2. CASE NextMinute \/ SetClock \/ CorrectClock \/ tick_sleep_engine \/ tick_parental_block
  BY <1>a, <1>2 DEF NextMinute, SetClock, CorrectClock, tick_sleep_engine,
                    tick_parental_block, ring
<1>3. CASE User
  BY <1>a, <1>3 DEF User, on_alarm_button, ToggleAlarm, UserVolume, UserPlays, UserStops,
                    on_sleep_toggle, ring
<1>4. CASE \/ RingGoesOn \/ QuietChanges \/ timer_ring_start \/ on_tmr_done_stop
           \/ tick_chrono \/ OtherRequest
  BY <1>a, <1>4 DEF RingGoesOn, QuietChanges, timer_ring_start, on_tmr_done_stop,
                    tick_chrono, OtherRequest, ring
<1>5. CASE WorkerStep \/ SourceEnds \/ BeepCannotOpen \/ BeepBreaks
            \/ SendspinStarts \/ SendspinCloses \/ SendspinEnds
  <2>1. UNCHANGED lvglState
    BY <1>5 DEF WorkerStep, Take, WorkEnds, Connects, SourceLeaves, BeepStarts,
                BeepEnds, SourceEnds, BeepCannotOpen, BeepBreaks,
                 SendspinStarts, SendspinCloses, SendspinEnds
  <2> QED
    BY <1>a, <2>1 DEF lvglState, ring
<1>6. CASE UNCHANGED vars
  BY <1>a, <1>6 DEF vars, ring
<1> QED
  BY <1>1, <1>2, <1>3, <1>4, <1>5, <1>6 DEF Next, Tick

(* An alarm that the idle engine fires has not fired in this minute of     *)
(* local time before, for any calendar and any number of alarms, as long   *)
(* as neither the change of the clocks nor the corrections of the clock    *)
(* take a whole day back.                                                  *)
THEOREM NeverTwice ==
  ASSUME MaxMoves < MinutesPerDay, BackBy <= MinutesPerDay PROVE Spec => FiresOnce
<1> DEFINE Once == \A i \in Alarms :
       s_alarm_state = "IDLE" /\ s_alarm_state' = "RINGING" /\ s_alarm_active_idx' = i
         => Local \notin rung[i]
<1>1. Types /\ RungInv /\ [Next]_vars => [Once]_vars
  <2> SUFFICES ASSUME Types, RungInv, Next, NEW i \in Alarms,
                      s_alarm_state = "IDLE", s_alarm_state' = "RINGING",
                      s_alarm_active_idx' = i
               PROVE  Local \notin rung[i]
    BY DEF vars
  <2>1. TickIdle /\ DueAlarms # {}
    <3>1. CASE tick_alarm
      BY <3>1 DEF tick_alarm, TickIdle, TickSnoozed, TickRinging, ring
    <3>2. CASE \/ NextMinute \/ SetClock \/ CorrectClock \/ tick_sleep_engine
               \/ tick_parental_block \/ QuietChanges \/ timer_ring_start
               \/ on_tmr_done_stop \/ tick_chrono \/ OtherRequest \/ RingGoesOn
      BY <3>2 DEF NextMinute, SetClock, CorrectClock, tick_sleep_engine, tick_parental_block,
                  QuietChanges, timer_ring_start, on_tmr_done_stop, tick_chrono, OtherRequest,
                  RingGoesOn, ring
    <3>3. CASE User
      BY <3>3 DEF User, on_alarm_button, ToggleAlarm, UserVolume, UserPlays, UserStops,
                  on_sleep_toggle, EndRing, ring
    <3>4. CASE WorkerStep \/ SourceEnds \/ BeepCannotOpen \/ BeepBreaks
            \/ SendspinStarts \/ SendspinCloses \/ SendspinEnds
      <4>1. UNCHANGED lvglState
        BY <3>4 DEF WorkerStep, Take, WorkEnds, Connects, SourceLeaves, BeepStarts,
                    BeepEnds, SourceEnds, BeepCannotOpen, BeepBreaks,
                 SendspinStarts, SendspinCloses, SendspinEnds
      <4> QED
        BY <4>1 DEF lvglState, ring
    <3> QED
      BY <3>1, <3>2, <3>3, <3>4 DEF Next, Tick
  <2>2. i \in DueAlarms
    BY <2>1 DEF TickIdle, alarm_fire
  <2>3. Local % MinutesPerDay = AlarmMinute[i] /\ Local # s_alarm_fired_min[i]
    BY <2>2 DEF DueAlarms, Due, Matches, alarm_latch_key
  <2>4. ~Gone(Local)
    <3>1. wall \in 0..MaxWall /\ moves \in 0..MaxMoves /\ Local = LocalAt(wall) /\ Local \in Nat
      BY NowCame DEF Types, ClockType, RestType, Local, LocalAt
    <3>2. Progress <= wall + MaxMoves
      BY <3>1, Bounds DEF Progress
    <3> QED
      BY <3>1, <3>2 DEF Gone
  <2> QED
    BY <2>3, <2>4 DEF RungInv, OfTheDay
<1>2. Types /\ [Next]_vars => Types'
  BY TypeStep
<1>3. RungInv /\ Types /\ [Next]_vars => RungInv'
  BY RungStep
<1> QED
  BY TypeInit, RungInit, <1>1, <1>2, <1>3, PTL DEF Spec, FiresOnce

=============================================================================
