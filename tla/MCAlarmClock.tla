------------------------------ MODULE MCAlarmClock ------------------------------
(* Two alarms of the same minute, one of them every day; a day has four    *)
(* minutes, a week two days, and minute 2 of day 0 comes twice.            *)
EXTENDS AlarmClock

MCMinute == [i \in Alarms |-> 2]
MCDays   == [i \in Alarms |-> IF i = 0 THEN {0, 1} ELSE {0}]
================================================================================
