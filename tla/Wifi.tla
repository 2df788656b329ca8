---------------------------------- MODULE Wifi ----------------------------------
(***************************************************************************)
(* The Wi-Fi manager (net.c) with at least one stored network: the event   *)
(* task (on_wifi_event), the timer task (reconnect_cb, roam_check_cb), and *)
(* the short-lived tasks that fail over to another network, raise the      *)
(* setup hotspot, or roam. They share plain variables and two atomic       *)
(* flags, and are interleaved between a check and what is done about it.   *)
(* The driver, the networks and the other user of the scan (GET /api/scan) *)
(* are the environment; what it does to the device is a fault, of which    *)
(* there are at most MaxFaults. Connections, scans and the timer take      *)
(* seconds, everything else milliseconds: one that ends while a task is in *)
(* the middle of its work is a fault, too.                                 *)
(***************************************************************************)
EXTENDS Integers, Sequences

CONSTANTS
  s_cred_count,          (* networks stored, in the order of order_by_signal *)
  Strongest,             (* those in range, strongest first                  *)
  FAILOVER_THRESHOLD,
  AP_FALLBACK_ATTEMPTS,
  MaxFaults              (* bound: faults                                    *)

Nets == 0..(s_cred_count - 1)
None == -1

ASSUME WifiAssumption ==
  /\ s_cred_count \in Nat \ {0}
  /\ Strongest \in Seq(Nets)
  /\ FAILOVER_THRESHOLD \in Nat \ {0}
  /\ AP_FALLBACK_ATTEMPTS \in Nat
  /\ MaxFaults \in Nat

VARIABLES
  s_state, s_want_sta, s_connected_once, s_ap_up,
  s_ap_pending, s_failover_running,
  s_cur, s_fail_count, s_total_fails, s_failover_stays, s_bench_idx,
  timer,           (* s_reconnect_timer is armed                             *)
  link, config,    (* the driver: its state and its station configuration    *)
  events,          (* what the driver has posted to the event task           *)
  boot, ev, rc, failover, ap, roam,   (* where each task is                  *)
  joinable,        (* the networks that accept the device where it is        *)
  faults           (* faults that happened                                   *)

state   == <<s_state, s_want_sta, s_connected_once, s_ap_up>>
flags   == <<s_ap_pending, s_failover_running>>
counts  == <<s_fail_count, s_total_fails, s_failover_stays>>
choice  == <<s_cur, s_bench_idx>>
driver  == <<link, config, events>>
tasks   == <<boot, ev, rc, failover, ap, roam>>
env     == <<joinable, faults>>
vars    == <<state, flags, counts, choice, timer, driver, tasks, env>>

Fault == faults < MaxFaults /\ faults' = faults + 1 /\ UNCHANGED joinable

(* No task has work left, except one that waits for a scan.                *)
Settled ==
  /\ events = <<>> /\ ev = "idle" /\ rc = "idle" /\ ap = "idle"
  /\ failover \in {"idle", "scan"} /\ roam \in {"idle", "scan"}

InSeconds == IF Settled THEN UNCHANGED env ELSE Fault

-----------------------------------------------------------------------------
(* The driver                                                              *)

(* esp_wifi_connect: refused unless the station is started and idle, and,  *)
(* once the web server is up, while it scans.                              *)
Connects == link = "idle" /\ link' = "connecting" /\ UNCHANGED env

Refused ==
  /\ \/ link # "idle" /\ UNCHANGED env
     \/ link = "idle" /\ boot = "done" /\ Fault
  /\ UNCHANGED link

(* esp_wifi_connect, or schedule_reconnect if it is refused                *)
ConnectOrLater ==
  \/ Connects /\ UNCHANGED timer
  \/ Refused /\ timer' = TRUE

(* apply_sta_config: the driver takes no configuration while it connects.  *)
Configured == IF link = "connecting" THEN config ELSE s_cur

Post(e) == events' = Append(events, e)

Joined ==
  /\ link = "connecting" /\ config \in joinable
  /\ link' = "online"
  /\ InSeconds
  /\ Post("got_ip")
  /\ UNCHANGED <<state, flags, counts, choice, timer, config, tasks>>

JoinFails ==
  /\ link = "connecting" /\ config \notin joinable
  /\ link' = "idle"
  /\ InSeconds
  /\ Post("disconnected")
  /\ UNCHANGED <<state, flags, counts, choice, timer, config, tasks>>

LinkLost ==
  /\ link \in {"connecting", "online"}
  /\ Fault
  /\ link' = "idle"
  /\ Post("disconnected")
  /\ UNCHANGED <<state, flags, counts, choice, timer, config, tasks>>

(* The device is carried elsewhere, or a network changes.                  *)
Moves ==
  /\ faults < MaxFaults /\ faults' = faults + 1
  /\ joinable' \in SUBSET Nets
  /\ UNCHANGED <<state, flags, counts, choice, timer, driver, tasks>>

(* NET_BENCH_US is over. The bench outlasts the attempts on the networks   *)
(* that are left, so an expiry counts among the faults.                    *)
BenchExpires ==
  /\ s_bench_idx # None
  /\ Fault
  /\ s_bench_idx' = None
  /\ UNCHANGED <<state, flags, counts, s_cur, timer, driver, tasks>>

-----------------------------------------------------------------------------
(* net_start. With one network STA_START makes the first connection; with  *)
(* more, s_want_sta stays off until a scan has ordered them.               *)

Init ==
  /\ s_state = IF s_cred_count = 1 THEN "connecting" ELSE "boot"
  /\ s_want_sta = (s_cred_count = 1)
  /\ s_connected_once = FALSE /\ s_ap_up = FALSE
  /\ s_ap_pending = FALSE /\ s_failover_running = FALSE
  /\ s_cur = 0 /\ s_bench_idx = None
  /\ s_fail_count = 0 /\ s_total_fails = 0 /\ s_failover_stays = 0
  /\ timer = FALSE
  /\ link = "idle" /\ config = 0 /\ events = <<"sta_start">>
  /\ boot = IF s_cred_count = 1 THEN "done" ELSE "ordering"
  /\ ev = "idle" /\ rc = "idle" /\ failover = "idle" /\ ap = "idle" /\ roam = "idle"
  /\ joinable \in SUBSET Nets
  /\ faults = 0

(* From s_want_sta to the end net_start runs for less than any connection. *)
net_start ==
  /\ boot = "ordering"
  /\ s_want_sta' = TRUE
  /\ Connects \/ Refused
  /\ s_state' = "connecting"
  /\ boot' = "done"
  /\ UNCHANGED <<s_connected_once, s_ap_up, flags, counts, choice, timer, config, events,
                 ev, rc, failover, ap, roam>>

-----------------------------------------------------------------------------
(* on_wifi_event, on the event task                                        *)

Handles(e) == ev = "idle" /\ events # <<>> /\ Head(events) = e

Repairing == s_ap_pending \/ s_failover_running

StaStart ==
  /\ Handles("sta_start")
  /\ IF s_want_sta /\ ~s_ap_pending THEN ConnectOrLater ELSE UNCHANGED <<link, timer, env>>
  /\ events' = Tail(events)
  /\ UNCHANGED <<state, flags, counts, choice, config, tasks>>

Fails      == s_fail_count + 1
TotalFails == IF s_connected_once THEN s_total_fails ELSE s_total_fails + 1

FailsOver ==
  /\ s_cred_count >= 2
  /\ Fails >= FAILOVER_THRESHOLD
  /\ s_ap_up \/ s_connected_once \/ TotalFails < AP_FALLBACK_ATTEMPTS

(* The failover, whose task may not start; a connection at once after one  *)
(* that worked; else one later.                                            *)
Repair ==
  IF FailsOver
  THEN /\ UNCHANGED link
       /\ \/ /\ s_failover_running' = TRUE
             /\ failover' = IF s_failover_running THEN failover ELSE "scan"
             /\ UNCHANGED <<timer, env>>
          \/ /\ ~s_failover_running /\ Fault /\ timer' = TRUE
             /\ UNCHANGED <<s_failover_running, failover>>
  ELSE /\ IF s_connected_once THEN ConnectOrLater ELSE timer' = TRUE /\ UNCHANGED <<link, env>>
       /\ UNCHANGED <<s_failover_running, failover>>

MutantCountsOn == s_fail_count' = Fails /\ s_total_fails' = TotalFails /\ UNCHANGED s_failover_stays

(* The counters are capped where they stop making a difference.            *)
Count ==
  /\ s_fail_count' = IF Fails > FAILOVER_THRESHOLD THEN FAILOVER_THRESHOLD ELSE Fails
  /\ s_total_fails' = IF TotalFails > AP_FALLBACK_ATTEMPTS THEN AP_FALLBACK_ATTEMPTS
                                                           ELSE TotalFails
  /\ UNCHANGED s_failover_stays

(* STA_DISCONNECTED: nothing to do if somebody else is repairing.          *)
Disconnected ==
  /\ Handles("disconnected")
  /\ s_state' = IF s_ap_up THEN "provisioning"
                ELSE IF s_want_sta THEN "connecting" ELSE "boot"
  /\ ev' = IF s_want_sta /\ ~Repairing THEN "lost" ELSE "idle"
  /\ events' = Tail(events)
  /\ UNCHANGED <<s_want_sta, s_connected_once, s_ap_up, flags, counts, choice, timer,
                 link, config, boot, rc, failover, ap, roam, env>>

RepairLoss ==
  /\ ev = "lost"
  /\ Count /\ Repair
  /\ ev' = "idle"
  /\ UNCHANGED <<state, s_ap_pending, choice, config, events, boot, rc, ap, roam>>

GotIp ==
  /\ Handles("got_ip")
  /\ timer' = FALSE
  /\ s_connected_once' = TRUE
  /\ s_fail_count' = 0 /\ s_total_fails' = 0 /\ s_failover_stays' = 0
  /\ s_state' = "connected"
  /\ events' = Tail(events)
  /\ UNCHANGED <<s_want_sta, s_ap_up, flags, choice, link, config, tasks, env>>
-----------------------------------------------------------------------------
(* reconnect_cb, on the timer task                                         *)

MutantNeverGivesUp == FALSE

GivesUp == ~s_ap_up /\ s_total_fails >= AP_FALLBACK_ATTEMPTS

(* The hotspot, whose task may not start: then connect and come back later. *)
Retry ==
  IF GivesUp
  THEN \/ /\ s_ap_pending' = TRUE
          /\ ap' = IF s_ap_pending THEN ap ELSE "begin"
          /\ UNCHANGED <<link, timer, env>>
       \/ /\ ~s_ap_pending /\ Fault /\ timer' = TRUE
          /\ link' = IF link = "idle" THEN "connecting" ELSE link
          /\ UNCHANGED <<s_ap_pending, ap>>
  ELSE ConnectOrLater /\ UNCHANGED <<s_ap_pending, ap>>

TimerFires ==
  /\ timer /\ rc = "idle"
  /\ InSeconds
  /\ timer' = FALSE
  /\ rc' = IF s_want_sta /\ s_state # "connected" /\ ~Repairing THEN "retry" ELSE "idle"
  /\ UNCHANGED <<state, flags, counts, choice, driver, boot, ev, failover, ap, roam>>

Retries ==
  /\ rc = "retry"
  /\ Retry
  /\ rc' = "idle"
  /\ UNCHANGED <<state, s_failover_running, counts, choice, config, events, boot, ev,
                 failover, roam>>

-----------------------------------------------------------------------------
(* failover_task                                                           *)

Visible == {Strongest[i] : i \in DOMAIN Strongest}

(* The strongest in range, one on the bench only if there is no other.     *)
BestOf(nets) == LET i == CHOOSE i \in DOMAIN Strongest :
                           /\ Strongest[i] \in nets
                           /\ \A j \in 1..(i - 1) : Strongest[j] \notin nets
                IN  Strongest[i]

Best == IF Visible \ {s_bench_idx} # {} THEN BestOf(Visible \ {s_bench_idx}) ELSE BestOf(Visible)

NextInTurn == (s_cur + 1) % s_cred_count

(* net_scan: it fails while the station connects, or for want of the lock. *)
ScanFails == Visible = {} \/ link \in {"connecting", "off"}

MutantAlwaysStrongest(scanned) ==
  /\ s_cur' = IF scanned THEN Best ELSE NextInTurn
  /\ s_failover_stays' = 0
  /\ UNCHANGED s_bench_idx

PickAfter(scanned) ==
  IF ~scanned
  THEN s_cur' = NextInTurn /\ s_failover_stays' = 0 /\ UNCHANGED s_bench_idx
  ELSE IF Best # s_cur
  THEN s_cur' = Best /\ s_failover_stays' = 0 /\ UNCHANGED s_bench_idx
  ELSE IF s_failover_stays = 0
  THEN s_failover_stays' = 1 /\ UNCHANGED choice
  ELSE s_failover_stays' = 0 /\ s_bench_idx' = s_cur /\ s_cur' = NextInTurn

FailoverPicks ==
  /\ failover = "scan"
  /\ \/ PickAfter(~ScanFails) /\ InSeconds
     \/ PickAfter(FALSE) /\ Fault
  /\ s_fail_count' = 0
  /\ failover' = "apply"
  /\ UNCHANGED <<state, flags, s_total_fails, timer, driver, boot, ev, rc, ap, roam>>

FailoverApplies ==
  /\ failover = "apply"
  /\ config' = Configured
  /\ failover' = "clear"
  /\ UNCHANGED <<state, flags, counts, choice, timer, link, events, boot, ev, rc, ap, roam, env>>

FailoverClears ==
  /\ failover = "clear"
  /\ s_failover_running' = FALSE
  /\ failover' = "schedule"
  /\ UNCHANGED <<state, s_ap_pending, counts, choice, timer, driver, boot, ev, rc, ap, roam, env>>

MutantFailoverForgets ==
  /\ failover = "schedule"
  /\ failover' = "idle"
  /\ UNCHANGED <<state, flags, counts, choice, timer, driver, boot, ev, rc, ap, roam, env>>

FailoverSchedules ==
  /\ failover = "schedule"
  /\ timer' = TRUE
  /\ failover' = "idle"
  /\ UNCHANGED <<state, flags, counts, choice, driver, boot, ev, rc, ap, roam, env>>

-----------------------------------------------------------------------------
(* ap_fallback_task and bring_up_ap                                        *)

ApBegins ==
  /\ ap = "begin"
  /\ ap' = IF s_state = "connected" THEN "clear" ELSE "stop"
  /\ UNCHANGED <<state, flags, counts, choice, timer, driver, boot, ev, rc, failover, roam, env>>

(* esp_wifi_stop                                                           *)
ApStops ==
  /\ ap = "stop"
  /\ link' = "off"
  /\ events' = IF link \in {"connecting", "online"} THEN Append(events, "disconnected") ELSE events
  /\ ap' = "start"
  /\ UNCHANGED <<state, flags, counts, choice, timer, config, boot, ev, rc, failover, roam, env>>

ApStarts ==
  /\ ap = "start"
  /\ config' = s_cur /\ link' = "idle" /\ Post("sta_start")
  /\ s_ap_up' = TRUE
  /\ s_state' = IF s_state = "connected" THEN s_state ELSE "provisioning"
  /\ ap' = "clear"
  /\ UNCHANGED <<s_want_sta, s_connected_once, flags, counts, choice, timer, boot, ev, rc,
                 failover, roam, env>>

(* A step of it fails: back to the station alone, which may fail as well.  *)
ApFails ==
  /\ ap = "start"
  /\ Fault
  /\ \/ config' = s_cur /\ link' = "idle" /\ Post("sta_start")
     \/ UNCHANGED driver
  /\ s_ap_up' = FALSE
  /\ s_state' = IF s_state = "connected" THEN s_state ELSE "connecting"
  /\ ap' = "clear"
  /\ UNCHANGED <<s_want_sta, s_connected_once, flags, counts, choice, timer, boot, ev, rc,
                 failover, roam>>

ApClears ==
  /\ ap = "clear"
  /\ s_ap_pending' = FALSE
  /\ ap' = "schedule"
  /\ UNCHANGED <<state, s_failover_running, counts, choice, timer, driver, boot, ev, rc,
                 failover, roam, env>>

ApSchedules ==
  /\ ap = "schedule"
  /\ timer' = (timer \/ s_state # "connected")
  /\ ap' = "idle"
  /\ UNCHANGED <<state, flags, counts, choice, driver, boot, ev, rc, failover, roam, env>>

-----------------------------------------------------------------------------
(* roam_check_cb and roam_task. A weak signal is a fault of the link.      *)

roam_check_cb ==
  /\ roam = "idle" /\ rc = "idle"
  /\ s_state = "connected" /\ s_cred_count >= 2 /\ link = "online"
  /\ Fault
  /\ roam' = "scan"
  /\ UNCHANGED <<state, flags, counts, choice, timer, driver, boot, ev, rc, failover, ap>>

(* The scan blocks; the link and the repairs are looked at again after it. *)
RoamPicks ==
  /\ roam = "scan"
  /\ \/ /\ s_state = "connected" /\ ~Repairing
        /\ \E c \in Visible \ {config, s_bench_idx} : s_cur' = c
        /\ roam' = "apply"
     \/ roam' = "idle" /\ UNCHANGED s_cur
  /\ UNCHANGED <<state, flags, counts, s_bench_idx, timer, driver, boot, ev, rc, failover, ap, env>>

RoamApplies ==
  /\ roam = "apply"
  /\ config' = Configured
  /\ roam' = "disconnect"
  /\ UNCHANGED <<state, flags, counts, choice, timer, link, events, boot, ev, rc, failover, ap, env>>

RoamDisconnects ==
  /\ roam = "disconnect"
  /\ IF link \in {"connecting", "online"} THEN link' = "idle" /\ Post("disconnected")
                                          ELSE UNCHANGED <<link, events>>
  /\ roam' = "idle"
  /\ UNCHANGED <<state, flags, counts, choice, timer, config, boot, ev, rc, failover, ap, env>>

-----------------------------------------------------------------------------
Driver == Joined \/ JoinFails
EventTask == StaStart \/ Disconnected \/ RepairLoss \/ GotIp
TimerTask == TimerFires \/ Retries
FailoverTask == FailoverPicks \/ FailoverApplies \/ FailoverClears \/ FailoverSchedules
ApTask == ApBegins \/ ApStops \/ ApStarts \/ ApFails \/ ApClears \/ ApSchedules
RoamTask == RoamPicks \/ RoamApplies \/ RoamDisconnects

Next ==
  \/ Driver \/ LinkLost \/ Moves \/ BenchExpires
  \/ net_start
  \/ EventTask \/ TimerTask \/ FailoverTask \/ ApTask \/ roam_check_cb \/ RoamTask

Spec == Init /\ [][Next]_vars

(* The driver answers, the event loop and the timer task run, and a task   *)
(* that was created gets to run (FreeRTOS schedules by priority, and none  *)
(* of these waits for another). What takes seconds ends although others    *)
(* have work now and then: hence the strong fairness.                      *)
FairSpec ==
  /\ Spec
  /\ SF_vars(Driver) /\ SF_vars(TimerTask) /\ SF_vars(FailoverTask)
  /\ WF_vars(net_start) /\ WF_vars(EventTask) /\ WF_vars(ApTask) /\ WF_vars(RoamTask)

-----------------------------------------------------------------------------
(* Properties                                                              *)

TypeOK ==
  /\ s_state \in {"boot", "connecting", "connected", "provisioning"}
  /\ s_want_sta \in BOOLEAN /\ s_connected_once \in BOOLEAN /\ s_ap_up \in BOOLEAN
  /\ s_ap_pending \in BOOLEAN /\ s_failover_running \in BOOLEAN
  /\ s_cur \in Nets /\ config \in Nets /\ s_bench_idx \in Nets \cup {None}
  /\ s_fail_count \in 0..FAILOVER_THRESHOLD
  /\ s_total_fails \in 0..AP_FALLBACK_ATTEMPTS
  /\ s_failover_stays \in {0, 1}
  /\ timer \in BOOLEAN
  /\ link \in {"off", "idle", "connecting", "online"}
  /\ events \in Seq({"sta_start", "disconnected", "got_ip"})
  /\ boot \in {"ordering", "done"}
  /\ ev \in {"idle", "lost"} /\ rc \in {"idle", "retry"}
  /\ failover \in {"idle", "scan", "apply", "clear", "schedule"}
  /\ ap \in {"idle", "begin", "stop", "start", "clear", "schedule"}
  /\ roam \in {"idle", "scan", "apply", "disconnect"}
  /\ faults \in 0..MaxFaults

(* The flags are raised exactly while their tasks are on the way.          *)
FlagsHaveTasks ==
  /\ s_failover_running <=> failover \in {"scan", "apply", "clear"}
  /\ s_ap_pending <=> ap \in {"begin", "stop", "start", "clear"}

(* Something is still going to act on the station.                         *)
Pending ==
  \/ timer \/ rc # "idle" \/ ev # "idle" \/ events # <<>> \/ link = "connecting"
  \/ boot # "done" \/ failover # "idle" \/ ap # "idle"

(* A station that is not connected is never left alone: whatever event was *)
(* dropped because another task was repairing, a timer, a connection       *)
(* attempt, an event or a task is left to go on (on_wifi_event returns     *)
(* early on s_ap_pending and s_failover_running, reconnect_cb likewise).   *)
NeverStranded == link # "online" \/ s_state # "connected" => Pending

(* The networks that the failover gets to. The bench holds one: when the   *)
(* second goes there, the strongest comes off it and is picked again after *)
(* the third, so that the fourth in range never has its turn.              *)
Turns == IF Visible = {} THEN Nets ELSE {Strongest[k] : k \in DOMAIN Strongest \cap (1..3)}

(* As long as one of the three strongest networks accepts the device in    *)
(* the end, it gets connected, again and again if the link is lost. A      *)
(* device that only the fourth would take is not promised one              *)
(* (failover_task, s_bench_idx).                                           *)
Reconnects == <>[](joinable \cap Turns # {}) => []<>(s_state = "connected")

(* A device that never reaches any network raises the setup hotspot.       *)
HotspotOpens == [](joinable = {}) => <>s_ap_up
===============================================================================
