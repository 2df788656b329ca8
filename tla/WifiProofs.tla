------------------------------- MODULE WifiProofs -------------------------------
(***************************************************************************)
(* Proof that a station that is not connected is never left alone, for any *)
(* number of networks, any thresholds and any faults. It needs to know     *)
(* which task stands behind each flag (Flags), that nothing moves before   *)
(* the networks are ordered (Boot), and that s_state is ahead of the link  *)
(* only by events that are still to be handled (Lag).                      *)
(***************************************************************************)
EXTENDS Wifi, TLAPS, WellFoundedInduction

Events == {"sta_start", "disconnected", "got_ip"}

LossAfter(i) == \E j \in DOMAIN events : j > i /\ events[j] = "disconnected"

(* The event task will learn of a lost link: a state of "connected", and   *)
(* every address still to be handled, has a loss behind it.                *)
Lag ==
  link # "online" =>
    /\ s_state = "connected" => LossAfter(0)
    /\ \A i \in DOMAIN events : events[i] = "got_ip" => LossAfter(i)

(* Before net_start has ordered the networks the station rests.            *)
Boot ==
  /\ boot = "done" => s_want_sta
  /\ boot # "done" =>
       /\ boot = "ordering" /\ ~s_want_sta
       /\ link = "idle" /\ ev = "idle" /\ rc = "idle" /\ ap = "idle"

(* The stop of the driver holds the link down until the start.             *)
Down == ap = "start" => link = "off"

Booleans == s_failover_running \in BOOLEAN /\ s_ap_pending \in BOOLEAN /\ timer \in BOOLEAN

-----------------------------------------------------------------------------
(* The queue of the event task                                             *)

LEMMA EventsInit == Init => events \in Seq(Events)
BY DEF Init, Events

LEMMA EventsStep == events \in Seq(Events) /\ [Next]_vars => (events \in Seq(Events))'
<1> SUFFICES ASSUME events \in Seq(Events), [Next]_vars PROVE events' \in Seq(Events)
  OBVIOUS
<1> USE DEF driver, Events
<1>1. ASSUME NEW e \in Events, Post(e) PROVE events' \in Seq(Events)
  BY <1>1 DEF Post
<1>2. CASE events # <<>> /\ events' = Tail(events)
  BY <1>2
<1>3. CASE Driver \/ LinkLost \/ ApStarts
  BY <1>1, <1>3 DEF Driver, Joined, JoinFails, LinkLost, ApStarts
<1>4. CASE EventTask
  BY <1>2, <1>4 DEF EventTask, StaStart, Disconnected, RepairLoss, GotIp, Handles
<1>5. CASE ApStops
  BY <1>5 DEF ApStops
<1>6. CASE ApFails
  BY <1>1, <1>6 DEF ApFails
<1>7. CASE RoamDisconnects
  BY <1>1, <1>7 DEF RoamDisconnects
<1>8. CASE \/ Moves \/ BenchExpires \/ net_start \/ TimerTask \/ FailoverTask
           \/ roam_check_cb \/ UNCHANGED vars
  BY <1>8 DEF Moves, BenchExpires, net_start, TimerTask, TimerFires, Retries, FailoverTask,
              FailoverPicks, FailoverApplies, FailoverClears, FailoverSchedules,
              roam_check_cb, vars
<1>9. CASE ApBegins \/ ApClears \/ ApSchedules \/ RoamPicks \/ RoamApplies
  BY <1>9 DEF ApBegins, ApClears, ApSchedules, RoamPicks, RoamApplies
<1> QED
  BY <1>3, <1>4, <1>5, <1>6, <1>7, <1>8, <1>9 DEF Next, ApTask, RoamTask

(* The four ways in which a step touches the queue, the link and s_state.  *)
LEMMA LagPost ==
  ASSUME events \in Seq(Events), Post("disconnected") PROVE Lag'
<1>1. /\ Len(events') = Len(events) + 1 /\ events'[Len(events) + 1] = "disconnected"
      /\ DOMAIN events' = 1..(Len(events) + 1) /\ Len(events) \in Nat
  BY DEF Post, Events
<1>2. \A i \in 0..Len(events) : LossAfter(i)'
  BY <1>1 DEF LossAfter
<1> QED
  BY <1>1, <1>2 DEF Lag

LEMMA LagStart ==
  ASSUME events \in Seq(Events), Lag, link # "online", Post("sta_start"),
         s_state' = "connected" => s_state = "connected"
  PROVE  Lag'
<1>1. /\ DOMAIN events' = 1..(Len(events) + 1) /\ Len(events) \in Nat
      /\ \A i \in 1..Len(events) : events'[i] = events[i]
      /\ events'[Len(events) + 1] = "sta_start" /\ DOMAIN events = 1..Len(events)
  BY DEF Post, Events
<1>2. \A i : LossAfter(i) => LossAfter(i)'
  BY <1>1 DEF LossAfter
<1> QED
  BY <1>1, <1>2 DEF Lag

LEMMA LagTake ==
  ASSUME events \in Seq(Events), events # <<>>, events' = Tail(events), Lag,
         link' # "online" => link # "online",
         s_state' = "connected" =>
           Head(events) = "got_ip" \/ (s_state = "connected" /\ Head(events) # "disconnected")
  PROVE  Lag'
<1>1. /\ Len(events) \in Nat \ {0} /\ DOMAIN events = 1..Len(events)
      /\ DOMAIN events' = 1..(Len(events) - 1)
      /\ \A i \in 1..(Len(events) - 1) : events'[i] = events[i + 1]
      /\ Head(events) = events[1]
  BY DEF Events
<1>2. \A i \in Nat : LossAfter(i + 1) => LossAfter(i)'
  <2> SUFFICES ASSUME NEW i \in Nat, LossAfter(i + 1) PROVE LossAfter(i)'
    OBVIOUS
  <2>1. PICK j \in DOMAIN events : j > i + 1 /\ events[j] = "disconnected"
    BY DEF LossAfter
  <2>2. j - 1 \in DOMAIN events' /\ j - 1 > i /\ events'[j - 1] = "disconnected"
    BY <1>1, <2>1
  <2> QED
    BY <2>2 DEF LossAfter
<1>3. Head(events) # "disconnected" /\ LossAfter(0) => LossAfter(1)
  BY <1>1 DEF LossAfter
<1>4. ASSUME link # "online", s_state' = "connected" PROVE LossAfter(0)'
  <2>1. LossAfter(1)
    BY <1>1, <1>3, <1>4 DEF Lag
  <2> QED
    BY <1>2, <2>1
<1>5. ASSUME link # "online", NEW i \in DOMAIN events', events'[i] = "got_ip"
      PROVE  LossAfter(i)'
  BY <1>1, <1>2, <1>5 DEF Lag
<1> QED
  BY <1>4, <1>5 DEF Lag

LEMMA LagKeep ==
  ASSUME events' = events, Lag, link' # "online" => link # "online",
         s_state' = "connected" => s_state = "connected"
  PROVE  Lag'
BY DEF Lag, LossAfter

-----------------------------------------------------------------------------
(* The flags, the start and the stop of the driver                          *)

LEMMA FlagsInit == Init => Booleans /\ FlagsHaveTasks /\ Boot /\ Down
BY DEF Init, Booleans, FlagsHaveTasks, Boot, Down

LEMMA BooleansStep == Booleans /\ [Next]_vars => Booleans'
<1> SUFFICES ASSUME Booleans, [Next]_vars PROVE Booleans'
  OBVIOUS
<1> USE DEF Booleans, flags
<1>1. CASE Driver \/ LinkLost \/ Moves \/ BenchExpires \/ net_start \/ roam_check_cb
  BY <1>1 DEF Driver, Joined, JoinFails, LinkLost, Moves, BenchExpires, net_start, roam_check_cb
<1>2. CASE EventTask
  BY <1>2 DEF EventTask, StaStart, Disconnected, RepairLoss, GotIp, Repair, ConnectOrLater
<1>3. CASE TimerTask
  BY <1>3 DEF TimerTask, TimerFires, Retries, Retry, ConnectOrLater
<1>4. CASE FailoverTask
  BY <1>4 DEF FailoverTask, FailoverPicks, FailoverApplies, FailoverClears, FailoverSchedules
<1>5. CASE ApTask
  BY <1>5 DEF ApTask, ApBegins, ApStops, ApStarts, ApFails, ApClears, ApSchedules
<1>6. CASE RoamTask
  BY <1>6 DEF RoamTask, RoamPicks, RoamApplies, RoamDisconnects
<1>7. CASE UNCHANGED vars
  BY <1>7 DEF vars
<1> QED
  BY <1>1, <1>2, <1>3, <1>4, <1>5, <1>6, <1>7 DEF Next

LEMMA PicksLeaves ==
  ASSUME FailoverPicks
  PROVE  /\ failover = "scan" /\ failover' = "apply"
         /\ UNCHANGED <<state, flags, driver, boot, ev, rc, ap, roam>>
<1> DEFINE Choice == \/ PickAfter(~ScanFails) /\ InSeconds
                     \/ PickAfter(FALSE) /\ Fault
<1>1. /\ failover = "scan" /\ Choice /\ s_fail_count' = 0 /\ failover' = "apply"
      /\ UNCHANGED <<state, flags, s_total_fails, timer, driver, boot, ev, rc, ap, roam>>
  BY Zenon DEF FailoverPicks
<1> HIDE DEF Choice
<1> QED
  BY <1>1

LEMMA FlagsStep == Booleans /\ FlagsHaveTasks /\ [Next]_vars => FlagsHaveTasks'
<1> SUFFICES ASSUME Booleans, FlagsHaveTasks, [Next]_vars PROVE FlagsHaveTasks'
  OBVIOUS
<1> USE DEF Booleans, FlagsHaveTasks, flags
<1>1. CASE Driver \/ LinkLost \/ Moves \/ BenchExpires \/ net_start \/ roam_check_cb
  BY <1>1 DEF Driver, Joined, JoinFails, LinkLost, Moves, BenchExpires, net_start,
              roam_check_cb, tasks
<1>2. CASE StaStart \/ Disconnected \/ GotIp
  BY <1>2 DEF StaStart, Disconnected, GotIp, tasks
<1>3. CASE RepairLoss
  BY <1>3 DEF RepairLoss, Repair
<1>4. CASE TimerFires
  BY <1>4 DEF TimerFires
<1>5. CASE Retries
  BY <1>5 DEF Retries, Retry
<1>6. CASE FailoverTask
  <2>1. CASE FailoverPicks \/ FailoverApplies
    BY <2>1, PicksLeaves DEF FailoverApplies
  <2>2. CASE FailoverClears \/ FailoverSchedules
    BY <2>2 DEF FailoverClears, FailoverSchedules
  <2> QED
    BY <1>6, <2>1, <2>2 DEF FailoverTask
<1>7. CASE ApTask
  BY <1>7 DEF ApTask, ApBegins, ApStops, ApStarts, ApFails, ApClears, ApSchedules
<1>8. CASE RoamTask
  BY <1>8 DEF RoamTask, RoamPicks, RoamApplies, RoamDisconnects
<1>9. CASE UNCHANGED vars
  BY <1>9 DEF vars, tasks
<1> QED
  BY <1>1, <1>2, <1>3, <1>4, <1>5, <1>6, <1>7, <1>8, <1>9 DEF Next, EventTask, TimerTask

(* The flags of the two repairs are raised exactly while their tasks are   *)
(* on the way: no flag is left behind that would silence every handler.    *)
THEOREM FlagsAreTrue == Spec => []FlagsHaveTasks
BY FlagsInit, BooleansStep, FlagsStep, PTL DEF Spec

LEMMA BootStep == Boot /\ [Next]_vars => Boot'
<1> SUFFICES ASSUME Boot, [Next]_vars PROVE Boot'
  OBVIOUS
<1> USE DEF Boot, state, driver
<1>1. CASE Driver \/ LinkLost \/ Moves \/ BenchExpires \/ net_start \/ roam_check_cb
  BY <1>1 DEF Driver, Joined, JoinFails, LinkLost, Moves, BenchExpires, net_start,
              roam_check_cb, tasks
<1>2. CASE StaStart \/ Disconnected \/ GotIp
  BY <1>2 DEF StaStart, Disconnected, GotIp, tasks
<1>3. CASE RepairLoss
  BY <1>3 DEF RepairLoss
<1>4. CASE TimerFires
  BY <1>4 DEF TimerFires
<1>5. CASE Retries
  BY <1>5 DEF Retries
<1>6. CASE FailoverTask
  BY <1>6, PicksLeaves DEF FailoverTask, FailoverApplies, FailoverClears, FailoverSchedules
<1>7. CASE ApTask
  BY <1>7 DEF ApTask, ApBegins, ApStops, ApStarts, ApFails, ApClears, ApSchedules
<1>8. CASE RoamTask
  BY <1>8 DEF RoamTask, RoamPicks, RoamApplies, RoamDisconnects
<1>9. CASE UNCHANGED vars
  BY <1>9 DEF vars, tasks
<1> QED
  BY <1>1, <1>2, <1>3, <1>4, <1>5, <1>6, <1>7, <1>8, <1>9 DEF Next, EventTask, TimerTask

LEMMA DownStep == Down /\ [Next]_vars => Down'
<1> SUFFICES ASSUME Down, [Next]_vars PROVE Down'
  OBVIOUS
<1> USE DEF Down, driver
<1>1. CASE Driver \/ LinkLost \/ Moves \/ BenchExpires \/ roam_check_cb
  BY <1>1 DEF Driver, Joined, JoinFails, LinkLost, Moves, BenchExpires, roam_check_cb, tasks
<1>2. CASE net_start
  BY <1>2 DEF net_start, Connects, Refused
<1>3. CASE StaStart \/ Disconnected \/ GotIp
  BY <1>3 DEF StaStart, Disconnected, GotIp, ConnectOrLater, Connects, Refused, tasks
<1>4. CASE RepairLoss
  BY <1>4 DEF RepairLoss, Repair, ConnectOrLater, Connects, Refused
<1>5. CASE TimerFires
  BY <1>5 DEF TimerFires
<1>6. CASE Retries
  BY <1>6 DEF Retries, Retry, ConnectOrLater, Connects, Refused
<1>7. CASE FailoverTask
  BY <1>7 DEF FailoverTask, FailoverPicks, FailoverApplies, FailoverClears, FailoverSchedules
<1>8. CASE ApTask
  BY <1>8 DEF ApTask, ApBegins, ApStops, ApStarts, ApFails, ApClears, ApSchedules
<1>9. CASE RoamTask
  BY <1>9 DEF RoamTask, RoamPicks, RoamApplies, RoamDisconnects
<1>10. CASE UNCHANGED vars
  BY <1>10 DEF vars, tasks
<1> QED
  BY <1>1, <1>2, <1>3, <1>4, <1>5, <1>6, <1>7, <1>8, <1>9, <1>10
     DEF Next, EventTask, TimerTask

-----------------------------------------------------------------------------
(* s_state is ahead of the link by events only                              *)

LEMMA LagInit == Init => Lag
BY DEF Init, Lag

LEMMA LagStep == events \in Seq(Events) /\ Lag /\ Down /\ [Next]_vars => Lag'
<1> SUFFICES ASSUME events \in Seq(Events), Lag, Down, [Next]_vars PROVE Lag'
  OBVIOUS
<1> USE DEF state, driver
<1>1. CASE Joined
  BY <1>1 DEF Joined, Lag
<1>2. CASE JoinFails \/ LinkLost
  BY <1>2, LagPost DEF JoinFails, LinkLost
<1>3. CASE Moves \/ BenchExpires \/ roam_check_cb \/ TimerFires \/ FailoverTask
  BY <1>3, LagKeep DEF Moves, BenchExpires, roam_check_cb, TimerFires, FailoverTask,
        FailoverPicks, FailoverApplies, FailoverClears, FailoverSchedules
<1>4. CASE net_start
  BY <1>4, LagKeep DEF net_start, Connects, Refused
<1>5. CASE StaStart
  BY <1>5, LagTake DEF StaStart, Handles, ConnectOrLater, Connects, Refused
<1>6. CASE Disconnected
  BY <1>6, LagTake DEF Disconnected, Handles
<1>7. CASE GotIp
  BY <1>7, LagTake DEF GotIp, Handles
<1>8. CASE RepairLoss
  BY <1>8, LagKeep DEF RepairLoss, Repair, ConnectOrLater, Connects, Refused
<1>9. CASE Retries
  BY <1>9, LagKeep DEF Retries, Retry, ConnectOrLater, Connects, Refused
<1>10. CASE ApStops
  <2>1. CASE link \in {"connecting", "online"}
    BY <1>10, <2>1, LagPost DEF ApStops, Post
  <2>2. CASE link \notin {"connecting", "online"}
    BY <1>10, <2>2, LagKeep DEF ApStops
  <2> QED
    BY <2>1, <2>2
<1>11. CASE ApStarts
  BY <1>11, LagStart DEF ApStarts, Down
<1>12. CASE ApFails
  BY <1>12, LagStart, LagKeep DEF ApFails, Down
<1>13. CASE ApBegins \/ ApClears \/ ApSchedules \/ RoamPicks \/ RoamApplies
  BY <1>13, LagKeep DEF ApBegins, ApClears, ApSchedules, RoamPicks, RoamApplies
<1>14. CASE RoamDisconnects
  BY <1>14, LagPost, LagKeep DEF RoamDisconnects
<1>15. CASE UNCHANGED vars
  BY <1>15, LagKeep DEF vars
<1> QED
  BY <1>1, <1>2, <1>3, <1>4, <1>5, <1>6, <1>7, <1>8, <1>9, <1>10, <1>11, <1>12,
     <1>13, <1>14, <1>15 DEF Next, Driver, EventTask, TimerTask, ApTask, RoamTask

-----------------------------------------------------------------------------
(* Never stranded                                                           *)

WifiInv ==
  /\ events \in Seq(Events) /\ Booleans /\ FlagsHaveTasks /\ Boot /\ Down /\ Lag
  /\ NeverStranded

LEMMA WifiInit == Init => WifiInv
BY EventsInit, FlagsInit, LagInit DEF WifiInv, Init, NeverStranded, Pending

LEMMA StrandedStep ==
  ASSUME WifiInv, [Next]_vars,
         events' \in Seq(Events), FlagsHaveTasks', Boot', Lag'
  PROVE  NeverStranded'
<1>0. /\ events \in Seq(Events) /\ Booleans /\ FlagsHaveTasks /\ Boot /\ Down /\ Lag
      /\ NeverStranded
  BY DEF WifiInv
<1> USE DEF NeverStranded, Pending, state, driver, flags
<1>1. ASSUME NEW e \in Events, Post(e) PROVE events' # <<>>
  BY <1>0, <1>1 DEF Post
<1>2. link' # "online" /\ s_state' = "connected" => events' # <<>>
  BY DEF Lag, LossAfter, Events
<1>3. CASE Joined \/ JoinFails \/ LinkLost
  BY <1>1, <1>3 DEF Joined, JoinFails, LinkLost, Events
<1>4. CASE Moves \/ BenchExpires \/ roam_check_cb \/ RoamPicks \/ RoamApplies
  BY <1>0, <1>4 DEF Moves, BenchExpires, roam_check_cb, RoamPicks, RoamApplies, tasks
<1>5. CASE net_start
  BY <1>0, <1>5 DEF net_start, Connects, Refused, Boot
<1>6. CASE StaStart
  BY <1>0, <1>6 DEF StaStart, ConnectOrLater, Connects, Refused, FlagsHaveTasks, Boot, tasks
<1>7. CASE Disconnected
  BY <1>0, <1>7 DEF Disconnected, Repairing, FlagsHaveTasks, Boot
<1>8. CASE GotIp
  BY <1>0, <1>2, <1>8 DEF GotIp, tasks
<1>9. CASE RepairLoss
  BY <1>0, <1>9 DEF RepairLoss, Repair, ConnectOrLater, Connects, Refused, FlagsHaveTasks
<1>10. CASE TimerFires
  BY <1>0, <1>2, <1>10 DEF TimerFires, Repairing, FlagsHaveTasks, Boot
<1>11. CASE Retries
  BY <1>0, <1>11 DEF Retries, Retry, ConnectOrLater, Connects, Refused, FlagsHaveTasks
<1>12. CASE FailoverTask
  BY <1>12 DEF FailoverTask, FailoverPicks, FailoverApplies, FailoverClears, FailoverSchedules
<1>13. CASE ApBegins \/ ApStops \/ ApStarts \/ ApFails \/ ApClears
  BY <1>13 DEF ApBegins, ApStops, ApStarts, ApFails, ApClears
<1>14. CASE ApSchedules
  BY <1>0, <1>2, <1>14 DEF ApSchedules
<1>15. CASE RoamDisconnects
  BY <1>0, <1>1, <1>15 DEF RoamDisconnects, Events
<1>16. CASE UNCHANGED vars
  BY <1>0, <1>16 DEF vars, tasks
<1> QED
  BY <1>3, <1>4, <1>5, <1>6, <1>7, <1>8, <1>9, <1>10, <1>11, <1>12, <1>13, <1>14,
     <1>15, <1>16 DEF Next, Driver, EventTask, TimerTask, ApTask, RoamTask

(* Whatever event was dropped because another task was repairing, a timer, *)
(* an attempt, an event or a task is left to go on, for any number of      *)
(* networks, any thresholds and however many faults.                       *)
THEOREM NobodyStranded == Spec => []NeverStranded
<1>1. WifiInv /\ [Next]_vars => WifiInv'
  <2> SUFFICES ASSUME WifiInv, [Next]_vars PROVE WifiInv'
    OBVIOUS
  <2>1. events' \in Seq(Events) /\ Booleans' /\ FlagsHaveTasks' /\ Boot' /\ Down' /\ Lag'
    BY EventsStep, BooleansStep, FlagsStep, BootStep, DownStep, LagStep DEF WifiInv
  <2>2. NeverStranded'
    BY <2>1, StrandedStep
  <2> QED
    BY <2>1, <2>2 DEF WifiInv
<1>2. WifiInv => NeverStranded
  BY DEF WifiInv
<1> QED
  BY WifiInit, <1>1, <1>2, PTL DEF Spec

-----------------------------------------------------------------------------
(* Types. That a failover picks a network that exists needs that there is  *)
(* a first one among those in range: the least-number principle.           *)

LEMMA LeastNat ==
  ASSUME NEW T, T \subseteq Nat, T # {} PROVE \E m \in T : \A n \in T : m <= n
<1> DEFINE R == OpToRel(<, Nat)
<1>1. \A x, y \in Nat : x < y => <<x, y>> \in R
  BY DEF OpToRel
<1>2. IsWellFoundedOn(R, Nat)
  BY NatLessThanWellFounded
<1> HIDE DEF R
<1>3. \E m \in T : \A n \in T : <<n, m>> \notin R
  BY <1>2, WFMin
<1>4. \E m \in T : \A n \in T : ~(n < m)
  BY <1>1, <1>3, Zenon
<1>5. \A m, n \in T : ~(n < m) => m <= n
  OBVIOUS
<1> QED
  BY <1>4, <1>5, Zenon

LEMMA VisibleNets == Visible \subseteq Nets
BY WifiAssumption DEF Visible

(* BestOf finds one of the networks it is given, if any is in range.       *)
LEMMA BestIsOneOf ==
  ASSUME NEW nets, nets \subseteq Visible, nets # {} PROVE BestOf(nets) \in nets
<1> DEFINE Places == {i \in DOMAIN Strongest : Strongest[i] \in nets}
<1>1. DOMAIN Strongest = 1..Len(Strongest) /\ Len(Strongest) \in Nat
  BY WifiAssumption
<1>2. Places \subseteq Nat /\ Places # {}
  BY <1>1 DEF Visible
<1>3. PICK m \in Places : \A n \in Places : m <= n
  BY <1>2, LeastNat
<1>4. \A j \in 1..(m - 1) : Strongest[j] \notin nets
  BY <1>1, <1>3
<1>5. \E i \in DOMAIN Strongest : /\ Strongest[i] \in nets
                                  /\ \A j \in 1..(i - 1) : Strongest[j] \notin nets
  BY <1>3, <1>4
<1> QED
  BY <1>5 DEF BestOf

LEMMA BestIsNet == Visible # {} => Best \in Nets
<1>1. Visible \ {s_bench_idx} # {} => BestOf(Visible \ {s_bench_idx}) \in Nets
  BY BestIsOneOf, VisibleNets
<1>2. Visible # {} => BestOf(Visible) \in Nets
  BY BestIsOneOf, VisibleNets
<1> QED
  BY <1>1, <1>2 DEF Best

NumberTypes ==
  /\ s_cur \in Nets /\ config \in Nets /\ s_bench_idx \in Nets \cup {None}
  /\ s_fail_count \in 0..FAILOVER_THRESHOLD
  /\ s_total_fails \in 0..AP_FALLBACK_ATTEMPTS
  /\ s_failover_stays \in {0, 1}
  /\ faults \in 0..MaxFaults

PlaceTypes ==
  /\ s_state \in {"boot", "connecting", "connected", "provisioning"}
  /\ s_want_sta \in BOOLEAN /\ s_connected_once \in BOOLEAN /\ s_ap_up \in BOOLEAN
  /\ link \in {"off", "idle", "connecting", "online"}
  /\ boot \in {"ordering", "done"}
  /\ ev \in {"idle", "lost"} /\ rc \in {"idle", "retry"}
  /\ failover \in {"idle", "scan", "apply", "clear", "schedule"}
  /\ ap \in {"idle", "begin", "stop", "start", "clear", "schedule"}
  /\ roam \in {"idle", "scan", "apply", "disconnect"}

LEMMA NextIsNet == s_cur \in Nets => NextInTurn \in Nets
BY WifiAssumption DEF NextInTurn, Nets

LEMMA TypesInit == Init => NumberTypes /\ PlaceTypes
<1> SUFFICES ASSUME Init PROVE NumberTypes /\ PlaceTypes
  OBVIOUS
<1>1. 0 \in Nets
  BY WifiAssumption DEF Nets
<1>2. NumberTypes
  BY <1>1, WifiAssumption DEF Init, NumberTypes
<1>3. s_state \in {"boot", "connecting"} /\ s_want_sta \in BOOLEAN /\ boot \in {"ordering", "done"}
  BY DEF Init
<1> QED
  BY <1>2, <1>3 DEF Init, PlaceTypes

(* A fault is counted, and nothing else counts one.                        *)
LEMMA FaultsStay ==
  ASSUME faults \in 0..MaxFaults, Fault \/ UNCHANGED env \/ InSeconds
  PROVE  faults' \in 0..MaxFaults
BY WifiAssumption DEF Fault, InSeconds, env

LEMMA PicksTypes ==
  ASSUME NumberTypes, FailoverPicks PROVE NumberTypes'
<1>1. ASSUME NEW scanned \in BOOLEAN, PickAfter(scanned), scanned => Visible # {}
      PROVE  /\ s_cur' \in Nets /\ s_bench_idx' \in Nets \cup {None}
             /\ s_failover_stays' \in {0, 1}
  BY <1>1, BestIsNet, NextIsNet DEF PickAfter, NumberTypes, choice
<1> DEFINE ok == s_cur' \in Nets /\ s_bench_idx' \in Nets \cup {None} /\ s_failover_stays' \in {0, 1}
<1>2. ok /\ faults' \in 0..MaxFaults
  <2>1. CASE PickAfter(~ScanFails) /\ InSeconds
    <3>1. (~ScanFails) \in BOOLEAN /\ (~ScanFails => Visible # {})
      BY DEF ScanFails
    <3>2. ok
      BY <1>1, <2>1, <3>1
    <3> QED
      BY <2>1, <3>2, FaultsStay DEF NumberTypes
  <2>2. CASE PickAfter(FALSE) /\ Fault
    <3>1. ok
      BY <1>1, <2>2
    <3> QED
      BY <2>2, <3>1, FaultsStay DEF NumberTypes
  <2> QED
    BY <2>1, <2>2 DEF FailoverPicks
<1>3. s_fail_count' = 0 /\ UNCHANGED <<s_total_fails, config>>
  BY DEF FailoverPicks, driver
<1> QED
  BY <1>2, <1>3, WifiAssumption DEF NumberTypes

LEMMA NumbersStep == NumberTypes /\ [Next]_vars => NumberTypes'
<1> SUFFICES ASSUME NumberTypes, [Next]_vars PROVE NumberTypes'
  OBVIOUS
<1> USE WifiAssumption DEF NumberTypes, counts, choice, driver, env
<1>1. CASE Driver \/ LinkLost
  BY <1>1, FaultsStay DEF Driver, Joined, JoinFails, LinkLost
<1>2. CASE Moves
  BY <1>2 DEF Moves
<1>3. CASE BenchExpires \/ roam_check_cb
  BY <1>3, FaultsStay DEF BenchExpires, roam_check_cb
<1>4. CASE net_start
  BY <1>4, FaultsStay DEF net_start, Connects, Refused
<1>5. CASE StaStart
  BY <1>5, FaultsStay DEF StaStart, ConnectOrLater, Connects, Refused
<1>6. CASE Disconnected
  BY <1>6 DEF Disconnected
<1>7. CASE RepairLoss
  <2>1. faults' \in 0..MaxFaults
    BY <1>7, FaultsStay DEF RepairLoss, Repair, ConnectOrLater, Connects, Refused
  <2> QED
    BY <1>7, <2>1 DEF RepairLoss, Count, Fails, TotalFails
<1>8. CASE GotIp
  BY <1>8 DEF GotIp
<1>9. CASE TimerFires
  BY <1>9, FaultsStay DEF TimerFires
<1>10. CASE Retries
  BY <1>10, FaultsStay DEF Retries, Retry, ConnectOrLater, Connects, Refused
<1>11. CASE FailoverTask
  BY <1>11, PicksTypes DEF FailoverTask, FailoverApplies, FailoverClears, FailoverSchedules, Configured
<1>12. CASE ApTask
  BY <1>12, FaultsStay DEF ApTask, ApBegins, ApStops, ApStarts, ApFails, ApClears, ApSchedules
<1>13. CASE RoamTask
  BY <1>13, VisibleNets DEF RoamTask, RoamPicks, RoamApplies, RoamDisconnects, Configured
<1>14. CASE UNCHANGED vars
  BY <1>14 DEF vars
<1> QED
  BY <1>1, <1>2, <1>3, <1>4, <1>5, <1>6, <1>7, <1>8, <1>9, <1>10, <1>11, <1>12, <1>13, <1>14
     DEF Next, EventTask, TimerTask

LEMMA PlacesStep == PlaceTypes /\ [Next]_vars => PlaceTypes'
<1> SUFFICES ASSUME PlaceTypes, [Next]_vars PROVE PlaceTypes'
  OBVIOUS
<1> USE DEF PlaceTypes, state, driver
<1>1. CASE Driver \/ LinkLost \/ Moves \/ BenchExpires \/ roam_check_cb
  BY <1>1 DEF Driver, Joined, JoinFails, LinkLost, Moves, BenchExpires, roam_check_cb, tasks
<1>2. CASE net_start
  BY <1>2 DEF net_start, Connects, Refused
<1>3. CASE StaStart \/ Disconnected \/ GotIp
  BY <1>3 DEF StaStart, Disconnected, GotIp, ConnectOrLater, Connects, Refused, tasks
<1>4. CASE RepairLoss
  BY <1>4 DEF RepairLoss, Repair, ConnectOrLater, Connects, Refused
<1>5. CASE TimerFires
  BY <1>5 DEF TimerFires
<1>6. CASE Retries
  BY <1>6 DEF Retries, Retry, ConnectOrLater, Connects, Refused
<1>7. CASE FailoverTask
  <2>1. CASE FailoverPicks
    BY <2>1, PicksLeaves
  <2>2. CASE FailoverApplies \/ FailoverClears \/ FailoverSchedules
    BY <2>2 DEF FailoverApplies, FailoverClears, FailoverSchedules
  <2> QED
    BY <1>7, <2>1, <2>2 DEF FailoverTask
<1>8. CASE ApTask
  BY <1>8 DEF ApTask, ApBegins, ApStops, ApStarts, ApFails, ApClears, ApSchedules
<1>9. CASE RoamTask
  BY <1>9 DEF RoamTask, RoamPicks, RoamApplies, RoamDisconnects
<1>10. CASE UNCHANGED vars
  BY <1>10 DEF vars, tasks
<1> QED
  BY <1>1, <1>2, <1>3, <1>4, <1>5, <1>6, <1>7, <1>8, <1>9, <1>10 DEF Next, EventTask, TimerTask

(* Every variable has its type: in particular the network tried next, on   *)
(* the bench or configured always exists, and no counter leaves its range. *)
THEOREM TypeCorrect == Spec => []TypeOK
<1>1. NumberTypes /\ PlaceTypes /\ Booleans /\ events \in Seq(Events) => TypeOK
  BY DEF NumberTypes, PlaceTypes, Booleans, Events, TypeOK
<1> QED
  BY <1>1, TypesInit, FlagsInit, EventsInit, NumbersStep, PlacesStep, BooleansStep, EventsStep,
     PTL DEF Spec

=============================================================================
