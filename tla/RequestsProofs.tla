---------------------------- MODULE RequestsProofs ----------------------------
(***************************************************************************)
(* Proofs about Requests, for any number of requests.                      *)
(*                                                                         *)
(* NoWedge says that a latch has a request somewhere. It is not inductive: *)
(* Overwrite loses the request that waits, and a step that ends a request  *)
(* loses the one at the worker. IInv says which request a latch belongs    *)
(* to, that req_post has released the latch of the request it is about to  *)
(* lose, and that the worker releases the latch before it forgets its own. *)
(***************************************************************************)
EXTENDS Requests, TLAPS

(* Between the release of the old request and the write of the new one.    *)
Replacing == ui \in {"latch", "write"}

(* The latch of a request of this kind still has its request: one that     *)
(* waits counts until req_post has released it.                            *)
Held(kind) ==
  \/ next.kind = kind
  \/ s_play_q.kind = kind /\ ~Replacing
  \/ req.kind = kind

(* The refresh that the button waits for.                                  *)
IsOwner(r) == r.kind = "refresh" /\ r.generation = s_refresh_owner_generation

(* Where each task is, and what it therefore holds.                        *)
Shape ==
  /\ next.kind = "none" <=> ui \in {"idle", "tone"}
  /\ s_play_q.kind = "none" => s_play_q = NoReq
  /\ ui = "abandon" => s_play_q \in {NoReq, old} /\ old.kind # next.kind
  /\ pc = "receive" <=> req.kind = "none"
  /\ pc \in {"check", "fetch", "finish"} => req.kind = "refresh"
  /\ pc \in {"claimed", "guard", "job", "leave"} => req.kind = "job"
  /\ pc \in {"tone", "silent"} => req.kind = "tone"
  /\ pc = "browse" => req.kind = "peers"
  /\ pc = "playing" => req.kind = "play"

RefreshHeld ==
  /\ next.kind = "refresh" /\ ui # "write" => ~s_refreshing
  /\ s_refreshing =>
       \/ ui = "write" /\ IsOwner(next)
       \/ ~Replacing /\ IsOwner(s_play_q)
       \/ IsOwner(req)

JobHeld ==
  /\ s_dl_queued =>
       \/ next.kind = "job"
       \/ s_play_q.kind = "job" /\ ~Replacing
       \/ req.kind = "job" /\ pc \in {"got", "claimed"}
  /\ s_downloading => pc \in {"claimed", "guard", "job", "leave"}

OthersHeld ==
  /\ s_tone_running => Held("tone")
  /\ s_memo_peer_count = "searching" => Held("peers")

IInv == TypeOK /\ Shape /\ RefreshHeld /\ JobHeld /\ OthersHeld

-----------------------------------------------------------------------------
(* The records that stand for requests.                                    *)
LEMMA NoReqType == NoReq \in Requests
BY DEF NoReq, Requests

LEMMA RequestType ==
  ASSUME NEW k \in Kinds, NEW g \in Nat
  PROVE  [kind |-> k, generation |-> g] \in Requests
BY DEF Requests

(* Both halves of the type invariant are inductive.                        *)
LEMMA TypeInit == Init => TypeOK
<1>1. Init => FlagTypes
  BY DEF Init, FlagTypes
<1>2. Init => StateTypes
  BY NoReqType DEF Init, StateTypes, PeerCounts, UiStates, PcStates
<1> QED
  BY <1>1, <1>2 DEF TypeOK

LEMMA FlagStep == TypeOK /\ [Next]_vars => FlagTypes'
<1> SUFFICES ASSUME FlagTypes, [Next]_vars PROVE FlagTypes'
  BY DEF TypeOK
<1> USE DEF FlagTypes, refreshing, job, tone, lvgl, worker
<1>1. CASE AskPlay
  BY <1>1 DEF AskPlay, Ask
<1>2. CASE AskRefresh
  BY <1>2 DEF AskRefresh, Ask
<1>3. CASE AskPeers
  BY <1>3 DEF AskPeers, Ask
<1>4. CASE tick_download_scheduler
  BY <1>4 DEF tick_download_scheduler, Ask
<1>5. CASE ToneTakeover
  BY <1>5 DEF ToneTakeover
<1>6. CASE tone_start
  BY <1>6 DEF tone_start
<1>7. CASE StopTone
  BY <1>7 DEF StopTone
<1>8. CASE RemoteDownload
  BY <1>8 DEF RemoteDownload
<1>9. CASE RemoteCancel
  BY <1>9 DEF RemoteCancel
<1>10. CASE PauseJob
  BY <1>10 DEF PauseJob
<1>11. CASE tick_refresh_done
  BY <1>11 DEF tick_refresh_done
<1>12. CASE refresh_cancel
  BY <1>12 DEF refresh_cancel
<1>13. CASE Peek
  BY <1>13 DEF Peek
<1>14. CASE req_abandoned
  BY <1>14 DEF req_abandoned, refresh_finished
<1>15. CASE LatchRefresh
  BY <1>15 DEF LatchRefresh
<1>16. CASE Overwrite
  BY <1>16 DEF Overwrite
<1>17. CASE Receive
  BY <1>17 DEF Receive, Goto
<1>18. CASE refresh_begin
  BY <1>18 DEF refresh_begin, Goto
<1>19. CASE RefreshCheck
  BY <1>19 DEF RefreshCheck, Goto, Local
<1>20. CASE RefreshInterrupted
  BY <1>20 DEF RefreshInterrupted, Goto, Local
<1>21. CASE RefreshFetched
  BY <1>21 DEF RefreshFetched, Goto, Local
<1>22. CASE RefreshEnd
  BY <1>22 DEF RefreshEnd, Done, Goto, refresh_finished
<1>23. CASE ClaimJob
  BY <1>23 DEF ClaimJob, Goto
<1>24. CASE UnqueueJob
  BY <1>24 DEF UnqueueJob, Goto
<1>25. CASE GuardJob
  BY <1>25 DEF GuardJob, Goto, Local
<1>26. CASE InterruptJob
  BY <1>26 DEF InterruptJob, Goto, Local
<1>27. CASE EndJob
  BY <1>27 DEF EndJob, Goto
<1>28. CASE LeaveJob
  BY <1>28 DEF LeaveJob, Done, Goto
<1>29. CASE ToneBegins
  BY <1>29 DEF ToneBegins, Goto
<1>30. CASE ToneGivesUp
  BY <1>30 DEF ToneGivesUp, Goto, Local
<1>31. CASE ToneStops
  BY <1>31 DEF ToneStops, Goto, Local
<1>32. CASE ToneEnds
  BY <1>32 DEF ToneEnds, Done, Goto
<1>33. CASE BrowsePeers
  BY <1>33 DEF BrowsePeers, Goto, Local
<1>34. CASE FoundPeers
  BY <1>34 DEF FoundPeers, Done, Goto
<1>35. CASE PlayBegins
  BY <1>35 DEF PlayBegins, Goto, Local
<1>36. CASE PlayRefused
  BY <1>36 DEF PlayRefused, Done, Goto, Local
<1>37. CASE PlayCancelled
  BY <1>37 DEF PlayCancelled, Done, Goto, Local
<1>38. CASE TrackEnds
  BY <1>38 DEF TrackEnds, Done, Goto, Local
<1>39. CASE Sendspin
  BY <1>39 DEF Sendspin
<1>40. CASE UNCHANGED vars
  BY <1>40 DEF vars
<1> QED
  BY <1>1, <1>2, <1>3, <1>4, <1>5, <1>6, <1>7, <1>8, <1>9, <1>10, <1>11,
     <1>12, <1>13, <1>14, <1>15, <1>16, <1>17, <1>18, <1>19, <1>20, <1>21,
     <1>22, <1>23, <1>24, <1>25, <1>26, <1>27, <1>28, <1>29, <1>30, <1>31,
     <1>32, <1>33, <1>34, <1>35, <1>36, <1>37, <1>38, <1>39, <1>40
     DEF Next, LvglTask, req_post, WorkerTask, WorkerMoves

LEMMA StateStep == TypeOK /\ [Next]_vars => StateTypes'
<1> SUFFICES ASSUME StateTypes, [Next]_vars PROVE StateTypes'
  BY DEF TypeOK
<1> USE NoReqType
    DEF StateTypes, PeerCounts, UiStates, PcStates, refreshing, job, tone,
        lvgl, worker
<1>1. CASE AskPlay
  <2>1. s_play_generation + 1 \in Nat
    BY DEF StateTypes
  <2>2. [kind |-> "play", generation |-> s_play_generation + 1] \in Requests
    BY <2>1, RequestType DEF Kinds
  <2> QED
    BY <1>1, <2>2, <2>1 DEF AskPlay, Ask
<1>2. CASE AskRefresh
  <2>1. 0 \in Nat
    BY DEF StateTypes
  <2>2. [kind |-> "refresh", generation |-> 0] \in Requests
    BY <2>1, RequestType DEF Kinds
  <2> QED
    BY <1>2, <2>2 DEF AskRefresh, Ask
<1>3. CASE AskPeers
  <2>1. 0 \in Nat
    BY DEF StateTypes
  <2>2. [kind |-> "peers", generation |-> 0] \in Requests
    BY <2>1, RequestType DEF Kinds
  <2> QED
    BY <1>3, <2>2 DEF AskPeers, Ask
<1>4. CASE tick_download_scheduler
  <2>1. 0 \in Nat
    BY DEF StateTypes
  <2>2. [kind |-> "job", generation |-> 0] \in Requests
    BY <2>1, RequestType DEF Kinds
  <2> QED
    BY <1>4, <2>2 DEF tick_download_scheduler, Ask
<1>5. CASE ToneTakeover
  BY <1>5 DEF ToneTakeover
<1>6. CASE tone_start
  <2>1. 0 \in Nat
    BY DEF StateTypes
  <2>2. [kind |-> "tone", generation |-> 0] \in Requests
    BY <2>1, RequestType DEF Kinds
  <2> QED
    BY <1>6, <2>2 DEF tone_start
<1>7. CASE StopTone
  BY <1>7 DEF StopTone
<1>8. CASE RemoteDownload
  BY <1>8 DEF RemoteDownload
<1>9. CASE RemoteCancel
  BY <1>9 DEF RemoteCancel
<1>10. CASE PauseJob
  BY <1>10 DEF PauseJob
<1>11. CASE tick_refresh_done
  BY <1>11 DEF tick_refresh_done
<1>12. CASE refresh_cancel
  BY <1>12 DEF refresh_cancel
<1>13. CASE Peek
  BY <1>13 DEF Peek
<1>14. CASE req_abandoned
  BY <1>14 DEF req_abandoned, refresh_finished
<1>15. CASE LatchRefresh
  <2>1. [next EXCEPT !.generation = s_refresh_generation] \in Requests
    BY DEF StateTypes, Requests
  <2> QED
    BY <1>15, <2>1 DEF LatchRefresh
<1>16. CASE Overwrite
  BY <1>16 DEF Overwrite
<1>17. CASE Receive
  BY <1>17 DEF Receive, Goto
<1>18. CASE refresh_begin
  BY <1>18 DEF refresh_begin, Goto
<1>19. CASE RefreshCheck
  BY <1>19 DEF RefreshCheck, Goto, Local
<1>20. CASE RefreshInterrupted
  BY <1>20 DEF RefreshInterrupted, Goto, Local
<1>21. CASE RefreshFetched
  BY <1>21 DEF RefreshFetched, Goto, Local
<1>22. CASE RefreshEnd
  BY <1>22 DEF RefreshEnd, Done, Goto, refresh_finished
<1>23. CASE ClaimJob
  BY <1>23 DEF ClaimJob, Goto
<1>24. CASE UnqueueJob
  BY <1>24 DEF UnqueueJob, Goto
<1>25. CASE GuardJob
  BY <1>25 DEF GuardJob, Goto, Local
<1>26. CASE InterruptJob
  BY <1>26 DEF InterruptJob, Goto, Local
<1>27. CASE EndJob
  BY <1>27 DEF EndJob, Goto
<1>28. CASE LeaveJob
  BY <1>28 DEF LeaveJob, Done, Goto
<1>29. CASE ToneBegins
  BY <1>29 DEF ToneBegins, Goto
<1>30. CASE ToneGivesUp
  BY <1>30 DEF ToneGivesUp, Goto, Local
<1>31. CASE ToneStops
  BY <1>31 DEF ToneStops, Goto, Local
<1>32. CASE ToneEnds
  BY <1>32 DEF ToneEnds, Done, Goto
<1>33. CASE BrowsePeers
  BY <1>33 DEF BrowsePeers, Goto, Local
<1>34. CASE FoundPeers
  BY <1>34 DEF FoundPeers, Done, Goto
<1>35. CASE PlayBegins
  BY <1>35 DEF PlayBegins, Goto, Local
<1>36. CASE PlayRefused
  BY <1>36 DEF PlayRefused, Done, Goto, Local
<1>37. CASE PlayCancelled
  BY <1>37 DEF PlayCancelled, Done, Goto, Local
<1>38. CASE TrackEnds
  BY <1>38 DEF TrackEnds, Done, Goto, Local
<1>39. CASE Sendspin
  BY <1>39 DEF Sendspin
<1>40. CASE UNCHANGED vars
  BY <1>40 DEF vars
<1> QED
  BY <1>1, <1>2, <1>3, <1>4, <1>5, <1>6, <1>7, <1>8, <1>9, <1>10, <1>11,
     <1>12, <1>13, <1>14, <1>15, <1>16, <1>17, <1>18, <1>19, <1>20, <1>21,
     <1>22, <1>23, <1>24, <1>25, <1>26, <1>27, <1>28, <1>29, <1>30, <1>31,
     <1>32, <1>33, <1>34, <1>35, <1>36, <1>37, <1>38, <1>39, <1>40
     DEF Next, LvglTask, req_post, WorkerTask, WorkerMoves

LEMMA TypeStep == TypeOK /\ [Next]_vars => TypeOK'
BY FlagStep, StateStep DEF TypeOK

(* TypeOK is an invariant of the request queue and its two tasks.          *)
THEOREM TypeCorrect == Spec => []TypeOK
<1> QED
  BY TypeInit, TypeStep, PTL DEF Spec
-----------------------------------------------------------------------------
(* The parts of IInv.                                                      *)
LEMMA IInvInit == Init => IInv
<1> SUFFICES ASSUME Init PROVE Shape /\ RefreshHeld /\ JobHeld /\ OthersHeld
  BY TypeInit DEF IInv
<1> QED
  BY DEF Init, NoReq, Shape, RefreshHeld, JobHeld, OthersHeld, Replacing,
         IsOwner, Held

LEMMA ShapeStep == IInv /\ [Next]_vars => Shape'
<1> SUFFICES ASSUME IInv, [Next]_vars PROVE Shape'
  OBVIOUS
<1> USE DEF IInv, Shape, TypeOK, StateTypes, NoReq, Kinds, UiStates, PcStates, Waiting, refreshing, job, tone, lvgl, worker
<1>1. CASE AskPlay
  BY <1>1 DEF AskPlay, Ask
<1>2. CASE AskRefresh
  BY <1>2 DEF AskRefresh, Ask
<1>3. CASE AskPeers
  BY <1>3 DEF AskPeers, Ask
<1>4. CASE tick_download_scheduler
  BY <1>4 DEF tick_download_scheduler, Ask
<1>5. CASE ToneTakeover
  BY <1>5 DEF ToneTakeover
<1>6. CASE tone_start
  BY <1>6 DEF tone_start
<1>7. CASE StopTone
  BY <1>7 DEF StopTone
<1>8. CASE RemoteDownload
  BY <1>8 DEF RemoteDownload
<1>9. CASE RemoteCancel
  BY <1>9 DEF RemoteCancel
<1>10. CASE PauseJob
  BY <1>10 DEF PauseJob
<1>11. CASE tick_refresh_done
  BY <1>11 DEF tick_refresh_done
<1>12. CASE refresh_cancel
  BY <1>12 DEF refresh_cancel
<1>13. CASE Peek
  BY <1>13 DEF Peek
<1>14. CASE req_abandoned
  BY <1>14 DEF req_abandoned, refresh_finished
<1>15. CASE LatchRefresh
  <2>1. next'.kind = next.kind
    BY <1>15 DEF LatchRefresh, Requests
  <2> QED
    BY <1>15, <2>1 DEF LatchRefresh
<1>16. CASE Overwrite
  BY <1>16 DEF Overwrite
<1>17. CASE Receive
  BY <1>17 DEF Receive, Goto
<1>18. CASE refresh_begin
  BY <1>18 DEF refresh_begin, Goto
<1>19. CASE RefreshCheck
  BY <1>19 DEF RefreshCheck, Goto, Local
<1>20. CASE RefreshInterrupted
  BY <1>20 DEF RefreshInterrupted, Goto, Local
<1>21. CASE RefreshFetched
  BY <1>21 DEF RefreshFetched, Goto, Local
<1>22. CASE RefreshEnd
  BY <1>22 DEF RefreshEnd, Done, Goto, refresh_finished
<1>23. CASE ClaimJob
  BY <1>23 DEF ClaimJob, Goto
<1>24. CASE UnqueueJob
  BY <1>24 DEF UnqueueJob, Goto
<1>25. CASE GuardJob
  BY <1>25 DEF GuardJob, Goto, Local
<1>26. CASE InterruptJob
  BY <1>26 DEF InterruptJob, Goto, Local
<1>27. CASE EndJob
  BY <1>27 DEF EndJob, Goto
<1>28. CASE LeaveJob
  BY <1>28 DEF LeaveJob, Done, Goto
<1>29. CASE ToneBegins
  BY <1>29 DEF ToneBegins, Goto
<1>30. CASE ToneGivesUp
  BY <1>30 DEF ToneGivesUp, Goto, Local
<1>31. CASE ToneStops
  BY <1>31 DEF ToneStops, Goto, Local
<1>32. CASE ToneEnds
  BY <1>32 DEF ToneEnds, Done, Goto
<1>33. CASE BrowsePeers
  BY <1>33 DEF BrowsePeers, Goto, Local
<1>34. CASE FoundPeers
  BY <1>34 DEF FoundPeers, Done, Goto
<1>35. CASE PlayBegins
  BY <1>35 DEF PlayBegins, Goto, Local
<1>36. CASE PlayRefused
  BY <1>36 DEF PlayRefused, Done, Goto, Local
<1>37. CASE PlayCancelled
  BY <1>37 DEF PlayCancelled, Done, Goto, Local
<1>38. CASE TrackEnds
  BY <1>38 DEF TrackEnds, Done, Goto, Local
<1>39. CASE Sendspin
  BY <1>39 DEF Sendspin
<1>40. CASE UNCHANGED vars
  BY <1>40 DEF vars
<1> QED
  BY <1>1, <1>2, <1>3, <1>4, <1>5, <1>6, <1>7, <1>8, <1>9, <1>10, <1>11,
     <1>12, <1>13, <1>14, <1>15, <1>16, <1>17, <1>18, <1>19, <1>20, <1>21,
     <1>22, <1>23, <1>24, <1>25, <1>26, <1>27, <1>28, <1>29, <1>30, <1>31,
     <1>32, <1>33, <1>34, <1>35, <1>36, <1>37, <1>38, <1>39, <1>40
     DEF Next, LvglTask, req_post, WorkerTask, WorkerMoves

LEMMA RefreshStep == IInv /\ [Next]_vars => RefreshHeld'
<1> SUFFICES ASSUME IInv, [Next]_vars PROVE RefreshHeld'
  OBVIOUS
<1> USE DEF IInv, Shape, RefreshHeld, Replacing, IsOwner, NoReq, Waiting, TypeOK, FlagTypes, StateTypes, UiStates, refreshing, job, tone, lvgl, worker
<1>1. CASE AskPlay
  BY <1>1 DEF AskPlay, Ask
<1>2. CASE AskRefresh
  BY <1>2 DEF AskRefresh, Ask
<1>3. CASE AskPeers
  BY <1>3 DEF AskPeers, Ask
<1>4. CASE tick_download_scheduler
  BY <1>4 DEF tick_download_scheduler, Ask
<1>5. CASE ToneTakeover
  BY <1>5 DEF ToneTakeover
<1>6. CASE tone_start
  BY <1>6 DEF tone_start
<1>7. CASE StopTone
  BY <1>7 DEF StopTone
<1>8. CASE RemoteDownload
  BY <1>8 DEF RemoteDownload
<1>9. CASE RemoteCancel
  BY <1>9 DEF RemoteCancel
<1>10. CASE PauseJob
  BY <1>10 DEF PauseJob
<1>11. CASE tick_refresh_done
  BY <1>11 DEF tick_refresh_done
<1>12. CASE refresh_cancel
  BY <1>12 DEF refresh_cancel
<1>13. CASE Peek
  BY <1>13 DEF Peek
<1>14. CASE req_abandoned
  <2>1. /\ s_play_q \in {NoReq, old} /\ old.kind # next.kind
        /\ s_play_q' = s_play_q /\ req' = req /\ next' = next
        /\ ui' = "latch" /\ ui = "abandon"
    BY <1>14 DEF req_abandoned
  <2>2. CASE IsOwner(old)
    <3>1. s_refreshing' = FALSE
      BY <1>14, <2>2 DEF req_abandoned, refresh_finished
    <3> QED
      BY <3>1
  <2>3. CASE ~IsOwner(old)
    <3>1. UNCHANGED <<s_refreshing, s_refresh_owner_generation>>
      BY <1>14, <2>3 DEF req_abandoned, refresh_finished
    <3>2. s_refreshing => IsOwner(req)
      BY <2>1, <2>3
    <3>3. next.kind = "refresh" => ~s_refreshing
      BY <2>1
    <3> QED
      BY <2>1, <3>1, <3>2, <3>3
  <2> QED
    BY <2>2, <2>3
<1>15. CASE LatchRefresh
  <2>1. CASE next.kind = "refresh"
    <3>1. /\ next'.kind = "refresh"
          /\ next'.generation = s_refresh_owner_generation'
          /\ ui' = "write"
      BY <1>15, <2>1 DEF LatchRefresh, Requests
    <3> QED
      BY <3>1
  <2>2. CASE next.kind # "refresh"
    BY <1>15, <2>2 DEF LatchRefresh
  <2> QED
    BY <2>1, <2>2
<1>16. CASE Overwrite
  BY <1>16 DEF Overwrite
<1>17. CASE Receive
  BY <1>17 DEF Receive, Goto
<1>18. CASE refresh_begin
  BY <1>18 DEF refresh_begin, Goto
<1>19. CASE RefreshCheck
  BY <1>19 DEF RefreshCheck, Goto, Local
<1>20. CASE RefreshInterrupted
  BY <1>20 DEF RefreshInterrupted, Goto, Local
<1>21. CASE RefreshFetched
  BY <1>21 DEF RefreshFetched, Goto, Local
<1>22. CASE RefreshEnd
  BY <1>22 DEF RefreshEnd, Done, Goto, refresh_finished
<1>23. CASE ClaimJob
  BY <1>23 DEF ClaimJob, Goto
<1>24. CASE UnqueueJob
  BY <1>24 DEF UnqueueJob, Goto
<1>25. CASE GuardJob
  BY <1>25 DEF GuardJob, Goto, Local
<1>26. CASE InterruptJob
  BY <1>26 DEF InterruptJob, Goto, Local
<1>27. CASE EndJob
  BY <1>27 DEF EndJob, Goto
<1>28. CASE LeaveJob
  BY <1>28 DEF LeaveJob, Done, Goto
<1>29. CASE ToneBegins
  BY <1>29 DEF ToneBegins, Goto
<1>30. CASE ToneGivesUp
  BY <1>30 DEF ToneGivesUp, Goto, Local
<1>31. CASE ToneStops
  BY <1>31 DEF ToneStops, Goto, Local
<1>32. CASE ToneEnds
  BY <1>32 DEF ToneEnds, Done, Goto
<1>33. CASE BrowsePeers
  BY <1>33 DEF BrowsePeers, Goto, Local
<1>34. CASE FoundPeers
  BY <1>34 DEF FoundPeers, Done, Goto
<1>35. CASE PlayBegins
  BY <1>35 DEF PlayBegins, Goto, Local
<1>36. CASE PlayRefused
  BY <1>36 DEF PlayRefused, Done, Goto, Local
<1>37. CASE PlayCancelled
  BY <1>37 DEF PlayCancelled, Done, Goto, Local
<1>38. CASE TrackEnds
  BY <1>38 DEF TrackEnds, Done, Goto, Local
<1>39. CASE Sendspin
  BY <1>39 DEF Sendspin
<1>40. CASE UNCHANGED vars
  BY <1>40 DEF vars
<1> QED
  BY <1>1, <1>2, <1>3, <1>4, <1>5, <1>6, <1>7, <1>8, <1>9, <1>10, <1>11,
     <1>12, <1>13, <1>14, <1>15, <1>16, <1>17, <1>18, <1>19, <1>20, <1>21,
     <1>22, <1>23, <1>24, <1>25, <1>26, <1>27, <1>28, <1>29, <1>30, <1>31,
     <1>32, <1>33, <1>34, <1>35, <1>36, <1>37, <1>38, <1>39, <1>40
     DEF Next, LvglTask, req_post, WorkerTask, WorkerMoves

LEMMA JobStep == IInv /\ [Next]_vars => JobHeld'
<1> SUFFICES ASSUME IInv, [Next]_vars PROVE JobHeld'
  OBVIOUS
<1> USE DEF IInv, Shape, JobHeld, Replacing, NoReq, Waiting, TypeOK, StateTypes, UiStates, PcStates, refreshing, job, tone, lvgl, worker
<1>1. CASE AskPlay
  BY <1>1 DEF AskPlay, Ask
<1>2. CASE AskRefresh
  BY <1>2 DEF AskRefresh, Ask
<1>3. CASE AskPeers
  BY <1>3 DEF AskPeers, Ask
<1>4. CASE tick_download_scheduler
  BY <1>4 DEF tick_download_scheduler, Ask
<1>5. CASE ToneTakeover
  BY <1>5 DEF ToneTakeover
<1>6. CASE tone_start
  BY <1>6 DEF tone_start
<1>7. CASE StopTone
  BY <1>7 DEF StopTone
<1>8. CASE RemoteDownload
  BY <1>8 DEF RemoteDownload
<1>9. CASE RemoteCancel
  BY <1>9 DEF RemoteCancel
<1>10. CASE PauseJob
  BY <1>10 DEF PauseJob
<1>11. CASE tick_refresh_done
  BY <1>11 DEF tick_refresh_done
<1>12. CASE refresh_cancel
  BY <1>12 DEF refresh_cancel
<1>13. CASE Peek
  BY <1>13 DEF Peek
<1>14. CASE req_abandoned
  <2>1. /\ s_play_q \in {NoReq, old}
        /\ req' = req /\ next' = next /\ pc' = pc /\ ui = "abandon"
        /\ s_downloading' = s_downloading
    BY <1>14 DEF req_abandoned
  <2>2. s_dl_queued' => s_dl_queued /\ old.kind # "job"
    BY <1>14, Zenon DEF req_abandoned
  <2> QED
    BY <2>1, <2>2
<1>15. CASE LatchRefresh
  BY <1>15 DEF LatchRefresh
<1>16. CASE Overwrite
  BY <1>16 DEF Overwrite
<1>17. CASE Receive
  BY <1>17 DEF Receive, Goto
<1>18. CASE refresh_begin
  BY <1>18 DEF refresh_begin, Goto
<1>19. CASE RefreshCheck
  BY <1>19 DEF RefreshCheck, Goto, Local
<1>20. CASE RefreshInterrupted
  BY <1>20 DEF RefreshInterrupted, Goto, Local
<1>21. CASE RefreshFetched
  BY <1>21 DEF RefreshFetched, Goto, Local
<1>22. CASE RefreshEnd
  BY <1>22 DEF RefreshEnd, Done, Goto, refresh_finished
<1>23. CASE ClaimJob
  BY <1>23 DEF ClaimJob, Goto
<1>24. CASE UnqueueJob
  BY <1>24 DEF UnqueueJob, Goto
<1>25. CASE GuardJob
  BY <1>25 DEF GuardJob, Goto, Local
<1>26. CASE InterruptJob
  BY <1>26 DEF InterruptJob, Goto, Local
<1>27. CASE EndJob
  BY <1>27 DEF EndJob, Goto
<1>28. CASE LeaveJob
  BY <1>28 DEF LeaveJob, Done, Goto
<1>29. CASE ToneBegins
  BY <1>29 DEF ToneBegins, Goto
<1>30. CASE ToneGivesUp
  BY <1>30 DEF ToneGivesUp, Goto, Local
<1>31. CASE ToneStops
  BY <1>31 DEF ToneStops, Goto, Local
<1>32. CASE ToneEnds
  BY <1>32 DEF ToneEnds, Done, Goto
<1>33. CASE BrowsePeers
  BY <1>33 DEF BrowsePeers, Goto, Local
<1>34. CASE FoundPeers
  BY <1>34 DEF FoundPeers, Done, Goto
<1>35. CASE PlayBegins
  BY <1>35 DEF PlayBegins, Goto, Local
<1>36. CASE PlayRefused
  BY <1>36 DEF PlayRefused, Done, Goto, Local
<1>37. CASE PlayCancelled
  BY <1>37 DEF PlayCancelled, Done, Goto, Local
<1>38. CASE TrackEnds
  BY <1>38 DEF TrackEnds, Done, Goto, Local
<1>39. CASE Sendspin
  BY <1>39 DEF Sendspin
<1>40. CASE UNCHANGED vars
  BY <1>40 DEF vars
<1> QED
  BY <1>1, <1>2, <1>3, <1>4, <1>5, <1>6, <1>7, <1>8, <1>9, <1>10, <1>11,
     <1>12, <1>13, <1>14, <1>15, <1>16, <1>17, <1>18, <1>19, <1>20, <1>21,
     <1>22, <1>23, <1>24, <1>25, <1>26, <1>27, <1>28, <1>29, <1>30, <1>31,
     <1>32, <1>33, <1>34, <1>35, <1>36, <1>37, <1>38, <1>39, <1>40
     DEF Next, LvglTask, req_post, WorkerTask, WorkerMoves

LEMMA OthersStep == IInv /\ [Next]_vars => OthersHeld'
<1> SUFFICES ASSUME IInv, [Next]_vars PROVE OthersHeld'
  OBVIOUS
<1> USE DEF IInv, Shape, OthersHeld, Held, Replacing, NoReq, Waiting, TypeOK, StateTypes, UiStates, PcStates, refreshing, job, tone, lvgl, worker
<1>1. CASE AskPlay
  BY <1>1 DEF AskPlay, Ask
<1>2. CASE AskRefresh
  BY <1>2 DEF AskRefresh, Ask
<1>3. CASE AskPeers
  BY <1>3 DEF AskPeers, Ask
<1>4. CASE tick_download_scheduler
  BY <1>4 DEF tick_download_scheduler, Ask
<1>5. CASE ToneTakeover
  BY <1>5 DEF ToneTakeover
<1>6. CASE tone_start
  BY <1>6 DEF tone_start
<1>7. CASE StopTone
  BY <1>7 DEF StopTone
<1>8. CASE RemoteDownload
  BY <1>8 DEF RemoteDownload
<1>9. CASE RemoteCancel
  BY <1>9 DEF RemoteCancel
<1>10. CASE PauseJob
  BY <1>10 DEF PauseJob
<1>11. CASE tick_refresh_done
  BY <1>11 DEF tick_refresh_done
<1>12. CASE refresh_cancel
  BY <1>12 DEF refresh_cancel
<1>13. CASE Peek
  BY <1>13 DEF Peek
<1>14. CASE req_abandoned
  <2>1. /\ s_play_q \in {NoReq, old}
        /\ req' = req /\ next' = next /\ ui = "abandon"
    BY <1>14 DEF req_abandoned
  <2>2. s_tone_running' => s_tone_running /\ old.kind # "tone"
    BY <1>14, Zenon DEF req_abandoned
  <2>3. s_memo_peer_count' = "searching"
          => s_memo_peer_count = "searching" /\ old.kind # "peers"
    BY <1>14 DEF req_abandoned
  <2> QED
    BY <2>1, <2>2, <2>3
<1>15. CASE LatchRefresh
  BY <1>15 DEF LatchRefresh
<1>16. CASE Overwrite
  BY <1>16 DEF Overwrite
<1>17. CASE Receive
  BY <1>17 DEF Receive, Goto
<1>18. CASE refresh_begin
  BY <1>18 DEF refresh_begin, Goto
<1>19. CASE RefreshCheck
  BY <1>19 DEF RefreshCheck, Goto, Local
<1>20. CASE RefreshInterrupted
  BY <1>20 DEF RefreshInterrupted, Goto, Local
<1>21. CASE RefreshFetched
  BY <1>21 DEF RefreshFetched, Goto, Local
<1>22. CASE RefreshEnd
  BY <1>22 DEF RefreshEnd, Done, Goto, refresh_finished
<1>23. CASE ClaimJob
  BY <1>23 DEF ClaimJob, Goto
<1>24. CASE UnqueueJob
  BY <1>24 DEF UnqueueJob, Goto
<1>25. CASE GuardJob
  BY <1>25 DEF GuardJob, Goto, Local
<1>26. CASE InterruptJob
  BY <1>26 DEF InterruptJob, Goto, Local
<1>27. CASE EndJob
  BY <1>27 DEF EndJob, Goto
<1>28. CASE LeaveJob
  BY <1>28 DEF LeaveJob, Done, Goto
<1>29. CASE ToneBegins
  BY <1>29 DEF ToneBegins, Goto
<1>30. CASE ToneGivesUp
  BY <1>30 DEF ToneGivesUp, Goto, Local
<1>31. CASE ToneStops
  BY <1>31 DEF ToneStops, Goto, Local
<1>32. CASE ToneEnds
  BY <1>32 DEF ToneEnds, Done, Goto
<1>33. CASE BrowsePeers
  BY <1>33 DEF BrowsePeers, Goto, Local
<1>34. CASE FoundPeers
  BY <1>34 DEF FoundPeers, Done, Goto
<1>35. CASE PlayBegins
  BY <1>35 DEF PlayBegins, Goto, Local
<1>36. CASE PlayRefused
  BY <1>36 DEF PlayRefused, Done, Goto, Local
<1>37. CASE PlayCancelled
  BY <1>37 DEF PlayCancelled, Done, Goto, Local
<1>38. CASE TrackEnds
  BY <1>38 DEF TrackEnds, Done, Goto, Local
<1>39. CASE Sendspin
  BY <1>39 DEF Sendspin
<1>40. CASE UNCHANGED vars
  BY <1>40 DEF vars
<1> QED
  BY <1>1, <1>2, <1>3, <1>4, <1>5, <1>6, <1>7, <1>8, <1>9, <1>10, <1>11,
     <1>12, <1>13, <1>14, <1>15, <1>16, <1>17, <1>18, <1>19, <1>20, <1>21,
     <1>22, <1>23, <1>24, <1>25, <1>26, <1>27, <1>28, <1>29, <1>30, <1>31,
     <1>32, <1>33, <1>34, <1>35, <1>36, <1>37, <1>38, <1>39, <1>40
     DEF Next, LvglTask, req_post, WorkerTask, WorkerMoves

LEMMA IInvStep == IInv /\ [Next]_vars => IInv'
BY TypeStep, ShapeStep, RefreshStep, JobStep, OthersStep DEF IInv

LEMMA IInvNoWedge == IInv => NoWedge
BY DEF IInv, Shape, RefreshHeld, JobHeld, OthersHeld, Held, IsOwner, NoWedge,
       Pending

(* No latch of the screen outlives its request: whatever the two tasks     *)
(* interleave, and however often a request replaces another in the queue,  *)
(* a busy button has a request that will still release it.                 *)
THEOREM NothingWedges == Spec => []NoWedge
<1> QED
  BY IInvInit, IInvStep, IInvNoWedge, PTL DEF Spec
-----------------------------------------------------------------------------
(* What a refresh may report, what a tone shows, what a cancel meets. The   *)
(* three parts are inductive together with IInv.                            *)

(* A request posted earlier carries an older generation, the one just      *)
(* latched carries the newest, and whoever carries the newest holds the    *)
(* button.                                                                 *)
RefreshFresh ==
  /\ s_refresh_owner_generation <= s_refresh_generation
  /\ \A r \in {s_play_q, req, old} : r.kind = "refresh" =>
       /\ r.generation <= s_refresh_generation
       /\ ui \in {"peek", "abandon", "latch", "write"} => r.generation < s_refresh_generation
  /\ s_play_q.kind = "refresh" /\ req.kind = "refresh"
       => req.generation < s_play_q.generation
  /\ next.kind = "refresh" /\ ui = "write" =>
       /\ s_refreshing
       /\ next.generation = s_refresh_generation
       /\ s_refresh_owner_generation = s_refresh_generation
  /\ \A r \in {s_play_q, req} : r.kind = "refresh" /\ r.generation = s_refresh_generation
       => s_refreshing /\ s_refresh_owner_generation = s_refresh_generation
  /\ ~(s_refreshing /\ s_refresh_done)

(* A tone that lost its flag to req_abandoned is about to be replaced.     *)
ToneHeard == pc = "tone" => s_tone_running \/ s_tone_stop \/ Waiting \/ Replacing

(* A job is marked queued or running, or the scheduler sees the request    *)
(* that took its place; and there is never a second one.                   *)
JobMarked ==
  /\ next.kind = "job" => s_dl_queued /\ s_play_q = NoReq /\ req.kind # "job"
  /\ s_play_q.kind = "job" => req.kind # "job" /\ (s_dl_queued \/ Replacing)
  /\ pc \in {"claimed", "guard", "job", "leave"} => s_downloading
  /\ pc = "got" /\ req.kind = "job" => s_dl_queued \/ Waiting \/ Replacing

LEMMA PromisesInit == Init => RefreshFresh /\ ToneHeard /\ JobMarked
BY DEF Init, NoReq, RefreshFresh, ToneHeard, JobMarked

(* The producers, and the worker outside of refreshes, leave the refreshes *)
(* as they are, or add a request that is none.                             *)
LEMMA FreshStep == IInv /\ RefreshFresh /\ [Next]_vars => RefreshFresh'
<1> SUFFICES ASSUME IInv, RefreshFresh, [Next]_vars PROVE RefreshFresh'
  OBVIOUS
<1> USE DEF RefreshFresh, IInv, TypeOK, FlagTypes, StateTypes, UiStates, NoReq, Requests, Shape,
            refreshing, job, tone, lvgl, worker
<1>1. CASE AskPlay \/ AskRefresh \/ AskPeers \/ tick_download_scheduler
  BY <1>1 DEF AskPlay, AskRefresh, AskPeers, tick_download_scheduler, Ask
<1>2. CASE ToneTakeover \/ tone_start \/ StopTone \/ RemoteDownload \/ RemoteCancel \/ PauseJob
  BY <1>2 DEF ToneTakeover, tone_start, StopTone, RemoteDownload, RemoteCancel, PauseJob
<1>3. CASE tick_refresh_done
  BY <1>3 DEF tick_refresh_done
<1>4. CASE refresh_cancel
  BY <1>4 DEF refresh_cancel
<1>5. CASE Peek
  BY <1>5 DEF Peek
<1>6. CASE req_abandoned
  <2>1. /\ UNCHANGED <<next, old, s_play_q, req, s_refresh_generation, s_refresh_owner_generation>>
        /\ ui = "abandon" /\ ui' = "latch"
    BY <1>6 DEF req_abandoned, refresh_finished
  <2>2. \/ UNCHANGED refreshing
        \/ s_refreshing' = FALSE /\ s_refresh_done' = TRUE
    BY <1>6 DEF req_abandoned, refresh_finished
  <2> QED
    BY <2>1, <2>2
<1>7. CASE LatchRefresh
  BY <1>7 DEF LatchRefresh
<1>8. CASE Overwrite
  BY <1>8 DEF Overwrite
<1>9. CASE Receive
  BY <1>9 DEF Receive, Goto, Waiting
<1>10. CASE refresh_begin \/ RefreshCheck \/ RefreshInterrupted \/ RefreshFetched
  BY <1>10 DEF refresh_begin, RefreshCheck, RefreshInterrupted, RefreshFetched, Goto, Local
<1>11. CASE RefreshEnd
  <2>1. /\ UNCHANGED <<next, old, s_play_q, ui, s_refresh_generation, s_refresh_owner_generation>>
        /\ req.kind = "refresh" /\ req' = NoReq
    BY <1>11 DEF RefreshEnd, Done, Goto, refresh_finished
  <2>2. CASE req.generation = s_refresh_owner_generation
    <3>1. s_refreshing' = FALSE
      BY <1>11, <2>2 DEF RefreshEnd, refresh_finished
    <3>2. ~(next.kind = "refresh" /\ ui = "write")
      BY <2>1, <2>2
    <3>3. s_play_q.kind = "refresh" => s_play_q.generation # s_refresh_generation
      BY <2>1, <2>2
    <3> QED
      BY <2>1, <3>1, <3>2, <3>3
  <2>3. CASE req.generation # s_refresh_owner_generation
    <3>1. UNCHANGED refreshing
      BY <1>11, <2>3 DEF RefreshEnd, refresh_finished
    <3> QED
      BY <2>1, <3>1
  <2> QED
    BY <2>2, <2>3
<1>12. CASE ClaimJob \/ UnqueueJob \/ GuardJob \/ InterruptJob \/ EndJob \/ LeaveJob
  <2>1. /\ UNCHANGED <<lvgl, s_play_q, refreshing>>
        /\ req' \in {req, NoReq}
    BY <1>12 DEF ClaimJob, UnqueueJob, GuardJob, InterruptJob, EndJob, LeaveJob, Done, Local
  <2> QED
    BY <2>1
<1>13. CASE ToneBegins \/ ToneGivesUp \/ ToneStops \/ ToneEnds
  BY <1>13 DEF ToneBegins, ToneGivesUp, ToneStops, ToneEnds, Done, Goto, Local
<1>14. CASE BrowsePeers \/ FoundPeers
  BY <1>14 DEF BrowsePeers, FoundPeers, Done, Goto, Local
<1>15. CASE PlayBegins \/ PlayRefused \/ PlayCancelled \/ TrackEnds
  BY <1>15 DEF PlayBegins, PlayRefused, PlayCancelled, TrackEnds, Done, Goto, Local
<1>16. CASE Sendspin \/ UNCHANGED vars
  BY <1>16 DEF Sendspin, vars
<1> QED
  BY <1>1, <1>2, <1>3, <1>4, <1>5, <1>6, <1>7, <1>8, <1>9, <1>10, <1>11, <1>12, <1>13,
     <1>14, <1>15, <1>16 DEF Next, LvglTask, req_post, WorkerTask, WorkerMoves

LEMMA HeardStep == IInv /\ ToneHeard /\ [Next]_vars => ToneHeard'
<1> SUFFICES ASSUME IInv, ToneHeard, [Next]_vars PROVE ToneHeard'
  OBVIOUS
<1> USE DEF ToneHeard, Waiting, Replacing, IInv, TypeOK, FlagTypes, StateTypes, UiStates,
            NoReq, Shape, refreshing, job, tone, lvgl, worker
<1>1. CASE AskPlay \/ AskRefresh \/ AskPeers \/ tick_download_scheduler
  BY <1>1 DEF AskPlay, AskRefresh, AskPeers, tick_download_scheduler, Ask
<1>2. CASE ToneTakeover \/ tone_start \/ StopTone
  BY <1>2 DEF ToneTakeover, tone_start, StopTone
<1>3. CASE RemoteDownload \/ RemoteCancel \/ PauseJob \/ tick_refresh_done
  BY <1>3 DEF RemoteDownload, RemoteCancel, PauseJob, tick_refresh_done
<1>4. CASE refresh_cancel \/ Peek \/ req_abandoned \/ LatchRefresh
  BY <1>4 DEF refresh_cancel, Peek, req_abandoned, LatchRefresh
<1>5. CASE Overwrite
  BY <1>5 DEF Overwrite
<1>6. CASE Receive \/ refresh_begin \/ RefreshCheck \/ RefreshInterrupted \/ RefreshFetched
  BY <1>6 DEF Receive, refresh_begin, RefreshCheck, RefreshInterrupted, RefreshFetched, Goto, Local
<1>7. CASE RefreshEnd \/ ClaimJob \/ UnqueueJob \/ GuardJob \/ InterruptJob \/ EndJob \/ LeaveJob
  BY <1>7 DEF RefreshEnd, ClaimJob, UnqueueJob, GuardJob, InterruptJob, EndJob, LeaveJob, Done,
              Goto, Local
<1>8. CASE ToneBegins \/ ToneGivesUp \/ ToneStops \/ ToneEnds \/ BrowsePeers \/ FoundPeers
  BY <1>8 DEF ToneBegins, ToneGivesUp, ToneStops, ToneEnds, BrowsePeers, FoundPeers, Done,
              Goto, Local
<1>9. CASE PlayBegins \/ PlayRefused \/ PlayCancelled \/ TrackEnds
  BY <1>9 DEF PlayBegins, PlayRefused, PlayCancelled, TrackEnds, Done, Goto, Local
<1>10. CASE Sendspin \/ UNCHANGED vars
  BY <1>10 DEF Sendspin, vars
<1> QED
  BY <1>1, <1>2, <1>3, <1>4, <1>5, <1>6, <1>7, <1>8, <1>9, <1>10
     DEF Next, LvglTask, req_post, WorkerTask, WorkerMoves

LEMMA MarkedStep == IInv /\ JobMarked /\ [Next]_vars => JobMarked'
<1> SUFFICES ASSUME IInv, JobMarked, [Next]_vars PROVE JobMarked'
  OBVIOUS
<1> USE DEF JobMarked, Waiting, Replacing, IInv, TypeOK, FlagTypes, StateTypes, UiStates,
            PcStates, NoReq, Shape, refreshing, job, tone, lvgl, worker
<1>1. CASE AskPlay \/ AskRefresh \/ AskPeers
  BY <1>1 DEF AskPlay, AskRefresh, AskPeers, Ask
<1>2. CASE tick_download_scheduler
  BY <1>2 DEF tick_download_scheduler, Ask
<1>3. CASE ToneTakeover \/ tone_start \/ StopTone
  BY <1>3 DEF ToneTakeover, tone_start, StopTone
<1>4. CASE RemoteDownload \/ RemoteCancel \/ PauseJob \/ tick_refresh_done
  BY <1>4 DEF RemoteDownload, RemoteCancel, PauseJob, tick_refresh_done
<1>5. CASE refresh_cancel \/ Peek
  BY <1>5 DEF refresh_cancel, Peek
<1>6. CASE req_abandoned
  BY <1>6 DEF req_abandoned
<1>7. CASE LatchRefresh
  <2>1. next'.kind = next.kind
    BY <1>7 DEF LatchRefresh, Requests
  <2> QED
    BY <1>7, <2>1 DEF LatchRefresh
<1>8. CASE Overwrite
  BY <1>8 DEF Overwrite
<1>9. CASE Receive
  BY <1>9 DEF Receive, Goto
<1>10. CASE \/ refresh_begin \/ RefreshCheck \/ RefreshInterrupted \/ RefreshFetched \/ RefreshEnd
  BY <1>10 DEF refresh_begin, RefreshCheck, RefreshInterrupted, RefreshFetched, RefreshEnd, Done,
               Goto, Local
<1>11. CASE ClaimJob \/ UnqueueJob \/ GuardJob \/ InterruptJob \/ EndJob \/ LeaveJob
  BY <1>11 DEF ClaimJob, UnqueueJob, GuardJob, InterruptJob, EndJob, LeaveJob, Done, Goto, Local
<1>12. CASE ToneBegins \/ ToneGivesUp \/ ToneStops \/ ToneEnds \/ BrowsePeers \/ FoundPeers
  BY <1>12 DEF ToneBegins, ToneGivesUp, ToneStops, ToneEnds, BrowsePeers, FoundPeers, Done,
               Goto, Local
<1>13. CASE PlayBegins \/ PlayRefused \/ PlayCancelled \/ TrackEnds
  BY <1>13 DEF PlayBegins, PlayRefused, PlayCancelled, TrackEnds, Done, Goto, Local
<1>14. CASE Sendspin \/ UNCHANGED vars
  BY <1>14 DEF Sendspin, vars
<1> QED
  BY <1>1, <1>2, <1>3, <1>4, <1>5, <1>6, <1>7, <1>8, <1>9, <1>10, <1>11, <1>12, <1>13, <1>14
     DEF Next, LvglTask, req_post, WorkerTask, WorkerMoves

(* The newest refresh holds the button until it reports, and no older one  *)
(* speaks for it, however late it ends or is dropped.                      *)
THEOREM NewestReports == Spec => []RefreshReports
<1>1. RefreshFresh => RefreshReports
  BY DEF RefreshFresh, RefreshReports
<1> QED
  BY IInvInit, IInvStep, PromisesInit, FreshStep, <1>1, PTL DEF Spec

(* A tone that sounds with nothing waiting behind it can be stopped.       *)
THEOREM ToneStaysVisible == Spec => []ToneVisible
<1>1. ToneHeard => ToneVisible
  BY DEF ToneHeard, ToneVisible, Replacing
<1> QED
  BY IInvInit, IInvStep, PromisesInit, HeardStep, <1>1, PTL DEF Spec

(* Only the scheduler clears s_dl_cancel.                                  *)
LEMMA OnlySchedulerClears ==
  TypeOK /\ [Next]_vars /\ s_dl_cancel /\ ~s_dl_cancel' => tick_download_scheduler
<1> SUFFICES ASSUME TypeOK, [Next]_vars, s_dl_cancel, ~s_dl_cancel', ~tick_download_scheduler
             PROVE FALSE
  OBVIOUS
<1> USE DEF TypeOK, FlagTypes, job
<1>1. CASE AskPlay \/ AskRefresh \/ AskPeers
  BY <1>1 DEF AskPlay, AskRefresh, AskPeers
<1>2. CASE \/ ToneTakeover \/ tone_start \/ StopTone
           \/ RemoteDownload \/ RemoteCancel \/ PauseJob \/ tick_refresh_done
  BY <1>2 DEF ToneTakeover, tone_start, StopTone, RemoteDownload, RemoteCancel, PauseJob,
              tick_refresh_done
<1>3. CASE req_post
  BY <1>3 DEF req_post, refresh_cancel, Peek, req_abandoned, LatchRefresh, Overwrite
<1>4. CASE WorkerTask
  BY <1>4 DEF WorkerTask, WorkerMoves, Receive, refresh_begin, RefreshCheck, RefreshInterrupted,
              RefreshFetched, RefreshEnd, ClaimJob, UnqueueJob, GuardJob, InterruptJob, EndJob,
              LeaveJob, ToneBegins, ToneGivesUp, ToneStops, ToneEnds, BrowsePeers, FoundPeers,
              PlayBegins, PlayRefused, PlayCancelled, TrackEnds, Local
<1>5. CASE Sendspin \/ UNCHANGED vars
  BY <1>5 DEF Sendspin, vars
<1> QED
  BY <1>1, <1>2, <1>3, <1>4, <1>5 DEF Next, LvglTask

(* A cancel is never taken back under the job that should have seen it.    *)
THEOREM CancelReachesTheJob == Spec => CancelStays
<1>1. ASSUME IInv, JobMarked, [Next]_vars, s_dl_cancel, ~s_dl_cancel' PROVE req.kind # "job"
  <2>1. tick_download_scheduler
    BY <1>1, OnlySchedulerClears DEF IInv
  <2>2. ~s_dl_queued /\ ~s_downloading /\ ~Waiting /\ ui = "idle"
    BY <2>1 DEF tick_download_scheduler, Ask
  <2> QED
    BY <1>1, <2>2 DEF IInv, TypeOK, StateTypes, PcStates, Shape, JobMarked, Replacing
<1>2. IInv /\ JobMarked /\ [Next]_vars => [s_dl_cancel /\ ~s_dl_cancel' => req.kind # "job"]_vars
  BY <1>1
<1> QED
  BY IInvInit, IInvStep, PromisesInit, MarkedStep, <1>2, PTL DEF Spec, CancelStays
===============================================================================
