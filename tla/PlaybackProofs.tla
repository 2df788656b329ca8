---------------------------- MODULE PlaybackProofs ----------------------------
(***************************************************************************)
(* Theorems about Playback, for any number of generations and retries: its *)
(* types, that an advance of the list was earned, and that the protocol    *)
(* implements PlayIntent. All rest on one idea: of all the requests about, *)
(* only the newest can belong to the generation its source is in, since    *)
(* both sources are stopped before a request is posted.                    *)
(***************************************************************************)
EXTENDS Playback, TLAPS

(* Where ui_play and ui_stop have cancelled the play of before.            *)
Cancelled == {"cancelled", "unpaused", "sd_stopped", "stopped", "ready", "posting"}

(* Where the worker serves a play.                                         *)
Serving == PcStates \ {"receive", "other"}

(* What each task holds where it is.                                       *)
Held ==
  /\ goal \in Plays \cup {Stop}
  /\ ui \in {"ready", "posting"} => goal \in Plays
  /\ pc \in {"retrying", "waiting"} => attempt < Retries
  /\ pc \in Serving => req.kind = "play"

(* TypeOK in two parts: what is not Boolean, and what is.                  *)
Values ==
  /\ s_play_generation \in Nat /\ s_advance_generation \in Nat
  /\ s_play_q \in Requests /\ req \in Requests /\ posted \in Requests
  /\ s_generation \in [Sources -> Nat] /\ s_completed_generation \in [Sources -> Nat]
  /\ s_active \in Sources \cup {"sendspin", "none"}
  /\ s_pending_cmd \in {"none", "stop", "other"}
  /\ ui \in UiStates /\ pc \in PcStates
  /\ attempt \in 0..Retries /\ finished \in Nat
  /\ outcome \in Outcomes \cup {"none"}

Flags ==
  /\ s_stop_requested \in BOOLEAN /\ s_advance \in BOOLEAN
  /\ s_play_failed \in BOOLEAN /\ s_play_retrying \in BOOLEAN
  /\ s_stop \in [Sources -> BOOLEAN] /\ s_completed \in [Sources -> BOOLEAN]
  /\ s_open \in BOOLEAN /\ s_paused \in BOOLEAN /\ s_session \in BOOLEAN
  /\ active \in BOOLEAN /\ opening \in BOOLEAN
  /\ completed \in BOOLEAN /\ hushed \in BOOLEAN

Types == Values /\ Flags /\ Held

(* Requests carry the generations of the time they were posted at.         *)
Numbered(r) ==
  r.kind = "play" => /\ 0 < r.generation /\ r.generation <= posted.generation
                     /\ r.source_generation <= s_generation[r.src]

Order ==
  /\ Numbered(req) /\ Numbered(s_play_q) /\ Numbered(posted)
  /\ posted.generation <= s_play_generation
  /\ ui \in Cancelled => posted.generation < s_play_generation
  /\ pc \in Serving /\ s_play_q.kind = "play" => req.generation < s_play_q.generation

(* Only the newest request can be current with its source, and none is     *)
(* once ui_play has stopped both. An unstopped source plays a current one. *)
Current(r) == r.kind = "play" /\ SourceCurrent(r)

OnlyNewest ==
  /\ Current(req) => req = posted
  /\ Current(s_play_q) => s_play_q = posted
  /\ ui = "sd_stopped" => ~(Current(posted) /\ posted.src = "sd")
  /\ ui \in {"stopped", "ready", "posting"} => ~Current(posted)
  /\ pc \in {"opening", "armed", "decoding"} /\ ~s_stop[req.src] => SourceCurrent(req)

(* What s_completed and `completed` say was true of the last decode.       *)
Judged ==
  /\ pc \in {"opening", "armed", "decoding", "decoded"} => ~s_completed[req.src]
  /\ pc = "decoded" /\ EndReached(req.src) => finished = req.generation
  /\ pc \in {"joining", "releasing", "returned", "judging"} /\ s_completed[req.src]
       => finished = req.generation
  /\ completed => pc \in {"over", "ending", "reporting"} /\ finished = req.generation

(* A reported advance is of the newest request, and nothing is played      *)
(* after it until play_cancel takes it back.                               *)
Reported ==
  /\ ui \in Cancelled => ~s_advance
  /\ s_advance =>
       /\ s_advance_generation = s_play_generation
       /\ finished = s_advance_generation
       /\ pc \notin Serving
       /\ s_play_q.kind # "play"

IInv == Types /\ Order /\ OnlyNewest /\ Judged /\ Reported

(* A device that has just started has played nothing.                      *)
LEMMA InitHolds == Init => IInv
<1> SUFFICES ASSUME Init PROVE IInv
  OBVIOUS
<1> USE DEF Init, Nothing, Stop, Sources
<1>1. Values /\ Flags
  <2>1. Nothing \in Requests
    BY DEF Requests
  <2>2. s_play_q \in Requests /\ req \in Requests /\ posted \in Requests
    BY <2>1
  <2>3. Values
    BY <2>2, PlaybackAssumption DEF Values, UiStates, PcStates
  <2>4. Flags
    BY DEF Flags
  <2> QED
    BY <2>3, <2>4
<1>2. Held
  BY DEF Held, Serving
<1>3. Order
  BY DEF Order, Numbered, Cancelled, Serving
<1>4. OnlyNewest
  BY DEF OnlyNewest, Current
<1>5. Judged /\ Reported
  BY DEF Judged, Reported, Cancelled
<1> QED
  BY <1>1, <1>2, <1>3, <1>4, <1>5 DEF IInv, Types

(* Numbers, requests and places.                                           *)
LEMMA ValuesStep == Types /\ [Next]_vars => (Values /\ Held)'
<1> SUFFICES ASSUME Types, [Next]_vars PROVE (Values /\ Held)'
  OBVIOUS
<1> USE DEF Types, Values, Held, Step, TurnGoes, Outcomes, Requests,
        Nothing, Sources, Plays, Stop,
        UiStates, PcStates, Serving, flags, sources, output, sendspin, lvgl,
        worker, history
<1>0. TurnEnds => req' \in Requests /\ attempt' \in 0..Retries /\ pc' = "receive"
  <2>1. Nothing \in Requests
    OBVIOUS
  <2> QED
    BY <2>1, PlaybackAssumption DEF TurnEnds
<1>1. CASE play_cancel
  BY <1>1 DEF play_cancel
<1>2. CASE Unpause
  BY <1>2 DEF Unpause
<1>3. CASE source_sd_stop
  BY <1>3 DEF source_sd_stop, StopSource
<1>4. CASE source_stream_stop
  BY <1>4 DEF source_stream_stop, StopSource
<1>5. CASE UiStopped
  BY <1>5 DEF UiStopped
<1>6. CASE EndSession
  <2>1. goal \in Plays
    BY <1>6 DEF EndSession
  <2> QED
    BY <1>6, <2>1 DEF EndSession
<1>7. CASE ArmPlay
  BY <1>7 DEF ArmPlay
<1>8. CASE PostPlay
  BY <1>8 DEF PostPlay
<1>9. CASE tick_advance
  BY <1>9 DEF tick_advance
<1>10. CASE \E g \in Plays \cup {Stop} : UserAsks(g)
  BY <1>10 DEF UserAsks
<1>11. CASE PostOther
  <2>1. s_play_q' = [kind |-> "other", src |-> "sd", list |-> FALSE,
                     generation |-> 0, source_generation |-> 0]
    BY <1>11 DEF PostOther
  <2>2. s_play_q' \in Requests
    BY <2>1
  <2> QED
    BY <1>11, <2>2 DEF PostOther
<1>12. CASE TogglePause
  BY <1>12 DEF TogglePause
<1>13. CASE DeadlineStrikes
  BY <1>13 DEF DeadlineStrikes
<1>14. CASE \E cmd \in {"stop", "other"} : source_sendspin_command(cmd)
  BY <1>14 DEF source_sendspin_command
<1>15. CASE Receive
  BY <1>15, PlaybackAssumption DEF Receive
<1>16. CASE ServeOther
  BY <1>0, <1>16 DEF ServeOther
<1>17. CASE Check
  BY <1>0, <1>17 DEF Check
<1>18. CASE CheckAfterCover
  BY <1>0, <1>18 DEF CheckAfterCover
<1>19. CASE Takeover
  BY <1>0, <1>19 DEF Takeover
<1>20. CASE TakeoverTimesOut
  BY <1>0, <1>20 DEF TakeoverTimesOut, Fail
<1>21. CASE Attempt
  BY <1>21 DEF Attempt
<1>22. CASE Enter
  BY <1>22 DEF Enter
<1>23. CASE audio_arbiter_acquire
  BY <1>23 DEF audio_arbiter_acquire
<1>24. CASE OpeningFails
  BY <1>24 DEF OpeningFails
<1>25. CASE StartDecode
  BY <1>25 DEF StartDecode
<1>26. CASE DecodeStops
  BY <1>26 DEF DecodeStops, DecodeReturns, DecodeRuns
<1>27. CASE Record
  BY <1>27 DEF Record
<1>28. CASE JoinReader
  BY <1>28 DEF JoinReader
<1>29. CASE audio_arbiter_release
  BY <1>29 DEF audio_arbiter_release
<1>30. CASE Returned
  BY <1>30 DEF Returned
<1>31. CASE Judge
  BY <1>31 DEF Judge
<1>32. CASE Decide
  <2>1. attempt' \in 0..Retries /\ (pc' = "retrying" => attempt' < Retries)
    BY <1>32, PlaybackAssumption DEF Decide, Exhausted
  <2> QED
    BY <1>32, <2>1 DEF Decide
<1>33. CASE play_retrying(TRUE, "retrying", "waiting")
  BY <1>33 DEF play_retrying
<1>34. CASE RetryWaits
  BY <1>34, PlaybackAssumption DEF RetryWaits
<1>35. CASE play_retrying(FALSE, "over", "ending")
  BY <1>35 DEF play_retrying
<1>36. CASE Ending
  BY <1>0, <1>36 DEF Ending
<1>37. CASE play_ended
  BY <1>0, <1>37 DEF play_ended
<1>38. CASE audio_open
  BY <1>38 DEF audio_open
<1>39. CASE \E how \in Outcomes : DecodeReturns(how)
  BY <1>39 DEF DecodeReturns, DecodeRuns
<1>40. CASE SsAcquire
  BY <1>40 DEF SsAcquire
<1>41. CASE on_stream_start
  BY <1>41 DEF on_stream_start
<1>42. CASE on_stream_end
  BY <1>42 DEF on_stream_end
<1>43. CASE on_metadata_clear
  BY <1>43 DEF on_metadata_clear
<1>44. CASE DrainCommand
  BY <1>44 DEF DrainCommand
<1>45. CASE UNCHANGED vars
  BY <1>45 DEF vars
<1> QED
  BY <1>1, <1>2, <1>3, <1>4, <1>5, <1>6, <1>7, <1>8, <1>9, <1>10, <1>11,
     <1>12, <1>13, <1>14, <1>15, <1>16, <1>17, <1>18, <1>19, <1>20, <1>21,
     <1>22, <1>23, <1>24, <1>25, <1>26, <1>27, <1>28, <1>29, <1>30, <1>31,
     <1>32, <1>33, <1>34, <1>35, <1>36, <1>37, <1>38, <1>39, <1>40, <1>41,
     <1>42, <1>43, <1>44, <1>45 DEF Next, UiStep, User, WorkerStep, Decoder,
     SendspinStep

(* The Boolean variables.                                                  *)
LEMMA FlagsStep == Types /\ [Next]_vars => Flags'
<1> SUFFICES ASSUME Types, [Next]_vars PROVE Flags'
  OBVIOUS
<1> USE DEF Types, Flags, Sources, TurnEnds, TurnGoes, flags, sources, output, sendspin, lvgl, worker,
        history
<1>1. CASE play_cancel
  BY <1>1 DEF play_cancel
<1>2. CASE Unpause
  BY <1>2 DEF Unpause
<1>3. CASE source_sd_stop
  BY <1>3 DEF source_sd_stop, StopSource
<1>4. CASE source_stream_stop
  BY <1>4 DEF source_stream_stop, StopSource
<1>5. CASE UiStopped
  BY <1>5 DEF UiStopped
<1>6. CASE EndSession
  BY <1>6 DEF EndSession
<1>7. CASE ArmPlay
  BY <1>7 DEF ArmPlay
<1>8. CASE PostPlay
  BY <1>8 DEF PostPlay
<1>9. CASE tick_advance
  BY <1>9 DEF tick_advance
<1>10. CASE \E g \in Plays \cup {Stop} : UserAsks(g)
  BY <1>10 DEF UserAsks
<1>11. CASE PostOther
  BY <1>11 DEF PostOther
<1>12. CASE TogglePause
  BY <1>12 DEF TogglePause
<1>13. CASE DeadlineStrikes
  BY <1>13 DEF DeadlineStrikes
<1>14. CASE \E cmd \in {"stop", "other"} : source_sendspin_command(cmd)
  BY <1>14 DEF source_sendspin_command
<1>15. CASE Receive
  BY <1>15 DEF Receive
<1>16. CASE ServeOther
  BY <1>16 DEF ServeOther
<1>17. CASE Check
  BY <1>17 DEF Check
<1>18. CASE CheckAfterCover
  BY <1>18 DEF CheckAfterCover
<1>19. CASE Takeover
  BY <1>19 DEF Takeover
<1>20. CASE TakeoverTimesOut
  BY <1>20 DEF TakeoverTimesOut, Fail
<1>21. CASE Attempt
  BY <1>21 DEF Attempt
<1>22. CASE Enter
  BY <1>22 DEF Enter
<1>23. CASE audio_arbiter_acquire
  BY <1>23 DEF audio_arbiter_acquire
<1>24. CASE OpeningFails
  BY <1>24 DEF OpeningFails
<1>25. CASE StartDecode
  BY <1>25 DEF StartDecode
<1>26. CASE DecodeStops
  BY <1>26 DEF DecodeStops, DecodeReturns, DecodeRuns
<1>27. CASE Record
  BY <1>27 DEF Record, EndReached, Succeeded, FellShort
<1>28. CASE JoinReader
  BY <1>28 DEF JoinReader
<1>29. CASE audio_arbiter_release
  BY <1>29 DEF audio_arbiter_release
<1>30. CASE Returned
  BY <1>30 DEF Returned
<1>31. CASE Judge
  BY <1>31 DEF Judge
<1>32. CASE Decide
  BY <1>32 DEF Decide
<1>33. CASE play_retrying(TRUE, "retrying", "waiting")
  BY <1>33 DEF play_retrying
<1>34. CASE RetryWaits
  BY <1>34 DEF RetryWaits
<1>35. CASE play_retrying(FALSE, "over", "ending")
  BY <1>35 DEF play_retrying
<1>36. CASE Ending
  BY <1>36 DEF Ending
<1>37. CASE play_ended
  BY <1>37 DEF play_ended
<1>38. CASE audio_open
  BY <1>38 DEF audio_open
<1>39. CASE \E how \in Outcomes : DecodeReturns(how)
  BY <1>39 DEF DecodeReturns, DecodeRuns
<1>40. CASE SsAcquire
  BY <1>40 DEF SsAcquire
<1>41. CASE on_stream_start
  BY <1>41 DEF on_stream_start
<1>42. CASE on_stream_end
  BY <1>42 DEF on_stream_end
<1>43. CASE on_metadata_clear
  BY <1>43 DEF on_metadata_clear
<1>44. CASE DrainCommand
  BY <1>44 DEF DrainCommand
<1>45. CASE UNCHANGED vars
  BY <1>45 DEF vars
<1> QED
  BY <1>1, <1>2, <1>3, <1>4, <1>5, <1>6, <1>7, <1>8, <1>9, <1>10, <1>11,
     <1>12, <1>13, <1>14, <1>15, <1>16, <1>17, <1>18, <1>19, <1>20, <1>21,
     <1>22, <1>23, <1>24, <1>25, <1>26, <1>27, <1>28, <1>29, <1>30, <1>31,
     <1>32, <1>33, <1>34, <1>35, <1>36, <1>37, <1>38, <1>39, <1>40, <1>41,
     <1>42, <1>43, <1>44, <1>45 DEF Next, UiStep, User, WorkerStep, Decoder,
     SendspinStep

(* Who only touches the output or the Sendspin session disturbs nothing    *)
(* that the following lemmas speak of.                                     *)
OutputOnly == UNCHANGED <<flags, s_play_q, sources, lvgl, worker, history>>

LEMMA OutputSteps ==
  \/ TogglePause \/ audio_open \/ SendspinStep \/ UNCHANGED vars
  \/ \E cmd \in {"stop", "other"} : source_sendspin_command(cmd)
  => OutputOnly
BY DEF OutputOnly, TogglePause, audio_open, SendspinStep, SsAcquire, on_stream_start,
   on_stream_end, on_metadata_clear, DrainCommand, source_sendspin_command, vars

(* Generations grow, and the queue holds the newer request.                *)
LEMMA OrderStep == Types /\ Order /\ [Next]_vars => Order'
<1> SUFFICES ASSUME Types /\ Order, [Next]_vars PROVE Order'
  OBVIOUS
<1> USE DEF Types, Values, Held, Order, Numbered, Requests, Nothing, Sources,
        Plays, Stop, Serving, PcStates, Cancelled, Step, TurnEnds, TurnGoes, flags, sources,
        output, sendspin, lvgl, worker, history
<1>1. CASE play_cancel
  BY <1>1 DEF play_cancel
<1>2. CASE Unpause
  BY <1>2 DEF Unpause
<1>3. CASE source_sd_stop
  BY <1>3 DEF source_sd_stop, StopSource
<1>4. CASE source_stream_stop
  BY <1>4 DEF source_stream_stop, StopSource
<1>5. CASE UiStopped
  BY <1>5 DEF UiStopped
<1>6. CASE EndSession
  BY <1>6 DEF EndSession
<1>7. CASE ArmPlay
  BY <1>7 DEF ArmPlay
<1>8. CASE PostPlay
  BY <1>8 DEF PostPlay
<1>9. CASE tick_advance
  BY <1>9 DEF tick_advance
<1>10. CASE \E g \in Plays \cup {Stop} : UserAsks(g)
  BY <1>10 DEF UserAsks
<1>11. CASE PostOther
  BY <1>11 DEF PostOther
<1>12. CASE DeadlineStrikes
  BY <1>12 DEF DeadlineStrikes
<1>13. CASE Receive
  BY <1>13 DEF Receive
<1>14. CASE ServeOther
  BY <1>14 DEF ServeOther
<1>15. CASE Check
  BY <1>15 DEF Check
<1>16. CASE CheckAfterCover
  BY <1>16 DEF CheckAfterCover
<1>17. CASE Takeover
  BY <1>17 DEF Takeover
<1>18. CASE TakeoverTimesOut
  BY <1>18 DEF TakeoverTimesOut, Fail
<1>19. CASE Attempt
  BY <1>19 DEF Attempt
<1>20. CASE Enter
  BY <1>20 DEF Enter
<1>21. CASE audio_arbiter_acquire
  BY <1>21 DEF audio_arbiter_acquire
<1>22. CASE OpeningFails
  BY <1>22 DEF OpeningFails
<1>23. CASE StartDecode
  BY <1>23 DEF StartDecode
<1>24. CASE DecodeStops
  BY <1>24 DEF DecodeStops, DecodeReturns, DecodeRuns
<1>25. CASE Record
  BY <1>25 DEF Record
<1>26. CASE JoinReader
  BY <1>26 DEF JoinReader
<1>27. CASE audio_arbiter_release
  BY <1>27 DEF audio_arbiter_release
<1>28. CASE Returned
  BY <1>28 DEF Returned
<1>29. CASE Judge
  BY <1>29 DEF Judge
<1>30. CASE Decide
  BY <1>30 DEF Decide
<1>31. CASE play_retrying(TRUE, "retrying", "waiting")
  BY <1>31 DEF play_retrying
<1>32. CASE RetryWaits
  BY <1>32 DEF RetryWaits
<1>33. CASE play_retrying(FALSE, "over", "ending")
  BY <1>33 DEF play_retrying
<1>34. CASE Ending
  BY <1>34 DEF Ending
<1>35. CASE play_ended
  BY <1>35 DEF play_ended
<1>36. CASE \E how \in Outcomes : DecodeReturns(how)
  BY <1>36 DEF DecodeReturns, DecodeRuns
<1>37. CASE OutputOnly
  BY <1>37 DEF OutputOnly
<1> QED
  BY <1>1, <1>2, <1>3, <1>4, <1>5, <1>6, <1>7, <1>8, <1>9, <1>10, <1>11,
     <1>12, <1>13, <1>14, <1>15, <1>16, <1>17, <1>18, <1>19, <1>20, <1>21,
     <1>22, <1>23, <1>24, <1>25, <1>26, <1>27, <1>28, <1>29, <1>30, <1>31,
     <1>32, <1>33, <1>34, <1>35, <1>36, <1>37, OutputSteps DEF Next, UiStep,
     User, WorkerStep, Decoder, SendspinStep

(* A stop outdates every request; a new one is posted after two stops.      *)
LEMMA NewestStep == Types /\ Order /\ OnlyNewest /\ [Next]_vars => OnlyNewest'
<1> SUFFICES ASSUME Types /\ Order /\ OnlyNewest, [Next]_vars PROVE OnlyNewest'
  OBVIOUS
<1> USE DEF Types, Values, Flags, Held, Order, Numbered, OnlyNewest, Current,
        SourceCurrent, Requests, Nothing, Sources, Plays, Stop, Serving,
        PcStates, Cancelled, Step, TurnEnds, TurnGoes, flags, sources, output,
        sendspin, lvgl, worker, history
<1>1. CASE play_cancel
  BY <1>1 DEF play_cancel
<1>2. CASE Unpause
  BY <1>2 DEF Unpause
<1>3. CASE source_sd_stop
  <2>1. /\ s_generation' = [s_generation EXCEPT !["sd"] = @ + 1]
        /\ s_stop' = [s_stop EXCEPT !["sd"] = TRUE]
        /\ ui = "unpaused" /\ ui' = "sd_stopped" /\ UNCHANGED <<req, s_play_q, posted, pc>>
    BY <1>3 DEF source_sd_stop, StopSource
  <2>2. \A r \in {req, s_play_q, posted} :
          Current(r)' => Current(r) /\ r.src # "sd"
    BY <2>1
  <2> QED
    BY <2>1, <2>2
<1>4. CASE source_stream_stop
  <2>1. /\ s_generation' = [s_generation EXCEPT !["stream"] = @ + 1]
        /\ s_stop' = [s_stop EXCEPT !["stream"] = TRUE]
        /\ ui = "sd_stopped" /\ ui' = "stopped" /\ UNCHANGED <<req, s_play_q, posted, pc>>
    BY <1>4 DEF source_stream_stop, StopSource
  <2>2. \A r \in {req, s_play_q, posted} :
          Current(r)' => Current(r) /\ r.src # "stream"
    BY <2>1
  <2> QED
    BY <2>1, <2>2
<1>5. CASE UiStopped
  BY <1>5 DEF UiStopped
<1>6. CASE EndSession
  BY <1>6 DEF EndSession
<1>7. CASE ArmPlay
  BY <1>7 DEF ArmPlay
<1>8. CASE PostPlay
  BY <1>8 DEF PostPlay
<1>9. CASE tick_advance
  BY <1>9 DEF tick_advance
<1>10. CASE \E g \in Plays \cup {Stop} : UserAsks(g)
  BY <1>10 DEF UserAsks
<1>11. CASE PostOther
  BY <1>11 DEF PostOther
<1>12. CASE DeadlineStrikes
  BY <1>12 DEF DeadlineStrikes
<1>13. CASE Receive
  BY <1>13 DEF Receive
<1>14. CASE ServeOther
  BY <1>14 DEF ServeOther
<1>15. CASE Check
  BY <1>15 DEF Check
<1>16. CASE CheckAfterCover
  BY <1>16 DEF CheckAfterCover
<1>17. CASE Takeover
  BY <1>17 DEF Takeover
<1>18. CASE TakeoverTimesOut
  BY <1>18 DEF TakeoverTimesOut, Fail
<1>19. CASE Attempt
  BY <1>19 DEF Attempt
<1>20. CASE Enter
  BY <1>20 DEF Enter
<1>21. CASE audio_arbiter_acquire
  BY <1>21 DEF audio_arbiter_acquire
<1>22. CASE OpeningFails
  BY <1>22 DEF OpeningFails
<1>23. CASE StartDecode
  BY <1>23 DEF StartDecode
<1>24. CASE DecodeStops
  BY <1>24 DEF DecodeStops, DecodeReturns, DecodeRuns
<1>25. CASE Record
  BY <1>25 DEF Record
<1>26. CASE JoinReader
  BY <1>26 DEF JoinReader
<1>27. CASE audio_arbiter_release
  BY <1>27 DEF audio_arbiter_release
<1>28. CASE Returned
  BY <1>28 DEF Returned
<1>29. CASE Judge
  BY <1>29 DEF Judge
<1>30. CASE Decide
  BY <1>30 DEF Decide
<1>31. CASE play_retrying(TRUE, "retrying", "waiting")
  BY <1>31 DEF play_retrying
<1>32. CASE RetryWaits
  BY <1>32 DEF RetryWaits
<1>33. CASE play_retrying(FALSE, "over", "ending")
  BY <1>33 DEF play_retrying
<1>34. CASE Ending
  BY <1>34 DEF Ending
<1>35. CASE play_ended
  BY <1>35 DEF play_ended
<1>36. CASE \E how \in Outcomes : DecodeReturns(how)
  BY <1>36 DEF DecodeReturns, DecodeRuns
<1>37. CASE OutputOnly
  BY <1>37 DEF OutputOnly
<1> QED
  BY <1>1, <1>2, <1>3, <1>4, <1>5, <1>6, <1>7, <1>8, <1>9, <1>10, <1>11,
     <1>12, <1>13, <1>14, <1>15, <1>16, <1>17, <1>18, <1>19, <1>20, <1>21,
     <1>22, <1>23, <1>24, <1>25, <1>26, <1>27, <1>28, <1>29, <1>30, <1>31,
     <1>32, <1>33, <1>34, <1>35, <1>36, <1>37, OutputSteps DEF Next, UiStep,
     User, WorkerStep, Decoder, SendspinStep

(* The worker's verdict on a decode holds until it takes the next request.  *)
LEMMA JudgedStep == Types /\ Judged /\ [Next]_vars => Judged'
<1> SUFFICES ASSUME Types /\ Judged, [Next]_vars PROVE Judged'
  OBVIOUS
<1> USE DEF Types, Values, Flags, Held, Judged, SourceCompleted, Requests,
        Sources, Nothing, Step, TurnEnds, TurnGoes, EndReached, FellShort, Succeeded,
        flags, sources, output, sendspin, lvgl, worker, history
<1>1. CASE play_cancel
  BY <1>1 DEF play_cancel
<1>2. CASE Unpause
  BY <1>2 DEF Unpause
<1>3. CASE source_sd_stop
  BY <1>3 DEF source_sd_stop, StopSource
<1>4. CASE source_stream_stop
  BY <1>4 DEF source_stream_stop, StopSource
<1>5. CASE UiStopped
  BY <1>5 DEF UiStopped
<1>6. CASE EndSession
  BY <1>6 DEF EndSession
<1>7. CASE ArmPlay
  BY <1>7 DEF ArmPlay
<1>8. CASE PostPlay
  BY <1>8 DEF PostPlay
<1>9. CASE tick_advance
  BY <1>9 DEF tick_advance
<1>10. CASE \E g \in Plays \cup {Stop} : UserAsks(g)
  BY <1>10 DEF UserAsks
<1>11. CASE PostOther
  BY <1>11 DEF PostOther
<1>12. CASE DeadlineStrikes
  BY <1>12 DEF DeadlineStrikes
<1>13. CASE Receive
  BY <1>13 DEF Receive
<1>14. CASE ServeOther
  BY <1>14 DEF ServeOther
<1>15. CASE Check
  BY <1>15 DEF Check
<1>16. CASE CheckAfterCover
  BY <1>16 DEF CheckAfterCover
<1>17. CASE Takeover
  BY <1>17 DEF Takeover
<1>18. CASE TakeoverTimesOut
  BY <1>18 DEF TakeoverTimesOut, Fail
<1>19. CASE Attempt
  BY <1>19 DEF Attempt
<1>20. CASE Enter
  <2>1. req.src \in Sources
    OBVIOUS
  <2>2. /\ s_completed'[req.src] = FALSE
        /\ pc = "enter" /\ pc' \in {"opening", "returned"}
        /\ UNCHANGED <<req, completed>>
    BY <1>20, <2>1 DEF Enter
  <2> QED
    BY <2>2
<1>21. CASE audio_arbiter_acquire
  BY <1>21 DEF audio_arbiter_acquire
<1>22. CASE OpeningFails
  BY <1>22 DEF OpeningFails
<1>23. CASE StartDecode
  BY <1>23 DEF StartDecode
<1>24. CASE DecodeStops
  BY <1>24 DEF DecodeStops, DecodeReturns, DecodeRuns
<1>25. CASE Record
  <2>1. req.src \in Sources
    OBVIOUS
  <2>2. /\ s_completed'[req.src] = EndReached(req.src)
        /\ pc = "decoded" /\ pc' \in {"joining", "releasing"}
        /\ UNCHANGED <<req, finished, completed>>
    BY <1>25, <2>1 DEF Record
  <2> QED
    BY <2>2
<1>26. CASE JoinReader
  BY <1>26 DEF JoinReader
<1>27. CASE audio_arbiter_release
  BY <1>27 DEF audio_arbiter_release
<1>28. CASE Returned
  BY <1>28 DEF Returned
<1>29. CASE Judge
  BY <1>29 DEF Judge
<1>30. CASE Decide
  BY <1>30 DEF Decide
<1>31. CASE play_retrying(TRUE, "retrying", "waiting")
  BY <1>31 DEF play_retrying
<1>32. CASE RetryWaits
  BY <1>32 DEF RetryWaits
<1>33. CASE play_retrying(FALSE, "over", "ending")
  BY <1>33 DEF play_retrying
<1>34. CASE Ending
  BY <1>34 DEF Ending
<1>35. CASE play_ended
  BY <1>35 DEF play_ended
<1>36. CASE \E how \in Outcomes : DecodeReturns(how)
  BY <1>36 DEF DecodeReturns, DecodeRuns
<1>37. CASE OutputOnly
  BY <1>37 DEF OutputOnly
<1> QED
  BY <1>1, <1>2, <1>3, <1>4, <1>5, <1>6, <1>7, <1>8, <1>9, <1>10, <1>11,
     <1>12, <1>13, <1>14, <1>15, <1>16, <1>17, <1>18, <1>19, <1>20, <1>21,
     <1>22, <1>23, <1>24, <1>25, <1>26, <1>27, <1>28, <1>29, <1>30, <1>31,
     <1>32, <1>33, <1>34, <1>35, <1>36, <1>37, OutputSteps DEF Next, UiStep,
     User, WorkerStep, Decoder, SendspinStep

(* An advance is reported once, and play_cancel takes it back.             *)
LEMMA ReportedStep == IInv /\ [Next]_vars => Reported'
<1> SUFFICES ASSUME IInv, [Next]_vars PROVE Reported'
  OBVIOUS
<1> USE DEF IInv, Types, Values, Held, Order, Numbered, OnlyNewest, Current,
        SourceCurrent, Judged, Reported, play_current, Advances, Requests,
        Nothing, Sources, Serving, PcStates, Cancelled, Step, TurnEnds, TurnGoes, flags,
        sources, output, sendspin, lvgl, worker, history
<1>1. CASE play_cancel
  BY <1>1 DEF play_cancel
<1>2. CASE Unpause
  BY <1>2 DEF Unpause
<1>3. CASE source_sd_stop
  BY <1>3 DEF source_sd_stop, StopSource
<1>4. CASE source_stream_stop
  BY <1>4 DEF source_stream_stop, StopSource
<1>5. CASE UiStopped
  BY <1>5 DEF UiStopped
<1>6. CASE EndSession
  BY <1>6 DEF EndSession
<1>7. CASE ArmPlay
  BY <1>7 DEF ArmPlay
<1>8. CASE PostPlay
  BY <1>8 DEF PostPlay
<1>9. CASE tick_advance
  BY <1>9 DEF tick_advance
<1>10. CASE \E g \in Plays \cup {Stop} : UserAsks(g)
  BY <1>10 DEF UserAsks
<1>11. CASE PostOther
  BY <1>11 DEF PostOther
<1>12. CASE DeadlineStrikes
  BY <1>12 DEF DeadlineStrikes
<1>13. CASE Receive
  BY <1>13 DEF Receive
<1>14. CASE ServeOther
  BY <1>14 DEF ServeOther
<1>15. CASE Check
  BY <1>15 DEF Check
<1>16. CASE CheckAfterCover
  BY <1>16 DEF CheckAfterCover
<1>17. CASE Takeover
  BY <1>17 DEF Takeover
<1>18. CASE TakeoverTimesOut
  BY <1>18 DEF TakeoverTimesOut, Fail
<1>19. CASE Attempt
  BY <1>19 DEF Attempt
<1>20. CASE Enter
  BY <1>20 DEF Enter
<1>21. CASE audio_arbiter_acquire
  BY <1>21 DEF audio_arbiter_acquire
<1>22. CASE OpeningFails
  BY <1>22 DEF OpeningFails
<1>23. CASE StartDecode
  BY <1>23 DEF StartDecode
<1>24. CASE DecodeStops
  BY <1>24 DEF DecodeStops, DecodeReturns, DecodeRuns
<1>25. CASE Record
  BY <1>25 DEF Record
<1>26. CASE JoinReader
  BY <1>26 DEF JoinReader
<1>27. CASE audio_arbiter_release
  BY <1>27 DEF audio_arbiter_release
<1>28. CASE Returned
  BY <1>28 DEF Returned
<1>29. CASE Judge
  BY <1>29 DEF Judge
<1>30. CASE Decide
  BY <1>30 DEF Decide
<1>31. CASE play_retrying(TRUE, "retrying", "waiting")
  BY <1>31 DEF play_retrying
<1>32. CASE RetryWaits
  BY <1>32 DEF RetryWaits
<1>33. CASE play_retrying(FALSE, "over", "ending")
  BY <1>33 DEF play_retrying
<1>34. CASE Ending
  BY <1>34 DEF Ending
<1>35. CASE play_ended
  BY <1>35 DEF play_ended
<1>36. CASE \E how \in Outcomes : DecodeReturns(how)
  BY <1>36 DEF DecodeReturns, DecodeRuns
<1>37. CASE OutputOnly
  BY <1>37 DEF OutputOnly
<1> QED
  BY <1>1, <1>2, <1>3, <1>4, <1>5, <1>6, <1>7, <1>8, <1>9, <1>10, <1>11,
     <1>12, <1>13, <1>14, <1>15, <1>16, <1>17, <1>18, <1>19, <1>20, <1>21,
     <1>22, <1>23, <1>24, <1>25, <1>26, <1>27, <1>28, <1>29, <1>30, <1>31,
     <1>32, <1>33, <1>34, <1>35, <1>36, <1>37, OutputSteps DEF Next, UiStep,
     User, WorkerStep, Decoder, SendspinStep

-----------------------------------------------------------------------------

LEMMA Inductive == Spec => []IInv
<1>1. IInv /\ [Next]_vars => IInv'
  <2> SUFFICES ASSUME IInv, [Next]_vars PROVE IInv'
    OBVIOUS
  <2>1. Types' /\ Order' /\ OnlyNewest' /\ Judged' /\ Reported'
    BY ValuesStep, FlagsStep, OrderStep, NewestStep, JudgedStep, ReportedStep DEF IInv, Types
  <2> QED
    BY <2>1 DEF IInv
<1> QED
  BY InitHolds, <1>1, PTL DEF Spec

(* Every variable of the playback protocol keeps its type.                 *)
THEOREM TypeCorrect == Spec => []TypeOK
<1>1. IInv => TypeOK
  <2> SUFFICES ASSUME Values, Flags, Held PROVE TypeOK
    BY DEF IInv, Types
  <2>1. {s_stop_requested, s_advance, s_play_failed, s_play_retrying} \subseteq BOOLEAN
    BY DEF Flags
  <2>2. {s_open, s_paused, s_session, active, opening} \subseteq BOOLEAN
    BY DEF Flags
  <2>3. {completed, hushed} \subseteq BOOLEAN
    BY DEF Flags
  <2>4. s_stop \in [Sources -> BOOLEAN] /\ s_completed \in [Sources -> BOOLEAN]
    BY DEF Flags
  <2>5. {s_play_q, req, posted} \subseteq Requests
    BY DEF Values
  <2>6. goal \in Goals
    <3>1. CASE goal \in Plays
      BY <3>1 DEF Plays, Goals
    <3>2. CASE goal = Stop
      BY <3>2 DEF Stop, Goals
    <3> QED
      BY <3>1, <3>2 DEF Held
  <2> QED
    BY <2>1, <2>2, <2>3, <2>4, <2>5, <2>6 DEF Values, TypeOK
<1> QED
  BY Inductive, <1>1, PTL

(* The list moves on only after a decode of the current play that ran out  *)
(* by itself, with no read fault and nothing missing of an announced       *)
(* length (play_ended, tick_advance), however many plays, stops, retries   *)
(* and Sendspin sessions there are. What the source cannot tell from an    *)
(* end (Outcomes, "cut") counts as one.                                    *)
THEOREM AdvanceIsEarned == Spec => []AdvanceWasEarned
<1>1. IInv => AdvanceWasEarned
  BY DEF IInv, Reported, AdvanceWasEarned
<1> QED
  BY Inductive, <1>1, PTL

-----------------------------------------------------------------------------
(* The refinement: which step of Playback is which step of PlayIntent.     *)

Wish     == IF Current(posted) THEN posted.generation ELSE 0
Sounding == IF pc = "decoding" THEN req.generation ELSE 0

(* What PlayIntent does not see.                                           *)
Unseen == UNCHANGED <<posted, s_generation>> /\ Sounding' = Sounding

(* Such a step is a stutter of PlayIntent.                                 *)
LEMMA Stutters == Unseen => UNCHANGED Intent!vars
<1> SUFFICES ASSUME Unseen PROVE UNCHANGED Intent!vars
  OBVIOUS
<1>1. Wish' = Wish /\ posted' = posted
  BY DEF Unseen, Wish, Current, SourceCurrent
<1> QED
  BY <1>1 DEF Unseen, Intent!vars, Wish, Sounding, Current, SourceCurrent

(* A stop withdraws the wish if it is for its source.                      *)
LEMMA StopWithdraws ==
  ASSUME IInv, NEW src \in Sources,
         s_generation' = [s_generation EXCEPT ![src] = @ + 1],
         UNCHANGED <<posted, pc, req>>
  PROVE  [Intent!Next]_(Intent!vars)
<1> USE DEF IInv, Types, Values, Order, Numbered, Requests, Sources
<1>1. Sounding' = Sounding
  BY DEF Sounding
<1>2. CASE Current(posted) /\ posted.src = src
  <2>1. Wish' = 0 /\ Wish # 0
    BY <1>2 DEF Wish, Current, SourceCurrent
  <2> QED
    BY <1>1, <2>1 DEF Intent!Next, Intent!Withdraw, Wish, Sounding, Current, SourceCurrent
<1>3. CASE ~(Current(posted) /\ posted.src = src)
  <2>1. Wish' = Wish
    BY <1>3 DEF Wish, Current, SourceCurrent
  <2> QED
    BY <1>1, <2>1 DEF Intent!vars, Wish, Sounding, Current, SourceCurrent
<1> QED
  BY <1>2, <1>3

(* A request is posted when no wish stands, and carries a new number.      *)
LEMMA PostAsks == IInv /\ PostPlay => Intent!Ask
<1> SUFFICES ASSUME IInv, PostPlay PROVE Intent!Ask
  OBVIOUS
<1>1. Wish = 0
  BY DEF IInv, OnlyNewest, Wish, PostPlay
<1>2. /\ posted'.kind = "play" /\ posted'.generation = s_play_generation
      /\ posted'.source_generation = s_generation[posted'.src]
      /\ s_generation' = s_generation
  BY DEF PostPlay, sources
<1>3. s_play_generation \in Nat /\ s_play_generation > posted.generation
  BY DEF IInv, Types, TypeOK, Values, Order, Cancelled, PostPlay
<1>4. Wish' = s_play_generation
  BY <1>2 DEF Wish, Current, SourceCurrent
<1>5. Sounding' = Sounding
  BY DEF PostPlay, worker, Sounding
<1> QED
  BY <1>1, <1>2, <1>3, <1>4, <1>5 DEF Intent!Ask, Wish, Sounding, Current, SourceCurrent

(* What starts to sound is the wish that stands.                           *)
LEMMA DecodeSounds == IInv /\ StartDecode => [Intent!Next]_(Intent!vars)
<1> SUFFICES ASSUME IInv, StartDecode PROVE [Intent!Next]_(Intent!vars)
  OBVIOUS
<1> USE DEF IInv, Types, Held, Order, Numbered, OnlyNewest, Serving, PcStates, StartDecode,
        Step, sources
<1>1. CASE ~s_stop[req.src] /\ pc' = "decoding"
  <2>1. Current(req) /\ req = posted /\ req.generation # 0
    BY <1>1 DEF Current
  <2>2. Wish' = Wish /\ Wish = req.generation /\ Sounding = 0 /\ Sounding' = req.generation
    BY <1>1, <2>1 DEF Wish, Sounding, Current, SourceCurrent, history
  <2> QED
    BY <2>1, <2>2 DEF Intent!Next, Intent!Sound, Wish, Sounding, Current, SourceCurrent, history
<1>2. CASE pc' = "releasing"
  <2>1. Unseen
    BY <1>2 DEF Unseen, Sounding, history
  <2> QED
    BY <2>1, Stutters
<1> QED
  BY <1>1, <1>2

(* A decode that returns is silence.                                       *)
LEMMA DecodeSilences ==
  ASSUME IInv, NEW how \in Outcomes, DecodeReturns(how) PROVE Intent!Silence
<1>1. Wish' = Wish /\ posted' = posted
  BY DEF DecodeReturns, sources, Wish, Current, SourceCurrent
<1>2. Sounding # 0 /\ Sounding' = 0
  BY DEF DecodeReturns, DecodeRuns, Step, Sounding, IInv, Types, Held, Order, Numbered, Serving,
         PcStates
<1> QED
  BY <1>1, <1>2 DEF Intent!Silence, Wish, Sounding, Current, SourceCurrent

(* The protocol of the tasks, queue, sources and retries does nothing that *)
(* PlayIntent does not allow: only the newest wish that still stands       *)
(* starts to sound, one play sounds at a time, none comes back.            *)
THEOREM KeepsIntent == Spec => ImplementsIntent
<1>1. Init => Intent!Init
  BY DEF Init, Intent!Init, Nothing
<1>2. IInv /\ [Next]_vars => [Intent!Next]_(Intent!vars)
  <2> SUFFICES ASSUME IInv, [Next]_vars PROVE [Intent!Next]_(Intent!vars)
    OBVIOUS
  <2> USE DEF sources, worker, history
  <2>1. CASE source_sd_stop \/ source_stream_stop
    BY <2>1, StopWithdraws DEF source_sd_stop, source_stream_stop, StopSource, Sources
  <2>2. CASE PostPlay
    BY <2>2, PostAsks DEF Intent!Next
  <2>3. CASE StartDecode
    BY <2>3, DecodeSounds
  <2>4. CASE \E how \in Outcomes : DecodeReturns(how)
    BY <2>4, DecodeSilences DEF Intent!Next
  <2>5. CASE Unseen
    BY <2>5, Stutters
  <2>6. CASE \/ play_cancel \/ Unpause \/ UiStopped \/ EndSession \/ ArmPlay
             \/ tick_advance \/ User
    <3>1. Unseen
      BY <2>6 DEF Unseen, Sounding, play_cancel, Unpause, UiStopped, EndSession, ArmPlay,
         tick_advance, User, UserAsks, PostOther, TogglePause, DeadlineStrikes,
         source_sendspin_command
    <3> QED
      BY <3>1, <2>5
  <2>7. CASE \/ Receive \/ ServeOther \/ Check \/ CheckAfterCover \/ Takeover
             \/ TakeoverTimesOut \/ Attempt \/ Enter \/ audio_arbiter_acquire \/ OpeningFails
    <3>1. Unseen
      BY <2>7 DEF Unseen, Sounding, Step, TurnEnds, TurnGoes, Receive, ServeOther, Check, CheckAfterCover, Takeover,
         TakeoverTimesOut, Attempt, Enter, audio_arbiter_acquire, OpeningFails
    <3> QED
      BY <3>1, <2>5
  <2>8. CASE \/ Record \/ JoinReader \/ audio_arbiter_release \/ Returned \/ Judge \/ Decide
             \/ play_retrying(TRUE, "retrying", "waiting") \/ RetryWaits
             \/ play_retrying(FALSE, "over", "ending") \/ Ending \/ play_ended
    <3>1. Unseen
      BY <2>8 DEF Unseen, Sounding, Step, TurnEnds, TurnGoes, Record, JoinReader, audio_arbiter_release, Returned,
         Judge, Decide, play_retrying, RetryWaits, Ending, play_ended
    <3> QED
      BY <3>1, <2>5
  <2>9. CASE audio_open \/ SendspinStep \/ UNCHANGED vars
    <3>1. Unseen
      BY <2>9 DEF Unseen, Sounding, audio_open, SendspinStep, SsAcquire, on_stream_start,
         on_stream_end, on_metadata_clear, DrainCommand, vars
    <3> QED
      BY <3>1, <2>5
  <2> QED
    BY <2>1, <2>2, <2>3, <2>4, <2>6, <2>7, <2>8, <2>9
       DEF Next, UiStep, WorkerStep, DecodeStops, Decoder
<1> QED
  BY Inductive, <1>1, <1>2, PTL DEF Spec, ImplementsIntent, Intent!Spec

================================================================================
