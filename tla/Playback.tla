------------------------------- MODULE Playback -------------------------------
(***************************************************************************)
(* How a play request becomes sound, and how it is stopped.                *)
(*                                                                         *)
(* The LVGL task (ui.c) cancels whatever plays, stops both local sources   *)
(* and posts a request in a one-place queue. The worker (play_task) takes  *)
(* the request, waits for a Sendspin takeover, runs source_sd or           *)
(* source_stream, retries dead streams, and reports the end, from which    *)
(* tick_advance chains the next track. The Sendspin task takes the same    *)
(* output when Music Assistant starts a stream. Every flag they share is   *)
(* read and written at the grain of the code's critical sections.          *)
(***************************************************************************)
EXTENDS Naturals

CONSTANTS
  MaxGenerations,  (* bound: how many times the user starts or stops        *)
  Retries,         (* length of retry_delay_s                               *)
  MusicAssistant,  (* a server may start Sendspin streams                   *)
  Browsing,        (* other requests share the queue with plays             *)
  WebToggle,       (* pause may be toggled remotely after a stop            *)
  Deadline         (* what may end playback unasked: none, sleep or block   *)

ASSUME PlaybackAssumption ==
  /\ MaxGenerations \in Nat
  /\ Retries \in Nat
  /\ MusicAssistant \in BOOLEAN
  /\ Browsing \in BOOLEAN
  /\ WebToggle \in BOOLEAN
  /\ Deadline \in {"none", "sleep", "block"}

Sources == {"sd", "stream"}

(* A request: `list` says that it plays an item of a list (play_ctx).      *)
Requests ==
  [kind : {"none", "play", "other"}, src : Sources, list : BOOLEAN,
   generation : Nat, source_generation : Nat]

Nothing == [kind |-> "none", src |-> "sd", list |-> FALSE,
            generation |-> 0, source_generation |-> 0]

VARIABLES
  (* under s_play_mux *)
  s_play_generation, s_stop_requested, s_advance, s_advance_generation,
  s_play_failed, s_play_retrying,
  s_play_q,          (* the queue of length one *)
  (* per source, under its s_stop_mux *)
  s_generation, s_stop, s_completed, s_completed_generation,
  (* the audio output *)
  s_active,          (* the arbiter's owner: a source, "sendspin" or "none" *)
  s_open, s_paused,
  (* Sendspin *)
  s_session, active, s_pending_cmd, opening,
  (* the LVGL task: where it is in ui_play or ui_stop, and what for *)
  ui, goal,
  (* the worker: where it is, its request, and its locals *)
  pc, req, outcome, completed, attempt,
  (* history: the newest request posted, the generation of the last decode *)
  (* if it ran out undisturbed (else 0), and whether a deadline struck     *)
  posted, finished, hushed

flags    == <<s_play_generation, s_stop_requested, s_advance,
              s_advance_generation, s_play_failed, s_play_retrying>>
sources  == <<s_generation, s_stop, s_completed, s_completed_generation>>
output   == <<s_active, s_open, s_paused>>
sendspin == <<s_session, active, s_pending_cmd, opening>>
lvgl     == <<ui, goal>>
worker   == <<pc, req, outcome, completed, attempt>>
history  == <<posted, finished, hushed>>
vars     == <<flags, s_play_q, sources, output, sendspin, lvgl, worker, history>>

Goals == [src : Sources \cup {"none"}, list : BOOLEAN]
Stop  == [src |-> "none", list |-> FALSE]
Plays == [src : Sources, list : BOOLEAN]

UiStates == {"idle", "begin", "cancelled", "unpaused", "sd_stopped",
             "stopped", "ready", "posting"}

PcStates == {"receive", "other", "received", "cover", "takeover", "attempt",
             "enter", "opening", "armed", "decoding", "decoded", "joining",
             "releasing", "returned", "judging", "deciding", "retrying",
             "waiting", "over", "ending", "reporting"}

Init ==
  /\ s_play_generation = 1
  /\ s_stop_requested = FALSE
  /\ s_advance = FALSE
  /\ s_advance_generation = 0
  /\ s_play_failed = FALSE
  /\ s_play_retrying = FALSE
  /\ s_play_q = Nothing
  /\ s_generation = [s \in Sources |-> 0]
  /\ s_stop = [s \in Sources |-> FALSE]
  /\ s_completed = [s \in Sources |-> FALSE]
  /\ s_completed_generation = [s \in Sources |-> 0]
  /\ s_active = "none"
  /\ s_open = FALSE
  /\ s_paused = FALSE
  /\ s_session = FALSE
  /\ active = FALSE
  /\ s_pending_cmd = "none"
  /\ opening = FALSE
  /\ ui = "idle"
  /\ goal = Stop
  /\ pc = "receive"
  /\ req = Nothing
  /\ outcome = "none"
  /\ completed = FALSE
  /\ attempt = 0
  /\ posted = Nothing
  /\ finished = 0
  /\ hushed = FALSE

play_current(generation) == generation = s_play_generation /\ ~s_stop_requested

Waiting == s_play_q.kind # "none"   \* uxQueueMessagesWaiting(s_play_q) > 0

-----------------------------------------------------------------------------
(* The LVGL task. ui_play and ui_stop share their first steps; ui_stop     *)
(* ends where ui_play goes on to post its request.                         *)

Denied == Deadline = "block" /\ hushed     \* play_denied

UserAsks(g) ==
  /\ ui = "idle"
  /\ g # Stop => ~Denied
  /\ s_play_generation < MaxGenerations
  /\ ui' = "begin"
  /\ goal' = g
  /\ hushed' = (hushed /\ g = Stop)
  /\ UNCHANGED <<flags, s_play_q, sources, output, sendspin, worker, posted, finished>>

(* tick_advance: the decision is taken under the lock; what follows is the *)
(* next item of the list, or a stop (end of list, sleep at end of track).  *)
tick_advance ==
  /\ ui = "idle"
  /\ s_advance
  /\ s_advance' = FALSE
  /\ IF s_advance_generation = s_play_generation /\ ~s_stop_requested
     THEN /\ s_play_generation < MaxGenerations
          /\ \/ /\ \E g \in Plays : g.list /\ ~Denied /\ goal' = g
                /\ ui' = "begin"
             \/ goal' = Stop /\ ui' = "begin"
             \/ Denied /\ UNCHANGED lvgl
     ELSE UNCHANGED lvgl
  /\ UNCHANGED <<s_play_generation, s_stop_requested, s_advance_generation,
                 s_play_failed, s_play_retrying, s_play_q, sources, output,
                 sendspin, worker, history>>

play_cancel ==
  /\ ui = "begin"
  /\ s_play_generation' = s_play_generation + 1
  /\ s_stop_requested' = TRUE
  /\ s_advance' = FALSE
  /\ s_play_retrying' = FALSE
  /\ ui' = "cancelled"
  /\ UNCHANGED <<s_advance_generation, s_play_failed, s_play_q, sources, output,
                 sendspin, goal, worker, history>>

MutantStaysPaused ==
  /\ ui = "cancelled"
  /\ ui' = "unpaused"
  /\ UNCHANGED <<flags, s_play_q, sources, output, sendspin, goal, worker, history>>

Unpause ==
  /\ ui = "cancelled"
  /\ s_paused' = FALSE
  /\ ui' = "unpaused"
  /\ UNCHANGED <<flags, s_play_q, sources, s_active, s_open, sendspin, goal,
                 worker, history>>

(* source_sd_stop and source_stream_stop *)
MutantStopOnlyCounts(src, from, to) ==
  /\ ui = from
  /\ s_generation' = [s_generation EXCEPT ![src] = @ + 1]
  /\ ui' = to
  /\ UNCHANGED <<flags, s_play_q, s_stop, s_completed, s_completed_generation,
                 output, sendspin, goal, worker, history>>

StopSource(src, from, to) ==
  /\ ui = from
  /\ s_generation' = [s_generation EXCEPT ![src] = @ + 1]
  /\ s_stop' = [s_stop EXCEPT ![src] = TRUE]
  /\ ui' = to
  /\ UNCHANGED <<flags, s_play_q, s_completed, s_completed_generation, output,
                 sendspin, goal, worker, history>>

source_sd_stop     == StopSource("sd", "unpaused", "sd_stopped")
source_stream_stop == StopSource("stream", "sd_stopped", "stopped")

UiStopped ==
  /\ ui = "stopped" /\ goal = Stop
  /\ ui' = "idle"
  /\ UNCHANGED <<flags, s_play_q, sources, output, sendspin, goal, worker, history>>

EndSession ==
  /\ ui = "stopped" /\ goal # Stop
  /\ s_pending_cmd' = IF s_session THEN "stop" ELSE s_pending_cmd
  /\ s_advance' = FALSE
  /\ ui' = "ready"
  /\ UNCHANGED <<s_play_generation, s_stop_requested, s_advance_generation,
                 s_play_failed, s_play_retrying, s_play_q, sources, output,
                 s_session, active, opening, goal, worker, history>>

(* req_post of a play: the critical section, then the overwrite. *)
ArmPlay ==
  /\ ui = "ready"
  /\ s_stop_requested' = FALSE
  /\ s_play_failed' = FALSE
  /\ s_play_retrying' = FALSE
  /\ ui' = "posting"
  /\ UNCHANGED <<s_play_generation, s_advance, s_advance_generation, s_play_q,
                 sources, output, sendspin, goal, worker, history>>

PostPlay ==
  /\ ui = "posting"
  /\ s_play_q' = [kind |-> "play", src |-> goal.src, list |-> goal.list,
                  generation |-> s_play_generation,
                  source_generation |-> s_generation[goal.src]]
  /\ posted' = s_play_q'
  /\ ui' = "idle" /\ goal' = Stop
  /\ UNCHANGED <<flags, sources, output, sendspin, worker, finished, hushed>>

(* req_post of a request that stops nothing first, such as the peer search *)
(* of the talkie screen. It overwrites whatever waits.                     *)
PostOther ==
  /\ Browsing
  /\ ui = "idle"
  /\ s_play_q' = [Nothing EXCEPT !.kind = "other"]
  /\ UNCHANGED <<flags, sources, output, sendspin, lvgl, worker, history>>

(* The buttons of the playing screens go away with a stop; the web's does  *)
(* not.                                                                    *)
TogglePause ==
  /\ ui = "idle"
  /\ WebToggle \/ ~s_stop_requested
  /\ ~s_session
  /\ s_paused' = ~s_paused
  /\ UNCHANGED <<flags, s_play_q, sources, s_active, s_open, sendspin, lvgl,
                 worker, history>>

(* source_sendspin_command: a single place, overwritten. *)
source_sendspin_command(cmd) ==
  /\ ui = "idle"
  /\ s_session
  /\ s_pending_cmd' = cmd
  /\ UNCHANGED <<flags, s_play_q, sources, output, s_session, active, opening,
                 lvgl, worker, history>>

(* tick_sleep_engine at its deadline, tick_parental_block at its edge. *)
DeadlineStrikes ==
  /\ Deadline # "none" /\ ~hushed
  /\ ui = "idle"
  /\ s_play_generation < MaxGenerations
  /\ s_pending_cmd' = IF s_session THEN "stop" ELSE s_pending_cmd
  /\ IF s_open \/ (Deadline = "block" /\ s_play_retrying)
     THEN ui' = "begin" /\ goal' = Stop
     ELSE UNCHANGED lvgl
  /\ hushed' = TRUE
  /\ UNCHANGED <<flags, s_play_q, sources, output, s_session, active, opening,
                 worker, posted, finished>>

-----------------------------------------------------------------------------
(* The worker: receiving a request. *)

Step(to) == pc' = to

(* The locals of a turn of the worker's loop end with it.                  *)
TurnEnds == Step("receive") /\ req' = Nothing /\ completed' = FALSE /\ attempt' = 0
TurnGoes(to) == Step(to) /\ UNCHANGED <<req, completed, attempt>>

Receive ==
  /\ pc = "receive" /\ Waiting
  /\ req' = s_play_q
  /\ s_play_q' = Nothing
  /\ Step(IF s_play_q.kind = "play" THEN "received" ELSE "other")
  /\ UNCHANGED <<flags, sources, output, sendspin, lvgl, outcome, completed,
                 attempt, history>>

ServeOther ==
  /\ pc = "other"
  /\ TurnEnds
  /\ UNCHANGED <<flags, s_play_q, sources, output, sendspin, lvgl, outcome, history>>

Check ==
  /\ pc = "received"
  /\ IF play_current(req.generation) THEN TurnGoes("cover") ELSE TurnEnds
  /\ UNCHANGED <<flags, s_play_q, sources, output, sendspin, lvgl, outcome, history>>

CheckAfterCover ==
  /\ pc = "cover"
  /\ IF ~play_current(req.generation) THEN TurnEnds
     ELSE TurnGoes(IF req.src = "sd" THEN "enter" ELSE "takeover")
  /\ UNCHANGED <<flags, s_play_q, sources, output, sendspin, lvgl, outcome, history>>

SendspinHolds == s_session \/ s_active = "sendspin"

(* A stream waits up to 8 s for Sendspin to let go. *)
Takeover ==
  /\ pc = "takeover"
  /\ IF ~play_current(req.generation) \/ Waiting
     THEN TurnEnds
     ELSE TurnGoes(IF SendspinHolds THEN "takeover" ELSE "attempt")
  /\ UNCHANGED <<flags, s_play_q, sources, output, sendspin, lvgl, outcome, history>>

Fail(generation) ==
  s_play_failed' = IF play_current(generation) THEN TRUE ELSE s_play_failed

TakeoverTimesOut ==
  /\ pc = "takeover"
  /\ play_current(req.generation) /\ ~Waiting /\ SendspinHolds
  /\ Fail(req.generation)
  /\ TurnEnds
  /\ UNCHANGED <<s_play_generation, s_stop_requested, s_advance,
                 s_advance_generation, s_play_retrying, s_play_q, sources,
                 output, sendspin, lvgl, outcome, history>>

(* The head of the retry loop. *)
Attempt ==
  /\ pc = "attempt"
  /\ Step(IF ~play_current(req.generation) \/ Waiting \/ SendspinHolds
          THEN "over" ELSE "enter")
  /\ UNCHANGED <<flags, s_play_q, sources, output, sendspin, lvgl, req, outcome,
                 completed, attempt, history>>

-----------------------------------------------------------------------------
(* source_sd_play_generation and source_stream_play_generation. *)

MutantNeverStale(r) == TRUE
SourceCurrent(r) == r.source_generation = s_generation[r.src]

Enter ==
  /\ pc = "enter"
  /\ s_completed' = [s_completed EXCEPT ![req.src] = FALSE]
  /\ IF SourceCurrent(req)
     THEN s_stop' = [s_stop EXCEPT ![req.src] = FALSE] /\ Step("opening")
     ELSE UNCHANGED s_stop /\ Step("returned")
  /\ UNCHANGED <<flags, s_play_q, s_generation, s_completed_generation, output,
                 sendspin, lvgl, req, outcome, completed, attempt, history>>

(* fopen, or the HTTP connection; then the arbiter. *)

ArbiterFree(src) == s_active \in {"none", src}

audio_arbiter_acquire ==
  /\ pc = "opening"
  /\ IF ArbiterFree(req.src)
     THEN s_active' = req.src /\ Step("armed")
     ELSE UNCHANGED s_active /\ Step("returned")
  /\ UNCHANGED <<flags, s_play_q, sources, s_open, s_paused, sendspin, lvgl,
                 req, outcome, completed, attempt, history>>

OpeningFails ==
  /\ pc = "opening"
  /\ Step("returned")
  /\ UNCHANGED <<flags, s_play_q, sources, output, sendspin, lvgl, req, outcome,
                 completed, attempt, history>>

(* The last look at s_stop before decode_run. *)
StartDecode ==
  /\ pc = "armed"
  /\ \/ ~s_stop[req.src] /\ Step("decoding")
     \/ s_stop[req.src] /\ Step("releasing")
     \/ req.src = "stream" /\ Step("releasing")     \* no memory, no reader task
  /\ UNCHANGED <<flags, s_play_q, sources, output, sendspin, lvgl, req, outcome,
                 completed, attempt, history>>

audio_open ==
  /\ pc = "decoding" /\ ~s_open
  /\ s_open' = TRUE
  /\ s_paused' = FALSE
  /\ UNCHANGED <<flags, s_play_q, sources, s_active, sendspin, lvgl, worker, history>>

(* audio_write holds a paused decoder for as long as the output is open. *)
DecodeRuns == pc = "decoding" /\ ~(s_paused /\ s_open)

(* How decode_run returns. It answers ESP_OK whatever ended its reading:   *)
(*   "end"    the data ended;                                              *)
(*   "short"  a read fault, or a connection lost with more than 64 KB of   *)
(*            the announced length to come: the source can tell;           *)
(*   "cut"    a connection lost in an .m4a, in a stream of no announced    *)
(*            length or in its last 64 KB, or a write to the output that   *)
(*            failed: nothing tells the source;                            *)
(*   "error"  the format, or memory.                                       *)
(* Once s_stop is set, reads answer "end of data", and it is any of them.  *)
Outcomes == {"end", "short", "cut", "error"}

DecodeReturns(how) ==
  /\ DecodeRuns
  /\ s_open' = FALSE
  /\ outcome' = how
  /\ finished' = IF how \in {"end", "cut"} /\ ~s_stop[req.src]
                 THEN req.generation ELSE 0
  /\ Step("decoded")
  /\ UNCHANGED <<flags, s_play_q, sources, s_active, s_paused, sendspin, lvgl,
                 req, completed, attempt, posted, hushed>>

DecodeStops == s_stop[req.src] /\ \E how \in Outcomes : DecodeReturns(how)

(* err == ESP_OK; and read_fault of the card, truncated of the stream.     *)
Succeeded == outcome \in {"end", "short", "cut"}
FellShort == outcome = "short"

MutantFaultsIgnored(src) == Succeeded /\ ~s_stop[src]
EndReached(src) == Succeeded /\ ~s_stop[src] /\ ~FellShort

Record ==
  /\ pc = "decoded"
  /\ s_completed' = [s_completed EXCEPT ![req.src] = EndReached(req.src)]
  /\ s_completed_generation' =
       [s_completed_generation EXCEPT ![req.src] = req.source_generation]
  /\ Step(IF req.src = "stream" THEN "joining" ELSE "releasing")
  /\ UNCHANGED <<flags, s_play_q, s_generation, s_stop, output, sendspin, lvgl,
                 req, outcome, completed, attempt, history>>

(* The stream makes a short body an error unless it was stopped, then      *)
(* stops its reader task and waits for it.                                 *)
JoinReader ==
  /\ pc = "joining"
  /\ outcome' = IF FellShort /\ ~s_stop["stream"] THEN "error" ELSE outcome
  /\ s_stop' = [s_stop EXCEPT !["stream"] = TRUE]
  /\ Step("releasing")
  /\ UNCHANGED <<flags, s_play_q, s_generation, s_completed,
                 s_completed_generation, output, sendspin, lvgl, req,
                 completed, attempt, history>>

audio_arbiter_release ==
  /\ pc = "releasing"
  /\ s_active' = IF s_active = req.src THEN "none" ELSE s_active
  /\ Step("returned")
  /\ UNCHANGED <<flags, s_play_q, sources, s_open, s_paused, sendspin, lvgl,
                 req, outcome, completed, attempt, history>>

-----------------------------------------------------------------------------
(* The worker: was it a completion, and does the stream get another try?   *)

Returned ==
  /\ pc = "returned"
  /\ outcome' = "none"
  /\ Step(IF Succeeded /\ play_current(req.generation) THEN "judging"
          ELSE IF req.src = "sd" THEN "ending" ELSE "deciding")
  /\ UNCHANGED <<flags, s_play_q, sources, output, sendspin, lvgl, req,
                 completed, attempt, history>>

(* source_sd_completed, source_stream_completed *)
SourceCompleted(src) ==
  s_completed[src] /\ s_completed_generation[src] = s_generation[src]

Judge ==
  /\ pc = "judging"
  /\ completed' = (SourceCompleted(req.src) /\ (req.src = "stream" => req.list))
  /\ Step(IF req.src = "sd" THEN "ending"
          ELSE IF completed' THEN "over" ELSE "deciding")
  /\ UNCHANGED <<flags, s_play_q, sources, output, sendspin, lvgl, req, outcome,
                 attempt, history>>

MutantOneTooMany(a) == a > Retries
Exhausted(a) == a >= Retries

(* An attempt that lasted a minute starts the count again. *)
Decide ==
  /\ pc = "deciding"
  /\ IF ~play_current(req.generation) \/ Waiting \/ s_session
     THEN Step("over") /\ UNCHANGED attempt
     ELSE \E a \in {0, attempt} :
            attempt' = a /\ Step(IF Exhausted(a) THEN "over" ELSE "retrying")
  /\ UNCHANGED <<flags, s_play_q, sources, output, sendspin, lvgl, req, outcome,
                 completed, history>>

play_retrying(retrying, from, to) ==
  /\ pc = from
  /\ s_play_retrying' = IF play_current(req.generation) THEN retrying
                        ELSE s_play_retrying
  /\ Step(to)
  /\ UNCHANGED <<s_play_generation, s_stop_requested, s_advance,
                 s_advance_generation, s_play_failed, s_play_q, sources, output,
                 sendspin, lvgl, req, outcome, completed, attempt, history>>

RetryWaits ==
  /\ pc = "waiting"
  /\ IF ~play_current(req.generation) \/ Waiting \/ s_session
     THEN Step("over") /\ UNCHANGED attempt
     ELSE Step("attempt") /\ attempt' = attempt + 1
  /\ UNCHANGED <<flags, s_play_q, sources, output, sendspin, lvgl, req, outcome,
                 completed, history>>

Ending ==
  /\ pc = "ending"
  /\ IF ~Waiting /\ ~s_session
     THEN TurnGoes("reporting") ELSE TurnEnds
  /\ UNCHANGED <<flags, s_play_q, sources, output, sendspin, lvgl, outcome, history>>

MutantAnyEndAdvances == req.list
Advances == completed /\ req.list

play_ended ==
  /\ pc = "reporting"
  /\ IF play_current(req.generation)
     THEN /\ s_play_failed' = ~completed
          /\ IF Advances
             THEN s_advance' = TRUE /\ s_advance_generation' = req.generation
             ELSE UNCHANGED <<s_advance, s_advance_generation>>
     ELSE UNCHANGED <<s_play_failed, s_advance, s_advance_generation>>
  /\ TurnEnds
  /\ UNCHANGED <<s_play_generation, s_stop_requested, s_play_retrying, s_play_q,
                 sources, output, sendspin, lvgl, outcome, history>>

-----------------------------------------------------------------------------
(* The Sendspin task. A stream start takes the arbiter, then opens the     *)
(* output. The library ends one stream before it starts another.           *)

SsAcquire ==
  /\ MusicAssistant /\ ~opening /\ ~active
  /\ ArbiterFree("sendspin")
  /\ s_active' = "sendspin"
  /\ opening' = TRUE
  /\ UNCHANGED <<flags, s_play_q, sources, s_open, s_paused, s_session, active,
                 s_pending_cmd, lvgl, worker, history>>

on_stream_start ==
  /\ opening
  /\ opening' = FALSE
  /\ \/ /\ s_open' = TRUE /\ s_paused' = FALSE
        /\ active' = TRUE /\ s_session' = TRUE
        /\ UNCHANGED s_active
     \/ /\ s_active' = "none"              \* audio_open failed
        /\ UNCHANGED <<s_open, s_paused, s_session, active>>
  /\ UNCHANGED <<flags, s_play_q, sources, s_pending_cmd, lvgl, worker, history>>

on_stream_end ==
  /\ active /\ ~opening
  /\ active' = FALSE
  /\ s_open' = FALSE
  /\ s_active' = IF s_active = "sendspin" THEN "none" ELSE s_active
  /\ UNCHANGED <<flags, s_play_q, sources, s_paused, s_session, s_pending_cmd,
                 opening, lvgl, worker, history>>

on_metadata_clear ==
  /\ s_session /\ ~opening
  /\ s_session' = FALSE
  /\ UNCHANGED <<flags, s_play_q, sources, output, active, s_pending_cmd,
                 opening, lvgl, worker, history>>

(* sendspin_task drains the command; a stop ends the session. *)
DrainCommand ==
  /\ s_pending_cmd # "none" /\ ~opening
  /\ s_session' = (s_session /\ s_pending_cmd # "stop")
  /\ s_pending_cmd' = "none"
  /\ UNCHANGED <<flags, s_play_q, sources, output, active, opening, lvgl,
                 worker, history>>

-----------------------------------------------------------------------------
UiStep == play_cancel \/ Unpause \/ source_sd_stop \/ source_stream_stop
          \/ UiStopped \/ EndSession \/ ArmPlay \/ PostPlay

User == \/ \E g \in Plays \cup {Stop} : UserAsks(g)
        \/ PostOther \/ TogglePause \/ DeadlineStrikes
        \/ \E cmd \in {"stop", "other"} : source_sendspin_command(cmd)

(* Every step of the worker that the code takes without waiting for        *)
(* anything but a bounded delay, a timeout or an error.                    *)
WorkerStep ==
  \/ Receive \/ ServeOther \/ Check \/ CheckAfterCover
  \/ Takeover \/ TakeoverTimesOut \/ Attempt
  \/ Enter \/ audio_arbiter_acquire \/ OpeningFails \/ StartDecode
  \/ DecodeStops \/ Record \/ JoinReader \/ audio_arbiter_release
  \/ Returned \/ Judge \/ Decide
  \/ play_retrying(TRUE, "retrying", "waiting")
  \/ RetryWaits
  \/ play_retrying(FALSE, "over", "ending")
  \/ Ending \/ play_ended

Decoder == audio_open \/ \E how \in Outcomes : DecodeReturns(how)

SendspinStep == SsAcquire \/ on_stream_start \/ on_stream_end
                \/ on_metadata_clear \/ DrainCommand

Next == UiStep \/ tick_advance \/ User \/ WorkerStep \/ Decoder \/ SendspinStep

Spec == Init /\ [][Next]_vars

(* Both tasks keep running, and the UI timer calls tick_advance. Nothing   *)
(* makes a decode end by itself: a web radio plays for ever. A decoder     *)
(* that was told to stop looks at s_paused every few milliseconds, far     *)
(* more often than a user or the web can toggle it: hence the strong       *)
(* fairness.                                                               *)
FairSpec ==
  /\ Spec
  /\ WF_vars(UiStep \/ tick_advance)
  /\ WF_vars(WorkerStep) /\ SF_vars(DecodeStops)
  /\ WF_vars(on_stream_start \/ DrainCommand)
-----------------------------------------------------------------------------
TypeOK ==
  /\ s_play_generation \in Nat /\ s_advance_generation \in Nat
  /\ {s_stop_requested, s_advance, s_play_failed, s_play_retrying} \subseteq BOOLEAN
  /\ {s_play_q, req, posted} \subseteq Requests
  /\ s_generation \in [Sources -> Nat]
  /\ s_stop \in [Sources -> BOOLEAN]
  /\ s_completed \in [Sources -> BOOLEAN]
  /\ s_completed_generation \in [Sources -> Nat]
  /\ s_active \in Sources \cup {"sendspin", "none"}
  /\ {s_open, s_paused, s_session, active, opening} \subseteq BOOLEAN
  /\ s_pending_cmd \in {"none", "stop", "other"}
  /\ ui \in UiStates /\ goal \in Goals
  /\ pc \in PcStates
  /\ {completed, hushed} \subseteq BOOLEAN
  /\ outcome \in Outcomes \cup {"none"}
  /\ attempt \in 0..Retries
  /\ finished \in Nat

(* The UI moves to the next track only if the last decode was of the play  *)
(* that is current now, ran out of data by itself, and met no read fault   *)
(* and no missing rest of an announced length: not on a stop, nor on the   *)
(* left-over end of an earlier track or attempt (source_sd_play_generation,*)
(* source_stream_play_generation, play_task, play_ended, tick_advance).    *)
(* It does not say that the track was heard to its end: see "cut" above.   *)
AdvanceWasEarned ==
  s_advance => /\ s_advance_generation = s_play_generation
               /\ finished = s_advance_generation

(* A stop reaches the decoder whatever the worker was doing.               *)
StopEnds ==
  s_stop_requested /\ ui = "idle" ~> pc # "decoding" \/ ~s_stop_requested

(* A play never waits in the queue behind what it replaces, unless the     *)
(* user pauses, which also holds the decoder that has yet to end.          *)
PlayLeavesQueue == s_play_q.kind = "play" ~> s_play_q.kind # "play" \/ s_paused

(* The whole protocol, seen from the user, is the one of PlayIntent: the   *)
(* posted request is the wish for as long as its source was not stopped.   *)
Intent == INSTANCE PlayIntent WITH
  asked    <- posted.generation,
  wish     <- IF /\ posted.kind = "play"
                 /\ posted.source_generation = s_generation[posted.src]
              THEN posted.generation ELSE 0,
  sounding <- IF pc = "decoding" THEN req.generation ELSE 0

ImplementsIntent == Intent!Spec
=============================================================================
