------------------------------- MODULE Requests -------------------------------
(***************************************************************************)
(* The one-place request queue between the screen and the worker.          *)
(*                                                                         *)
(* Every long operation of the device runs on one worker task (play_task). *)
(* The LVGL task posts it with req_post, which overwrites whatever still   *)
(* waits: the newest wish wins. What a producer latched when it asked (a   *)
(* busy button, "queued", "searching") must then be released by somebody:  *)
(* by the worker that served the request, or by req_abandoned for one that *)
(* was dropped. The two tasks run on two cores; the only atomic pieces are *)
(* the queue calls and the sections under s_refresh_mux, and the steps of  *)
(* this module are cut there.                                              *)
(*                                                                         *)
(* What play_task does with a play is in Playback, what it does with a     *)
(* download job in DownloadJob: here they only take time.                  *)
(***************************************************************************)
EXTENDS Naturals

CONSTANT MaxGeneration   (* bound: how many requests are posted *)

ASSUME RequestsAssumption == MaxGeneration \in Nat

(* The kinds that differ in what is latched. "play" also stands for the    *)
(* alarm beep, "refresh" for both refreshes.                               *)
Kinds    == {"play", "refresh", "job", "tone", "peers"}
Requests == [kind : Kinds \cup {"none"}, generation : Nat]
NoReq    == [kind |-> "none", generation |-> 0]

VARIABLES
  s_play_q,                          (* the queue of length one *)
  (* under s_refresh_mux *)
  s_refresh_generation, s_refresh_owner_generation, s_refresh_cancel,
  s_refreshing, s_refresh_done, s_refresh_ok,
  (* the download job; active is s_dljob.active *)
  s_downloading, s_dl_queued, s_dl_cancel, active,
  (* the tone *)
  s_tone_stop, s_tone_running,
  s_memo_peer_count,                 (* "searching" is the code's -1 *)
  s_play_generation,
  sendspin,                          (* Music Assistant is playing *)
  ui, next, old,                     (* the LVGL task: place, locals *)
  pc, req, ok                        (* the worker: place, request, result *)

refreshing == <<s_refresh_generation, s_refresh_owner_generation,
                s_refresh_cancel, s_refreshing, s_refresh_done, s_refresh_ok>>
job    == <<s_downloading, s_dl_queued, s_dl_cancel, active>>
tone   == <<s_tone_stop, s_tone_running>>
lvgl   == <<ui, next, old>>
worker == <<pc, req, ok>>
vars   == <<s_play_q, refreshing, job, tone, s_memo_peer_count,
            s_play_generation, sendspin, lvgl, worker>>

PeerCounts == {"searching", "none", "found"}
UiStates == {"idle", "tone", "cancel", "peek", "abandon", "latch", "write"}
PcStates == {"receive", "got", "check", "fetch", "finish", "claimed", "guard",
             "job", "leave", "tone", "silent", "browse", "playing"}

Init ==
  /\ s_play_q = NoReq
  /\ s_refresh_generation = 0
  /\ s_refresh_owner_generation = 0
  /\ s_refresh_cancel = FALSE
  /\ s_refreshing = FALSE
  /\ s_refresh_done = FALSE
  /\ s_refresh_ok = FALSE
  /\ s_downloading = FALSE
  /\ s_dl_queued = FALSE
  /\ s_dl_cancel = FALSE
  /\ active \in BOOLEAN          \* a job survives a reboot
  /\ s_tone_stop = FALSE
  /\ s_tone_running = FALSE
  /\ s_memo_peer_count = "none"
  /\ s_play_generation = 0
  /\ sendspin = FALSE
  /\ ui = "idle"
  /\ next = NoReq
  /\ old = NoReq
  /\ pc = "receive"
  /\ req = NoReq
  /\ ok = FALSE

Waiting         == s_play_q # NoReq     \* uxQueueMessagesWaiting(s_play_q) > 0
audio_is_active == sendspin \/ pc \in {"playing", "tone"}

-----------------------------------------------------------------------------
(* The LVGL task: the handlers that ask, then the steps of req_post.       *)

Ask(kind, generation) ==
  /\ ui = "idle"
  /\ s_refresh_generation < MaxGeneration
  /\ next' = [kind |-> kind, generation |-> generation]
  /\ ui' = "cancel"
  /\ UNCHANGED <<old, s_play_q, refreshing, sendspin, worker>>

(* ui_play and the alarm: cancel what plays and end a tone, then post.     *)
AskPlay ==
  /\ Ask("play", s_play_generation + 1)
  /\ s_play_generation' = s_play_generation + 1
  /\ s_tone_stop' = TRUE
  /\ s_dl_cancel' = (s_downloading \/ s_dl_cancel)
  /\ UNCHANGED <<s_tone_running, s_downloading, s_dl_queued, active,
                 s_memo_peer_count>>

AskRefresh ==
  /\ ~audio_is_active
  /\ ~s_refreshing
  /\ ~s_downloading
  /\ Ask("refresh", 0)
  /\ UNCHANGED <<job, tone, s_memo_peer_count, s_play_generation>>

(* The correspondent list of a memo or of the walkie-talkie.               *)
AskPeers ==
  /\ Ask("peers", 0)
  /\ s_memo_peer_count' = "searching"
  /\ UNCHANGED <<job, tone, s_play_generation>>

(* Mutant: the scheduler forgets that a job may be running.                *)
SchedulerWithoutGuard ==
  /\ ~s_dl_queued
  /\ active
  /\ ~s_refreshing
  /\ ~audio_is_active
  /\ ~Waiting
  /\ Ask("job", 0)
  /\ s_dl_queued' = TRUE
  /\ s_dl_cancel' = FALSE
  /\ UNCHANGED <<s_downloading, active, tone, s_memo_peer_count,
                 s_play_generation>>

(* The scheduler starts the saved job once nothing else uses the worker.   *)
tick_download_scheduler ==
  /\ ~(s_downloading \/ s_dl_queued)
  /\ active
  /\ ~s_refreshing
  /\ ~audio_is_active
  /\ ~Waiting
  /\ Ask("job", 0)
  /\ s_dl_queued' = TRUE
  /\ s_dl_cancel' = FALSE
  /\ UNCHANGED <<s_downloading, active, tone, s_memo_peer_count,
                 s_play_generation>>

(* tone_start first ends whatever plays, an older tone included...         *)
ToneTakeover ==
  /\ ui = "idle"
  /\ ~s_tone_running
  /\ s_refresh_generation < MaxGeneration
  /\ s_tone_stop' = TRUE
  /\ s_play_generation' = s_play_generation + 1
  /\ ui' = "tone"
  /\ UNCHANGED <<next, old, s_play_q, refreshing, job, s_tone_running,
                 s_memo_peer_count, sendspin, worker>>

(* ...and then arms its own.                                               *)
tone_start ==
  /\ ui = "tone"
  /\ s_tone_stop' = FALSE
  /\ s_tone_running' = TRUE
  /\ next' = [kind |-> "tone", generation |-> 0]
  /\ ui' = "cancel"
  /\ UNCHANGED <<old, s_play_q, refreshing, job, s_memo_peer_count,
                 s_play_generation, sendspin, worker>>

(* The button, or leaving the tone's screen.                               *)
StopTone ==
  /\ ui = "idle"
  /\ s_tone_running
  /\ ~s_tone_stop
  /\ s_tone_stop' = TRUE
  /\ UNCHANGED <<lvgl, s_play_q, refreshing, job, s_tone_running,
                 s_memo_peer_count, s_play_generation, sendspin, worker>>

(* The web page asks for a download (a new job) or cancels it.             *)
RemoteDownload ==
  /\ ui = "idle"
  /\ active' = TRUE
  /\ s_dl_cancel' = (s_downloading \/ s_dl_queued \/ s_dl_cancel)
  /\ UNCHANGED <<lvgl, s_play_q, refreshing, s_downloading, s_dl_queued, tone,
                 s_memo_peer_count, s_play_generation, sendspin, worker>>

RemoteCancel ==
  /\ ui = "idle"
  /\ active' = FALSE
  /\ s_dl_cancel' = TRUE
  /\ UNCHANGED <<lvgl, s_play_q, refreshing, s_downloading, s_dl_queued, tone,
                 s_memo_peer_count, s_play_generation, sendspin, worker>>

(* Sound pauses a running or queued job.                                   *)
PauseJob ==
  /\ ui = "idle"
  /\ audio_is_active
  /\ s_downloading \/ s_dl_queued
  /\ s_dl_cancel' = TRUE
  /\ UNCHANGED <<lvgl, s_play_q, refreshing, s_downloading, s_dl_queued,
                 active, tone, s_memo_peer_count, s_play_generation, sendspin,
                 worker>>

(* The episode screen collects the result of a refresh.                    *)
tick_refresh_done ==
  /\ ui = "idle"
  /\ s_refresh_done
  /\ s_refresh_done' = FALSE
  /\ UNCHANGED <<lvgl, s_play_q, s_refresh_generation,
                 s_refresh_owner_generation, s_refresh_cancel, s_refreshing,
                 s_refresh_ok, job, tone, s_memo_peer_count,
                 s_play_generation, sendspin, worker>>

refresh_cancel ==
  /\ ui = "cancel"
  /\ s_refresh_generation' = s_refresh_generation + 1
  /\ s_refresh_cancel' = TRUE
  /\ ui' = "peek"
  /\ UNCHANGED <<next, old, s_play_q, s_refresh_owner_generation,
                 s_refreshing, s_refresh_done, s_refresh_ok, job, tone,
                 s_memo_peer_count, s_play_generation, sendspin, worker>>

(* Mutant: the job is cancelled only by the producers that see it run.     *)
PeekWithoutCancel ==
  /\ ui = "peek"
  /\ old' = s_play_q
  /\ ui' = IF Waiting /\ s_play_q.kind # next.kind THEN "abandon" ELSE "latch"
  /\ UNCHANGED <<next, s_play_q, refreshing, job, tone, s_memo_peer_count,
                 s_play_generation, sendspin, worker>>

Peek ==
  /\ ui = "peek"
  /\ s_dl_cancel' = (next.kind # "job" \/ s_dl_cancel)
  /\ old' = s_play_q
  /\ ui' = IF Waiting /\ s_play_q.kind # next.kind THEN "abandon" ELSE "latch"
  /\ UNCHANGED <<next, s_play_q, refreshing, s_downloading, s_dl_queued,
                 active, tone, s_memo_peer_count, s_play_generation, sendspin,
                 worker>>

(* Mutant: any refresh that ends reports.                                  *)
FinishedByAnyone(generation, success) ==
  /\ s_refresh_ok' = ( /\ success
                       /\ generation = s_refresh_generation
                       /\ ~s_refresh_cancel )
  /\ s_refreshing' = FALSE
  /\ s_refresh_done' = TRUE
  /\ UNCHANGED <<s_refresh_generation, s_refresh_owner_generation,
                 s_refresh_cancel>>

(* refresh_finished: only the refresh the screen waits for reports.        *)
refresh_finished(generation, success) ==
  IF generation = s_refresh_owner_generation
  THEN /\ s_refresh_ok' = ( /\ success
                            /\ generation = s_refresh_generation
                            /\ ~s_refresh_cancel )
       /\ s_refreshing' = FALSE
       /\ s_refresh_done' = TRUE
       /\ UNCHANGED <<s_refresh_generation, s_refresh_owner_generation,
                      s_refresh_cancel>>
  ELSE UNCHANGED refreshing

(* Mutant: a dropped tone leaves its button as it was.                     *)
AbandonedWithoutTone ==
  /\ ui = "abandon"
  /\ IF old.kind = "refresh" THEN refresh_finished(old.generation, FALSE)
                             ELSE UNCHANGED refreshing
  /\ s_dl_queued' = (s_dl_queued /\ old.kind # "job")
  /\ s_memo_peer_count' = IF old.kind = "peers" THEN "none"
                                                ELSE s_memo_peer_count
  /\ ui' = "latch"
  /\ UNCHANGED <<next, old, s_play_q, s_downloading, s_dl_cancel, active,
                 tone, s_play_generation, sendspin, worker>>

req_abandoned ==
  /\ ui = "abandon"
  /\ IF old.kind = "refresh" THEN refresh_finished(old.generation, FALSE)
                             ELSE UNCHANGED refreshing
  /\ s_dl_queued' = (s_dl_queued /\ old.kind # "job")
  /\ s_tone_running' = (s_tone_running /\ old.kind # "tone")
  /\ s_memo_peer_count' = IF old.kind = "peers" THEN "none"
                                                ELSE s_memo_peer_count
  /\ ui' = "latch"
  /\ UNCHANGED <<next, old, s_play_q, s_downloading, s_dl_cancel, active,
                 s_tone_stop, s_play_generation, sendspin, worker>>

(* A refresh becomes the one the screen waits for.                         *)
LatchRefresh ==
  /\ ui = "latch"
  /\ IF next.kind = "refresh"
     THEN /\ next' = [next EXCEPT !.generation = s_refresh_generation]
          /\ s_refresh_owner_generation' = s_refresh_generation
          /\ s_refreshing' = TRUE
          /\ s_refresh_done' = FALSE
          /\ UNCHANGED <<s_refresh_generation, s_refresh_cancel, s_refresh_ok>>
     ELSE UNCHANGED <<next, refreshing>>
  /\ ui' = "write"
  /\ UNCHANGED <<old, s_play_q, job, tone, s_memo_peer_count,
                 s_play_generation, sendspin, worker>>

Overwrite ==
  /\ ui = "write"
  /\ s_play_q' = next
  /\ next' = NoReq
  /\ old' = NoReq
  /\ ui' = "idle"
  /\ UNCHANGED <<refreshing, job, tone, s_memo_peer_count, s_play_generation,
                 sendspin, worker>>

req_post == refresh_cancel \/ Peek \/ req_abandoned \/ LatchRefresh \/ Overwrite

LvglTask == \/ AskPlay \/ AskRefresh \/ AskPeers \/ tick_download_scheduler
            \/ ToneTakeover \/ tone_start \/ StopTone
            \/ RemoteDownload \/ RemoteCancel \/ PauseJob \/ tick_refresh_done
            \/ req_post

-----------------------------------------------------------------------------
(* The worker.                                                             *)

Goto(from, to) == pc = from /\ pc' = to

Receive ==
  /\ Goto("receive", "got")
  /\ Waiting
  /\ req' = s_play_q
  /\ s_play_q' = NoReq
  /\ UNCHANGED <<ok, refreshing, job, tone, s_memo_peer_count,
                 s_play_generation, sendspin, lvgl>>

(* The worker turns to the next request.                                   *)
Done(from) ==
  /\ Goto(from, "receive")
  /\ req' = NoReq
  /\ ok' = FALSE

(* Steps that touch the worker's own state only.                           *)
Local == UNCHANGED <<s_play_q, refreshing, job, tone, s_memo_peer_count,
                     s_play_generation, sendspin, lvgl>>

(* refresh_begin accepts only a refresh nothing was posted after.          *)
refresh_begin ==
  /\ req.kind = "refresh"
  /\ IF req.generation = s_refresh_generation
     THEN Goto("got", "check") /\ s_refresh_cancel' = FALSE
     ELSE Goto("got", "finish") /\ UNCHANGED s_refresh_cancel
  /\ UNCHANGED <<req, ok, s_play_q, s_refresh_generation,
                 s_refresh_owner_generation, s_refreshing, s_refresh_done,
                 s_refresh_ok, job, tone, s_memo_peer_count,
                 s_play_generation, sendspin, lvgl>>

RefreshCheck ==
  /\ Goto("check", IF Waiting THEN "finish" ELSE "fetch")
  /\ UNCHANGED <<req, ok>>
  /\ Local

(* podcast_refresh_cancelable polls the cancel flag between its reads...   *)
RefreshInterrupted ==
  /\ s_refresh_cancel
  /\ Goto("fetch", "finish")
  /\ ok' = FALSE
  /\ UNCHANGED req
  /\ Local

(* ...but may also come to its end, well or badly, before it looks again.  *)
RefreshFetched ==
  /\ Goto("fetch", "finish")
  /\ ok' \in BOOLEAN
  /\ UNCHANGED req
  /\ Local

RefreshEnd ==
  /\ Done("finish")
  /\ refresh_finished(req.generation, ok)
  /\ UNCHANGED <<s_play_q, job, tone, s_memo_peer_count, s_play_generation,
                 sendspin, lvgl>>

ClaimJob ==
  /\ req.kind = "job"
  /\ Goto("got", "claimed")
  /\ s_downloading' = TRUE
  /\ UNCHANGED <<req, ok, s_play_q, refreshing, s_dl_queued, s_dl_cancel,
                 active, tone, s_memo_peer_count, s_play_generation, sendspin,
                 lvgl>>

UnqueueJob ==
  /\ Goto("claimed", "guard")
  /\ s_dl_queued' = FALSE
  /\ UNCHANGED <<req, ok, s_play_q, refreshing, s_downloading, s_dl_cancel,
                 active, tone, s_memo_peer_count, s_play_generation, sendspin,
                 lvgl>>

(* worker_run_job leaves at once when something came up meanwhile.         *)
GuardJob ==
  /\ Goto("guard", IF s_dl_cancel \/ audio_is_active \/ Waiting
                   THEN "leave" ELSE "job")
  /\ UNCHANGED <<req, ok>>
  /\ Local

(* A cancelled job saves its cursor and stays active...                    *)
InterruptJob ==
  /\ s_dl_cancel
  /\ Goto("job", "leave")
  /\ UNCHANGED <<req, ok>>
  /\ Local

(* ...or it ends without having looked: complete, the card full, or no     *)
(* memory for the list, which leaves it active too.                        *)
EndJob ==
  /\ Goto("job", "leave")
  /\ active' \in {active, FALSE}
  /\ UNCHANGED <<req, ok, s_play_q, refreshing, s_downloading, s_dl_queued,
                 s_dl_cancel, tone, s_memo_peer_count, s_play_generation,
                 sendspin, lvgl>>

LeaveJob ==
  /\ Done("leave")
  /\ s_downloading' = FALSE
  /\ UNCHANGED <<s_play_q, refreshing, s_dl_queued, s_dl_cancel, active, tone,
                 s_memo_peer_count, s_play_generation, sendspin, lvgl>>

(* Mutant: the worker trusts the flag tone_start has set.                  *)
BeginsUnseen ==
  /\ req.kind = "tone"
  /\ ~sendspin
  /\ Goto("got", "tone")
  /\ UNCHANGED <<req, ok>>
  /\ Local

(* tone_run: the arbiter is acquired, or the tone was stopped before, or   *)
(* another source kept the output.                                         *)
ToneBegins ==
  /\ req.kind = "tone"
  /\ ~sendspin
  /\ Goto("got", "tone")
  /\ s_tone_running' = TRUE
  /\ UNCHANGED <<req, ok, s_play_q, refreshing, job, s_tone_stop,
                 s_memo_peer_count, s_play_generation, sendspin, lvgl>>

ToneGivesUp ==
  /\ req.kind = "tone"
  /\ s_tone_stop \/ sendspin
  /\ Goto("got", "silent")
  /\ UNCHANGED <<req, ok>>
  /\ Local

ToneStops ==
  /\ s_tone_stop \/ Waiting
  /\ Goto("tone", "silent")
  /\ UNCHANGED <<req, ok>>
  /\ Local

ToneEnds ==
  /\ Done("silent")
  /\ s_tone_running' = FALSE
  /\ UNCHANGED <<s_play_q, refreshing, job, s_tone_stop, s_memo_peer_count,
                 s_play_generation, sendspin, lvgl>>

BrowsePeers ==
  /\ req.kind = "peers"
  /\ Goto("got", "browse")
  /\ UNCHANGED <<req, ok>>
  /\ Local

(* Mutant: a failed browse leaves its error code as the count.             *)
BrowseError ==
  /\ Done("browse")
  /\ s_memo_peer_count' \in {"none", "found", "error"}
  /\ UNCHANGED <<s_play_q, refreshing, job, tone, s_play_generation, sendspin,
                 lvgl>>

FoundPeers ==
  /\ Done("browse")
  /\ s_memo_peer_count' \in {"none", "found"}
  /\ UNCHANGED <<s_play_q, refreshing, job, tone, s_play_generation, sendspin,
                 lvgl>>

PlayBegins ==
  /\ req.kind = "play"
  /\ ~sendspin
  /\ req.generation = s_play_generation
  /\ Goto("got", "playing")
  /\ UNCHANGED <<req, ok>>
  /\ Local

(* A play that was cancelled before it began, or lost to Music Assistant.  *)
PlayRefused ==
  /\ req.kind = "play"
  /\ sendspin \/ req.generation # s_play_generation
  /\ Done("got")
  /\ Local

(* A cancelled play ends; a track that is not cancelled may.               *)
PlayCancelled == req.generation # s_play_generation /\ Done("playing") /\ Local
TrackEnds     == req.generation = s_play_generation /\ Done("playing") /\ Local

WorkerMoves ==
  \/ Receive
  \/ refresh_begin \/ RefreshCheck \/ RefreshInterrupted \/ RefreshEnd
  \/ ClaimJob \/ UnqueueJob \/ GuardJob \/ InterruptJob \/ LeaveJob
  \/ ToneBegins \/ ToneGivesUp \/ ToneStops \/ ToneEnds
  \/ BrowsePeers \/ FoundPeers
  \/ PlayBegins \/ PlayRefused \/ PlayCancelled

(* What takes its own time: a radio has no end, a job may run for hours.   *)
WorkerTask == WorkerMoves \/ RefreshFetched \/ EndJob \/ TrackEnds

(* Music Assistant takes the output when it is free, and ends when it      *)
(* likes.                                                                  *)
Sendspin ==
  /\ pc \notin {"playing", "tone"}
  /\ sendspin' = ~sendspin
  /\ UNCHANGED <<s_play_q, refreshing, job, tone, s_memo_peer_count,
                 s_play_generation, lvgl, worker>>

Next == LvglTask \/ WorkerTask \/ Sendspin

(* The LVGL task finishes the handler it is in, and the worker takes each  *)
(* step that is its own to take. Nothing is assumed of a fetch, a job or a *)
(* track that nobody cancels: a radio has no end.                          *)
Spec == /\ Init /\ [][Next]_vars
        /\ WF_vars(req_post \/ tone_start)
        /\ WF_vars(WorkerMoves)

-----------------------------------------------------------------------------
(* Properties.                                                             *)

FlagTypes ==
  /\ s_refresh_cancel \in BOOLEAN /\ s_refreshing \in BOOLEAN
  /\ s_refresh_done \in BOOLEAN /\ s_refresh_ok \in BOOLEAN
  /\ s_downloading \in BOOLEAN /\ s_dl_queued \in BOOLEAN
  /\ s_dl_cancel \in BOOLEAN /\ active \in BOOLEAN
  /\ s_tone_stop \in BOOLEAN /\ s_tone_running \in BOOLEAN
  /\ sendspin \in BOOLEAN /\ ok \in BOOLEAN

StateTypes ==
  /\ s_play_q \in Requests
  /\ next \in Requests /\ old \in Requests /\ req \in Requests
  /\ s_refresh_generation \in Nat
  /\ s_refresh_owner_generation \in Nat
  /\ s_play_generation \in Nat
  /\ s_memo_peer_count \in PeerCounts
  /\ ui \in UiStates
  /\ pc \in PcStates

(* One type invariant for the whole module.                                *)
TypeOK == FlagTypes /\ StateTypes

(* A request of this kind is on its way: being posted, in the queue, or at *)
(* the worker.                                                             *)
Pending(kind) ==
  \/ next.kind = kind
  \/ s_play_q.kind = kind
  \/ req.kind = kind

(* No latch outlives its request. A refresh button that is disabled, a job *)
(* marked queued or running, a tone shown as playing, a screen that says   *)
(* "searching": each has a request that is still to be served, so each is  *)
(* released. This is what req_abandoned is for.                            *)
NoWedge ==
  /\ s_refreshing => Pending("refresh")
  /\ s_dl_queued => Pending("job")
  /\ s_downloading => req.kind = "job"
  /\ s_tone_running => Pending("tone")
  /\ s_memo_peer_count = "searching" => Pending("peers")

(* The newest refresh holds the button until it reports, and a result on   *)
(* display is never that of a refresh still under way: an older refresh    *)
(* that ends late, or was dropped, does not speak for it.                  *)
RefreshReports ==
  /\ ~(s_refreshing /\ s_refresh_done)
  /\ \A r \in {s_play_q, req} :
       r.kind = "refresh" /\ r.generation = s_refresh_generation
         => s_refreshing

(* A tone that sounds with nothing waiting behind it can be stopped: the   *)
(* stop button and the screen change both act only if s_tone_running.      *)
ToneVisible ==
  pc = "tone" /\ ~Waiting /\ ui = "idle" => s_tone_running \/ s_tone_stop

(* A cancel is never taken back under a job: the scheduler clears          *)
(* s_dl_cancel only when no older job is left that should have seen it.    *)
CancelStays ==
  [][s_dl_cancel /\ ~s_dl_cancel' => req.kind # "job"]_vars

(* Whatever the user asked to hear reaches the worker: a play or a tone    *)
(* does not stay behind a download, a refresh or another sound, although   *)
(* none of these ends in any known time unless it is cancelled.            *)
PlayServed ==
  \A g \in 0..MaxGeneration : \A k \in {"play", "tone"} :
    (s_play_q = [kind |-> k, generation |-> g])
      ~> (s_play_q # [kind |-> k, generation |-> g])
===============================================================================
