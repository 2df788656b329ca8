------------------------------ MODULE DownloadJob ------------------------------
(***************************************************************************)
(* The background download job (worker_run_job and its scheduler).         *)
(*                                                                         *)
(* One job exists at a time. It is kept in flash, so it survives a reboot, *)
(* and it runs in pieces: whatever the user plays interrupts it, and the   *)
(* scheduler starts it again later from a saved cursor. A run refreshes    *)
(* the feeds, deletes what falls outside each podcast's episode limit,     *)
(* downloads, and rescans the music library if the job is the automatic    *)
(* maintenance.                                                            *)
(*                                                                         *)
(* A manifest is the list of a podcast's episodes on the device. A refresh *)
(* writes what the feed lists, newest first, and after it the episodes     *)
(* that the feed has dropped but the card still holds. The queue between   *)
(* scheduler and worker is in Requests; here a posted job is only          *)
(* "queued".                                                               *)
(***************************************************************************)
EXTENDS Naturals, Sequences

CONSTANTS
  NumPodcasts,   (* podcasts in the configuration, in its order             *)
  keep_episodes, (* per podcast: the episode limit, 0 for none              *)
  Protected,     (* <<podcast, episode>>: favourites and alarm tracks       *)
  Throttle,      (* the cursor is saved every so many episodes (8)          *)
  FirstEpisodes, (* per podcast: episodes it lists at first                 *)
  MaxEpisodes,   (* bound, per podcast: episodes it ever publishes          *)
  MaxAsks,       (* bound: jobs asked for                                   *)
  Asked,         (* bound: <<scope, force>> of the jobs the user asks for   *)
  MaxTroubles,   (* bound: interruptions, faults and withdrawals            *)
  MaxReboots     (* bound: crashes                                          *)

Podcasts == 1..NumPodcasts

ASSUME DownloadJobAssumption ==
  /\ NumPodcasts \in Nat
  /\ keep_episodes \in [Podcasts -> Nat]
  /\ Protected \subseteq Podcasts \X Nat
  /\ Throttle \in Nat \ {0}
  /\ MaxEpisodes \in [Podcasts -> Nat \ {0}]
  /\ FirstEpisodes \in [Podcasts -> Nat]
  /\ \A p \in Podcasts : FirstEpisodes[p] <= MaxEpisodes[p]
  /\ Asked \subseteq (0..NumPodcasts) \X BOOLEAN
  /\ {MaxAsks, MaxTroubles, MaxReboots} \subseteq Nat

VARIABLES
  s_dljob,       (* the job in memory; `id` tells jobs apart *)
  saved,         (* the job in flash *)
  s_downloading, s_dl_queued, s_dl_cancel,
  pc, i, e,      (* the worker: place, podcast and episode index *)
  resume_pod, resume_ep, started,
  feed,          (* the list that each podcast publishes *)
  manifest,      (* the list on the device *)
  cached,        (* episodes on the card *)
  playing, busy, (* audio plays; another request occupies the worker *)
  s_played_since_maint, s_maint_done_since_boot,
  (* history: counters of the bounds; the job a run began with, and the    *)
  (* podcasts it could not limit; for the current job, the episodes it     *)
  (* owes, those it has dealt with, and whether its cursor still means     *)
  (* what it meant                                                         *)
  asks, troubles, reboots, run, unlimited, due, tried, disturbed

cursor  == <<resume_pod, resume_ep, started>>
flags   == <<s_downloading, s_dl_queued, s_dl_cancel>>
library == <<feed, manifest, cached>>
use     == <<playing, busy, s_played_since_maint, s_maint_done_since_boot>>
bounds  == <<asks, troubles, reboots>>
history == <<run, unlimited, due, tried, disturbed>>
vars    == <<s_dljob, saved, flags, pc, i, e, cursor, library, use, bounds,
             history>>

(* scope 0 is every podcast (scope_all). *)
Jobs == [active : BOOLEAN, scope : 0..NumPodcasts, force : BOOLEAN,
         maint : BOOLEAN, refresh_done : BOOLEAN, downloads_done : BOOLEAN,
         cur_pod_id : 0..NumPodcasts, cur_ep_idx : Nat, id : Nat]

NoJob == [active |-> FALSE, scope |-> 0, force |-> FALSE, maint |-> FALSE,
          refresh_done |-> FALSE, downloads_done |-> FALSE,
          cur_pod_id |-> 0, cur_ep_idx |-> 0, id |-> 0]

Init ==
  /\ s_dljob = NoJob
  /\ saved = NoJob
  /\ s_downloading = FALSE
  /\ s_dl_queued = FALSE
  /\ s_dl_cancel = FALSE
  /\ pc = "receive"
  /\ i = 0
  /\ e = 0
  /\ resume_pod = 0
  /\ resume_ep = 0
  /\ started = FALSE
  /\ feed = [p \in Podcasts |->
              [k \in 1..FirstEpisodes[p] |-> FirstEpisodes[p] + 1 - k]]
  /\ manifest = feed
  /\ cached = [p \in Podcasts |-> {}]
  /\ playing = FALSE
  /\ busy = FALSE
  /\ s_played_since_maint = FALSE
  /\ s_maint_done_since_boot = FALSE
  /\ asks = 0
  /\ troubles = 0
  /\ reboots = 0
  /\ run = 0
  /\ unlimited = {}
  /\ due = {}
  /\ tried = {}
  /\ disturbed = FALSE

job_in_scope(p) == s_dljob.scope \in {0, p}

Entries(list) == {list[k] : k \in 1..Len(list)}

(* Lists of a podcast's episodes, each at most once.                       *)
Lists(p) ==
  {m \in UNION {[1..n -> 1..MaxEpisodes[p]] : n \in 0..MaxEpisodes[p]} :
     \A j, k \in 1..Len(m) : m[j] = m[k] => j = k}

(* podcast_keep_window: how many entries from the top a job keeps.         *)
Window(p) == IF keep_episodes[p] \in 1..Len(manifest[p]) THEN keep_episodes[p]
                                                          ELSE Len(manifest[p])

(* The episodes those entries are.                                         *)
Kept(p) == {manifest[p][k] : k \in 1..Window(p)}

Owed(job) == UNION {{p} \X Kept(p) : p \in {q \in Podcasts : job.scope \in {0, q}}}

Trouble == troubles < MaxTroubles /\ troubles' = troubles + 1

(* dljob_persist with the fields of memory just set; a write that fails is *)
(* shown to the user and not repeated.                                     *)
Persist(job) ==
  /\ s_dljob' = job
  /\ \/ saved' = job /\ UNCHANGED troubles
     \/ UNCHANGED saved /\ Trouble

Keep == UNCHANGED <<s_dljob, saved, troubles>>

-----------------------------------------------------------------------------
(* The LVGL task.                                                          *)

NewJob(job) ==
  /\ asks < MaxAsks
  /\ asks' = asks + 1
  /\ Persist([job EXCEPT !.active = TRUE, !.id = asks + 1])
  /\ disturbed' = s_downloading
  /\ due' = IF job.force /\ ~s_downloading THEN Owed(job) ELSE {}
  /\ tried' = {}
  /\ UNCHANGED reboots

(* The web page asks for one podcast or all of them, missing episodes or   *)
(* every episode again; a run under way is asked to stop, and goes on      *)
(* with the new job until it looks.                                        *)
ui_remote_download(scope, force) ==
  /\ NewJob([NoJob EXCEPT !.scope = scope, !.force = force])
  /\ s_dl_cancel' = (s_downloading \/ s_dl_queued \/ s_dl_cancel)
  /\ UNCHANGED <<s_downloading, s_dl_queued, pc, i, e, cursor, library, use,
                 run, unlimited>>

ui_remote_cancel ==
  /\ s_dljob.active
  /\ Persist([s_dljob EXCEPT !.active = FALSE])
  /\ s_dl_cancel' = TRUE
  /\ UNCHANGED <<s_downloading, s_dl_queued, pc, i, e, cursor, library, use,
                 asks, reboots, history>>

(* Mutant: the scheduler leaves the cancel of the last run standing.       *)
StartCancelled ==
  /\ ~s_downloading /\ ~s_dl_queued /\ ~playing
  /\ s_dljob.active /\ ~busy
  /\ s_dl_queued' = TRUE
  /\ UNCHANGED <<s_dljob, saved, s_downloading, s_dl_cancel, pc, i, e, cursor,
                 library, use, bounds, history>>

(* The scheduler, when audio has been idle and Wi-Fi is up: start the job. *)
StartJob ==
  /\ ~s_downloading /\ ~s_dl_queued /\ ~playing
  /\ s_dljob.active /\ ~busy
  /\ s_dl_queued' = TRUE
  /\ s_dl_cancel' = FALSE
  /\ UNCHANGED <<s_dljob, saved, s_downloading, pc, i, e, cursor, library,
                 use, bounds, history>>

(* Otherwise, once per boot and after each listening, maintenance becomes  *)
(* the job.                                                                *)
ScheduleMaintenance ==
  /\ ~s_downloading /\ ~s_dl_queued /\ ~playing
  /\ ~(s_dljob.active /\ ~busy)
  /\ s_played_since_maint \/ ~s_maint_done_since_boot
  /\ NewJob([NoJob EXCEPT !.maint = TRUE])
  /\ s_played_since_maint' = FALSE
  /\ s_maint_done_since_boot' = TRUE
  /\ UNCHANGED <<flags, pc, i, e, cursor, library, playing, busy, run,
                 unlimited>>

(* The user plays something: a queued job is dropped, a running one is     *)
(* asked to stop.                                                          *)
Play ==
  /\ ~playing
  /\ Trouble
  /\ playing' = TRUE
  /\ s_dl_cancel' = TRUE
  /\ s_dl_queued' = FALSE
  /\ UNCHANGED <<s_dljob, saved, s_downloading, pc, i, e, cursor, library,
                 busy, s_played_since_maint, s_maint_done_since_boot, asks,
                 reboots, history>>

PlayEnds ==
  /\ playing
  /\ playing' = FALSE
  /\ s_played_since_maint' = TRUE
  /\ UNCHANGED <<s_dljob, saved, flags, pc, i, e, cursor, library, busy,
                 s_maint_done_since_boot, bounds, history>>

(* A memo, a browse or a send is posted: it overwrites a queued job and    *)
(* cancels a running one...                                                *)
OtherAsked ==
  /\ ~busy
  /\ Trouble
  /\ busy' = TRUE
  /\ s_dl_cancel' = TRUE
  /\ s_dl_queued' = FALSE
  /\ UNCHANGED <<s_dljob, saved, s_downloading, pc, i, e, cursor, library,
                 playing, s_played_since_maint, s_maint_done_since_boot, asks,
                 reboots, history>>

(* ...and is served although no audio plays.                               *)
OtherServed ==
  /\ pc = "receive"
  /\ busy
  /\ busy' = FALSE
  /\ UNCHANGED <<s_dljob, saved, flags, pc, i, e, cursor, library, playing,
                 s_played_since_maint, s_maint_done_since_boot, bounds,
                 history>>

(* What a refresh may write: the feed as it is, then entries that the feed *)
(* has dropped and the card holds, in their order. All of them as a rule;  *)
(* fewer when memory or the list's capacity runs out.                      *)
Refreshed(p) ==
  {m \in Lists(p) :
     LET fed == Len(feed[p])
     IN  /\ fed <= Len(m)
         /\ \A k \in 1..fed : m[k] = feed[p][k]
         /\ \A k \in (fed + 1)..Len(m) : m[k] \in cached[p] \cap Entries(manifest[p])
         /\ \A j, k \in 1..Len(manifest[p]), x, y \in (fed + 1)..Len(m) :
              manifest[p][j] = m[x] /\ manifest[p][k] = m[y] /\ x < y => j < k}

(* The new list is the old one behind episodes new to the job.             *)
Grows(p, m) ==
  LET new == Len(m) - Len(manifest[p])
  IN  /\ Len(manifest[p]) <= Len(m)
      /\ \A k \in 1..Len(manifest[p]) : m[k + new] = manifest[p][k]
      /\ \A k \in 1..new : <<p, m[k]>> \notin due

(* The cursor may not mean any more what it meant: the job is held to      *)
(* nothing from now on.                                                    *)
Disturb == disturbed' = TRUE /\ due' = {} /\ tried' = {}

(* The episode screen refreshes one feed, refused while a job runs. A      *)
(* cursor that waits keeps its place only under lists that grow.           *)
on_refresh(p) ==
  /\ ~playing /\ ~busy
  /\ pc = "receive"
  /\ \E m \in Refreshed(p) \ {manifest[p]} :
       /\ manifest' = [manifest EXCEPT ![p] = m]
       /\ IF p <= s_dljob.cur_pod_id /\ ~Grows(p, m)
          THEN Disturb
          ELSE UNCHANGED <<due, tried, disturbed>>
  /\ s_dl_cancel' = TRUE
  /\ s_dl_queued' = FALSE
  /\ UNCHANGED <<s_dljob, saved, s_downloading, pc, i, e, cursor, feed, cached,
                 use, bounds, run, unlimited>>

-----------------------------------------------------------------------------
(* The worker: worker_run_job, phase by phase.                             *)

Goto(from, to) == pc = from /\ pc' = to

(* What no step of a run touches.                                          *)
Outside == UNCHANGED <<s_dl_queued, s_dl_cancel, feed, use, asks, reboots>>

ForgetLocals ==
  /\ i' = 0 /\ e' = 0
  /\ resume_pod' = 0 /\ resume_ep' = 0 /\ started' = FALSE
  /\ run' = 0 /\ unlimited' = {}

(* A run ends; the job stays in memory and in flash as it is.              *)
Leave(from) ==
  /\ Goto(from, "receive")
  /\ s_downloading' = FALSE
  /\ ForgetLocals
  /\ UNCHANGED <<manifest, cached, due, disturbed>>

Claim ==
  /\ Goto("receive", "guard")
  /\ s_dl_queued
  /\ ~busy
  /\ s_dl_queued' = FALSE
  /\ s_downloading' = TRUE
  /\ run' = s_dljob.id
  /\ unlimited' = {}
  /\ Keep
  /\ UNCHANGED <<s_dl_cancel, i, e, cursor, library, use, asks, reboots, due,
                 tried, disturbed>>

(* Mutant: a resumed run does not limit again.                             *)
ResumeUnlimited ==
  IF s_dljob.downloads_done THEN "scan"
  ELSE IF s_dljob.force THEN "prune"
  ELSE IF ~s_dljob.refresh_done THEN "refresh"
  ELSE "podcast"

(* Where a run begins: after downloads_done only the scan is left.         *)
FirstPhase ==
  IF s_dljob.downloads_done THEN "scan"
  ELSE IF ~s_dljob.force /\ ~s_dljob.refresh_done THEN "refresh"
  ELSE "prune"

Guard ==
  /\ \/ /\ s_dl_cancel \/ playing
        /\ Leave("guard")
     \/ /\ ~(s_dl_cancel \/ playing)
        /\ Goto("guard", FirstPhase)
        /\ i' = 1
        /\ UNCHANGED <<s_downloading, e, cursor, manifest, cached, due, run,
                       unlimited, disturbed>>
  /\ Keep
  /\ UNCHANGED tried
  /\ Outside

(* job_refresh: the feeds in turn; one that fails keeps its old manifest.  *)
RefreshFeed ==
  /\ Goto("refresh", "refresh")
  /\ ~s_dl_cancel
  /\ i \in Podcasts
  /\ \E m \in {manifest[i]} \cup (IF job_in_scope(i) THEN Refreshed(i) ELSE {}) :
       manifest' = [manifest EXCEPT ![i] = m]
  /\ i' = i + 1
  /\ Keep
  /\ UNCHANGED <<s_downloading, e, cursor, cached, due, tried, run,
                 unlimited, disturbed>>
  /\ Outside

RefreshDone ==
  /\ Goto("refresh", "prune")
  /\ ~s_dl_cancel
  /\ i \notin Podcasts
  /\ Persist([s_dljob EXCEPT !.refresh_done = TRUE])
  /\ due' = IF disturbed THEN {} ELSE Owed(s_dljob)
  /\ i' = 1
  /\ UNCHANGED <<s_downloading, e, cursor, manifest, cached, tried, run,
                 unlimited, disturbed>>
  /\ Outside

(* What job_prune deletes of podcast p: beyond its limit, not protected.   *)
Surplus(p) ==
  IF job_in_scope(p) /\ keep_episodes[p] > 0
  THEN {n \in cached[p] \cap Entries(manifest[p]) :
          n \notin Kept(p) /\ <<p, n>> \notin Protected}
  ELSE {}

Prune ==
  /\ Goto("prune", "prune")
  /\ ~s_dl_cancel
  /\ i \in Podcasts
  /\ cached' = [cached EXCEPT ![i] = @ \ Surplus(i)]
  /\ i' = i + 1
  /\ Keep
  /\ UNCHANGED <<s_downloading, e, cursor, manifest, due, tried, run,
                 unlimited, disturbed>>
  /\ Outside

(* The list cannot be read, there is no memory, a file is not deleted, or  *)
(* the run is cancelled between two files: the podcast stays as far as it  *)
(* came, and the job goes on.                                              *)
PruneFallsShort ==
  /\ Goto("prune", "prune")
  /\ i \in Podcasts
  /\ \E gone \in SUBSET Surplus(i) : cached' = [cached EXCEPT ![i] = @ \ gone]
  /\ unlimited' = unlimited \cup {i}
  /\ i' = i + 1
  /\ \/ s_dl_cancel /\ UNCHANGED troubles
     \/ Trouble
  /\ UNCHANGED <<s_dljob, saved, s_downloading, e, cursor, manifest, due,
                 tried, run, disturbed>>
  /\ Outside

(* The resume target is read before the cursor is overwritten.             *)
ReadCursor ==
  /\ Goto("prune", "podcast")
  /\ ~s_dl_cancel
  /\ i \notin Podcasts
  /\ resume_pod' = s_dljob.cur_pod_id
  /\ resume_ep' = s_dljob.cur_ep_idx
  /\ started' = (s_dljob.cur_pod_id = 0)
  /\ i' = 1
  /\ Keep
  /\ UNCHANGED <<s_downloading, e, manifest, cached, due, tried, run,
                 unlimited, disturbed>>
  /\ Outside

(* Cancelled before the downloads: nothing to save.                        *)
InterruptEarly ==
  /\ Leave("refresh") \/ Leave("prune")
  /\ s_dl_cancel
  /\ Keep
  /\ UNCHANGED tried
  /\ Outside

SkipPodcast ==
  /\ Goto("podcast", "podcast")
  /\ i \in Podcasts
  /\ ~job_in_scope(i) \/ (~started /\ i # resume_pod)
  /\ i' = i + 1
  /\ Keep
  /\ UNCHANGED <<s_downloading, e, cursor, manifest, cached, due, tried,
                 run, unlimited, disturbed>>
  /\ Outside

(* The next podcast to download, and the cursor moved to it.               *)
Reached ==
  /\ i \in Podcasts
  /\ job_in_scope(i)
  /\ started \/ i = resume_pod

(* Mutant: the cursor's episode is applied to every podcast.               *)
ResumeEverywhere ==
  /\ Goto("podcast", "episode")
  /\ Reached
  /\ started' = TRUE
  /\ e' = resume_ep
  /\ Persist([s_dljob EXCEPT !.cur_pod_id = i, !.cur_ep_idx = e'])
  /\ UNCHANGED <<s_downloading, i, resume_pod, resume_ep, manifest, cached,
                 due, tried, run, unlimited, disturbed>>
  /\ Outside

StartPodcast ==
  /\ Goto("podcast", "episode")
  /\ Reached
  /\ started' = TRUE
  /\ e' = IF i = resume_pod THEN resume_ep ELSE 0
  /\ Persist([s_dljob EXCEPT !.cur_pod_id = i, !.cur_ep_idx = e'])
  /\ UNCHANGED <<s_downloading, i, resume_pod, resume_ep, manifest, cached,
                 due, tried, run, unlimited, disturbed>>
  /\ Outside

(* No memory for the episode list.                                         *)
NoMemory ==
  /\ Leave("podcast")
  /\ Reached
  /\ Trouble
  /\ UNCHANGED <<s_dljob, saved, tried>>
  /\ Outside

(* A list that cannot be read counts as an empty one.                      *)
Unreadable ==
  /\ Goto("podcast", "podcast")
  /\ Reached
  /\ Trouble
  /\ started' = TRUE
  /\ s_dljob' = [s_dljob EXCEPT !.cur_pod_id = i,
                   !.cur_ep_idx = IF i = resume_pod THEN resume_ep ELSE 0]
  /\ saved' \in {saved, s_dljob'}
  /\ i' = i + 1
  /\ Disturb
  /\ UNCHANGED <<s_downloading, e, resume_pod, resume_ep, manifest, cached,
                 run, unlimited>>
  /\ Outside

Episode == manifest[i][e + 1]

(* Past an episode: the cursor moves in memory, now and then in flash.     *)
Advance(from) ==
  /\ Goto(from, "episode")
  /\ e' = e + 1
  /\ tried' = tried \cup ({<<i, Episode>>} \cap due)
  /\ LET job == [s_dljob EXCEPT !.cur_ep_idx = e + 1]
     IN  IF e % Throttle = 0 THEN Persist(job)
         ELSE s_dljob' = job /\ UNCHANGED <<saved, troubles>>
  /\ UNCHANGED <<s_downloading, i, cursor, manifest, due, run,
                 unlimited, disturbed>>
  /\ Outside

SkipCached ==
  /\ pc = "episode"
  /\ ~s_dl_cancel
  /\ e < Window(i)
  /\ ~s_dljob.force
  /\ Episode \in cached[i]
  /\ Advance("episode")
  /\ UNCHANGED cached

Fetch ==
  /\ Goto("episode", "fetch")
  /\ ~s_dl_cancel
  /\ e < Window(i)
  /\ s_dljob.force \/ Episode \notin cached[i]
  /\ Keep
  /\ UNCHANGED <<s_downloading, i, e, cursor, manifest, cached, due, tried,
                 run, unlimited, disturbed>>
  /\ Outside

Fetched ==
  /\ Advance("fetch")
  /\ cached' = [cached EXCEPT ![i] = @ \cup {Episode}]

FetchFailed ==
  /\ Advance("fetch")
  /\ ~s_dl_cancel
  /\ UNCHANGED cached

(* Mutant: the episode in hand counts as done.                             *)
InterruptPast ==
  /\ s_dl_cancel
  /\ \/ Leave("episode") /\ e < Window(i)
     \/ Leave("fetch")
  /\ Persist([s_dljob EXCEPT !.cur_ep_idx = e + 1])
  /\ UNCHANGED tried
  /\ Outside

(* Mutant: one too few.                                                    *)
InterruptBefore ==
  /\ s_dl_cancel
  /\ \/ Leave("episode") /\ e < Window(i)
     \/ Leave("fetch")
  /\ Persist([s_dljob EXCEPT !.cur_ep_idx = e - 1])
  /\ UNCHANGED tried
  /\ Outside

(* Cancelled between two episodes or inside one: save where it was.        *)
Interrupt ==
  /\ s_dl_cancel
  /\ \/ Leave("episode") /\ e < Window(i)
     \/ Leave("fetch")
  /\ Persist([s_dljob EXCEPT !.cur_ep_idx = e])
  /\ UNCHANGED tried
  /\ Outside

(* The card is almost full: the job is given up.                           *)
CardFull ==
  /\ Leave("episode")
  /\ ~s_dl_cancel
  /\ e < Window(i)
  /\ s_dljob.force \/ Episode \notin cached[i]
  /\ Persist([s_dljob EXCEPT !.cur_ep_idx = e, !.active = FALSE])
  /\ UNCHANGED tried
  /\ Outside

EndPodcast ==
  /\ Goto("episode", "podcast")
  /\ e >= Window(i)
  /\ i' = i + 1
  /\ Keep
  /\ UNCHANGED <<s_downloading, e, cursor, manifest, cached, due, tried,
                 run, unlimited, disturbed>>
  /\ Outside

DownloadsDone ==
  /\ Goto("podcast", "scan")
  /\ i \notin Podcasts
  /\ Persist([s_dljob EXCEPT !.downloads_done = TRUE])
  /\ due' = {} /\ tried' = {}
  /\ UNCHANGED <<s_downloading, i, e, cursor, manifest, cached, run, unlimited,
                 disturbed>>
  /\ Outside

(* Maintenance rescans the library; interrupted, it scans again later.     *)
InterruptScan ==
  /\ Leave("scan")
  /\ s_dljob.maint
  /\ s_dl_cancel
  /\ Persist(s_dljob)
  /\ UNCHANGED tried
  /\ Outside

Complete ==
  /\ Leave("scan")
  /\ s_dljob.maint => ~s_dl_cancel
  /\ Persist([s_dljob EXCEPT !.active = FALSE])
  /\ UNCHANGED tried
  /\ Outside

Worker ==
  \/ Claim \/ Guard
  \/ RefreshFeed \/ RefreshDone \/ Prune \/ ReadCursor \/ InterruptEarly
  \/ SkipPodcast \/ StartPodcast \/ SkipCached \/ Fetch \/ Fetched
  \/ FetchFailed \/ Interrupt \/ CardFull \/ EndPodcast \/ DownloadsDone
  \/ InterruptScan \/ Complete

-----------------------------------------------------------------------------
(* External: a podcast publishes, withdraws, or does both and so moves an  *)
(* episode to the top; the power fails.                                    *)

Publish(p) ==
  /\ Len(feed[p]) < MaxEpisodes[p]
  /\ \E n \in (1..MaxEpisodes[p]) \ Entries(feed[p]) :
       feed' = [feed EXCEPT ![p] = <<n>> \o @]
  /\ UNCHANGED <<s_dljob, saved, flags, pc, i, e, cursor, manifest, cached,
                 use, bounds, history>>

Without(list, n) ==
  [k \in 1..(Len(list) - 1) |-> IF k < n THEN list[k] ELSE list[k + 1]]

Withdraw(p) ==
  /\ Trouble
  /\ \E n \in 1..Len(feed[p]) : feed' = [feed EXCEPT ![p] = Without(@, n)]
  /\ UNCHANGED <<s_dljob, saved, flags, pc, i, e, cursor, manifest, cached,
                 use, asks, reboots, history>>

(* The job of the flash is the job of the device, be it an older one.      *)
Reboot ==
  /\ reboots < MaxReboots
  /\ reboots' = reboots + 1
  /\ s_dljob' = saved
  /\ IF saved.id # s_dljob.id THEN Disturb
                               ELSE UNCHANGED <<due, tried, disturbed>>
  /\ s_downloading' = FALSE
  /\ s_dl_queued' = FALSE
  /\ s_dl_cancel' = FALSE
  /\ pc' = "receive"
  /\ playing' = FALSE
  /\ busy' = FALSE
  /\ s_played_since_maint' = FALSE
  /\ s_maint_done_since_boot' = FALSE
  /\ ForgetLocals
  /\ UNCHANGED <<saved, library, asks, troubles>>

LvglTask ==
  \/ \E ask \in Asked : ui_remote_download(ask[1], ask[2])
  \/ ui_remote_cancel
  \/ StartJob \/ ScheduleMaintenance
  \/ Play \/ PlayEnds \/ OtherAsked \/ OtherServed
  \/ \E p \in Podcasts : on_refresh(p)

Next == \/ LvglTask \/ Worker \/ NoMemory \/ Unreadable \/ PruneFallsShort \/ Reboot
        \/ \E p \in Podcasts : Publish(p) \/ Withdraw(p)

(* The worker and the scheduler keep going; what the user plays ends.      *)
Spec == /\ Init /\ [][Next]_vars
        /\ WF_vars(Worker)
        /\ WF_vars(StartJob)
        /\ WF_vars(PlayEnds)
        /\ WF_vars(OtherServed)

-----------------------------------------------------------------------------
(* Properties.                                                             *)

PcStates == {"receive", "guard", "refresh", "prune", "podcast", "episode",
             "fetch", "scan"}

TypeOK ==
  /\ s_dljob \in Jobs
  /\ saved \in Jobs
  /\ {s_downloading, s_dl_queued, s_dl_cancel, started, playing, busy,
      s_played_since_maint, s_maint_done_since_boot} \subseteq BOOLEAN
  /\ pc \in PcStates
  /\ i \in 0..(NumPodcasts + 1)
  /\ e \in Nat
  /\ pc = "fetch" => e < Window(i)
  /\ \A p \in Podcasts : /\ feed[p] \in Lists(p) /\ manifest[p] \in Lists(p)
                          /\ cached[p] \subseteq 1..MaxEpisodes[p]

(* However often it was interrupted and rebooted, its saves failed and its *)
(* lists grew, a job that calls its downloads done has dealt with every    *)
(* episode that was in the windows when it set out and still is. It is not *)
(* held to that (Disturb) when it was set up under the run of another job  *)
(* or brought back by a reboot in place of a later one, and when the lists *)
(* behind its cursor could not be read, or lost or moved entries while it  *)
(* waited.                                                                 *)
NothingSkipped ==
  [][ s_dljob'.id = s_dljob.id /\ s_dljob'.downloads_done /\ ~s_dljob.downloads_done
        => due \cap Owed(s_dljob) \subseteq tried ]_vars

(* While a run downloads for the job that it began with, no limited        *)
(* podcast in its scope has more of its list on the card than its window   *)
(* and what is protected, but for those that this run could not limit: a   *)
(* resumed run limits again before it fetches.                             *)
KeepLimit ==
  pc \in {"podcast", "episode", "fetch"} /\ run = s_dljob.id =>
    \A p \in Podcasts \ unlimited :
      job_in_scope(p) /\ keep_episodes[p] > 0 =>
        \A n \in cached[p] \cap Entries(manifest[p]) : n \in Kept(p) \/ <<p, n>> \in Protected

(* The cursor of a job is past an episode of podcast p.                    *)
Passed(job, p) ==
  IF job.downloads_done \/ p < job.cur_pod_id THEN Entries(manifest[p])
  ELSE IF p = job.cur_pod_id
       THEN {manifest[p][k] : k \in (1..job.cur_ep_idx) \cap (1..Len(manifest[p]))}
       ELSE {}

(* What the flash says of a job is never ahead of what was done, so that a *)
(* power failure repeats work and loses none: every episode that the job   *)
(* owes and the saved cursor is past has been dealt with.                  *)
FlashBehind ==
  saved.id = s_dljob.id =>
    \A p \in Podcasts : \A n \in Passed(saved, p) :
      <<p, n>> \in due \cap Owed(saved) => <<p, n>> \in tried

(* A run that is interrupted leaves a job that will be run again, until it *)
(* is complete, cancelled or the card is full.                             *)
JobEnds == s_dljob.active ~> ~s_dljob.active
===============================================================================
