# Bugne: a verification development

Bugne is the firmware of a small ESP32-S3 music box: a touch screen, an SD
card, Wi-Fi, one audio codec with one amplifier. It plays files, web radio,
podcasts and Music Assistant (Sendspin) streams, records voice memos, sends them
to other devices of the house, and obeys parental time rules. It is written in C
on FreeRTOS: a dozen tasks share flags, one-place queues and a handful of
mutexes. This directory holds TLA+ models of the parts where those tasks meet,
the TLC runs that check them, and TLAPS proofs.

Paths below are relative to the repository (`components/...` is under `src/`).

## 1. The system and its components

### Tasks

| Task | Where | What it does |
|---|---|---|
| LVGL | `components/ui/ui.c` | screens, one timer that calls every `tick_*`, the remote commands of the web interface; the only producer of the request queue |
| worker (`play_task`) | `ui.c` 1488-1690 | consumes the queue of length one: plays, memos, talkie, downloads, listings; runs the decoders |
| Sendspin loop and sync tasks | `source_sendspin.cpp` | loop: stream start and end, metadata, commands; sync: writes PCM |
| stream reader | `source_stream.c` | fills the ring buffer that the decoder on the worker drains |
| livemeta poller | `source_stream.c` | asks a station's service for the current title |
| HTTP server | `components/web_config` | configuration pages, file transfer, firmware update |
| network tasks | `components/net/net.c` | station events, reconnect timer, failover |
| `esp_timer` | `audio.c` | the deferred close of the codec |
| tuner | `ui.c`, `components/tuner` | captures the microphone while its screen is open |

### Inventory

| Component | State it keeps | Operations | What is hard | What makes it correct |
|---|---|---|---|---|
| Audio output, arbiter | owner, `s_open`, `s_codec_open`, format, pause, pending unmute, amp pin, close timer, volume and ceiling | acquire, release, open, write, close, record, pause, off, volume | a close that is deferred and cancelled by a reopen; writers that take no lock; a volume read and stored without one | one owner; a reopened codec is never powered down; an idle one always is; capture and playback exclude each other; the ceiling holds |
| Playback protocol | `s_play_generation`, `s_stop_requested`, `s_advance`, retry and failure flags, the queue; per source a generation, a stop flag, a completion | `ui_play`, `ui_stop`, `tick_advance`, `play_task` | a stop or a newer play between any two steps of the worker; retries; takeover from Sendspin; deadlines | only what the user wants now sounds; lists advance only on natural ends |
| SD source | mount, card presence, open file | poll, mount, listing, play | a card pulled while a task reads | no access after unmount |
| Stream source | ring buffer, reader task, title and cover under a lock | connect, read, livemeta | producer and consumer that both wait; a late title of an earlier station | no lost or reordered bytes; no deadlock; titles belong to the station on air |
| Sendspin source | session, active stream, one-place command slot | stream start/end/clear, commands | callbacks on two tasks | the output is taken and given back in pairs |
| Memos and walkie-talkie | record/preview/send state, the RAM take, inbox files | record, preview, send, receive | one state variable written by LVGL and by the worker | a take is never dropped while it is sent; a file being sent is not unmounted |
| Request queue | one place, and what each producer latched when it asked: refresh owner and generation, `s_dl_queued`, `s_tone_running`, `s_memo_peer_count` | `req_post`, `req_abandoned`, `play_task`'s dispatch | a request dropped, served or cancelled between any two steps of two cores | no latch outlives its request; what the user wants to hear is served |
| Podcast feeds, downloads | feed cache, download job, episode marks | refresh, download, keep, resume | interruption and power loss at any point; a manifest that is refreshed under a saved cursor; writes, deletions and reads that fail | a job skips nothing it owes and ends; the episode limit holds; flash is never ahead of the work |
| Resume positions | a table of 32 entries, a file on the card, a file in flash | set, get, clear, save, load | no atomic rename on FatFs; two media that may each refuse; a full table | a boot finds the last save; the oldest position goes first; one entry per episode |
| Configuration | one record under a mutex, NVS | get, transactional set | several writes that may fail one by one | readers see whole records; what is saved is what was accepted |
| Network | station state, retry counters, saved networks, bench, setup hotspot | connect, reconnect, failover, roam, fall back | five tasks and an event queue around one station, that drop what they see while another repairs | somebody always acts on a station that is down; it reconnects; the hotspot opens when nothing ever works |
| Web interface | update status, screenshot buffer, command slot | HTTP handlers | hand-off between httpd and LVGL | one request's answer is not another's |
| Library, statistics, Home Assistant | index, 30-day ring, one pending slot | scan, load, record, post | scan against load, day change, slot overwritten | counts and newest values survive |
| Alarm clock, timer ring, sleep fade | alarm state, latch of fired minutes, saved volume, beep flags, fade | 1 Hz tick, snooze, stop, beep on the worker | a beep in a one-place queue; two fades of one volume; the hour that comes twice; two owners of one beep | an alarm fires once, on time, is heard, and gives the volume back |
| Other engines without a screen | quiet windows, usage counter, chronometer | ticks and pure functions | midnight, week wrap | windows that cross midnight work |
| Decoders, tags, livemeta parser | - | pure functions over bytes | formats | not modelled: signal processing and parsing |

The remaining parts (layout, fonts, texts, board bring-up, log ring, vendored
decoders) keep no protocol state. `PROJECT.json` lists every component with its
status, and every hazard with the line where it bites.

How they interact: LVGL calls into sources, audio and stores directly; it hands
long work to the worker through the queue; the worker reports back through
flags that LVGL polls in its ticks. The web interface never touches the UI: it
leaves commands that LVGL picks up. Sources meet at the arbiter and in
`audio.c`.

## 2. The modules

| Module | Models | Extends / uses |
|---|---|---|
| `AudioOutput`, `MCAudioOutput` | `audio_arbiter.c`, `audio.c` without volume | |
| `AudioVolume` | volume and ceiling of `audio.c` | |
| `PlayIntent` | what playback promises its user (abstract) | |
| `Playback` | `ui.c` play path, `play_task`, the play functions of `source_sd.c` and `source_stream.c`, Sendspin's hold on the output | instances `PlayIntent` |
| `Requests` | `req_post`, `req_abandoned`, the refresh latch, the job flags, tone and peer requests in `play_task` | |
| `DownloadJob`, `MCDownloadJob` | `worker_run_job`, its scheduler and remote commands | |
| `LruPositions` | what a table of positions promises (abstract) | |
| `ResumeTable`, `MCResumeTable` | `podcast_resume.c` | instances `LruPositions` |
| `Wifi`, `MCWifi` | the station, failover, roaming and hotspot of `net.c` | |
| `StreamSource`, `MCStreamSource` | `source_stream.c` from the connection to the join | |
| `AlarmClock`, `MCAlarmClock` | alarm engine, beep, timer ring, sleep fade, parental block of `ui.c` | |
| `AudioOutputProofs`, `PlaybackProofs`, `RequestsProofs`, `DownloadJobProofs`, `ResumeTableProofs`, `WifiProofs`, `StreamSourceProofs`, `AlarmClockProofs` | theorems | the module named, `TLAPS` |

The `MC` modules hold the values of the constants that a configuration cannot
write. Definitions whose comment begins with "Mutant" are wrong variants of the
operator next to them, with which the property that names the hazard fails.

### AudioOutput

A client is a task that takes the arbiter. `pc[c]` says where it is between
`audio_arbiter_acquire` and `audio_arbiter_release`. `writer[c]` is where the
task that calls `audio_write` is: for a local client the same task, so
`audio_close` waits for it; for Sendspin another one, so it does not. `s_lock`
is not a variable: every critical section is one step except `audio_open`'s
power-up, which holds the lock for the 80 ms settle (`pc = "settling"`,
`LockFree`). `audio_write` is split where the code releases nothing but reads
and writes shared flags: the pause loop, the chunk, the clearing of
`s_unmute_pending`, the amp pin. The close timer is `armed`, and its callback,
once dispatched, `fired`: it can wait for the lock while a stream reopens.
The failures of `esp_codec_dev_open`, of a write and of the capture device are
branches. Sample data, gain and register writes are left out.

### AudioVolume

`audio_set_volume` clamps, stores and applies without a lock: three steps per
calling task, of which the code has two, LVGL and Sendspin. Only LVGL lowers the
ceiling. `audio_open` reads `s_volume` and writes the codec in two. The run that
uses it is a finding.

### Playback and PlayIntent

Variables keep the names of the code: those under `s_play_mux`, the queue, the
per-source variables under each `s_stop_mux`, the output, Sendspin. `ui` and
`goal` are LVGL's place in `ui_play`/`ui_stop`, `pc` and `req` the worker's
place and request. Each critical section is one step, and each unprotected read
of something another task writes is one. `ui_play` is six steps: cancel,
unpause, stop one source, stop the other, end the Sendspin session, arm, post.
The cover read, the HTTP connect, the decode and the retry delays are places
where the worker stays while others move. Two sources share one set of actions,
with the differences (a stream waits for the takeover, retries, joins its reader
task, completes only as a list item) in the guards. `outcome` is how
`decode_run` returned: it answers ESP_OK at the end of the data, on a read fault
and on a lost connection alike, and what the sources can tell of it afterwards
(`ferror`, the announced length) is `FellShort`; `Record` and `JoinReader` apply
it. What they cannot tell (an .m4a, no announced length, the last 64 KB, a write
to the output that failed) is the outcome `cut`, and completes. Memo, talkie and
listing requests appear as one kind `other` that occupies the queue and the
worker.

`PlayIntent` numbers the plays: a wish is raised, withdrawn, and only a standing
wish starts to sound. `Playback` implements it with `wish` read off the newest
request and the generation of its source: the request stands until a stop of its
source.

### Requests

The same queue as in `Playback`, seen from the producers. `ui` cuts `req_post`
where another core can get in between: `refresh_cancel` (under `s_refresh_mux`),
the peek, `req_abandoned`, the latch of a refresh (under the mux), the
overwrite. `pc` and `req` are the worker's. Kinds that differ in nothing they
latch are one kind: the beep counts as a play, both refreshes as one. What a
play, a job or a refresh does while it runs takes time here and nothing else;
`Playback` and `DownloadJob` have the inside. The memo and talkie requests are
left out. `BrowsePeers`/`FoundPeers` are the two ends of the mDNS query.

### DownloadJob

`s_dljob` is the job in memory and `saved` the one in NVS; `Persist` writes
both or, when the write fails, memory alone; `Reboot` reads the second, be it an
older job. The worker goes through the phases of `worker_run_job` podcast by
podcast and episode by episode. A manifest is a list of episodes without
repetition, and so is the feed, to which a podcast adds at the top and from which
it withdraws anywhere; both together move an episode. `Refreshed` is what
`podcast_refresh` may write: the feed, and behind it, in their old order, entries
that the feed has dropped and the card holds, not necessarily all of them (memory,
the list's capacity). Without a card the program keeps dropped entries by a mark
instead; the lists it may write then are among those of `Refreshed` as long as
what is marked is on the card that is out. So the indices that a cursor was saved
in shift, shrink and move as they do in the program. `PruneFallsShort` is every
way in which `job_prune` leaves a podcast above its limit, `NoMemory` and
`Unreadable` what a list that cannot be read does to the downloads.

The history variables `due` and `tried` say which episodes were in the windows
when the job set out and which it has come past, `run` which job a run began with,
`unlimited` which podcasts it could not limit, and `disturbed` that the cursor
does not mean any more what it meant: the job was set up under the run of another
one, a reboot brought it back in place of a later one whose writes all failed, or
the lists at or before the cursor could not be read or lost or moved entries
while it waited. The worker's queue is reduced to "queued"; `busy` is any other
request that holds the worker without sound. The five idle minutes, Wi-Fi and the
free space before maintenance are left out: the scheduler may wait as long as it
likes and not forever. The playing episode, the favourites and the alarm tracks
are one constant set `Protected`. The configuration does not change.

### ResumeTable and LruPositions

One save of `podcast_resume.c` is up to three steps: the temporary file is
written (`pc = "card"`), the old file removed (`removed`), the new one renamed;
if the card refuses any of it, the table goes to flash (`flash`), where it
stays when a later save reaches the card again. Power may be lost, and the
card come out or go in, before every step. `home` and `saved` are history: where
the last save that succeeded lies, as long as a boot will look there first. A
file holds a whole table, is missing, or is of an older format (`OldFormat`, only
as a leftover of an earlier firmware), which a boot takes for an empty table
without a look at the other file: `fwrite` is to a temporary file. A read that
fails gives an empty table as well (`InitFails`). The hash of the path is the
key. `LruPositions` knows no places and no media: a
set of at most `Cap` entries, each newer than all there were when it came, of
which the oldest goes when there is no room, and a set of whole tables that
storage holds. `ResumeTable` implements it with the entries of its array and of
its two files.

### Wifi

Five tasks, each with its own place: `boot` (the caller of `net_start`), `ev`
(the event task), `rc` (the timer task), `failover`, `ap` and `roam` (the
short-lived ones). They are cut between what they check and what they do about
it, since none of them holds a lock. `link`, `config` and `events` are the
driver: it refuses a connection unless the station is started and idle, and a
configuration while it connects, and it posts events to a queue. `Strongest` is
the order of a scan; `joinable` the networks that accept the device, which
changes. Lost links, failed scans, refused calls and task creations that fail
are faults, of which there are at most `MaxFaults`; so is an attempt that ends
while another task is in the middle of its work, because attempts take seconds
and the work milliseconds (`InSeconds`). At least one network is stored.

### StreamSource

A body is a sequence of units, of which every `metaint`-th is followed by one
metadata block, and `announced` says whether the server gave its length. The
places of the worker are the blocking calls of
`source_stream_play_generation`; `reader_task` reads HTTP into its chunk and
sends it to the ring buffer, which blocks while it is full; `stream_read`
drains it. `holds`, `client` and `decoy` are what has to be given back. The
MP4 path (`hseek_read`) reads the connection itself. `rf_poll_task` is the
livemeta poller, one per play, which outlives it; its check of `s_rf_gen` and
its write of the title are two steps. `play_task` may ask again under the same
generation, which is the reconnect.

### AlarmClock

The LVGL task runs one handler at a time, so a handler is a step; the 1 Hz tick
is three (`tick_alarm`, `tick_sleep_engine`, `tick_parental_block`), because the
worker on the other core moves between them. `wall` counts minutes and `Local`
is what `localtime` makes of them: the clocks go back once, by `BackBy` at
`BackAt`; `SetClock` and `CorrectClock` are SNTP, and `stepped` marks the tick
that carries its jump. `worker` is the play or beep it serves, down to the
moment between taking the beep's request and having the output (`acquire`),
where a beep can be lost; a beep that sounds may break off when the codec
refuses a write (`BeepBreaks`). `sendspin` is the session and `streaming` its
stream: `audio_is_active` asks for an open output, so a session whose stream is
closed is no sound. `elapsed` are the three ages of a ring that the code tells
apart (20 s for the source, the ramp's 60 s, 30 min). The volume has a few levels;
a ramp and a fade may pass through any of them. A minute may pass without a tick
that looked at it. `userVol`, `rung`, `looked` and `excused` are history.

## 3. The runs

| Run | Instance | What it shows |
|---|---|---|
| `audio` | worker (plays, records), tuner (records), Sendspin; 2 formats | `OneOwner`, `OpenIsPowered`, `CaptureExcludesPlayback`, `OnlyLateUnmute`; `IdleCodecCloses` under fairness |
| `playback` | 3 generations, 1 retry, Music Assistant, other requests, faults of card, connection and output, parental block, no remote pause after a stop | `AdvanceWasEarned`, refinement of `PlayIntent`; `StopEnds`, `PlayLeavesQueue` under fairness |
| `requests` | 4 requests of 5 kinds, Music Assistant | `NoWedge`, `RefreshReports`, `ToneVisible`, `CancelStays`; `PlayServed` under fairness |
| `download_job` | 2 podcasts of 3 and 1 episodes, the first limited to 2 and the one the user asks for again; 2 jobs, 1 interruption, failure or withdrawal, 1 reboot, cursor saved every 2nd episode | `KeepLimit`, `FlashBehind`, `NothingSkipped`; `JobEnds` under fairness |
| `resume_table` | 3 episodes, room for 2, 4 ages, a new device or an old file on the card | `BootFindsLastSave`, refinement of `LruPositions` |
| `wifi` | 4 networks in range, the thresholds of the code (3 and 8), 3 faults | `NeverStranded`; `Reconnects`, `HotspotOpens` under fairness |
| `stream_source` | a station with metadata, one with livemeta, an episode, an episode as MP4; 3 units, a ring of 2; 2 plays, 1 stop | `InOrder`, `CleanedUp`, `CompletedIsWhole`; `PlayEnds` under fairness |
| `alarm_clock` | 2 alarms of the same minute, 2 days of 4 minutes, the clocks go back 2 minutes, 2 levels, 4 minutes of clock, 2 moves | `VolumeRestored`, `FiresOnce`, `RingsOnTime`; `AlarmSounds` under fairness |
| `stream_completed` | as `stream_source` | a streamed .m4a that is cut counts as finished (finding) |
| `volume` | LVGL and Sendspin, volumes 0..2 | a request that was clamped before the ceiling sank is stored after it (finding) |
| `alarm_beep` | as `alarm_clock` | the timer's Stop, pressed too early, leaves the beep to sound (finding) |
| `alarm_quiet` | as `alarm_clock` | after an alarm that beeped, quiet hours no longer stop what plays (finding) |

### Bounds

`MaxGenerations` bounds how often the user starts or stops something;
three generations give a play, a play or stop that overtakes it, and one that
overtakes that, which is all a queue of length one and one worker can hold at a
time. `Retries` is the length of `retry_delay_s` (6 in the code); every iteration runs the same steps, so one retry shows the
loop and its exit. Two formats make a reopen fast or slow. Playback disables the
deadlock check because its user may stop asking; `AudioOutput` checks it. `WebToggle`
is FALSE: a remote pause after a stop (`ui.c` 2978) holds the decoder that is to
end, and `StopEnds` fails with it.

`Requests` bounds the posted requests by `MaxGeneration`: four are one at the
worker, one in the queue, one that drops it and one after. `DownloadJob`: one
podcast with a limit and one without; three episodes are one more than the
limit, so there is something to delete and a cursor that shifts; `Throttle` 2
leaves episodes between two saved cursors. Two jobs are one that the user asks
for (the first podcast, every episode again) and one of maintenance, in any order
and one over the other. `MaxTroubles` 1 is one play, one other request, one
failure of any kind or one episode withdrawn, beside one loss of power and the
refreshes, which are not counted: what two failures do together is the theorems'
(section 4). A device with no job and nothing due stops, so deadlock is not
checked there; it is in `requests`.

`ResumeTable`: three episodes are one more than the table holds, and four ages
let it evict, restart and go on. One position is enough: an entry is written
whole, and its age tells two saves of an episode apart. Episodes are symmetric.
`Wifi`: with four networks a failover can leave the strongest, bench it, and
go round among the rest; the code allows 16, which adds more networks that have
no turn (section 5); three faults are what a station whose hotspot fails to start
needs to recover (section 5). A connected device with no fault left stops, so
deadlock is not checked there; nor in `stream_source`, whose user stops asking.
`StreamSource`: a body of three units does not fit the ring
with the chunk and has a metadata block inside; the second play meets a reader,
a poller and a title of the first; `SLACK` 1 is less than the unit that a cut
takes away. `AlarmClock`: four minutes of clock contain the alarm's minute, the
jump back and the minute again; two moves are a fault and an answer to it.
`FiresOnce` holds because an alarm's latch remembers one minute and a clock that
goes back, by the change of the clocks and by at most `MaxMoves` corrections of
a minute, does not get past it twice in a day; `NeverTwice` (section 4) says so for
every such clock, and it is not claimed beyond that.

### Fairness

`AudioOutput`: the timer expires, its callback runs, and the settle
delay ends. Clients owe nothing. `Playback`: LVGL finishes the call it is in and
its timer calls `tick_advance`; the worker takes every step that waits for
nothing but a bounded delay or a timeout; a decoder that was told to stop
returns (strong fairness, since it looks at `s_paused` every few milliseconds
while a person or the web toggles it); the Sendspin task drains its slot.
`Requests`: LVGL finishes the handler it is in, and the worker takes each step
of its own; that a refresh, a job or a track ends without being cancelled is not
assumed. `DownloadJob`: the worker goes on, the scheduler starts a job that may
start, the sound ends and other requests are served; nothing makes a download
succeed. No fairness makes a stream end by itself, a user act or a server end its
session.

`Wifi`: the event loop, the timer task and every task that was created get to
run; the driver answers, the timer fires and the failover's scan returns
although others have work now and then, hence the strong fairness for what takes
seconds. Nothing makes a network accept the device: `Reconnects` assumes that
one of the three strongest (`Turns`) does in the end, `HotspotOpens` that none ever does.
`StreamSource`: the tasks are scheduled and HTTP times out on a silent server.
`AlarmClock`: the tick comes every second, the worker's steps end (a beep that
was told to stop looks every 50 ms), and a ring gets older. Nothing makes a source
connect or keeps it from failing, nothing is assumed of Music Assistant, and
nobody has to press a button. The tick is slower than the beep's
look at its stop flag, and half an hour passes only with a sound: those two are
in the guards, and they are the two places where the model uses real time.

## 4. The proofs

All are checked by TLAPS for every value of the constants that satisfies the
named assumptions of the module. In each the property is not inductive as it
stands; what was added is the argument.

- **`AudioOutputProofs`**: any clients and formats. That a capture excludes
  playback needs to know why no stream is open when `audio_record_open` flushes
  the codec. The invariant `IInv` adds that `s_open` holds exactly while the
  owner plays and `recording` exactly while it records, which gives
  `ArbiterIsExclusive`, `LazyCloseIsSafe` and `CaptureIsExclusive`.
  `GapsAreQuiet` adds that a local writer is inside `audio_write` only while its
  client plays, so that the one writer which can unmute an output that was closed
  under it is a Sendspin one.
- **`PlaybackProofs`**: any number of generations and retries. One idea carries
  it: of all requests about (being served, waiting, posted last), only the newest
  can be current with its source, because both sources are stopped before a
  request is posted (`OnlyNewest`), and generations never run ahead of what was
  posted (`Order`). `Judged` and `Reported` say what the worker has read when it
  judges an end, and what an advance was set for: the outcome of the decode is
  followed from its return through `Record`, `JoinReader` and `Judge`, at each of
  which a stop or a newer play may come. From `IInv` follow `TypeCorrect`,
  `AdvanceIsEarned` and `KeepsIntent`: every step of the protocol is a step of
  `PlayIntent` or none.
- **`RequestsProofs`**: any number of requests. `Overwrite` loses the request
  that waits, and the worker forgets its own when it is done; so `IInv` adds which
  request a latch belongs to (`RefreshHeld`, `JobHeld`, `OthersHeld`), that a
  request that waits no longer counts once `req_post` has released its latch, and
  what each task holds where it is (`Shape`): `TypeCorrect`, `NothingWedges`.
  `NewestReports` adds that requests are served in the order of their refresh
  generations and that whoever carries the newest holds the button
  (`RefreshFresh`); `ToneStaysVisible` that a tone loses its flag only to a request
  that is about to replace it (`ToneHeard`). `CancelReachesTheJob` is an action property:
  only the scheduler lowers the cancel, and only while nothing marks a job as
  queued or running, which is the case only when there is none (`JobMarked`).
- **`DownloadJobProofs`**: any podcasts, limits, lists, failures and losses of
  power. `Limited` says which podcasts a run has cut back so far: the run counts
  them in order, and lists change under it only before that (`LimitIsKept`). For
  `NoEpisodeSkipped`: `Clear(p, k)` says that the first k entries of p's window are
  dealt with as far as the job owes them, `Good` that a job's cursor has only
  such entries before it, for the job in memory and, as an earlier state of it
  (`Behind`), for the one in flash, whichever writes failed (`FlashNeverAhead`);
  `WorkerHolds` says what the worker may rely on in each phase. The lemma
  `GrownClear` is the heart of it: a list that grows above entries shifts indices so
  that "the first k are clear" stays true of fewer old episodes, never of other ones.
  What that lemma cannot say of lists that shrink or move entries behind a waiting
  cursor is what `Disturb` gives up, and TLC finds the skipped episode if it does not.
- **`ResumeTableProofs`**: any episodes, positions and capacity. The eviction
  takes "the" oldest entry and a boot "the" newest age; that both exist is the
  least-number principle. `TableInv` adds that no episode and no age occurs twice
  in memory or in either file, `HomeInv` that the last save is where `home` says:
  `TypeCorrect`, `EntriesStayUnique`, `BootFinds`. `TableIsLru` is the refinement:
  since no two places hold the same entry, the table has as many entries as places
  (`EntriesCount`), so both levels agree on when it is full, and what `Slot` leaves is
  what `LruPositions` lets stay (`SlotLeaves`); a step of a save is storage that gains
  the present table or loses one, and a loss of power and a boot are restarts.
- **`WifiProofs`**: any networks, thresholds and faults. That nobody is stranded
  needs to know which task stands behind each flag (`FlagsAreTrue`), that nothing
  moves before the networks are ordered (`Boot`), that a hotspot that restarts the
  driver holds the link down until the start (`Down`), and that `s_state` is
  ahead of the link only by events still in the queue (`Lag`): `NobodyStranded`.
  `TypeCorrect` needs that the strongest of some networks is one of them, which is the
  least-number principle again.
- **`StreamSourceProofs`**: any body, `metaint`, size of a read and of the ring, slack
  and number of plays. `Ring` says that the ring and the reader's chunk hold the next
  units of the body, and `Tally` why: as long as the reader has dropped nothing, the
  units that came off HTTP are so many blocks of `metaint` units and a metadata
  block and the part of the block it is in, so that the next unit is audio just
  when the code takes it for audio. `Stages` ties the reader's life to the worker's
  place, `Handles` says what is open at each place, `Outcome` what `s_completed` was
  set for: `StreamTypes`, `BodyInOrder`, `AllCleanedUp`, `MarkedWhenWhole`.
- **`AlarmClockProofs`**: any alarms, calendar, volumes and bounds. `VolumeInv` says which of the three
  volumes (ring, fade, user) each state of the engine owes; `LookedInv` that an
  idle engine that has looked at a minute has fired all of it: `TypeCorrect`,
  `VolumeComesBack`, `NoMinuteLeftOut`. `NeverTwice` assumes that neither the change of the clocks nor the
  counted corrections take a whole day back; otherwise the minute after the one in the
  latch could come again. `RungInv` says of every minute an alarm fired at that local
  time has come to it, and that if the latch no longer holds it, local time will
  not come back to it (`Gone`): what is past is bounded by `Progress`, the minutes of
  the clock plus the corrections used, which never goes down.

Only model-checked: all liveness (`IdleCodecCloses`, `StopEnds`,
`PlayLeavesQueue`, `PlayServed`, `JobEnds`, `Reconnects`, `HotspotOpens`,
`PlayEnds`, `AlarmSounds`), which is out of this prover's reach. Every other property
of a passing run is a theorem.

## 5. Known deviations

What the models show and the properties do not claim. The first four have a run that
finds them; the others were found with the modules (a constant, a bound or a
property changed, or a case taken out of an excuse) and are why a bound, an excuse
or an assumption above is what it is.

Findings:

- *Volume ceiling* (`audio.c` 396): `audio_set_volume` is called by LVGL and by the
  Sendspin task (`source_sendspin.cpp` 143). A request clamped to the old ceiling is
  stored after LVGL has lowered it, against `audio.h` 45-47. Run `volume`.
- *Streamed .m4a* (`source_stream.c` 888): `hseek_read` answers 0 when the
  connection is lost, and the MP4 path takes that for the end of the episode:
  the resume point is dropped and the list advances. Run `stream_completed`.
- *The timer's Stop* (`ui.c` 7778) looks at the arbiter: pressed before the worker has
  taken the beep's request or the output, it stops nothing, and the beep sounds with
  no button left to end it, against `docs/manual/en.md` 251-252. Run `alarm_beep`.
- *Quiet hours after a beep* (`ui.c` 9399): `s_alarm_beeping` is cleared only by the
  next alarm, so after a ring that had to beep `tick_parental_block` does not stop
  what plays, and the daily limit is not counted (`ui.c` 9092-9093). Run
  `alarm_quiet`.

Audio:

- The Sendspin writer may unmute the amp (`audio.c` 231) after `audio_close` of the
  loop task muted it, against the comment at `audio.c` 39-43:
  `AmpOnlyWhilePlaying` fails in the run, and `OnlyLateUnmute` says that this is the
  only way it does.
- `audio_open` reads `s_volume` while another task lowers the ceiling
  (`audio.c` 210): the codec keeps the louder value, against `audio.h` 46-47 as well.
- A stop that falls into the 80 ms settle of an opening stream is undone by the
  unmute at `audio.c` 213.

Playback:

- A request of another kind that waits in the queue when a track ends makes
  `play_task` skip the report (`ui.c` 1688): the list stops there. So does a Sendspin
  session. No property claims that every end is reported.
- What `outcome = "cut"` stands for advances a list: a write to the output that fails
  in the middle of a file, a stream of no announced length, an .m4a.
- A remote pause after a stop holds the decoder that is to end (`ui.c` 2978), until
  the next play: `StopEnds` fails with `WebToggle` TRUE.
- A file play does not wait for Sendspin to let go of the output, as a stream
  play does (`ui.c` 1591 against 1600-1609), and fails if it is faster.
- The sleep timer asks `audio_is_active()` (`ui.c` 9362), so a stream between two
  attempts survives the deadline and comes back, against
  `docs/manual/en.md` 189-190. The parental block asks for `s_play_retrying` as
  well (`ui.c` 9406), but not for a play that is being opened for the first time.
- The reconnect loop of a stream checks for a Sendspin session once per attempt
  (`ui.c` 1622): a session that starts during the connection loses the output to it.

Downloads:

- A job asked for while another runs overwrites `s_dljob` under it: the run goes on
  with the new job's fields, may set its `refresh_done` and its cursor, and clears
  its `active` when it ends (`ui.c` 1358), although the comment at 3031-3032 says that
  "the new job takes over". The run has such jobs (`ui_remote_download` while
  `s_downloading`), and no property holds them to their episodes (`disturbed`).
- A refresh between two runs may drop or move entries behind a saved cursor
  (`podcast.c` 708-772), which is an index (`ui.c` 1272): episodes that slid
  below it are skipped. `NothingSkipped` is about lists that only grew there.
- A list that cannot be read when its podcast's turn comes counts as empty, and
  the job goes on behind it (`ui.c` 1274): its episodes wait for the next job.
- `job_prune` gives up on a podcast silently (`ui.c` 1186-1191, 1204), and
  the run fetches into it all the same: `KeepLimit` leaves out the podcasts of
  `unlimited`.
- With a job waiting and the worker busy without sound, the scheduler falls through
  to maintenance and replaces the job (`ui.c` 8332). The model has it.
- A write of the job to flash that fails is reported and the run goes on from
  memory (`ui.c` 1017). The model has it: a reboot then repeats work, or brings an
  older job back.

Resume positions:

- The card cannot rename onto a file, so between the removal and the rename the
  only copy is the temporary one, which no boot reads. `BootFindsLastSave` claims
  nothing for a loss of power there.
- A save that the card refuses goes to flash, but a card that still holds an older
  file is read first at the next boot. `BootFindsLastSave` claims nothing then.
- A file that the boot can open and not read, or that has an older format, gives an
  empty table although the other medium may hold a good one
  (`podcast_resume.c` 150-171).

Network:

- With four networks in range of which only the weakest accepts the device, the
  failover goes round among the other three: the bench remembers one network
  (`net.c` 166), so the strongest is picked again before the fourth has had a turn.
  The run has four networks, and with `joinable # {}` instead of
  `joinable \cap Turns # {}` its `Reconnects` fails without any fault, against
  `docs/manual/en.md` 111-113.
- A hotspot that fails to start and whose restart of the station fails, too, leaves
  the driver stopped with a timer that keeps trying to connect; it takes three
  faults, and the station comes back with the next hotspot attempt.
- `s_total_fails` counts only before the first connection, so a device that loses a
  network for good does not bring the hotspot back, which `en.md` 113 reads as
  if it did. `HotspotOpens` says "never reaches".

Stream:

- The livemeta poller checks its generation and then sets the title
  (`source_stream.c` 707-712): the title of a station that was left may stay.
- A live station that drops sets `s_completed`; the header says it does not. A
  list item cannot be a station, so nothing advances.
- A chunked body announces no length, so a cut is not told from an end;
  `CompletedIsWhole` is about announced lengths.

Alarm clock:

- A snooze that fires again overwrites the alarm's latch (`ui.c` 7847), so on the night
  the clocks go back an alarm that was snoozed can ring again an hour later.
  `FiresOnce` counts anew from a snooze.
- While one alarm rings or is snoozed, the minutes of the others pass unlooked at;
  so do the minutes that an SNTP step jumps over and the one in whose last second a
  ring ends. `RingsOnTime` is about minutes at which the idle engine has looked. A
  parental edge while SNOOZED is applied without stopping anything.
- A beep that the engine has heard (`s_alarm_beep_confirmed`) and that then breaks
  off, because the codec refuses a write (`ui.c` 1403), is not tried again
  (9289-9295): the ring stays silent, against `docs/manual/en.md` 314-315 ("the
  alarm always sounds"). A play from the web during a ring leaves the ringing screen
  and is stopped when the ring is 30 minutes old; a beep that was confirmed and then
  ended by a web play or stop is not tried again; a web stop of a ringing radio turns
  it into the beep; a sleep timer armed during the ring stops it. `excused` takes
  these out of `AlarmSounds`, until the next ring.
- A volume chosen by the user in the last second of a fade is overwritten when the
  fade restores its own; `UserVolume` is not modelled during a fade.

Memos and walkie-talkie (not modelled): the end of an old send overwrites the
state of a newer recording (`ui.c` 5132). Leaving the talkie screen and opening
it again both set `s_memo_state` to idle (5605, 5614) while the worker may still
read the file of a send; the card poll at `ui.c` 8732 asks only for that state,
so it may unmount the card under that read.

## 6. What is left

The plan, in this order: memos and walkie-talkie on the request slot of
`Requests`; the card (poll, mount, references by open files); the quiet windows and
the usage counter as pure functions against a minute-by-minute definition; the
transactional configuration (`config_store.c`), with a configuration that changes
under a job.

Not modelled, and why: signal processing, decoders, tags, XML and JSON parsing, TLS
and HTTP, drawing, fonts and texts. These are most of the repository's lines (the
vendored decoders `dr_flac.h`, `dr_mp3.h` and `minimp4.h`, the generated fonts, and
the screens in `ui.c`), and none keeps state that two tasks share, so the modules
cover a small share of the lines and most of the protocol state. Web interface,
statistics, music library and Home Assistant client have one slot or one table each
and are listed in `PROJECT.json` with what they would need.

Time is abstracted to the order of events, except where section 3 names it. The
cache and memory order of the two cores is taken as sequentially consistent: the
flags that cross tasks are volatile, atomic or under a spinlock.
