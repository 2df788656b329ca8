------------------------------ MODULE StreamSource ------------------------------
(***************************************************************************)
(* The stream source (source_stream.c): source_stream_play_generation on   *)
(* the worker, the reader task that fills the ring buffer from HTTP, the   *)
(* decoder that drains it, the livemeta pollers that outlive the play that *)
(* started them, and source_stream_stop from the UI. The body of a stream  *)
(* is a sequence of units, of which every metaint-th is followed by one    *)
(* metadata block; sizes are in units. A play that ended is retried by     *)
(* play_task under the same generation.                                    *)
(***************************************************************************)
EXTENDS Integers, Sequences

CONSTANTS
  Streams,                       (* what a server may answer                *)
  Length,                        (* audio units in a body                   *)
  STREAM_BUF, PREBUFFER, READ_CHUNK, SLACK,
  WritesFail,                    (* whether the output may fail             *)
  MaxPlays, MaxStops             (* bounds: plays and stops                 *)

ASSUME StreamAssumption ==
  /\ Streams # {} /\ Streams \subseteq [metaint : Nat, announced : BOOLEAN,
                                        livemeta : BOOLEAN, mp4 : BOOLEAN]
  /\ Length \in Nat \ {0} /\ STREAM_BUF \in Nat \ {0} /\ READ_CHUNK \in Nat \ {0}
  /\ PREBUFFER \in 0..STREAM_BUF
  /\ SLACK \in Nat
  /\ WritesFail \in BOOLEAN
  /\ MaxPlays \in Nat \ {0} /\ MaxStops \in Nat

VARIABLES
  s_stop, s_generation, s_completed, s_completed_generation, s_rf_gen,
  s_preroll_decoy, s_icy_title, s_sb,
  asked,                  (* the request play_task works on, if any         *)
  pc, play, err,          (* the worker: its place, its play, its result    *)
  client, decoy, holds,   (* open connections; whether it has the arbiter   *)
  pos, starved,           (* the decoder: units read; a read returned 0     *)
  reader, wire, left, chunk,   (* the reader task, wire: units off HTTP     *)
  poller                  (* of each play                                   *)

generations == <<s_stop, s_generation, s_rf_gen>>
outcome     == <<s_completed, s_completed_generation>>
handles     == <<client, decoy, holds>>
decoder     == <<pos, starved>>
readers     == <<reader, wire, left, chunk>>
vars == <<generations, outcome, s_preroll_decoy, s_icy_title, s_sb, asked, pc, play, err,
          handles, decoder, readers, poller>>

Plays == 1..MaxPlays

Least(a, b) == IF a < b THEN a ELSE b

(* Where the i-th unit of audio is in the body of the current play.        *)
Audio(i) == IF play.stream.metaint = 0 THEN i ELSE i + (i - 1) \div play.stream.metaint

Whole == pos + SLACK >= Length

Init ==
  /\ s_stop = FALSE /\ s_generation = 0 /\ s_rf_gen = 0
  /\ s_completed = FALSE /\ s_completed_generation = 0
  /\ s_preroll_decoy = FALSE /\ s_icy_title = 0 /\ s_sb = <<>>
  /\ asked = <<>>
  /\ pc = "idle" /\ err = "ok"
  /\ play = [n |-> 0, stream |-> CHOOSE s \in Streams : TRUE, gen |-> 0, rf_gen |-> 0]
  /\ client = "closed" /\ decoy = "closed" /\ holds = FALSE
  /\ pos = 0 /\ starved = FALSE
  /\ reader = "off" /\ wire = 0 /\ left = 0 /\ chunk = <<>>
  /\ poller = [n \in Plays |-> [pc |-> "off", gen |-> 0]]

-----------------------------------------------------------------------------
(* The UI                                                                  *)

source_stream_stop ==
  /\ s_generation < MaxStops
  /\ s_generation' = s_generation + 1
  /\ s_stop' = TRUE
  /\ s_rf_gen' = s_rf_gen + 1
  /\ UNCHANGED <<outcome, s_preroll_decoy, s_icy_title, s_sb, asked, pc, play, err,
                 handles, decoder, readers, poller>>

(* ui_play has stopped what played, reads the generation and posts.        *)
Asks ==
  /\ asked # <<>> => asked[1].gen # s_generation
  /\ \E s \in Streams : asked' = <<[stream |-> s, gen |-> s_generation]>>
  /\ UNCHANGED <<generations, outcome, s_preroll_decoy, s_icy_title, s_sb, pc, play, err,
                 handles, decoder, readers, poller>>

-----------------------------------------------------------------------------
(* source_stream_play_generation, on the worker                            *)

At(p) == pc = p

Returns(e) == pc' = "returned" /\ err' = e

PlayBegins ==
  /\ At("idle") /\ asked # <<>> /\ play.n < MaxPlays
  /\ s_preroll_decoy' \in BOOLEAN
  /\ s_completed' = FALSE
  /\ s_rf_gen' = s_rf_gen + 1
  /\ IF asked[1].gen = s_generation
     THEN /\ s_stop' = FALSE
          /\ play' = [n |-> play.n + 1, stream |-> asked[1].stream, gen |-> asked[1].gen,
                      rf_gen |-> s_rf_gen + 1]
          /\ pc' = "clear"
          /\ UNCHANGED asked
     ELSE asked' = <<>> /\ UNCHANGED <<s_stop, play, pc>>
  /\ UNCHANGED <<s_generation, s_completed_generation, s_icy_title, s_sb, err, handles,
                 decoder, readers, poller>>

ClearsTitle ==
  /\ At("clear")
  /\ s_icy_title' = 0
  /\ pos' = 0 /\ starved' = FALSE
  /\ pc' = "resolve"
  /\ UNCHANGED <<generations, outcome, s_preroll_decoy, s_sb, asked, play, err, handles,
                 readers, poller>>

(* A playlist may not resolve; a decoy may not open.                       *)
OpensDecoy ==
  /\ At("resolve")
  /\ \/ Returns("fail") /\ UNCHANGED <<s_preroll_decoy, decoy>>
     \/ /\ s_preroll_decoy' = FALSE
        /\ decoy' \in IF s_preroll_decoy /\ ~s_stop THEN {"open", "closed"} ELSE {"closed"}
        /\ pc' = "connect"
        /\ UNCHANGED err
  /\ UNCHANGED <<client, holds, generations, outcome, s_icy_title, s_sb, asked, play, decoder, readers, poller>>

Connects ==
  /\ At("connect")
  /\ \/ Returns("fail") /\ UNCHANGED client
     \/ ~s_stop /\ client' = "open" /\ pc' = "acquire" /\ UNCHANGED err
  /\ decoy' = "closed"
  /\ UNCHANGED <<holds, generations, outcome, s_preroll_decoy, s_icy_title, s_sb, asked, play,
                 decoder, readers, poller>>

(* An MP4 needs random access: this connection is dropped for one per seek. *)
Acquires ==
  /\ At("acquire")
  /\ \/ Returns("fail") /\ client' = "closed" /\ UNCHANGED holds
     \/ /\ play.stream.mp4 => play.stream.announced
        /\ holds' = TRUE
        /\ IF play.stream.mp4 THEN client' = "closed" /\ pc' = "seek"
                              ELSE pc' = "start" /\ UNCHANGED client
        /\ UNCHANGED err
  /\ UNCHANGED <<decoy, generations, outcome, s_preroll_decoy, s_icy_title, s_sb, asked, play,
                 decoder, readers, poller>>

(* The ring is emptied for the new reader, whose task may not start.       *)
StartsReader ==
  /\ At("start")
  /\ \/ /\ Returns("fail")
        /\ client' = "closed" /\ holds' = FALSE
        /\ UNCHANGED <<readers, poller>>
     \/ /\ ~s_stop
        /\ reader' = "top" /\ wire' = 0 /\ left' = play.stream.metaint /\ chunk' = <<>>
        /\ poller' \in IF play.stream.metaint = 0 /\ play.stream.livemeta
                       THEN {poller, [poller EXCEPT ![play.n] = [pc |-> "loop", gen |-> play.rf_gen]]} ELSE {poller}
        /\ pc' = "prebuffer"
        /\ UNCHANGED <<client, holds, err>>
  /\ s_sb' = <<>>
  /\ UNCHANGED <<decoy, generations, outcome, s_preroll_decoy, s_icy_title, asked, play, decoder>>

Prebuffers ==
  /\ At("prebuffer")
  /\ s_stop \/ reader = "done" \/ Len(s_sb) >= PREBUFFER
  /\ IF s_stop THEN pc' = "ended" /\ err' = "fail" ELSE pc' = "decode" /\ UNCHANGED err
  /\ UNCHANGED <<generations, outcome, s_preroll_decoy, s_icy_title, s_sb, asked, play,
                 handles, decoder, readers, poller>>

(* Nothing comes of a read after a stop, the end of the reader, or 8 s.    *)
stream_read ==
  /\ At("decode")
  /\ IF s_stop \/ s_sb = <<>>
     THEN ~starved /\ starved' = TRUE /\ UNCHANGED <<pos, s_sb>>
     ELSE \E k \in 1..Len(s_sb) :
            /\ pos' = pos + k
            /\ s_sb' = SubSeq(s_sb, k + 1, Len(s_sb))
            /\ UNCHANGED starved
  /\ UNCHANGED <<generations, outcome, s_preroll_decoy, s_icy_title, asked, pc, play, err,
                 handles, readers, poller>>

hseek_read ==
  /\ At("seek")
  /\ \/ ~s_stop /\ pos < Length /\ pos' = pos + 1 /\ UNCHANGED starved
     \/ ~starved /\ starved' = TRUE /\ UNCHANGED pos
  /\ UNCHANGED <<generations, outcome, s_preroll_decoy, s_icy_title, s_sb, asked, pc, play,
                 err, handles, readers, poller>>

(* decode_run: once it plays, a source that gives nothing, or an output    *)
(* that takes nothing, ends it like the end of the file does.              *)
DecodeEnds ==
  /\ At("decode") \/ At("seek")
  /\ err' \in IF pos > 0 /\ (starved \/ Whole \/ WritesFail) THEN {"ok", "fail"} ELSE {"fail"}
  /\ pc' = "ended"
  /\ UNCHANGED <<generations, outcome, s_preroll_decoy, s_icy_title, s_sb, asked, play,
                 handles, decoder, readers, poller>>

MutantTruncated == FALSE

truncated == play.stream.announced /\ ~play.stream.mp4 /\ ~Whole

Completes ==
  /\ At("ended")
  /\ s_completed' = (err = "ok" /\ ~s_stop /\ ~truncated)
  /\ s_completed_generation' = play.gen
  /\ err' = IF truncated /\ ~s_stop THEN "fail" ELSE err
  /\ pc' = "halt"
  /\ UNCHANGED <<generations, s_preroll_decoy, s_icy_title, s_sb, asked, play, handles,
                 decoder, readers, poller>>

Halts ==
  /\ At("halt")
  /\ s_stop' = TRUE
  /\ pc' = "join"
  /\ UNCHANGED <<s_generation, s_rf_gen, outcome, s_preroll_decoy, s_icy_title, s_sb, asked,
                 play, err, handles, decoder, readers, poller>>

MutantJoins ==
  /\ At("join")
  /\ Returns(err)
  /\ client' = "closed" /\ holds' = FALSE
  /\ UNCHANGED <<decoy, generations, outcome, s_preroll_decoy, s_icy_title, s_sb, asked, play,
                 decoder, readers, poller>>

(* The connection is closed when the reader is gone.                       *)
Joins ==
  /\ At("join") /\ reader \in {"off", "done"}
  /\ Returns(err)
  /\ client' = "closed" /\ holds' = FALSE
  /\ reader' = "off" /\ wire' = 0 /\ left' = 0 /\ chunk' = <<>>
  /\ UNCHANGED <<decoy, generations, outcome, s_preroll_decoy, s_icy_title, s_sb, asked, play,
                 decoder, poller>>

Completed == s_completed /\ s_completed_generation = s_generation

(* play_task tries again, or not.                                          *)
PlayReturns ==
  /\ At("returned")
  /\ pc' = "idle" /\ err' = "ok"
  /\ asked' \in IF Completed THEN {<<>>} ELSE {asked, <<>>}
  /\ UNCHANGED <<generations, outcome, s_preroll_decoy, s_icy_title, s_sb, play, handles,
                 decoder, readers, poller>>

-----------------------------------------------------------------------------
(* reader_task                                                             *)

ReadsOn ==
  /\ reader = "top"
  /\ reader' = IF s_stop THEN "done" ELSE "http"
  /\ UNCHANGED <<generations, outcome, s_preroll_decoy, s_icy_title, s_sb, asked, pc, play,
                 err, handles, decoder, wire, left, chunk, poller>>

AtMetadata == play.stream.metaint > 0 /\ left = 0

(* A block may be empty, or have no title.                                 *)
ReadsMetadata ==
  /\ reader = "http" /\ AtMetadata
  /\ wire < Audio(Length)
  /\ wire' = wire + 1
  /\ s_icy_title' \in {s_icy_title, play.n}
  /\ left' = play.stream.metaint
  /\ reader' = "top"
  /\ UNCHANGED <<generations, outcome, s_preroll_decoy, s_sb, asked, pc, play, err, handles,
                 decoder, chunk, poller>>

MutantWanted == READ_CHUNK

Wanted == IF play.stream.metaint > 0 THEN Least(READ_CHUNK, left) ELSE READ_CHUNK

ReadsAudio ==
  /\ reader = "http" /\ ~AtMetadata
  /\ \E r \in 1..Least(Wanted, Audio(Length) - wire) :
       /\ chunk' = [i \in 1..r |-> <<play.n, wire + i>>]
       /\ wire' = wire + r
       /\ left' = IF play.stream.metaint > 0 THEN left - r ELSE left
  /\ reader' = "send"
  /\ UNCHANGED <<generations, outcome, s_preroll_decoy, s_icy_title, s_sb, asked, pc, play,
                 err, handles, decoder, poller>>

(* The end of the body, an error, or a server silent for too long.         *)
ReadEnds ==
  /\ reader = "http"
  /\ reader' = "done"
  /\ UNCHANGED <<generations, outcome, s_preroll_decoy, s_icy_title, s_sb, asked, pc, play,
                 err, handles, decoder, wire, left, chunk, poller>>

MutantSendGivesUp == FALSE

SendGivesUp == s_stop

MutantSends ==
  /\ reader = "send" /\ ~s_stop
  /\ \E k \in 1..Least(Len(chunk), STREAM_BUF - Len(s_sb)) : s_sb' = s_sb \o SubSeq(chunk, 1, k)
  /\ chunk' = <<>> /\ reader' = "top"
  /\ UNCHANGED <<generations, outcome, s_preroll_decoy, s_icy_title, asked, pc, play, err,
                 handles, decoder, wire, left, poller>>

(* xStreamBufferSend, again until all is sent or the play is stopped       *)
Sends ==
  /\ reader = "send"
  /\ IF SendGivesUp
     THEN chunk' = <<>> /\ UNCHANGED s_sb
     ELSE \E k \in 1..Least(Len(chunk), STREAM_BUF - Len(s_sb)) :
            /\ s_sb' = s_sb \o SubSeq(chunk, 1, k)
            /\ chunk' = SubSeq(chunk, k + 1, Len(chunk))
  /\ reader' = IF chunk' = <<>> THEN "top" ELSE "send"
  /\ UNCHANGED <<generations, outcome, s_preroll_decoy, s_icy_title, asked, pc, play, err,
                 handles, decoder, wire, left, poller>>

-----------------------------------------------------------------------------
(* rf_poll_task                                                            *)

Current(n) == poller[n].gen = s_rf_gen

PollerTo(n, p) == poller' = [poller EXCEPT ![n].pc = p]

rest == <<generations, outcome, s_preroll_decoy, s_sb, asked, pc, play, err, handles, decoder,
          readers>>

(* The loops of the fetch and of the sleep look at s_rf_gen.               *)
PollerLeaves(n) ==
  /\ poller[n].pc = "loop" /\ ~Current(n)
  /\ PollerTo(n, "off")
  /\ UNCHANGED <<rest, s_icy_title>>

(* A title came; it is checked here and set in the next step.              *)
PollerChecks(n) ==
  /\ poller[n].pc = "loop" /\ Current(n)
  /\ PollerTo(n, "set")
  /\ UNCHANGED <<rest, s_icy_title>>

PollerSets(n) ==
  /\ poller[n].pc = "set"
  /\ s_icy_title' = n
  /\ PollerTo(n, "loop")
  /\ UNCHANGED rest

-----------------------------------------------------------------------------
Worker ==
  \/ PlayBegins \/ ClearsTitle \/ OpensDecoy \/ Connects \/ Acquires \/ StartsReader
  \/ Prebuffers \/ stream_read \/ hseek_read \/ DecodeEnds \/ Completes \/ Halts \/ Joins
  \/ PlayReturns

reader_task == ReadsOn \/ ReadsMetadata \/ ReadsAudio \/ ReadEnds \/ Sends

rf_poll_task(n) == PollerLeaves(n) \/ PollerChecks(n) \/ PollerSets(n)

Next ==
  \/ source_stream_stop \/ Asks
  \/ Worker \/ reader_task
  \/ \E n \in Plays : rf_poll_task(n)

Spec == Init /\ [][Next]_vars

(* The tasks are scheduled, and HTTP gives up on a silent server: every    *)
(* read and connection ends.                                               *)
FairSpec ==
  /\ Spec
  /\ WF_vars(Worker) /\ WF_vars(reader_task)
  /\ \A n \in Plays : WF_vars(rf_poll_task(n))

-----------------------------------------------------------------------------
(* Properties                                                              *)

TypeOK ==
  /\ s_stop \in BOOLEAN
  /\ s_generation \in 0..MaxStops
  /\ s_rf_gen \in Nat
  /\ s_completed \in BOOLEAN /\ s_completed_generation \in 0..MaxStops
  /\ s_preroll_decoy \in BOOLEAN
  /\ s_icy_title \in 0..MaxPlays
  /\ s_sb \in Seq(Plays \X Nat) /\ Len(s_sb) <= STREAM_BUF
  /\ asked = <<>> \/ asked \in [1..1 -> [stream : Streams, gen : 0..MaxStops]]
  /\ pc \in {"idle", "clear", "resolve", "connect", "acquire", "start", "prebuffer", "decode",
             "seek", "ended", "halt", "join", "returned"}
  /\ play \in [n : 0..MaxPlays, stream : Streams, gen : 0..MaxStops, rf_gen : Nat]
  /\ err \in {"ok", "fail"}
  /\ client \in {"open", "closed"} /\ decoy \in {"open", "closed"} /\ holds \in BOOLEAN
  /\ pos \in 0..Length /\ starved \in BOOLEAN
  /\ reader \in {"off", "top", "http", "send", "done"}
  /\ wire \in Nat /\ left \in Nat
  /\ chunk \in Seq(Plays \X Nat) /\ Len(chunk) <= READ_CHUNK
  /\ poller \in [Plays -> [pc : {"off", "loop", "set"}, gen : Nat]]

(* What is between HTTP and the decoder is the next part of the body of    *)
(* the stream that plays: in order, nothing twice, nothing missing, no     *)
(* metadata, nothing of an earlier stream (reader_task, stream_read, the   *)
(* reset of s_sb).                                                         *)
InOrder ==
  reader # "off" =>
    \A i \in 1..Len(s_sb \o chunk) : (s_sb \o chunk)[i] = <<play.n, Audio(pos + i)>>

(* The reader uses the connection only while it is open, and a play that   *)
(* returned has given everything back, whatever failed on its way.         *)
CleanedUp ==
  /\ reader \in {"top", "http", "send"} => client = "open" /\ holds
  /\ pc \in {"returned", "idle"} => client = "closed" /\ decoy = "closed" /\ ~holds

(* An episode of announced length that is decoded as it arrives counts as  *)
(* heard to its end only if it was delivered to its end, but for the       *)
(* slack. Of an .m4a this is not true (CompletedIsEnd): that path does not *)
(* compare lengths (source_stream.c:888 against 993-1001).                 *)
CompletedIsWhole == Completed /\ play.stream.announced /\ ~play.stream.mp4 => Whole

(* source_stream_completed tells a stream that reached its end from one    *)
(* that was stopped or failed.                                             *)
CompletedIsEnd == Completed => Whole

(* Every play returns, also one stopped while its reader waits for room    *)
(* and one whose server falls silent.                                      *)
PlayEnds == pc # "idle" ~> pc = "idle"
===============================================================================
