--------------------------- MODULE StreamSourceProofs ---------------------------
(***************************************************************************)
(* Proofs about the stream source, for every length of a body, every size  *)
(* of the ring buffer and of the reads, every metaint and any number of    *)
(* plays. That the decoder gets the body in order rests on Tally: how many *)
(* units came off HTTP tells how many of them were audio and how many      *)
(* metadata, until a stop makes the reader drop what it holds. Handles     *)
(* says what is open at each place of the worker, Ring what the buffer may *)
(* hold, and Outcome that an older result is gone before its play is.      *)
(***************************************************************************)
EXTENDS StreamSource, SequenceTheorems, TLAPS

metaint == play.stream.metaint

(* Units of audio that the reader has taken so far.                        *)
Taken == pos + Len(s_sb) + Len(chunk)

(* The reader has not dropped anything.                                    *)
Intact == reader \in {"http", "send"} \/ (reader = "top" /\ ~s_stop)

Tally ==
  Intact =>
    IF metaint = 0 THEN wire = Taken
    ELSE /\ left \in 0..metaint
         /\ wire - Taken \in Nat
         /\ Taken = (wire - Taken) * metaint + (metaint - left)

BeforeReader == {"resolve", "connect", "acquire", "start"}
WithReader   == {"prebuffer", "decode", "ended", "halt", "join"}

(* The reader is there while the worker waits for data, and only then; a   *)
(* piece is in its hands only while it sends it.                           *)
Stages ==
  /\ reader # "off" => pc \in WithReader
  /\ pc \in {"prebuffer", "decode"} => reader # "off"
  /\ chunk # <<>> => reader = "send"
  /\ pc # "idle" => play.n \in Plays
  /\ pc \in BeforeReader => pos = 0

Handles ==
  /\ decoy = "open" => pc = "connect"
  /\ pc \in {"idle", "clear", "resolve", "connect", "returned"} => client = "closed" /\ ~holds
  /\ pc = "acquire" => client = "open" /\ ~holds
  /\ pc \in {"start", "prebuffer", "decode"} \/ reader # "off" => client = "open" /\ holds

(* The ring and the reader hold the next units of the body, never more     *)
(* than there are.                                                         *)
Ring ==
  reader # "off" =>
    /\ \A i \in 1..Len(s_sb) : s_sb[i] = <<play.n, Audio(pos + i)>>
    /\ \A i \in 1..Len(chunk) : chunk[i] = <<play.n, Audio(pos + Len(s_sb) + i)>>
    /\ Taken <= Length

Outcome ==
  s_completed =>
    /\ pc \in {"halt", "join", "returned", "idle"}
    /\ play.stream.announced /\ ~play.stream.mp4 => Whole

StreamInv == TypeOK /\ Tally /\ Stages /\ Handles /\ Ring /\ Outcome

-----------------------------------------------------------------------------
(* Places in the body                                                      *)

LEMMA Division ==
  ASSUME NEW m \in Nat \ {0}, NEW b \in Nat, NEW k \in Nat
  PROVE  /\ k \div m \in Nat
         /\ k < (b + 1) * m => k \div m <= b
         /\ b * m <= k => b <= k \div m
<1>1. k \div m \in Int /\ k = (k \div m) * m + (k % m) /\ k % m \in 0..(m - 1)
  OBVIOUS
<1> DEFINE d == k \div m
<1>2. d \in Int /\ d * m <= k /\ k < d * m + m
  BY <1>1
<1> HIDE DEF d
<1>3. d \in Nat
  BY <1>2, SMTT(30)
<1>4. k < (b + 1) * m => d <= b
  BY <1>2, SMTT(30)
<1>5. b * m <= k => b <= d
  BY <1>2, SMTT(30)
<1> QED
  BY <1>3, <1>4, <1>5 DEF d

LEMMA StreamsHave ==
  ASSUME NEW s \in Streams
  PROVE  /\ s.metaint \in Nat /\ s.announced \in BOOLEAN
         /\ s.livemeta \in BOOLEAN /\ s.mp4 \in BOOLEAN
BY StreamAssumption

LEMMA AudioIsNat == ASSUME TypeOK, NEW i \in Nat \ {0} PROVE Audio(i) \in Nat \ {0}
<1>1. metaint \in Nat
  BY StreamsHave DEF TypeOK, metaint
<1>2. metaint # 0 => (i - 1) \div metaint \in Nat
  BY <1>1, Division
<1> QED
  BY <1>1, <1>2 DEF Audio, metaint

(* While the tally holds, the units that come off HTTP up to the next      *)
(* metadata are the next units of audio, and there are no more than Length. *)
LEMMA NextUnits ==
  ASSUME TypeOK, Tally, Intact, ~AtMetadata, Taken <= Length,
         NEW i \in Nat \ {0}, metaint > 0 => i <= left
  PROVE  /\ Audio(Taken + i) = wire + i
         /\ wire + i <= Audio(Length) => Taken + i <= Length
<1>1. /\ metaint \in Nat /\ Taken \in Nat /\ wire \in Nat /\ left \in Nat
      /\ Length \in Nat \ {0}
  BY StreamsHave, StreamAssumption DEF TypeOK, metaint, Taken
<1>2. CASE metaint = 0
  <2>1. wire = Taken
    BY <1>2 , Zenon DEF Tally
  <2> QED
    BY <1>1, <1>2, <2>1 DEF Audio, metaint
<1>3. CASE metaint > 0
  <2> DEFINE b == wire - Taken
             k == Taken + i - 1
  <2>1. /\ left \in 0..metaint /\ b \in Nat
        /\ Taken = b * metaint + (metaint - left)
    BY <1>1, <1>3 DEF Tally
  <2>2. b * metaint <= k /\ k < (b + 1) * metaint /\ k \in Nat
    <3>1. (b + 1) * metaint = b * metaint + metaint
      BY <1>1, <2>1
    <3>2. b * metaint \in Nat
      BY <1>1, <2>1
    <3> QED
      BY <1>1, <1>3, <2>1, <3>1, <3>2
  <2>3. k \div metaint = b
    <3>1. k \div metaint <= b /\ b <= k \div metaint /\ k \div metaint \in Nat
      BY <1>1, <1>3, <2>1, <2>2, Division
    <3> HIDE DEF k, b
    <3> QED
      BY <3>1, <2>1
  <2>4. Audio(Taken + i) = wire + i
    BY <1>1, <1>3, <2>3 DEF Audio, metaint
  <2>5. ASSUME wire + i <= Audio(Length), ~(Taken + i <= Length) PROVE FALSE
    <3>1. Length - 1 < (b + 1) * metaint /\ Length - 1 \in Nat
      BY <1>1, <2>1, <2>2, <2>5
    <3>2. (Length - 1) \div metaint <= b /\ (Length - 1) \div metaint \in Nat
      BY <1>1, <1>3, <2>1, <3>1, Division
    <3>3. Audio(Length) = Length + (Length - 1) \div metaint
      BY <1>3 DEF Audio, metaint
    <3> QED
      BY <1>1, <2>1, <2>5, <3>2, <3>3
  <2> QED
    BY <2>4, <2>5
<1> QED
  BY <1>1, <1>2, <1>3

-----------------------------------------------------------------------------
(* The first state                                                         *)

LEMMA StreamStarts == Init => StreamInv
<1> SUFFICES ASSUME Init PROVE StreamInv
  OBVIOUS
<1> DEFINE first == CHOOSE s \in Streams : TRUE
<1>1. MaxPlays \in Nat /\ MaxStops \in Nat /\ first \in Streams
  BY StreamAssumption
<1>0. play = [n |-> 0, stream |-> first, gen |-> 0, rf_gen |-> 0]
  BY Zenon DEF Init
<1> HIDE DEF first
<1>2. TypeOK
  <2>1. play \in [n : 0..MaxPlays, stream : Streams, gen : 0..MaxStops, rf_gen : Nat]
    BY <1>0, <1>1
  <2>2. poller \in [Plays -> [pc : {"off", "loop", "set"}, gen : Nat]]
    BY DEF Init
  <2>3. /\ s_sb \in Seq(Plays \X Nat) /\ Len(s_sb) <= STREAM_BUF
        /\ chunk \in Seq(Plays \X Nat) /\ Len(chunk) <= READ_CHUNK
    BY StreamAssumption DEF Init
  <2>4. /\ s_generation = 0 /\ s_completed_generation = 0 /\ s_rf_gen = 0 /\ s_icy_title = 0
        /\ pos = 0 /\ wire = 0 /\ left = 0 /\ asked = <<>>
        /\ Length \in Nat
    BY StreamAssumption DEF Init
  <2>5. /\ s_stop \in BOOLEAN /\ s_completed \in BOOLEAN /\ s_preroll_decoy \in BOOLEAN
        /\ holds \in BOOLEAN /\ starved \in BOOLEAN
        /\ pc = "idle" /\ err = "ok" /\ client = "closed" /\ decoy = "closed" /\ reader = "off"
    BY DEF Init
  <2> QED
    BY <1>1, <2>1, <2>2, <2>3, <2>4, <2>5 DEF TypeOK
<1>3. Tally /\ Stages /\ Handles /\ Ring /\ Outcome
  BY DEF Init, Tally, Intact, Stages, WithReader, BeforeReader, Handles, Ring, Outcome
<1> QED
  BY <1>2, <1>3 DEF StreamInv

-----------------------------------------------------------------------------
(* The places of the worker and of the reader                              *)

LEMMA StagesStep == TypeOK /\ Stages /\ [Next]_vars => Stages'
<1> SUFFICES ASSUME TypeOK, Stages, [Next]_vars PROVE Stages'
  OBVIOUS
<1> USE DEF Stages, WithReader, BeforeReader, At, Returns, handles, decoder, readers
<1>0. play.n \in 0..MaxPlays
  BY DEF TypeOK
<1>1. CASE source_stream_stop \/ Asks
  BY <1>1 DEF source_stream_stop, Asks
<1>2. CASE PlayBegins
  <2>1. CASE asked[1].gen = s_generation
    <3>1. play.n + 1 \in Plays
      BY <1>0, <1>2, StreamAssumption DEF PlayBegins, Plays
    <3>2. play'.n = play.n + 1 /\ pc' = "clear" /\ UNCHANGED <<reader, chunk>>
      BY <1>2, <2>1 DEF PlayBegins
    <3> QED
      BY <1>2, <3>1, <3>2 DEF PlayBegins
  <2>2. CASE asked[1].gen # s_generation
    BY <1>2, <2>2 DEF PlayBegins
  <2> QED
    BY <2>1, <2>2
<1>3. CASE ClearsTitle \/ OpensDecoy \/ Connects \/ Acquires
  BY <1>3 DEF ClearsTitle, OpensDecoy, Connects, Acquires
<1>4. CASE StartsReader
  BY <1>4 DEF StartsReader
<1>5. CASE Prebuffers \/ stream_read \/ hseek_read
  BY <1>5 DEF Prebuffers, stream_read, hseek_read
<1>6. CASE DecodeEnds \/ Completes \/ Halts \/ Joins \/ PlayReturns
  BY <1>6 DEF DecodeEnds, Completes, Halts, Joins, PlayReturns
<1>7. CASE ReadsOn \/ ReadsMetadata \/ ReadsAudio \/ ReadEnds
  BY <1>7 DEF ReadsOn, ReadsMetadata, ReadsAudio, ReadEnds
<1>8. CASE Sends
  BY <1>8 DEF Sends
<1>9. CASE \E n \in Plays : rf_poll_task(n)
  BY <1>9 DEF rf_poll_task, PollerLeaves, PollerChecks, PollerSets, rest
<1>10. CASE UNCHANGED vars
  BY <1>10 DEF vars
<1> QED
  BY <1>1, <1>2, <1>3, <1>4, <1>5, <1>6, <1>7, <1>8, <1>9, <1>10 DEF Next, Worker, reader_task

LEMMA HandlesStep == TypeOK /\ Stages /\ Handles /\ [Next]_vars => Handles'
<1> SUFFICES ASSUME TypeOK, Stages, Handles, [Next]_vars PROVE Handles'
  OBVIOUS
<1> USE DEF Stages, WithReader, BeforeReader, Handles, At, Returns, handles, readers
<1>1. CASE source_stream_stop \/ Asks \/ ClearsTitle
  BY <1>1 DEF source_stream_stop, Asks, ClearsTitle
<1>10. CASE PlayBegins
  <2>1. /\ pc = "idle" /\ pc' \in {"idle", "clear"}
        /\ UNCHANGED <<client, decoy, holds, reader>>
    BY <1>10 DEF PlayBegins
  <2> QED
    BY <2>1
<1>2. CASE OpensDecoy
  BY <1>2 DEF OpensDecoy
<1>3. CASE Connects
  <2>1. pc = "connect" /\ UNCHANGED <<holds, reader>> /\ decoy' = "closed"
    BY <1>3 DEF Connects
  <2>2. \/ pc' = "returned" /\ client' = client
        \/ pc' = "acquire" /\ client' = "open"
    BY <1>3 DEF Connects
  <2> QED
    BY <2>1, <2>2
<1>11. CASE Acquires
  <2>1. /\ pc = "acquire" /\ reader = "off" /\ decoy # "open"
        /\ UNCHANGED <<decoy, reader>>
    BY <1>11 DEF Acquires
  <2>2. \/ pc' = "returned" /\ client' = "closed" /\ holds' = holds
        \/ holds' /\ pc' = "seek"
        \/ holds' /\ pc' = "start" /\ client' = client
    BY <1>11 DEF Acquires
  <2> QED
    BY <2>1, <2>2
<1>4. CASE StartsReader
  BY <1>4 DEF StartsReader
<1>5. CASE Prebuffers \/ stream_read \/ hseek_read
  BY <1>5 DEF Prebuffers, stream_read, hseek_read
<1>6. CASE DecodeEnds \/ Completes \/ Halts \/ Joins \/ PlayReturns
  BY <1>6 DEF DecodeEnds, Completes, Halts, Joins, PlayReturns
<1>7. CASE ReadsOn \/ ReadsMetadata \/ ReadsAudio \/ ReadEnds \/ Sends
  BY <1>7 DEF ReadsOn, ReadsMetadata, ReadsAudio, ReadEnds, Sends
<1>8. CASE \E n \in Plays : rf_poll_task(n)
  BY <1>8 DEF rf_poll_task, PollerLeaves, PollerChecks, PollerSets, rest
<1>9. CASE UNCHANGED vars
  BY <1>9 DEF vars
<1> QED
  BY <1>1, <1>2, <1>3, <1>4, <1>5, <1>6, <1>7, <1>8, <1>9, <1>10,
     <1>11 DEF Next, Worker, reader_task

LEMMA OutcomeStep == Stages /\ Outcome /\ [Next]_vars => Outcome'
<1> SUFFICES ASSUME Stages, Outcome, [Next]_vars PROVE Outcome'
  OBVIOUS
<1> USE DEF Outcome, Whole, At, Returns, outcome, decoder
<1>1. CASE source_stream_stop \/ Asks
  BY <1>1 DEF source_stream_stop, Asks
<1>2. CASE PlayBegins
  BY <1>2 DEF PlayBegins
<1>3. CASE ClearsTitle \/ OpensDecoy \/ Connects \/ Acquires \/ StartsReader
  BY <1>3 DEF ClearsTitle, OpensDecoy, Connects, Acquires, StartsReader
<1>4. CASE Prebuffers \/ stream_read \/ hseek_read \/ DecodeEnds
  BY <1>4 DEF Prebuffers, stream_read, hseek_read, DecodeEnds
<1>5. CASE Completes
  BY <1>5 DEF Completes, truncated
<1>6. CASE Halts \/ Joins \/ PlayReturns
  BY <1>6 DEF Halts, Joins, PlayReturns
<1>7. CASE ReadsOn \/ ReadsMetadata \/ ReadsAudio \/ ReadEnds \/ Sends
  BY <1>7 DEF ReadsOn, ReadsMetadata, ReadsAudio, ReadEnds, Sends
<1>8. CASE \E n \in Plays : rf_poll_task(n)
  BY <1>8 DEF rf_poll_task, PollerLeaves, PollerChecks, PollerSets, rest
<1>9. CASE UNCHANGED vars
  BY <1>9 DEF vars
<1> QED
  BY <1>1, <1>2, <1>3, <1>4, <1>5, <1>6, <1>7, <1>8, <1>9 DEF Next, Worker, reader_task

-----------------------------------------------------------------------------
(* Types                                                                   *)

SmallTypes ==
  /\ s_stop \in BOOLEAN /\ s_completed \in BOOLEAN /\ s_preroll_decoy \in BOOLEAN
  /\ pc \in {"idle", "clear", "resolve", "connect", "acquire", "start", "prebuffer", "decode",
             "seek", "ended", "halt", "join", "returned"}
  /\ err \in {"ok", "fail"}
  /\ client \in {"open", "closed"} /\ decoy \in {"open", "closed"} /\ holds \in BOOLEAN
  /\ starved \in BOOLEAN
  /\ reader \in {"off", "top", "http", "send", "done"}

PlayTypes ==
  /\ s_generation \in 0..MaxStops /\ s_completed_generation \in 0..MaxStops
  /\ s_rf_gen \in Nat
  /\ asked = <<>> \/ asked \in [1..1 -> [stream : Streams, gen : 0..MaxStops]]
  /\ play \in [n : 0..MaxPlays, stream : Streams, gen : 0..MaxStops, rf_gen : Nat]

ReaderTypes ==
  /\ s_sb \in Seq(Plays \X Nat) /\ Len(s_sb) <= STREAM_BUF
  /\ pos \in 0..Length
  /\ wire \in Nat /\ left \in Nat
  /\ chunk \in Seq(Plays \X Nat) /\ Len(chunk) <= READ_CHUNK

TitleTypes ==
  /\ s_icy_title \in 0..MaxPlays
  /\ poller \in [Plays -> [pc : {"off", "loop", "set"}, gen : Nat]]

LEMMA TypesAre == TypeOK <=> SmallTypes /\ PlayTypes /\ ReaderTypes /\ TitleTypes
BY DEF TypeOK, SmallTypes, PlayTypes, ReaderTypes, TitleTypes

LEMMA SmallStep == SmallTypes /\ [Next]_vars => SmallTypes'
<1> SUFFICES ASSUME SmallTypes, [Next]_vars PROVE SmallTypes'
  OBVIOUS
<1> USE DEF SmallTypes, At, Returns, generations, outcome, handles, decoder, readers
<1>1. CASE source_stream_stop \/ Asks \/ PlayBegins \/ ClearsTitle
  BY <1>1 DEF source_stream_stop, Asks, PlayBegins, ClearsTitle
<1>2. CASE OpensDecoy
  BY <1>2 DEF OpensDecoy
<1>3. CASE Connects
  BY <1>3 DEF Connects
<1>4. CASE Acquires
  BY <1>4 DEF Acquires
<1>5. CASE StartsReader
  BY <1>5 DEF StartsReader
<1>6. CASE Prebuffers \/ stream_read \/ hseek_read \/ DecodeEnds
  BY <1>6 DEF Prebuffers, stream_read, hseek_read, DecodeEnds
<1>7. CASE Completes \/ Halts \/ Joins \/ PlayReturns
  BY <1>7 DEF Completes, Halts, Joins, PlayReturns
<1>8. CASE ReadsOn \/ ReadsMetadata \/ ReadsAudio \/ ReadEnds \/ Sends
  BY <1>8 DEF ReadsOn, ReadsMetadata, ReadsAudio, ReadEnds, Sends
<1>9. CASE \E n \in Plays : rf_poll_task(n)
  BY <1>9 DEF rf_poll_task, PollerLeaves, PollerChecks, PollerSets, rest
<1>10. CASE UNCHANGED vars
  BY <1>10 DEF vars
<1> QED
  BY <1>1, <1>2, <1>3, <1>4, <1>5, <1>6, <1>7, <1>8, <1>9, <1>10 DEF Next, Worker, reader_task

LEMMA PlayTypesStep == PlayTypes /\ [Next]_vars => PlayTypes'
<1> SUFFICES ASSUME PlayTypes, [Next]_vars PROVE PlayTypes'
  OBVIOUS
<1> USE DEF PlayTypes, generations, outcome
<1>1. CASE source_stream_stop
  BY <1>1, StreamAssumption DEF source_stream_stop
<1>2. CASE Asks
  BY <1>2 DEF Asks
<1>3. CASE PlayBegins
  <2>1. asked[1] \in [stream : Streams, gen : 0..MaxStops]
    BY <1>3 DEF PlayBegins
  <2>2. \/ play' = play
        \/ play' = [n |-> play.n + 1, stream |-> asked[1].stream, gen |-> asked[1].gen,
                    rf_gen |-> s_rf_gen + 1]
    BY <1>3 DEF PlayBegins
  <2>3. play.n < MaxPlays /\ s_rf_gen' = s_rf_gen + 1 /\ s_rf_gen' \in Nat
    BY <1>3 DEF PlayBegins
  <2>4. play' \in [n : 0..MaxPlays, stream : Streams, gen : 0..MaxStops, rf_gen : Nat]
    BY <2>1, <2>2, <2>3, StreamAssumption
  <2> QED
    BY <1>3, <2>3, <2>4 DEF PlayBegins
<1>4. CASE ClearsTitle \/ OpensDecoy \/ Connects \/ Acquires \/ StartsReader
  BY <1>4 DEF ClearsTitle, OpensDecoy, Connects, Acquires, StartsReader
<1>5. CASE Prebuffers \/ stream_read \/ hseek_read \/ DecodeEnds
  BY <1>5 DEF Prebuffers, stream_read, hseek_read, DecodeEnds
<1>6. CASE Completes \/ Halts \/ Joins \/ PlayReturns
  BY <1>6 DEF Completes, Halts, Joins, PlayReturns
<1>7. CASE ReadsOn \/ ReadsMetadata \/ ReadsAudio \/ ReadEnds \/ Sends
  BY <1>7 DEF ReadsOn, ReadsMetadata, ReadsAudio, ReadEnds, Sends
<1>8. CASE \E n \in Plays : rf_poll_task(n)
  BY <1>8 DEF rf_poll_task, PollerLeaves, PollerChecks, PollerSets, rest
<1>9. CASE UNCHANGED vars
  BY <1>9 DEF vars
<1> QED
  BY <1>1, <1>2, <1>3, <1>4, <1>5, <1>6, <1>7, <1>8, <1>9 DEF Next, Worker, reader_task

LEMMA TitlesStep == TypeOK /\ Stages /\ [Next]_vars => TitleTypes'
<1> SUFFICES ASSUME TypeOK, Stages, [Next]_vars PROVE TitleTypes'
  OBVIOUS
<1>0. TitleTypes /\ PlayTypes
  BY TypesAre
<1> USE DEF TitleTypes
<1>1. CASE source_stream_stop \/ Asks \/ PlayBegins
  BY <1>0, <1>1 DEF source_stream_stop, Asks, PlayBegins
<1>2. CASE ClearsTitle
  BY <1>0, <1>2, StreamAssumption DEF ClearsTitle
<1>3. CASE OpensDecoy \/ Connects \/ Acquires
  BY <1>0, <1>3 DEF OpensDecoy, Connects, Acquires
<1>4. CASE StartsReader
  <2>1. play.rf_gen \in Nat
    BY <1>0 DEF PlayTypes
  <2>2. \/ poller' = poller
        \/ poller' = [poller EXCEPT ![play.n] = [pc |-> "loop", gen |-> play.rf_gen]]
    BY <1>4 DEF StartsReader, readers
  <2> QED
    BY <1>0, <1>4, <2>1, <2>2 DEF StartsReader
<1>5. CASE Prebuffers \/ stream_read \/ hseek_read \/ DecodeEnds
  BY <1>0, <1>5 DEF Prebuffers, stream_read, hseek_read, DecodeEnds
<1>6. CASE Completes \/ Halts \/ Joins \/ PlayReturns
  BY <1>0, <1>6 DEF Completes, Halts, Joins, PlayReturns
<1>7. CASE ReadsMetadata
  <2>1. play.n \in 0..MaxPlays
    BY <1>0 DEF PlayTypes
  <2> QED
    BY <1>0, <1>7, <2>1 DEF ReadsMetadata
<1>8. CASE ReadsOn \/ ReadsAudio \/ ReadEnds \/ Sends
  BY <1>0, <1>8 DEF ReadsOn, ReadsAudio, ReadEnds, Sends
<1>9. ASSUME NEW n \in Plays, rf_poll_task(n) PROVE TitleTypes'
  <2>1. n \in 0..MaxPlays
    BY StreamAssumption DEF Plays
  <2>2. PICK p \in {"off", "loop", "set"} : PollerTo(n, p)
    BY <1>9 DEF rf_poll_task, PollerLeaves, PollerChecks, PollerSets
  <2>3. poller' \in [Plays -> [pc : {"off", "loop", "set"}, gen : Nat]]
    BY <1>0, <2>2 DEF PollerTo
  <2> QED
    BY <1>0, <1>9, <2>1, <2>3 DEF rf_poll_task, PollerLeaves, PollerChecks, PollerSets
<1>10. CASE UNCHANGED vars
  BY <1>0, <1>10 DEF vars
<1> QED
  BY <1>1, <1>2, <1>3, <1>4, <1>5, <1>6, <1>7, <1>8, <1>9, <1>10 DEF Next, Worker, reader_task

-----------------------------------------------------------------------------
(* What the reader and the decoder do to the ring                          *)

LEMMA Parts ==
  ASSUME NEW S, NEW s \in Seq(S), NEW k \in 0..Len(s)
  PROVE  /\ SubSeq(s, 1, k) \in Seq(S) /\ Len(SubSeq(s, 1, k)) = k
         /\ \A i \in 1..k : SubSeq(s, 1, k)[i] = s[i]
         /\ SubSeq(s, k + 1, Len(s)) \in Seq(S)
         /\ Len(SubSeq(s, k + 1, Len(s))) = Len(s) - k
         /\ \A i \in 1..(Len(s) - k) : SubSeq(s, k + 1, Len(s))[i] = s[k + i]
<1>1. \A i \in 1..Len(s) : s[i] \in S
  BY ElementOfSeq
<1>2. /\ SubSeq(s, 1, k) \in Seq(S)
      /\ Len(SubSeq(s, 1, k)) = IF 1 <= k THEN k - 1 + 1 ELSE 0
      /\ \A i \in 1..(k - 1 + 1) : SubSeq(s, 1, k)[i] = s[1 + i - 1]
  BY <1>1, SubSeqProperties
<1>3. /\ SubSeq(s, k + 1, Len(s)) \in Seq(S)
      /\ Len(SubSeq(s, k + 1, Len(s))) = IF k + 1 <= Len(s) THEN Len(s) - (k + 1) + 1 ELSE 0
      /\ \A i \in 1..(Len(s) - (k + 1) + 1) : SubSeq(s, k + 1, Len(s))[i] = s[k + 1 + i - 1]
  BY <1>1, SubSeqProperties
<1> QED
  BY <1>2, <1>3

LEMMA Reading ==
  ASSUME TypeOK, Stages, ReadsAudio
  PROVE  \E r \in Nat \ {0} :
           /\ chunk' = [i \in 1..r |-> <<play.n, wire + i>>]
           /\ wire' = wire + r
           /\ left' = IF metaint > 0 THEN left - r ELSE left
           /\ metaint > 0 => r <= left
           /\ r <= READ_CHUNK
           /\ wire + r <= Audio(Length)
<1>1. PICK r \in 1..Least(Wanted, Audio(Length) - wire) :
        /\ chunk' = [i \in 1..r |-> <<play.n, wire + i>>]
        /\ wire' = wire + r
        /\ left' = IF metaint > 0 THEN left - r ELSE left
  BY DEF ReadsAudio, metaint
<1>2. metaint \in Nat /\ left \in Nat /\ wire \in Nat /\ Audio(Length) \in Nat
  BY StreamsHave, AudioIsNat, StreamAssumption DEF TypeOK, metaint
<1>3. Wanted \in Nat /\ Wanted <= READ_CHUNK /\ (metaint > 0 => Wanted <= left)
  BY <1>2, StreamAssumption DEF Wanted, Least, metaint
<1>4. r \in Nat \ {0} /\ r <= Wanted /\ r <= Audio(Length) - wire
  BY <1>2, <1>3 DEF Least
<1> QED
  BY <1>1, <1>2, <1>3, <1>4, StreamAssumption

LEMMA Sending ==
  ASSUME TypeOK, Sends
  PROVE  /\ reader = "send" /\ reader' \in {"top", "send"}
         /\ reader' = "send" \/ chunk' = <<>>
         /\ \/ s_stop /\ chunk' = <<>> /\ s_sb' = s_sb
            \/ \E k \in 1..Len(chunk) :
                 /\ k <= STREAM_BUF - Len(s_sb)
                 /\ s_sb' = s_sb \o SubSeq(chunk, 1, k)
                 /\ chunk' = SubSeq(chunk, k + 1, Len(chunk))
<1>1. Len(s_sb) \in Nat /\ Len(chunk) \in Nat /\ STREAM_BUF \in Nat
  BY StreamAssumption DEF TypeOK
<1>2. \A k \in 1..Least(Len(chunk), STREAM_BUF - Len(s_sb)) :
         k \in 1..Len(chunk) /\ k <= STREAM_BUF - Len(s_sb)
  BY <1>1 DEF Least
<1> QED
  BY <1>2 DEF Sends, SendGivesUp

LEMMA ReaderTypesStep == TypeOK /\ Stages /\ Ring /\ [Next]_vars => ReaderTypes'
<1> SUFFICES ASSUME TypeOK, Stages, Ring, [Next]_vars PROVE ReaderTypes'
  OBVIOUS
<1>0. ReaderTypes /\ PlayTypes
  BY TypesAre
<1>a. /\ metaint \in Nat /\ Length \in Nat /\ STREAM_BUF \in Nat /\ READ_CHUNK \in Nat
      /\ Len(s_sb) \in Nat /\ Len(chunk) \in Nat
  BY <1>0, StreamsHave, StreamAssumption DEF PlayTypes, ReaderTypes, metaint
<1> USE DEF ReaderTypes, decoder, readers
<1>1. CASE source_stream_stop \/ Asks \/ PlayBegins
  BY <1>0, <1>1 DEF source_stream_stop, Asks, PlayBegins
<1>2. CASE ClearsTitle
  <2>1. pos' = 0 /\ UNCHANGED <<s_sb, wire, left, chunk>>
    BY <1>2 DEF ClearsTitle
  <2> QED
    BY <1>0, <1>a, <2>1
<1>3. CASE OpensDecoy \/ Connects \/ Acquires
  BY <1>0, <1>3 DEF OpensDecoy, Connects, Acquires
<1>4. CASE StartsReader
  <2>0. pos' = pos /\ s_sb' = <<>>
    BY <1>4 DEF StartsReader
  <2>1. \/ wire' = wire /\ left' = left /\ chunk' = chunk
        \/ wire' = 0 /\ left' = metaint /\ chunk' = <<>>
    BY <1>4 DEF StartsReader, metaint
  <2>2. <<>> \in Seq(Plays \X Nat) /\ Len(<<>>) = 0
    OBVIOUS
  <2>3. s_sb' \in Seq(Plays \X Nat) /\ Len(s_sb') <= STREAM_BUF
    BY <1>a, <2>0, <2>2
  <2>4. chunk' \in Seq(Plays \X Nat) /\ Len(chunk') <= READ_CHUNK
    <3>1. CASE chunk' = chunk
      BY <1>0, <3>1
    <3>2. CASE chunk' = <<>>
      BY <1>a, <2>2, <3>2
    <3> QED
      BY <2>1, <3>1, <3>2
  <2>5. pos' \in 0..Length /\ wire' \in Nat /\ left' \in Nat
    BY <1>0, <1>a, <2>0, <2>1
  <2> QED
    BY <2>3, <2>4, <2>5
<1>5. CASE stream_read
  <2>1. CASE s_stop \/ s_sb = <<>>
    BY <1>0, <1>5, <2>1 DEF stream_read
  <2>2. CASE ~(s_stop \/ s_sb = <<>>)
    <3>1. PICK k \in 1..Len(s_sb) : pos' = pos + k /\ s_sb' = SubSeq(s_sb, k + 1, Len(s_sb))
      BY <1>5, <2>2 DEF stream_read
    <3>2. s_sb' \in Seq(Plays \X Nat) /\ Len(s_sb') = Len(s_sb) - k
      BY <1>0, <1>a, <3>1, Parts
    <3>3. reader # "off" /\ Taken <= Length
      BY <1>5 DEF stream_read, At, Stages, Ring
    <3>4. pos' \in 0..Length
      BY <1>0, <1>a, <3>1, <3>3 DEF Taken
    <3> QED
      BY <1>0, <1>a, <1>5, <3>1, <3>2, <3>4 DEF stream_read
  <2> QED
    BY <2>1, <2>2
<1>6. CASE hseek_read
  BY <1>0, <1>a, <1>6 DEF hseek_read
<1>7. CASE Prebuffers \/ DecodeEnds \/ Completes \/ Halts \/ PlayReturns
  BY <1>0, <1>7 DEF Prebuffers, DecodeEnds, Completes, Halts, PlayReturns
<1>8. CASE Joins
  BY <1>0, <1>a, <1>8 DEF Joins
<1>9. CASE ReadsOn \/ ReadEnds
  BY <1>0, <1>9 DEF ReadsOn, ReadEnds
<1>10. CASE ReadsMetadata
  BY <1>0, <1>a, <1>10 DEF ReadsMetadata, metaint
<1>11. CASE ReadsAudio
  <2>1. PICK r \in Nat \ {0} :
           /\ chunk' = [i \in 1..r |-> <<play.n, wire + i>>]
           /\ wire' = wire + r
           /\ left' = IF metaint > 0 THEN left - r ELSE left
           /\ metaint > 0 => r <= left
           /\ r <= READ_CHUNK
    BY <1>11, Reading
  <2>2. play.n \in Plays
    BY <1>11 DEF ReadsAudio, Stages, WithReader
  <2>3. chunk' \in Seq(Plays \X Nat) /\ Len(chunk') = r
    BY <1>0, <2>1, <2>2
  <2> QED
    BY <1>0, <1>a, <1>11, <2>1, <2>3 DEF ReadsAudio
<1>12. CASE Sends
  <2>1. CASE s_stop /\ chunk' = <<>> /\ s_sb' = s_sb
    BY <1>0, <1>a, <1>12, <2>1 DEF Sends
  <2>2. ASSUME NEW k \in 1..Len(chunk),
               k <= STREAM_BUF - Len(s_sb),
               s_sb' = s_sb \o SubSeq(chunk, 1, k),
               chunk' = SubSeq(chunk, k + 1, Len(chunk))
        PROVE  ReaderTypes'
    <3>1. /\ SubSeq(chunk, 1, k) \in Seq(Plays \X Nat) /\ Len(SubSeq(chunk, 1, k)) = k
          /\ chunk' \in Seq(Plays \X Nat) /\ Len(chunk') = Len(chunk) - k
      <4>1. chunk \in Seq(Plays \X Nat) /\ k \in 0..Len(chunk)
        BY <1>0, <1>a
      <4> QED
        BY <2>2, <4>1, Parts
    <3>2. s_sb' \in Seq(Plays \X Nat) /\ Len(s_sb') = Len(s_sb) + k
      <4>1. s_sb \in Seq(Plays \X Nat)
        BY <1>0
      <4> QED
        BY <2>2, <3>1, <4>1, ConcatProperties
    <3>3. UNCHANGED <<pos, wire, left>>
      BY <1>12 DEF Sends
    <3> QED
      BY <1>0, <1>a, <2>2, <3>1, <3>2, <3>3
  <2> QED
    BY <1>12, <2>1, <2>2, Sending
<1>13. CASE \E n \in Plays : rf_poll_task(n)
  BY <1>0, <1>13 DEF rf_poll_task, PollerLeaves, PollerChecks, PollerSets, rest
<1>14. CASE UNCHANGED vars
  BY <1>0, <1>14 DEF vars
<1> QED
  BY <1>1, <1>2, <1>3, <1>4, <1>5, <1>6, <1>7, <1>8, <1>9, <1>10, <1>11, <1>12, <1>13, <1>14
     DEF Next, Worker, reader_task

(* The ring stays as it is if neither side works on it.                    *)
LEMMA RingStays ==
  ASSUME Ring, UNCHANGED <<play, pos, s_sb, chunk>>, reader' # "off" => reader # "off"
  PROVE  Ring'
BY DEF Ring, Taken, Audio

LEMMA RingStep == TypeOK /\ Tally /\ Stages /\ Ring /\ [Next]_vars => Ring'
<1> SUFFICES ASSUME TypeOK, Tally, Stages, Ring, [Next]_vars PROVE Ring'
  OBVIOUS
<1>0. /\ metaint \in Nat /\ Length \in Nat /\ pos \in Nat /\ wire \in Nat /\ left \in Nat
      /\ s_sb \in Seq(Plays \X Nat) /\ chunk \in Seq(Plays \X Nat)
      /\ Len(s_sb) \in Nat /\ Len(chunk) \in Nat
  BY StreamsHave, StreamAssumption DEF TypeOK, metaint
<1>1. CASE source_stream_stop \/ Asks
  BY <1>1, RingStays DEF source_stream_stop, Asks, readers, decoder
<1>2. CASE PlayBegins \/ ClearsTitle
  BY <1>2 DEF PlayBegins, ClearsTitle, At, readers, Stages, WithReader, Ring
<1>3. CASE OpensDecoy \/ Connects \/ Acquires
  BY <1>3, RingStays DEF OpensDecoy, Connects, Acquires, readers, decoder
<1>4. CASE StartsReader
  <2>1. pos' = 0 /\ s_sb' = <<>> /\ (reader' # "off" => chunk' = <<>>)
    BY <1>4 DEF StartsReader, At, readers, decoder, Stages, WithReader, BeforeReader
  <2> QED
    BY <1>0, <2>1 DEF Ring, Taken
<1>5. CASE stream_read
  <2>1. CASE s_stop \/ s_sb = <<>>
    BY <1>5, <2>1, RingStays DEF stream_read, readers
  <2>2. CASE ~(s_stop \/ s_sb = <<>>)
    <3>1. PICK k \in 1..Len(s_sb) : pos' = pos + k /\ s_sb' = SubSeq(s_sb, k + 1, Len(s_sb))
      BY <1>5, <2>2 DEF stream_read
    <3>2. /\ Len(s_sb') = Len(s_sb) - k
          /\ \A i \in 1..(Len(s_sb) - k) : s_sb'[i] = s_sb[k + i]
      <4>1. k \in 0..Len(s_sb)
        BY <1>0
      <4> QED
        BY <1>0, <3>1, <4>1, Parts
    <3>a. /\ k \in 1..Len(s_sb) /\ k \in Nat /\ pos' = pos + k
          /\ Len(s_sb)' = Len(s_sb) - k
      BY <1>0, <3>1, <3>2
    <3>3. UNCHANGED <<play, chunk, reader>>
      BY <1>5 DEF stream_read, readers
    <3>b. Len(chunk)' = Len(chunk)
      BY <3>3
    <3>4. reader # "off"
      BY <1>5 DEF stream_read, At, Stages
    <3>5. Taken' <= Length
      <4>1. Taken <= Length
        BY <3>4 DEF Ring
      <4> QED
        BY <1>0, <3>a, <3>b, <4>1 DEF Taken
    <3>6. \A i \in Int : Audio(i)' = Audio(i)
      BY <3>3 DEF Audio
    <3>7. \A i \in 1..Len(s_sb') : s_sb'[i] = <<play.n, Audio(pos' + i)>>
      <4> SUFFICES ASSUME NEW i \in 1..Len(s_sb') PROVE s_sb'[i] = <<play.n, Audio(pos' + i)>>
        OBVIOUS
      <4>1. k + i \in 1..Len(s_sb) /\ pos + (k + i) = pos' + i /\ s_sb'[i] = s_sb[k + i]
        BY <1>0, <3>1, <3>2
      <4>2. s_sb[k + i] = <<play.n, Audio(pos + (k + i))>>
        BY <3>4, <4>1 DEF Ring
      <4> QED
        BY <4>1, <4>2
    <3>8. \A i \in 1..Len(chunk) : chunk[i] = <<play.n, Audio(pos' + Len(s_sb') + i)>>
      <4> SUFFICES ASSUME NEW i \in 1..Len(chunk)
                   PROVE  chunk[i] = <<play.n, Audio(pos' + Len(s_sb') + i)>>
        OBVIOUS
      <4>1. pos + Len(s_sb) + i = pos' + Len(s_sb') + i
        BY <1>0, <3>a
      <4> QED
        BY <3>4, <4>1 DEF Ring
    <3> QED
      BY <3>3, <3>5, <3>7, <3>8 DEF Ring, Audio
  <2> QED
    BY <2>1, <2>2
<1>6. CASE hseek_read
  BY <1>6 DEF hseek_read, At, readers, Stages, WithReader, Ring
<1>7. CASE Prebuffers \/ DecodeEnds \/ Completes \/ Halts \/ PlayReturns
  BY <1>7, RingStays DEF Prebuffers, DecodeEnds, Completes, Halts, PlayReturns, readers, decoder
<1>8. CASE Joins
  BY <1>8 DEF Joins, Ring
<1>9. CASE ReadsOn \/ ReadEnds \/ ReadsMetadata
  BY <1>9, RingStays DEF ReadsOn, ReadEnds, ReadsMetadata, decoder
<1>10. CASE ReadsAudio
  <2>1. PICK r \in Nat \ {0} :
           /\ chunk' = [i \in 1..r |-> <<play.n, wire + i>>]
           /\ wire' = wire + r
           /\ metaint > 0 => r <= left
           /\ wire + r <= Audio(Length)
    BY <1>10, Reading
  <2>2. /\ chunk = <<>> /\ reader # "off" /\ Intact /\ ~AtMetadata
        /\ UNCHANGED <<play, pos, s_sb>>
    BY <1>10 DEF ReadsAudio, Stages, Intact, decoder
  <2>3. Taken = pos + Len(s_sb) /\ Taken <= Length
    BY <1>0, <2>2 DEF Taken, Ring
  <2>4. Len(chunk') = r /\ \A i \in 1..r : chunk'[i] = <<play.n, wire + i>>
    BY <2>1
  <2>5. \A i \in 1..r : Audio(Taken + i) = wire + i
    <3> TAKE i \in 1..r
    <3>1. i \in Nat \ {0} /\ (metaint > 0 => i <= left)
      BY <1>0, <2>1
    <3> QED
      BY <2>2, <2>3, <3>1, NextUnits
  <2>6. Taken + r <= Length
    BY <2>1, <2>2, <2>3, NextUnits
  <2>7. \A i \in 1..Len(chunk') : chunk'[i] = <<play.n, Audio(pos + Len(s_sb) + i)>>
    BY <2>3, <2>4, <2>5
  <2>8. Taken' <= Length
    BY <1>0, <2>2, <2>3, <2>4, <2>6 DEF Taken
  <2> QED
    BY <2>2, <2>7, <2>8 DEF Ring, Audio
<1>11. CASE Sends
  <2>1. UNCHANGED <<play, pos>> /\ reader # "off"
    BY <1>11 DEF Sends, decoder
  <2>2. CASE s_stop /\ chunk' = <<>> /\ s_sb' = s_sb
    <3>1. Taken' <= Length
      BY <1>0, <2>1, <2>2 DEF Taken, Ring
    <3> QED
      BY <1>0, <2>1, <2>2, <3>1 DEF Ring, Audio
  <2>3. ASSUME NEW k \in 1..Len(chunk),
               s_sb' = s_sb \o SubSeq(chunk, 1, k),
               chunk' = SubSeq(chunk, k + 1, Len(chunk))
        PROVE  Ring'
    <3>1. k \in 0..Len(chunk)
      BY <1>0
    <3>2. /\ SubSeq(chunk, 1, k) \in Seq(Plays \X Nat) /\ Len(SubSeq(chunk, 1, k)) = k
          /\ \A i \in 1..k : SubSeq(chunk, 1, k)[i] = chunk[i]
          /\ Len(chunk') = Len(chunk) - k
          /\ \A i \in 1..(Len(chunk) - k) : chunk'[i] = chunk[k + i]
      BY <1>0, <2>3, <3>1, Parts
    <3>3. /\ Len(s_sb') = Len(s_sb) + k
          /\ \A i \in 1..(Len(s_sb) + k) :
               s_sb'[i] = IF i <= Len(s_sb) THEN s_sb[i] ELSE SubSeq(chunk, 1, k)[i - Len(s_sb)]
      BY <1>0, <2>3, <3>2, ConcatProperties
    <3>4. Taken' <= Length
      <4>1. Taken <= Length
        BY <2>1 DEF Ring
      <4> QED
        <5>1. Len(s_sb)' = Len(s_sb) + k /\ Len(chunk)' = Len(chunk) - k /\ pos' = pos
          BY <2>1, <3>2, <3>3
        <5>2. /\ k \in Int /\ Len(s_sb) \in Int /\ Len(chunk) \in Int /\ pos \in Int
              /\ Length \in Int
          BY <1>0
        <5>3. pos' + Len(s_sb)' + Len(chunk)' <= Length
          BY <4>1, <5>1, <5>2 DEF Taken
        <5> QED
          BY <5>3 DEF Taken
    <3>5. ASSUME NEW i \in 1..Len(s_sb') PROVE s_sb'[i] = <<play.n, Audio(pos + i)>>
      <4>1. CASE i <= Len(s_sb)
        <5>1. i \in 1..Len(s_sb) /\ s_sb'[i] = s_sb[i]
          BY <1>0, <3>3, <4>1
        <5> QED
          BY <2>1, <5>1 DEF Ring
      <4>2. CASE ~(i <= Len(s_sb))
        <5> DEFINE j == i - Len(s_sb)
        <5>0. j \in 1..k /\ j \in 1..Len(chunk) /\ i \in 1..(Len(s_sb) + k)
          BY <1>0, <3>1, <3>3, <4>2
        <5>1. s_sb'[i] = chunk[j]
          BY <3>2, <3>3, <4>2, <5>0
        <5>2. pos + Len(s_sb) + j = pos + i
          BY <1>0
        <5>3. chunk[j] = <<play.n, Audio(pos + Len(s_sb) + j)>>
          BY <2>1, <5>0 DEF Ring
        <5> QED
          BY <5>1, <5>2, <5>3
      <4> QED
        BY <4>1, <4>2
    <3>6. ASSUME NEW i \in 1..Len(chunk')
          PROVE  chunk'[i] = <<play.n, Audio(pos + Len(s_sb') + i)>>
      <4>1. k + i \in 1..Len(chunk) /\ chunk'[i] = chunk[k + i]
        BY <1>0, <3>1, <3>2
      <4>2. pos + Len(s_sb) + (k + i) = pos + Len(s_sb') + i
        BY <1>0, <3>3
      <4>3. chunk[k + i] = <<play.n, Audio(pos + Len(s_sb) + (k + i))>>
        BY <2>1, <4>1 DEF Ring
      <4> QED
        BY <4>1, <4>2, <4>3
    <3> QED
      BY <2>1, <3>4, <3>5, <3>6 DEF Ring, Audio
  <2> QED
    BY <1>11, <2>2, <2>3, Sending
<1>12. CASE \E n \in Plays : rf_poll_task(n)
  BY <1>12, RingStays
     DEF rf_poll_task, PollerLeaves, PollerChecks, PollerSets, rest, readers, decoder
<1>13. CASE UNCHANGED vars
  BY <1>13, RingStays DEF vars, readers, decoder
<1> QED
  BY <1>1, <1>2, <1>3, <1>4, <1>5, <1>6, <1>7, <1>8, <1>9, <1>10, <1>11, <1>12, <1>13
     DEF Next, Worker, reader_task

-----------------------------------------------------------------------------
(* The tally                                                               *)

(* It stays if the units are only passed on.                               *)
LEMMA TallyStays ==
  ASSUME Tally, UNCHANGED <<play, wire, left>>, Taken' = Taken, Intact' => Intact
  PROVE  Tally'
BY DEF Tally, metaint

LEMMA TallyStep == TypeOK /\ Tally /\ Stages /\ [Next]_vars => Tally'
<1> SUFFICES ASSUME TypeOK, Tally, Stages, [Next]_vars PROVE Tally'
  OBVIOUS
<1>0. /\ metaint \in Nat /\ pos \in Nat /\ wire \in Nat /\ left \in Nat
      /\ s_sb \in Seq(Plays \X Nat) /\ chunk \in Seq(Plays \X Nat)
      /\ Len(s_sb) \in Nat /\ Len(chunk) \in Nat
  BY StreamsHave DEF TypeOK, metaint
<1>1. CASE source_stream_stop \/ Asks
  BY <1>1, TallyStays DEF source_stream_stop, Asks, generations, readers, decoder, Intact, Taken
<1>2. CASE PlayBegins \/ ClearsTitle
  BY <1>2 DEF PlayBegins, ClearsTitle, At, readers, Stages, WithReader, Tally, Intact
<1>3. CASE OpensDecoy \/ Connects \/ Acquires
  BY <1>3, TallyStays DEF OpensDecoy, Connects, Acquires, generations, readers, decoder, Intact, Taken
<1>4. CASE StartsReader
  <2>1. \/ reader' = "off"
        \/ /\ s_sb' = <<>> /\ chunk' = <<>> /\ pos' = 0
           /\ wire' = 0 /\ left' = metaint /\ play' = play
    BY <1>4 DEF StartsReader, At, readers, decoder, Stages, WithReader, BeforeReader, metaint
  <2> QED
    BY <1>0, <2>1 DEF Tally, Intact, Taken, metaint
<1>5. CASE stream_read
  <2>1. CASE s_stop \/ s_sb = <<>>
    BY <1>5, <2>1, TallyStays DEF stream_read, generations, readers, Intact, Taken
  <2>2. CASE ~(s_stop \/ s_sb = <<>>)
    <3>1. PICK k \in 1..Len(s_sb) : pos' = pos + k /\ s_sb' = SubSeq(s_sb, k + 1, Len(s_sb))
      BY <1>5, <2>2 DEF stream_read
    <3>2. k \in 0..Len(s_sb)
      BY <1>0
    <3>3. Len(s_sb)' = Len(s_sb) - k
      BY <1>0, <3>1, <3>2, Parts
    <3>4. k \in Int /\ pos' = pos + k
      BY <1>0, <3>1
    <3>5. /\ UNCHANGED <<s_stop, play, wire, left, chunk, reader>>
          /\ Len(chunk)' = Len(chunk)
      BY <1>5 DEF stream_read, generations, readers
    <3>6. Taken' = Taken
      BY <1>0, <3>3, <3>4, <3>5 DEF Taken
    <3> QED
      BY <3>5, <3>6, TallyStays DEF Intact
  <2> QED
    BY <2>1, <2>2
<1>6. CASE hseek_read
  BY <1>6 DEF hseek_read, At, generations, readers, Stages, WithReader, Tally, Intact
<1>7. CASE Prebuffers \/ DecodeEnds \/ Completes \/ Halts \/ PlayReturns
  BY <1>7, TallyStays
     DEF Prebuffers, DecodeEnds, Completes, Halts, PlayReturns, generations, readers, decoder,
         Intact, Taken
<1>8. CASE Joins
  BY <1>8 DEF Joins, Tally, Intact
<1>9. CASE ReadsOn \/ ReadEnds
  BY <1>9, TallyStays DEF ReadsOn, ReadEnds, generations, decoder, Intact, Taken
<1>10. CASE ReadsMetadata
  <2>1. /\ metaint > 0 /\ left = 0 /\ Intact
        /\ wire' = wire + 1 /\ left' = metaint
        /\ UNCHANGED <<play, pos, s_sb, chunk>>
    BY <1>10 DEF ReadsMetadata, AtMetadata, Intact, metaint, decoder
  <2>a. metaint # 0
    BY <1>0, <2>1
  <2>2. Taken' = Taken /\ metaint' = metaint /\ Taken \in Nat
    BY <1>0, <2>1 DEF Taken, metaint
  <2>b. /\ wire - Taken \in Nat
        /\ Taken = (wire - Taken) * metaint + (metaint - left)
    BY <2>1, <2>a, Zenon DEF Tally
  <2>3. wire - Taken \in Nat /\ Taken = (wire - Taken) * metaint + metaint
    BY <1>0, <2>1, <2>b
  <2>4. ((wire + 1) - Taken) * metaint = (wire - Taken) * metaint + metaint
    <3> DEFINE b == wire - Taken
    <3>1. (wire + 1) - Taken = b + 1 /\ b \in Nat
      BY <1>0, <2>2, <2>3
    <3>2. \A x \in Nat : (x + 1) * metaint = x * metaint + metaint
      BY <1>0
    <3> QED
      BY <3>1, <3>2
  <2>5. (wire + 1) - Taken \in Nat /\ metaint \in 0..metaint
    BY <1>0, <2>2, <2>3
  <2>6. Taken = ((wire + 1) - Taken) * metaint + (metaint - metaint)
    BY <1>0, <2>2, <2>3, <2>4
  <2> QED
    BY <2>1, <2>2, <2>5, <2>6 DEF Tally
<1>11. CASE ReadsAudio
  <2>1. PICK r \in Nat \ {0} :
           /\ chunk' = [i \in 1..r |-> <<play.n, wire + i>>]
           /\ wire' = wire + r
           /\ left' = IF metaint > 0 THEN left - r ELSE left
           /\ metaint > 0 => r <= left
    BY <1>11, Reading
  <2>2. chunk = <<>> /\ Intact /\ UNCHANGED <<play, pos, s_sb>>
    BY <1>11 DEF ReadsAudio, Stages, Intact, decoder
  <2>3. Len(chunk)' = r /\ Len(s_sb)' = Len(s_sb) /\ Len(chunk) = 0
    BY <2>1, <2>2
  <2>4. Taken' = Taken + r /\ Taken \in Nat /\ metaint' = metaint
    BY <1>0, <2>2, <2>3 DEF Taken, metaint
  <2>5. wire' - Taken' = wire - Taken
    BY <1>0, <2>1, <2>4
  <2>6. CASE metaint = 0
    BY <1>0, <2>1, <2>2, <2>4, <2>6 DEF Tally
  <2>7. CASE metaint > 0
    <3>1. /\ left \in 0..metaint /\ wire - Taken \in Nat
          /\ Taken = (wire - Taken) * metaint + (metaint - left)
      BY <2>2, <2>7 DEF Tally
    <3>2. left' = left - r /\ r <= left
      BY <2>1, <2>7
    <3>3. left' \in 0..metaint
      BY <1>0, <3>1, <3>2
    <3>4. (wire - Taken) * metaint \in Nat
      BY <1>0, <3>1
    <3>5. Taken' = (wire - Taken) * metaint + (metaint - left')
      BY <1>0, <2>4, <3>1, <3>2, <3>4
    <3> QED
      BY <2>4, <2>5, <2>7, <3>1, <3>3, <3>5 DEF Tally
  <2> QED
    BY <1>0, <2>6, <2>7
<1>12. CASE Sends
  <2>1. UNCHANGED <<s_stop, play, pos, wire, left>>
    BY <1>12 DEF Sends, generations, decoder
  <2>2. CASE s_stop /\ chunk' = <<>> /\ s_sb' = s_sb
    <3>1. reader' = "top"
      BY <1>12, <2>2 DEF Sends
    <3> QED
      BY <2>1, <2>2, <3>1 DEF Tally, Intact
  <2>3. ASSUME NEW k \in 1..Len(chunk),
               s_sb' = s_sb \o SubSeq(chunk, 1, k),
               chunk' = SubSeq(chunk, k + 1, Len(chunk))
        PROVE  Tally'
    <3>1. k \in 0..Len(chunk) /\ k \in Int
      BY <1>0
    <3>2. /\ SubSeq(chunk, 1, k) \in Seq(Plays \X Nat) /\ Len(SubSeq(chunk, 1, k)) = k
          /\ Len(chunk)' = Len(chunk) - k
      BY <1>0, <2>3, <3>1, Parts
    <3>3. Len(s_sb)' = Len(s_sb) + k
      BY <1>0, <2>3, <3>2, ConcatProperties
    <3>4. Len(chunk)' = Len(chunk) - k
      BY <3>2
    <3>5. Taken' = Taken
      BY <1>0, <2>1, <3>1, <3>3, <3>4 DEF Taken
    <3> QED
      BY <1>12, <2>1, <3>5, TallyStays, Sending DEF Intact
  <2> QED
    BY <1>12, <2>2, <2>3, Sending
<1>13. CASE \E n \in Plays : rf_poll_task(n)
  BY <1>13, TallyStays
     DEF rf_poll_task, PollerLeaves, PollerChecks, PollerSets, rest, generations, readers, decoder,
         Intact, Taken
<1>14. CASE UNCHANGED vars
  BY <1>14, TallyStays DEF vars, generations, readers, decoder, Intact, Taken
<1> QED
  BY <1>1, <1>2, <1>3, <1>4, <1>5, <1>6, <1>7, <1>8, <1>9, <1>10, <1>11, <1>12, <1>13, <1>14
     DEF Next, Worker, reader_task

-----------------------------------------------------------------------------

LEMMA StreamStep == StreamInv /\ [Next]_vars => StreamInv'
<1> SUFFICES ASSUME StreamInv, [Next]_vars PROVE StreamInv'
  OBVIOUS
<1>1. TypeOK'
  <2>1. SmallTypes' /\ PlayTypes'
    BY TypesAre, SmallStep, PlayTypesStep DEF StreamInv
  <2>2. ReaderTypes' /\ TitleTypes'
    BY ReaderTypesStep, TitlesStep DEF StreamInv
  <2> QED
    BY <2>1, <2>2 DEF TypeOK, SmallTypes, PlayTypes, ReaderTypes, TitleTypes
<1>2. Tally' /\ Stages' /\ Handles' /\ Ring' /\ Outcome'
  BY TallyStep, StagesStep, HandlesStep, RingStep, OutcomeStep DEF StreamInv
<1> QED
  BY <1>1, <1>2 DEF StreamInv

LEMMA StreamInvariant == Spec => []StreamInv
BY StreamStarts, StreamStep, PTL DEF Spec

(* Every variable has its type; above all, the ring never holds more than  *)
(* it can, and no more units are read than the body has.                   *)
THEOREM StreamTypes == Spec => []TypeOK
<1>1. StreamInv => TypeOK
  BY DEF StreamInv
<1> QED
  BY <1>1, StreamInvariant, PTL

(* The decoder gets the body of the stream that plays, in order, nothing   *)
(* twice, nothing missing and no metadata, whatever the metaint, the       *)
(* pieces that HTTP gives and the room in the ring, and whoever stops it.   *)
THEOREM BodyInOrder == Spec => []InOrder
<1>1. StreamInv => InOrder
  <2> SUFFICES ASSUME StreamInv, reader # "off", NEW i \in 1..Len(s_sb \o chunk)
               PROVE  (s_sb \o chunk)[i] = <<play.n, Audio(pos + i)>>
    BY DEF InOrder
  <2>1. /\ s_sb \in Seq(Plays \X Nat) /\ chunk \in Seq(Plays \X Nat) /\ pos \in Nat
        /\ Len(s_sb) \in Nat /\ Len(chunk) \in Nat
    BY DEF StreamInv, TypeOK
  <2>2. /\ i \in 1..(Len(s_sb) + Len(chunk))
        /\ (s_sb \o chunk)[i] = IF i <= Len(s_sb) THEN s_sb[i] ELSE chunk[i - Len(s_sb)]
    BY <2>1, ConcatProperties
  <2>3. CASE i <= Len(s_sb)
    <3>1. i \in 1..Len(s_sb)
      BY <2>1, <2>2, <2>3
    <3>2. s_sb[i] = <<play.n, Audio(pos + i)>>
      BY <3>1 DEF StreamInv, Ring
    <3> QED
      BY <2>2, <2>3, <3>2
  <2>4. CASE ~(i <= Len(s_sb))
    <3> DEFINE j == i - Len(s_sb)
    <3>1. j \in 1..Len(chunk) /\ pos + Len(s_sb) + j = pos + i
      BY <2>1, <2>2, <2>4
    <3>2. chunk[j] = <<play.n, Audio(pos + Len(s_sb) + j)>>
      BY <3>1 DEF StreamInv, Ring
    <3> QED
      BY <2>2, <2>4, <3>1, <3>2
  <2> QED
    BY <2>3, <2>4
<1> QED
  BY <1>1, StreamInvariant, PTL

(* The reader never uses a connection that was closed under it, and every  *)
(* way out of a play closes all that the play opened.                      *)
THEOREM AllCleanedUp == Spec => []CleanedUp
<1>1. StreamInv => CleanedUp
  <2> SUFFICES ASSUME StreamInv PROVE CleanedUp
    OBVIOUS
  <2>1. decoy \in {"open", "closed"}
    BY DEF StreamInv, TypeOK
  <2> QED
    BY <2>1 DEF StreamInv, Handles, CleanedUp
<1> QED
  BY <1>1, StreamInvariant, PTL

(* An episode of announced length that is not an .m4a is marked as heard   *)
(* only if it was delivered to its end, but for the slack, for every slack *)
(* and every length.                                                       *)
THEOREM MarkedWhenWhole == Spec => []CompletedIsWhole
<1>1. StreamInv => CompletedIsWhole
  BY DEF StreamInv, Outcome, CompletedIsWhole, Completed
<1> QED
  BY <1>1, StreamInvariant, PTL
=============================================================================
