----------------------------- MODULE MCStreamSource -----------------------------
EXTENDS StreamSource

Station == [metaint |-> 2, announced |-> FALSE, livemeta |-> FALSE, mp4 |-> FALSE]
RadioFrance == [metaint |-> 0, announced |-> FALSE, livemeta |-> TRUE, mp4 |-> FALSE]
Episode == [metaint |-> 0, announced |-> TRUE, livemeta |-> FALSE, mp4 |-> FALSE]
EpisodeMp4 == [metaint |-> 0, announced |-> TRUE, livemeta |-> FALSE, mp4 |-> TRUE]

MCStreams == {Station, RadioFrance, Episode, EpisodeMp4}
===============================================================================
