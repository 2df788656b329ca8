----------------------------- MODULE MCAudioOutput -----------------------------
(* Instances of AudioOutput: the playback worker plays and records memos,  *)
(* the tuner task records, and a Sendspin player may be present.           *)
EXTENDS AudioOutput
=============================================================================
