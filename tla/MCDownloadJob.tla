---- MODULE MCDownloadJob ----
(* Two podcasts; the first is limited to two episodes and publishes a      *)
(* third, so that its oldest is to be deleted. The user asks for every     *)
(* episode of the first again; maintenance covers both.                    *)
EXTENDS DownloadJob

MCEpisodes == <<3, 1>>
MCFirst == <<2, 1>>
MCAsked == {<<1, TRUE>>}
MCKeep == <<2, 0>>
====
