------------------------------ MODULE ResumeTable -------------------------------
(***************************************************************************)
(* The table of resume positions (podcast_resume.c) and its two files: one *)
(* on the card, replaced by remove and rename because FatFs cannot rename  *)
(* onto a file, and one in flash that is written when the card fails. The  *)
(* LVGL task alone calls it; power may be lost between any two steps of a  *)
(* save, and the card may be out, full or refuse the rename at any access. *)
(***************************************************************************)
EXTENDS Naturals, Sequences

CONSTANTS
  Keys,        (* episodes, by the hash of their normalized path or URL    *)
  Positions,   (* pos_ms; dur_ms travels with it                           *)
  Cap,         (* PODCAST_RESUME_CAP                                       *)
  MaxSeq,      (* bound: the highest s_seq                                 *)
  Missing,     (* no such file                                             *)
  OldFormat,   (* a file that an older firmware left                       *)
  Leftovers    (* bound: what is on the card and in flash at first         *)

NoTable == {Missing, OldFormat}

ASSUME ResumeTableAssumption ==
  /\ Cap \in Nat \ {0}
  /\ MaxSeq \in Nat
  /\ Missing # OldFormat
  /\ Leftovers \subseteq NoTable \X NoTable
  /\ NoTable \cap Seq([key : Keys, pos : Positions, updated_at : Nat]) = {}

VARIABLES
  s_entries, s_seq,
  pc,          (* off, idle, or where a save is: card, removed, flash      *)
  sd, lfs,     (* the file on the card and the file in flash               *)
  home, saved  (* history: the medium of the last save that succeeded      *)
               (* ("nowhere" once a boot cannot find it) and its table     *)

memory == <<s_entries, s_seq>>
files  == <<sd, lfs>>
vars   == <<memory, pc, files, saved, home>>

Entry == [key : Keys, pos : Positions, updated_at : Nat]
Table == {t \in Seq(Entry) : Len(t) <= Cap}

Init ==
  /\ s_entries = <<>> /\ s_seq = 0
  /\ pc = "off"
  /\ \E left \in Leftovers : sd = left[1] /\ lfs = left[2]
  /\ saved = <<>> /\ home = "nowhere"

Newest(t) == IF t = <<>> THEN 0
             ELSE CHOOSE n \in {t[i].updated_at : i \in DOMAIN t} :
                    \A i \in DOMAIN t : t[i].updated_at <= n

MutantFlashFirst(readable) == LET file == IF lfs # Missing THEN lfs ELSE sd
                              IN  IF file \in NoTable THEN <<>> ELSE file

(* `readable`: the card is in and mounted. A file that is there but does   *)
(* not hold a table is not made up for by the other one.                   *)
Loaded(readable) == LET file == IF readable /\ sd # Missing THEN sd ELSE lfs
                    IN  IF file \in NoTable THEN <<>> ELSE file

podcast_resume_init(readable) ==
  /\ pc = "off"
  /\ s_entries' = Loaded(readable)
  /\ s_seq' = Newest(Loaded(readable))
  /\ pc' = "idle"
  /\ UNCHANGED <<files, saved, home>>

(* The file opens, but reading it fails.                                   *)
InitFails ==
  /\ pc = "off"
  /\ sd # Missing \/ lfs # Missing
  /\ s_entries' = <<>> /\ s_seq' = 0
  /\ pc' = "idle"
  /\ UNCHANGED <<files, saved, home>>

Found(k) == {i \in DOMAIN s_entries : s_entries[i].key = k}

Oldest == CHOOSE i \in DOMAIN s_entries :
            \A j \in DOMAIN s_entries : s_entries[i].updated_at <= s_entries[j].updated_at

MutantFirstSlot(k) == IF Found(k) # {} THEN CHOOSE i \in Found(k) : TRUE
                      ELSE IF Len(s_entries) < Cap THEN Len(s_entries) + 1 ELSE 1

MutantGrows(k) == IF Found(k) # {} THEN CHOOSE i \in Found(k) : TRUE
                  ELSE IF Len(s_entries) <= Cap THEN Len(s_entries) + 1 ELSE Oldest

Slot(k) == IF Found(k) # {} THEN CHOOSE i \in Found(k) : TRUE
           ELSE IF Len(s_entries) < Cap THEN Len(s_entries) + 1 ELSE Oldest

podcast_resume_set(k, p) ==
  /\ pc = "idle" /\ s_seq < MaxSeq
  /\ s_seq' = s_seq + 1
  /\ s_entries' = [i \in DOMAIN s_entries \cup {Slot(k)} |->
                     IF i = Slot(k) THEN [key |-> k, pos |-> p, updated_at |-> s_seq + 1]
                                    ELSE s_entries[i]]
  /\ pc' = "card"
  /\ UNCHANGED <<files, saved, home>>

podcast_resume_clear(k) ==
  /\ pc = "idle"
  /\ \E i \in Found(k) :
       s_entries' = [j \in 1..(Len(s_entries) - 1) |-> s_entries[IF j < i THEN j ELSE j + 1]]
  /\ pc' = "card"
  /\ UNCHANGED <<s_seq, files, saved, home>>

-----------------------------------------------------------------------------
(* save_to_file. The temporary file is never read back, so writing it only *)
(* matters by its success.                                                 *)

(* The temporary file is whole; fatfs_needs_remove: the old one goes.      *)
RemoveOld ==
  /\ pc = "card"
  /\ sd' = Missing
  /\ pc' = "removed"
  /\ IF home = "card" THEN home' = "nowhere" /\ saved' = <<>>
                      ELSE UNCHANGED <<home, saved>>
  /\ UNCHANGED <<memory, lfs>>

RenameOnCard ==
  /\ pc = "removed"
  /\ sd' = s_entries
  /\ saved' = s_entries /\ home' = "card"
  /\ pc' = "idle"
  /\ UNCHANGED <<memory, lfs>>

(* fopen, fwrite or rename on the card fails: podcast_resume_save turns to *)
(* flash.                                                                  *)
CardFails ==
  /\ pc \in {"card", "removed"}
  /\ pc' = "flash"
  /\ UNCHANGED <<memory, files, saved, home>>

SaveToFlash ==
  /\ pc = "flash"
  /\ lfs' = s_entries
  /\ IF sd = Missing THEN home' = "flash" /\ saved' = s_entries
                     ELSE home' = "nowhere" /\ saved' = <<>>
  /\ pc' = "idle"
  /\ UNCHANGED <<memory, sd>>

FlashFails ==
  /\ pc = "flash"
  /\ pc' = "idle"
  /\ UNCHANGED <<memory, files, saved, home>>

PowerLost ==
  /\ pc # "off"
  /\ s_entries' = <<>> /\ s_seq' = 0
  /\ pc' = "off"
  /\ UNCHANGED <<files, saved, home>>

Next ==
  \/ (\E readable \in BOOLEAN : podcast_resume_init(readable)) \/ InitFails
  \/ \E k \in Keys : podcast_resume_clear(k) \/ \E p \in Positions : podcast_resume_set(k, p)
  \/ RemoveOld \/ RenameOnCard \/ CardFails \/ SaveToFlash \/ FlashFails
  \/ PowerLost

Spec == Init /\ [][Next]_vars

-----------------------------------------------------------------------------
(* Properties                                                              *)

Unique(t) == \A i, j \in DOMAIN t :
               i # j => t[i].key # t[j].key /\ t[i].updated_at # t[j].updated_at

(* The table and both files hold at most Cap entries of the right shape.   *)
TypeOK ==
  /\ s_entries \in Table /\ s_seq \in Nat
  /\ pc \in {"off", "idle", "card", "removed", "flash"}
  /\ sd \in Table \cup NoTable /\ lfs \in Table \cup NoTable
  /\ saved \in Table /\ home \in {"card", "flash", "nowhere"}

(* However saves, losses of power and changes of medium interleave, an     *)
(* episode never has two entries, and no two entries share an age: what    *)
(* the eviction of podcast_resume_set takes is the single oldest one.      *)
EntriesUnique ==
  /\ Unique(s_entries)
  /\ \A i \in DOMAIN s_entries : s_entries[i].updated_at <= s_seq
  /\ \A f \in {sd, lfs} \ NoTable : Unique(f)

(* A boot that can read its file finds the table of the last save that     *)
(* succeeded, if that save is where the boot looks first. Not promised: a  *)
(* save that the card refused while it kept an older file, and one whose   *)
(* file was removed before the rename that did not come.                   *)
BootFindsLastSave ==
  [][\A readable \in BOOLEAN :
       podcast_resume_init(readable) /\ home \in {"flash"} \cup {h \in {"card"} : readable}
         => s_entries' = saved]_vars

(* The abstract table has no places, only entries.                         *)
Entries(t) == {t[i] : i \in DOMAIN t}

Lru == INSTANCE LruPositions WITH
  recent <- Entries(s_entries),
  kept <- {Entries(f) : f \in {sd, lfs} \ NoTable},
  Ages <- 1..MaxSeq

(* The table with its files is a least-recently-used table that survives   *)
(* a restart whole or not at all.                                          *)
ImplementsLru == Lru!Spec
===============================================================================
