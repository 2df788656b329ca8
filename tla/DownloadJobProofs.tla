--------------------------- MODULE DownloadJobProofs ---------------------------
(***************************************************************************)
(* Theorems about DownloadJob, for any number of podcasts, episodes, jobs, *)
(* faults, withdrawals and losses of power: its types, that a run which    *)
(* downloads has limited every podcast that it could, that the flash is    *)
(* never ahead of the work, and that no episode is skipped.                *)
(***************************************************************************)
EXTENDS DownloadJob, SequenceTheorems, TLAPS

(* TypeOK in parts: the job, where the worker is, the podcasts, and what   *)
(* is Boolean.                                                             *)
JobTypes == s_dljob \in Jobs /\ saved \in Jobs /\ asks \in Nat

Places ==
  /\ pc \in PcStates /\ i \in 0..(NumPodcasts + 1) /\ e \in Nat
  /\ resume_pod \in 0..NumPodcasts /\ resume_ep \in Nat
  /\ pc \in {"refresh", "prune", "podcast", "episode", "fetch"} => 1 <= i
  /\ pc \in {"episode", "fetch"} => i <= NumPodcasts
  /\ pc = "fetch" => e < Window(i)

AllLists == UNION {Lists(p) : p \in Podcasts}

Library ==
  /\ feed \in [Podcasts -> AllLists] /\ manifest \in [Podcasts -> AllLists]
  /\ cached \in [Podcasts -> SUBSET Nat]
  /\ \A p \in Podcasts : /\ feed[p] \in Lists(p) /\ manifest[p] \in Lists(p)
                          /\ cached[p] \subseteq 1..MaxEpisodes[p]

Flags ==
  /\ s_downloading \in BOOLEAN /\ s_dl_queued \in BOOLEAN /\ s_dl_cancel \in BOOLEAN
  /\ started \in BOOLEAN /\ playing \in BOOLEAN /\ busy \in BOOLEAN
  /\ s_played_since_maint \in BOOLEAN /\ s_maint_done_since_boot \in BOOLEAN

Types == JobTypes /\ Places /\ Library /\ Flags

(* A list of a podcast as a sequence.                                      *)
LEMMA ListFacts ==
  ASSUME NEW p \in Podcasts, NEW m \in Lists(p)
  PROVE  /\ m \in Seq(1..MaxEpisodes[p]) /\ Len(m) \in Nat /\ Len(m) <= MaxEpisodes[p]
         /\ DOMAIN m = 1..Len(m)
         /\ \A k \in 1..Len(m) : m[k] \in 1..MaxEpisodes[p]
         /\ \A j, k \in 1..Len(m) : m[j] = m[k] => j = k
<1>1. PICK n \in 0..MaxEpisodes[p] : m \in [1..n -> 1..MaxEpisodes[p]]
  BY DEF Lists
<1>2. n \in Nat
  BY <1>1, DownloadJobAssumption
<1>3. m \in Seq(1..MaxEpisodes[p]) /\ Len(m) = n
  <2>1. m \in Seq(1..MaxEpisodes[p])
    BY <1>1, <1>2, SeqDef
  <2>2. m \in [1..Len(m) -> 1..MaxEpisodes[p]] /\ Len(m) \in Nat
    BY <2>1, LenProperties
  <2>3. 1..Len(m) = 1..n
    BY <1>1, <2>2
  <2>4. n = 0 \/ n \in 1..Len(m)
    BY <1>2, <2>3
  <2>5. Len(m) = 0 \/ Len(m) \in 1..Len(m)
    BY <2>2
  <2>6. Len(m) = 0 \/ Len(m) \in 1..n
    BY <2>3, <2>5
  <2>7. Len(m) = n
    <3>1. \A l, k \in Nat : (k = 0 \/ k \in 1..l) /\ (l = 0 \/ l \in 1..k) => l = k
      OBVIOUS
    <3> QED
      BY <1>2, <2>2, <2>4, <2>6, <3>1
  <2> QED
    BY <2>1, <2>7
<1>4. \A j, k \in 1..Len(m) : m[j] = m[k] => j = k
  BY DEF Lists
<1> QED
  BY <1>1, <1>2, <1>3, <1>4, DownloadJobAssumption

LEMMA ListIs ==
  ASSUME NEW p \in Podcasts, NEW n \in Nat, n <= MaxEpisodes[p],
         NEW m \in [1..n -> 1..MaxEpisodes[p]],
         \A j, k \in 1..n : m[j] = m[k] => j = k
  PROVE  m \in Lists(p)
<1>1. n \in 0..MaxEpisodes[p]
  BY DownloadJobAssumption
<1>2. Len(m) = n
  <2>1. m \in Seq(1..MaxEpisodes[p])
    <3> DEFINE S == 1..MaxEpisodes[p]
    <3>1. m \in UNION {[1..l -> S] : l \in Nat}
      OBVIOUS
    <3>2. Seq(S) = UNION {[1..l -> S] : l \in Nat}
      BY SeqDef
    <3> QED
      BY <3>1, <3>2
  <2>2. m \in [1..Len(m) -> 1..MaxEpisodes[p]] /\ Len(m) \in Nat
    BY <2>1, LenProperties
  <2>3. 1..Len(m) = 1..n
    BY <2>2
  <2>4. n = 0 \/ n \in 1..Len(m)
    BY <2>3
  <2>5. Len(m) = 0 \/ Len(m) \in 1..n
    BY <2>2, <2>3
  <2> QED
    BY <2>2, <2>4, <2>5
<1> QED
  BY <1>1, <1>2 DEF Lists

(* A window ends with the list.                                            *)
LEMMA Windows ==
  ASSUME Library, NEW p \in Podcasts
  PROVE  /\ Window(p) \in Nat /\ Window(p) <= Len(manifest[p])
         /\ Len(manifest[p]) \in Nat
<1>1. Len(manifest[p]) \in Nat
  BY ListFacts DEF Library
<1> QED
  BY <1>1, DownloadJobAssumption DEF Window

LEMMA FirstLists ==
  ASSUME NEW p \in Podcasts
  PROVE  [k \in 1..FirstEpisodes[p] |-> FirstEpisodes[p] + 1 - k] \in Lists(p)
<1> DEFINE n == FirstEpisodes[p]
           m == [k \in 1..n |-> n + 1 - k]
<1>1. n \in Nat /\ n <= MaxEpisodes[p] /\ MaxEpisodes[p] \in Nat
  BY DownloadJobAssumption
<1>2. m \in [1..n -> 1..MaxEpisodes[p]] /\ \A j, k \in 1..n : m[j] = m[k] => j = k
  BY <1>1
<1> QED
  BY <1>1, <1>2, ListIs

LEMMA PublishedLists ==
  ASSUME NEW p \in Podcasts, NEW m \in Lists(p), Len(m) < MaxEpisodes[p],
         NEW n \in (1..MaxEpisodes[p]) \ Entries(m)
  PROVE  <<n>> \o m \in Lists(p)
<1> DEFINE l == Len(m) + 1
           c == <<n>> \o m
<1>1. /\ m \in Seq(1..MaxEpisodes[p]) /\ Len(m) \in Nat
      /\ \A k \in 1..Len(m) : m[k] \in 1..MaxEpisodes[p]
      /\ \A j, k \in 1..Len(m) : m[j] = m[k] => j = k
  BY ListFacts
<1>2. c \in Seq(1..MaxEpisodes[p]) /\ Len(c) = l
  BY <1>1
<1>3. \A k \in 1..l : c[k] = IF k = 1 THEN n ELSE m[k - 1]
  BY <1>1
<1>4. l \in Nat /\ l <= MaxEpisodes[p]
  BY <1>1, DownloadJobAssumption
<1>5. c \in [1..l -> 1..MaxEpisodes[p]]
  BY <1>2, LenProperties
<1>6. \A k \in 1..Len(m) : m[k] # n
  BY DEF Entries
<1>7. \A j, k \in 1..l : c[j] = c[k] => j = k
  <2> SUFFICES ASSUME NEW j \in 1..l, NEW k \in 1..l, c[j] = c[k] PROVE j = k
    OBVIOUS
  <2>1. j \in Nat /\ k \in Nat /\ 1 <= j /\ 1 <= k
    BY <1>1
  <2>2. j # 1 => j - 1 \in 1..Len(m)
    BY <1>1, <2>1
  <2>3. k # 1 => k - 1 \in 1..Len(m)
    BY <1>1, <2>1
  <2>4. CASE j = 1 /\ k = 1
    BY <2>4
  <2>5. CASE j = 1 /\ k # 1
    BY <1>3, <1>6, <2>3, <2>5
  <2>6. CASE j # 1 /\ k = 1
    BY <1>3, <1>6, <2>2, <2>6
  <2>7. CASE j # 1 /\ k # 1
    <3>1. m[j - 1] = m[k - 1]
      BY <1>3, <2>7
    <3>2. j - 1 = k - 1
      BY <1>1, <2>2, <2>3, <2>7, <3>1
    <3> QED
      BY <2>1, <3>2
  <2> QED
    BY <2>4, <2>5, <2>6, <2>7
<1>8. c \in Lists(p)
  <2> HIDE DEF c
  <2> QED
    BY <1>4, <1>5, <1>7, ListIs
<1> QED
  BY <1>8

LEMMA ShorterLists ==
  ASSUME NEW p \in Podcasts, NEW m \in Lists(p), NEW n \in 1..Len(m)
  PROVE  Without(m, n) \in Lists(p)
<1> DEFINE l == Len(m) - 1
           w == Without(m, n)
<1>1. /\ Len(m) \in Nat /\ Len(m) <= MaxEpisodes[p]
      /\ \A k \in 1..Len(m) : m[k] \in 1..MaxEpisodes[p]
      /\ \A j, k \in 1..Len(m) : m[j] = m[k] => j = k
  BY ListFacts
<1>2. l \in Nat /\ l <= MaxEpisodes[p]
  BY <1>1, DownloadJobAssumption
<1>3. w = [k \in 1..l |-> IF k < n THEN m[k] ELSE m[k + 1]]
  BY DEF Without
<1>4. \A k \in 1..l : k \in 1..Len(m) /\ k + 1 \in 1..Len(m)
  BY <1>1
<1>5. w \in [1..l -> 1..MaxEpisodes[p]]
  BY <1>1, <1>3, <1>4
<1>6. \A j, k \in 1..l : w[j] = w[k] => j = k
  <2> SUFFICES ASSUME NEW j \in 1..l, NEW k \in 1..l, w[j] = w[k] PROVE j = k
    OBVIOUS
  <2>1. /\ w[j] = (IF j < n THEN m[j] ELSE m[j + 1])
        /\ w[k] = (IF k < n THEN m[k] ELSE m[k + 1])
    BY <1>3
  <2>2. j \in 1..Len(m) /\ j + 1 \in 1..Len(m) /\ k \in 1..Len(m) /\ k + 1 \in 1..Len(m)
    BY <1>4
  <2>3. CASE j < n /\ k < n
    <3>1. m[j] = m[k]
      BY <2>1, <2>3
    <3> QED
      BY <1>1, <2>2, <3>1
  <2>4. CASE j < n /\ ~(k < n)
    <3>1. m[j] = m[k + 1]
      BY <2>1, <2>4
    <3>2. j = k + 1
      BY <1>1, <2>2, <3>1
    <3> QED
      BY <1>1, <2>2, <2>4, <3>2
  <2>5. CASE ~(j < n) /\ k < n
    <3>1. m[j + 1] = m[k]
      BY <2>1, <2>5
    <3>2. j + 1 = k
      BY <1>1, <2>2, <3>1
    <3> QED
      BY <1>1, <2>2, <2>5, <3>2
  <2>6. CASE ~(j < n) /\ ~(k < n)
    <3>1. m[j + 1] = m[k + 1]
      BY <2>1, <2>6
    <3>2. j + 1 = k + 1
      BY <1>1, <2>2, <3>1
    <3> QED
      BY <1>1, <2>2, <3>2
  <2> QED
    BY <2>3, <2>4, <2>5, <2>6
<1>7. w \in Lists(p)
  <2> HIDE DEF w
  <2> QED
    BY <1>2, <1>5, <1>6, ListIs
<1> QED
  BY <1>7

(* A job keeps its type whatever field is set.                             *)
LEMMA Fields ==
  ASSUME NEW job \in Jobs
  PROVE  /\ \A b \in BOOLEAN : /\ [job EXCEPT !.active = b] \in Jobs
                               /\ [job EXCEPT !.refresh_done = b] \in Jobs
                               /\ [job EXCEPT !.downloads_done = b] \in Jobs
         /\ \A n \in Nat : [job EXCEPT !.cur_ep_idx = n] \in Jobs
         /\ \A n \in Nat, b \in BOOLEAN : [job EXCEPT !.cur_ep_idx = n, !.active = b] \in Jobs
         /\ \A p \in 0..NumPodcasts, n \in Nat :
              [job EXCEPT !.cur_pod_id = p, !.cur_ep_idx = n] \in Jobs
         /\ \A n \in Nat : [job EXCEPT !.active = TRUE, !.id = n] \in Jobs
         /\ job.cur_ep_idx \in Nat /\ job.cur_pod_id \in 0..NumPodcasts
         /\ job.id \in Nat
BY DEF Jobs

(* The jobs that ui_remote_download and maintenance make.                  *)
LEMMA Starts ==
  /\ NoJob \in Jobs
  /\ \A scope \in 0..NumPodcasts, force \in BOOLEAN :
       [NoJob EXCEPT !.scope = scope, !.force = force] \in Jobs
  /\ [NoJob EXCEPT !.maint = TRUE] \in Jobs
<1>1. NoJob \in Jobs
  BY DownloadJobAssumption DEF NoJob, Jobs
<1>2. ASSUME NEW scope \in 0..NumPodcasts, NEW force \in BOOLEAN
      PROVE  [NoJob EXCEPT !.scope = scope, !.force = force] \in Jobs
  BY <1>1 DEF Jobs
<1>3. [NoJob EXCEPT !.maint = TRUE] \in Jobs
  BY <1>1 DEF Jobs
<1> QED
  BY <1>1, <1>2, <1>3

LEMMA Asks == \A ask \in Asked : ask[1] \in 0..NumPodcasts /\ ask[2] \in BOOLEAN
BY DownloadJobAssumption

(* Whether the write succeeds or fails.                                    *)
LEMMA Persisted ==
  ASSUME saved \in Jobs, NEW job \in Jobs, Persist(job)
  PROVE  s_dljob' \in Jobs /\ saved' \in Jobs /\ s_dljob' = job
BY DEF Persist

LEMMA NewJobs ==
  ASSUME JobTypes, NEW job \in Jobs, NewJob(job)
  PROVE  JobTypes'
<1>1. asks + 1 \in Nat
  BY DEF JobTypes
<1>2. [job EXCEPT !.active = TRUE, !.id = asks + 1] \in Jobs
  BY <1>1, Fields
<1>3. s_dljob' \in Jobs /\ saved' \in Jobs
  BY <1>2, Persisted DEF NewJob, JobTypes
<1> QED
  BY <1>1, <1>3 DEF JobTypes, NewJob

LEMMA InitTypes == Init => Types
<1> SUFFICES ASSUME Init PROVE Types
  OBVIOUS
<1>1. JobTypes
  BY Starts DEF JobTypes, Init
<1>2. Places
  BY DownloadJobAssumption DEF Places, PcStates, Init
<1>3. Library
  <2>1. \A p \in Podcasts : /\ feed[p] \in Lists(p) /\ manifest[p] \in Lists(p)
                            /\ cached[p] \subseteq 1..MaxEpisodes[p]
    BY FirstLists DEF Init
  <2>2. feed \in [Podcasts -> AllLists]
    BY FirstLists DEF Init, AllLists
  <2> QED
    BY <2>1, <2>2 DEF Library, Init
<1>4. Flags
  BY DEF Flags, Init
<1> QED
  BY <1>1, <1>2, <1>3, <1>4 DEF Types

LEMMA AdvanceTypes ==
  ASSUME Types, NEW from, Advance(from)
  PROVE  JobTypes'
<1> DEFINE job == [s_dljob EXCEPT !.cur_ep_idx = e + 1]
<1>1. job \in Jobs
  <2>1. e + 1 \in Nat /\ s_dljob \in Jobs
    BY DEF Types, JobTypes, Places
  <2> QED
    BY <2>1, Fields
<1>2. s_dljob' = job /\ (saved' = saved \/ saved' = job) /\ asks' = asks
  BY DEF Advance, Persist, Outside
<1> QED
  BY <1>1, <1>2 DEF Types, JobTypes

LEMMA JobTypesStep ==
  ASSUME Types, [Next]_vars
  PROVE  JobTypes'
<1> USE DEF bounds
<1>1. CASE \E ask \in Asked : ui_remote_download(ask[1], ask[2])
  BY <1>1, Asks, Starts, NewJobs DEF ui_remote_download, Types
<1>2. CASE ui_remote_cancel
  <2>1. [s_dljob EXCEPT !.active = FALSE] \in Jobs
    BY Fields DEF Types, JobTypes
  <2>2. Persist([s_dljob EXCEPT !.active = FALSE]) /\ asks' = asks
    BY <1>2 DEF ui_remote_cancel
  <2> QED
    BY <2>1, <2>2, Persisted DEF Types, JobTypes
<1>3. CASE StartJob
  BY <1>3 DEF StartJob, Types, JobTypes
<1>4. CASE ScheduleMaintenance
  BY <1>4, Starts, NewJobs DEF ScheduleMaintenance, Types
<1>5. CASE Play
  BY <1>5 DEF Play, Trouble, Types, JobTypes
<1>6. CASE PlayEnds
  BY <1>6 DEF PlayEnds, Types, JobTypes
<1>7. CASE OtherAsked
  BY <1>7 DEF OtherAsked, Trouble, Types, JobTypes
<1>8. CASE OtherServed
  BY <1>8 DEF OtherServed, Types, JobTypes
<1>9. CASE \E p \in Podcasts : on_refresh(p)
  BY <1>9 DEF on_refresh, Disturb, Types, JobTypes
<1>10. CASE Claim
  BY <1>10 DEF Claim, Goto, Keep, Types, JobTypes
<1>11. CASE Guard
  BY <1>11 DEF Guard, Goto, Leave, ForgetLocals, Outside, FirstPhase, Keep,
     Types, JobTypes
<1>12. CASE RefreshFeed
  BY <1>12 DEF RefreshFeed, Goto, Outside, Keep, Types, JobTypes
<1>13. CASE RefreshDone
  <2>1. [s_dljob EXCEPT !.refresh_done = TRUE] \in Jobs
    BY Fields DEF Types, JobTypes, Places
  <2>2. Persist([s_dljob EXCEPT !.refresh_done = TRUE]) /\ asks' = asks
    BY <1>13 DEF RefreshDone, Outside
  <2> QED
    BY <2>1, <2>2, Persisted DEF Types, JobTypes
<1>14. CASE Prune
  BY <1>14 DEF Prune, Goto, Outside, Keep, Types, JobTypes
<1>15. CASE ReadCursor
  BY <1>15 DEF ReadCursor, Goto, Outside, Keep, Types, JobTypes
<1>16. CASE InterruptEarly
  BY <1>16 DEF InterruptEarly, Leave, Goto, ForgetLocals, Outside, Keep,
     Types, JobTypes
<1>17. CASE SkipPodcast
  BY <1>17 DEF SkipPodcast, Goto, Outside, Keep, Types, JobTypes
<1>18. CASE StartPodcast
  <2>0. i \in 0..NumPodcasts /\ e' \in Nat
    BY <1>18, DownloadJobAssumption DEF StartPodcast, Reached, Podcasts, Types, Places
  <2>1. [s_dljob EXCEPT !.cur_pod_id = i, !.cur_ep_idx = e'] \in Jobs
    BY <2>0, Fields DEF Types, JobTypes, Places
  <2>2. Persist([s_dljob EXCEPT !.cur_pod_id = i, !.cur_ep_idx = e']) /\ asks' = asks
    BY <1>18 DEF StartPodcast, Outside
  <2> QED
    BY <2>1, <2>2, Persisted DEF Types, JobTypes
<1>19. CASE SkipCached
  BY <1>19, AdvanceTypes DEF SkipCached
<1>20. CASE Fetch
  BY <1>20 DEF Fetch, Goto, Outside, Keep, Types, JobTypes
<1>21. CASE Fetched
  BY <1>21, AdvanceTypes DEF Fetched
<1>22. CASE FetchFailed
  BY <1>22, AdvanceTypes DEF FetchFailed
<1>23. CASE Interrupt
  <2>1. [s_dljob EXCEPT !.cur_ep_idx = e] \in Jobs
    BY Fields DEF Types, JobTypes, Places
  <2>2. Persist([s_dljob EXCEPT !.cur_ep_idx = e]) /\ asks' = asks
    BY <1>23 DEF Interrupt, Outside
  <2> QED
    BY <2>1, <2>2, Persisted DEF Types, JobTypes
<1>24. CASE CardFull
  <2>1. [s_dljob EXCEPT !.cur_ep_idx = e, !.active = FALSE] \in Jobs
    BY Fields DEF Types, JobTypes, Places
  <2>2. Persist([s_dljob EXCEPT !.cur_ep_idx = e, !.active = FALSE]) /\ asks' = asks
    BY <1>24 DEF CardFull, Outside
  <2> QED
    BY <2>1, <2>2, Persisted DEF Types, JobTypes
<1>25. CASE EndPodcast
  BY <1>25 DEF EndPodcast, Goto, Outside, Keep, Types, JobTypes
<1>26. CASE DownloadsDone
  <2>1. [s_dljob EXCEPT !.downloads_done = TRUE] \in Jobs
    BY Fields DEF Types, JobTypes, Places
  <2>2. Persist([s_dljob EXCEPT !.downloads_done = TRUE]) /\ asks' = asks
    BY <1>26 DEF DownloadsDone, Outside
  <2> QED
    BY <2>1, <2>2, Persisted DEF Types, JobTypes
<1>27. CASE InterruptScan
  <2>1. s_dljob \in Jobs
    BY Fields DEF Types, JobTypes, Places
  <2>2. Persist(s_dljob) /\ asks' = asks
    BY <1>27 DEF InterruptScan, Outside
  <2> QED
    BY <2>1, <2>2, Persisted DEF Types, JobTypes
<1>28. CASE Complete
  <2>1. [s_dljob EXCEPT !.active = FALSE] \in Jobs
    BY Fields DEF Types, JobTypes, Places
  <2>2. Persist([s_dljob EXCEPT !.active = FALSE]) /\ asks' = asks
    BY <1>28 DEF Complete, Outside
  <2> QED
    BY <2>1, <2>2, Persisted DEF Types, JobTypes
<1>29. CASE NoMemory
  BY <1>29 DEF NoMemory, Leave, Goto, ForgetLocals, Outside, Trouble, Types,
     JobTypes
<1>30. CASE Unreadable
  <2> DEFINE n == IF i = resume_pod THEN resume_ep ELSE 0
             job == [s_dljob EXCEPT !.cur_pod_id = i, !.cur_ep_idx = n]
  <2>1. i \in 0..NumPodcasts /\ n \in Nat
    BY <1>30, DownloadJobAssumption DEF Unreadable, Reached, Podcasts, Types, Places
  <2>2. job \in Jobs
    <3> HIDE DEF n
    <3> QED
      BY <2>1, Fields DEF Types, JobTypes
  <2>3. s_dljob' = job /\ saved' \in {saved, s_dljob'} /\ asks' = asks
    BY <1>30 DEF Unreadable, Outside
  <2> QED
    BY <2>2, <2>3 DEF Types, JobTypes
<1>31. CASE PruneFallsShort
  BY <1>31 DEF PruneFallsShort, Goto, Outside, Trouble, Types, JobTypes
<1>32. CASE Reboot
  BY <1>32 DEF Reboot, ForgetLocals, Disturb, Types, JobTypes
<1>33. CASE \E p \in Podcasts : Publish(p)
  BY <1>33 DEF Publish, Types, JobTypes
<1>34. CASE \E p \in Podcasts : Withdraw(p)
  BY <1>34 DEF Withdraw, Trouble, Types, JobTypes
<1>35. CASE UNCHANGED vars
  BY <1>35 DEF vars, Types, JobTypes
<1> QED
  BY <1>1, <1>2, <1>3, <1>4, <1>5, <1>6, <1>7, <1>8, <1>9, <1>10, <1>11,
     <1>12, <1>13, <1>14, <1>15, <1>16, <1>17, <1>18, <1>19, <1>20, <1>21,
     <1>22, <1>23, <1>24, <1>25, <1>26, <1>27, <1>28, <1>29, <1>30, <1>31,
     <1>32, <1>33, <1>34, <1>35 DEF Next, LvglTask, Worker

(* Where the worker is.                                                    *)
LEMMA PlacesStep ==
  ASSUME Types, [Next]_vars
  PROVE  Places'
<1> USE DEF Types, Places, PcStates, Podcasts, Window, cursor, flags, library,
        use, bounds, history
<1>1. CASE \E ask \in Asked : ui_remote_download(ask[1], ask[2])
  BY <1>1, DownloadJobAssumption DEF ui_remote_download, NewJob, Persist,
     Trouble
<1>2. CASE ui_remote_cancel
  BY <1>2, DownloadJobAssumption DEF ui_remote_cancel, Persist, Trouble
<1>3. CASE StartJob
  BY <1>3, DownloadJobAssumption DEF StartJob
<1>4. CASE ScheduleMaintenance
  BY <1>4, DownloadJobAssumption DEF ScheduleMaintenance, NewJob, Persist,
     Trouble
<1>5. CASE Play
  BY <1>5, DownloadJobAssumption DEF Play, Trouble
<1>6. CASE PlayEnds
  BY <1>6, DownloadJobAssumption DEF PlayEnds
<1>7. CASE OtherAsked
  BY <1>7, DownloadJobAssumption DEF OtherAsked, Trouble
<1>8. CASE OtherServed
  BY <1>8, DownloadJobAssumption DEF OtherServed
<1>9. CASE \E p \in Podcasts : on_refresh(p)
  BY <1>9, DownloadJobAssumption DEF on_refresh
<1>10. CASE Claim
  BY <1>10, DownloadJobAssumption DEF Claim, Goto, Keep
<1>11. CASE Guard
  BY <1>11, DownloadJobAssumption, DownloadJobAssumption DEF Guard, Goto,
     Leave, ForgetLocals, Outside, FirstPhase, Keep
<1>12. CASE RefreshFeed
  BY <1>12, DownloadJobAssumption DEF RefreshFeed, Goto, Outside, Keep
<1>13. CASE RefreshDone
  BY <1>13, DownloadJobAssumption DEF RefreshDone, Goto, Outside, Persist,
     Trouble
<1>14. CASE Prune
  BY <1>14, DownloadJobAssumption DEF Prune, Goto, Outside, Keep
<1>15. CASE ReadCursor
  <2>1. resume_pod' \in 0..NumPodcasts /\ resume_ep' \in Nat
    BY <1>15, Fields DEF ReadCursor, Types, JobTypes
  <2> QED
    BY <1>15, <2>1, DownloadJobAssumption DEF ReadCursor, Goto, Outside, Keep
<1>16. CASE InterruptEarly
  BY <1>16, DownloadJobAssumption DEF InterruptEarly, Leave, Goto,
     ForgetLocals, Outside, Keep
<1>17. CASE SkipPodcast
  BY <1>17, DownloadJobAssumption DEF SkipPodcast, Goto, Outside, Keep
<1>18. CASE StartPodcast
  BY <1>18, DownloadJobAssumption DEF StartPodcast, Reached, Goto, Persist,
     Trouble, Outside
<1>19. CASE SkipCached
  BY <1>19, DownloadJobAssumption DEF SkipCached, Advance, Goto, Outside,
     Persist, Trouble
<1>20. CASE Fetch
  BY <1>20, DownloadJobAssumption DEF Fetch, Goto, Outside, Keep
<1>21. CASE Fetched
  BY <1>21, DownloadJobAssumption DEF Fetched, Advance, Goto, Outside,
     Persist, Trouble
<1>22. CASE FetchFailed
  BY <1>22, DownloadJobAssumption DEF FetchFailed, Advance, Goto, Outside,
     Persist, Trouble
<1>23. CASE Interrupt
  BY <1>23, DownloadJobAssumption DEF Interrupt, Leave, Goto, ForgetLocals,
     Outside, Persist, Trouble
<1>24. CASE CardFull
  BY <1>24, DownloadJobAssumption DEF CardFull, Leave, Goto, ForgetLocals,
     Outside, Persist, Trouble
<1>25. CASE EndPodcast
  BY <1>25, DownloadJobAssumption DEF EndPodcast, Goto, Outside, Keep
<1>26. CASE DownloadsDone
  BY <1>26, DownloadJobAssumption DEF DownloadsDone, Goto, Outside, Persist,
     Trouble
<1>27. CASE InterruptScan
  BY <1>27, DownloadJobAssumption DEF InterruptScan, Leave, Goto,
     ForgetLocals, Outside, Persist, Trouble
<1>28. CASE Complete
  BY <1>28, DownloadJobAssumption DEF Complete, Leave, Goto, ForgetLocals,
     Outside, Persist, Trouble
<1>29. CASE NoMemory
  BY <1>29, DownloadJobAssumption DEF NoMemory, Leave, Goto, ForgetLocals,
     Outside, Trouble
<1>30. CASE Unreadable
  BY <1>30, DownloadJobAssumption DEF Unreadable, Reached, Goto, Outside,
     Disturb, Trouble
<1>31. CASE PruneFallsShort
  BY <1>31, DownloadJobAssumption DEF PruneFallsShort, Goto, Outside,
     Trouble
<1>32. CASE Reboot
  BY <1>32, DownloadJobAssumption DEF Reboot, ForgetLocals, Disturb
<1>33. CASE \E p \in Podcasts : Publish(p)
  BY <1>33, DownloadJobAssumption DEF Publish
<1>34. CASE \E p \in Podcasts : Withdraw(p)
  BY <1>34, DownloadJobAssumption DEF Withdraw, Trouble
<1>35. CASE UNCHANGED vars
  BY <1>35, DownloadJobAssumption DEF vars
<1> QED
  BY <1>1, <1>2, <1>3, <1>4, <1>5, <1>6, <1>7, <1>8, <1>9, <1>10, <1>11,
     <1>12, <1>13, <1>14, <1>15, <1>16, <1>17, <1>18, <1>19, <1>20, <1>21,
     <1>22, <1>23, <1>24, <1>25, <1>26, <1>27, <1>28, <1>29, <1>30, <1>31,
     <1>32, <1>33, <1>34, <1>35 DEF Next, LvglTask, Worker

LEMMA FlagsStep ==
  ASSUME Types, [Next]_vars
  PROVE  Flags'
<1> USE DEF Types, Flags, cursor, flags, use, bounds, history
<1>1. CASE \E ask \in Asked : ui_remote_download(ask[1], ask[2])
  BY <1>1 DEF ui_remote_download, NewJob, Persist, Trouble
<1>2. CASE ui_remote_cancel
  BY <1>2 DEF ui_remote_cancel, Persist, Trouble
<1>3. CASE StartJob
  BY <1>3 DEF StartJob
<1>4. CASE ScheduleMaintenance
  BY <1>4 DEF ScheduleMaintenance, NewJob, Persist, Trouble
<1>5. CASE Play
  BY <1>5 DEF Play, Trouble
<1>6. CASE PlayEnds
  BY <1>6 DEF PlayEnds
<1>7. CASE OtherAsked
  BY <1>7 DEF OtherAsked, Trouble
<1>8. CASE OtherServed
  BY <1>8 DEF OtherServed
<1>9. CASE \E p \in Podcasts : on_refresh(p)
  BY <1>9 DEF on_refresh, Disturb
<1>10. CASE Claim
  BY <1>10 DEF Claim, Goto, Keep
<1>11. CASE Guard
  BY <1>11 DEF Guard, Goto, Leave, ForgetLocals, Outside, FirstPhase, Keep
<1>12. CASE RefreshFeed
  BY <1>12 DEF RefreshFeed, Goto, Outside, Keep
<1>13. CASE RefreshDone
  BY <1>13 DEF RefreshDone, Goto, Outside, Persist, Trouble
<1>14. CASE Prune
  BY <1>14 DEF Prune, Goto, Outside, Keep
<1>15. CASE ReadCursor
  BY <1>15 DEF ReadCursor, Goto, Outside, Keep
<1>16. CASE InterruptEarly
  BY <1>16 DEF InterruptEarly, Leave, Goto, ForgetLocals, Outside, Keep
<1>17. CASE SkipPodcast
  BY <1>17 DEF SkipPodcast, Goto, Outside, Keep
<1>18. CASE StartPodcast
  BY <1>18 DEF StartPodcast, Reached, Goto, Persist, Trouble, Outside
<1>19. CASE SkipCached
  BY <1>19 DEF SkipCached, Advance, Goto, Outside, Persist, Trouble
<1>20. CASE Fetch
  BY <1>20 DEF Fetch, Goto, Outside, Keep
<1>21. CASE Fetched
  BY <1>21 DEF Fetched, Advance, Goto, Outside, Persist, Trouble
<1>22. CASE FetchFailed
  BY <1>22 DEF FetchFailed, Advance, Goto, Outside, Persist, Trouble
<1>23. CASE Interrupt
  BY <1>23 DEF Interrupt, Leave, Goto, ForgetLocals, Outside, Persist,
     Trouble
<1>24. CASE CardFull
  BY <1>24 DEF CardFull, Leave, Goto, ForgetLocals, Outside, Persist,
     Trouble
<1>25. CASE EndPodcast
  BY <1>25 DEF EndPodcast, Goto, Outside, Keep
<1>26. CASE DownloadsDone
  BY <1>26 DEF DownloadsDone, Goto, Outside, Persist, Trouble
<1>27. CASE InterruptScan
  BY <1>27 DEF InterruptScan, Leave, Goto, ForgetLocals, Outside, Persist,
     Trouble
<1>28. CASE Complete
  BY <1>28 DEF Complete, Leave, Goto, ForgetLocals, Outside, Persist,
     Trouble
<1>29. CASE NoMemory
  BY <1>29 DEF NoMemory, Leave, Goto, ForgetLocals, Outside, Trouble
<1>30. CASE Unreadable
  BY <1>30 DEF Unreadable, Reached, Goto, Outside, Disturb, Trouble
<1>31. CASE PruneFallsShort
  BY <1>31 DEF PruneFallsShort, Goto, Outside, Trouble
<1>32. CASE Reboot
  BY <1>32 DEF Reboot, ForgetLocals, Disturb
<1>33. CASE \E p \in Podcasts : Publish(p)
  BY <1>33 DEF Publish
<1>34. CASE \E p \in Podcasts : Withdraw(p)
  BY <1>34 DEF Withdraw, Trouble
<1>35. CASE UNCHANGED vars
  BY <1>35 DEF vars
<1> QED
  BY <1>1, <1>2, <1>3, <1>4, <1>5, <1>6, <1>7, <1>8, <1>9, <1>10, <1>11,
     <1>12, <1>13, <1>14, <1>15, <1>16, <1>17, <1>18, <1>19, <1>20, <1>21,
     <1>22, <1>23, <1>24, <1>25, <1>26, <1>27, <1>28, <1>29, <1>30, <1>31,
     <1>32, <1>33, <1>34, <1>35 DEF Next, LvglTask, Worker

(* The lists are lists, and the card holds their episodes.                 *)
LEMMA LibraryStep ==
  ASSUME Types, [Next]_vars
  PROVE  Library'
<1> USE DEF Types, Places, Library, Podcasts, Outside, cursor, flags, library,
        use, bounds, history
<1>1. CASE \E ask \in Asked : ui_remote_download(ask[1], ask[2])
  BY <1>1 DEF ui_remote_download, NewJob, Persist, Trouble
<1>2. CASE ui_remote_cancel
  BY <1>2 DEF ui_remote_cancel, Persist, Trouble
<1>3. CASE StartJob
  BY <1>3 DEF StartJob
<1>4. CASE ScheduleMaintenance
  BY <1>4 DEF ScheduleMaintenance, NewJob, Persist, Trouble
<1>5. CASE Play
  BY <1>5 DEF Play, Trouble
<1>6. CASE PlayEnds
  BY <1>6 DEF PlayEnds
<1>7. CASE OtherAsked
  BY <1>7 DEF OtherAsked, Trouble
<1>8. CASE OtherServed
  BY <1>8 DEF OtherServed
<1>9. CASE \E p \in Podcasts : on_refresh(p)
  <2>0. PICK p \in Podcasts : on_refresh(p)
    BY <1>9
  <2>1. PICK m \in Refreshed(p) :
          manifest' = [manifest EXCEPT ![p] = m] /\ UNCHANGED <<feed, cached>>
    BY <2>0 DEF on_refresh
  <2>2. m \in Lists(p) /\ m \in AllLists
    BY DEF Refreshed, AllLists
  <2> QED
    BY <2>1, <2>2
<1>10. CASE Claim
  BY <1>10 DEF Claim, Goto, Keep
<1>11. CASE Guard
  BY <1>11 DEF Guard, Goto, Leave, ForgetLocals, Outside, FirstPhase, Keep
<1>12. CASE RefreshFeed
  <2>1. PICK m \in {manifest[i]} \cup Refreshed(i) :
          manifest' = [manifest EXCEPT ![i] = m] /\ UNCHANGED <<feed, cached>>
    BY <1>12 DEF RefreshFeed
  <2>2. i \in Podcasts
    BY <1>12 DEF RefreshFeed
  <2>3. m \in Lists(i) /\ m \in AllLists
    BY <2>2 DEF Refreshed, AllLists
  <2> QED
    BY <2>1, <2>2, <2>3
<1>13. CASE RefreshDone
  BY <1>13 DEF RefreshDone, Goto, Outside, Persist, Trouble
<1>14. CASE Prune
  <2>1. /\ cached' = [cached EXCEPT ![i] = @ \ Surplus(i)]
        /\ UNCHANGED <<feed, manifest>>
    BY <1>14 DEF Prune
  <2> QED
    BY <2>1
<1>15. CASE ReadCursor
  BY <1>15 DEF ReadCursor, Goto, Outside, Keep
<1>16. CASE InterruptEarly
  BY <1>16 DEF InterruptEarly, Leave, Goto, ForgetLocals, Outside, Keep
<1>17. CASE SkipPodcast
  BY <1>17 DEF SkipPodcast, Goto, Outside, Keep
<1>18. CASE StartPodcast
  BY <1>18 DEF StartPodcast, Reached, Goto, Persist, Trouble, Outside
<1>19. CASE SkipCached
  BY <1>19 DEF SkipCached, Advance, Goto, Outside, Persist, Trouble
<1>20. CASE Fetch
  BY <1>20 DEF Fetch, Goto, Outside, Keep
<1>21. CASE Fetched
  <2>1. i \in Podcasts /\ e + 1 \in 1..Len(manifest[i])
    BY <1>21, Windows DEF Fetched, Advance, Goto
  <2>2. Episode \in 1..MaxEpisodes[i]
    BY <2>1, ListFacts DEF Episode
  <2>3. /\ cached' = [cached EXCEPT ![i] = @ \cup {Episode}]
        /\ UNCHANGED <<feed, manifest>>
    BY <1>21 DEF Fetched, Advance
  <2>4. Episode \in Nat
    BY <2>1, <2>2, DownloadJobAssumption
  <2> HIDE DEF Podcasts
  <2> QED
    BY <2>1, <2>2, <2>3, <2>4
<1>22. CASE FetchFailed
  BY <1>22 DEF FetchFailed, Advance, Goto, Outside, Persist, Trouble
<1>23. CASE Interrupt
  BY <1>23 DEF Interrupt, Leave, Goto, ForgetLocals, Outside, Persist,
     Trouble
<1>24. CASE CardFull
  BY <1>24 DEF CardFull, Leave, Goto, ForgetLocals, Outside, Persist,
     Trouble
<1>25. CASE EndPodcast
  BY <1>25 DEF EndPodcast, Goto, Outside, Keep
<1>26. CASE DownloadsDone
  BY <1>26 DEF DownloadsDone, Goto, Outside, Persist, Trouble
<1>27. CASE InterruptScan
  BY <1>27 DEF InterruptScan, Leave, Goto, ForgetLocals, Outside, Persist,
     Trouble
<1>28. CASE Complete
  BY <1>28 DEF Complete, Leave, Goto, ForgetLocals, Outside, Persist,
     Trouble
<1>29. CASE NoMemory
  BY <1>29 DEF NoMemory, Leave, Goto, ForgetLocals, Outside, Trouble
<1>30. CASE Unreadable
  BY <1>30 DEF Unreadable, Reached, Goto, Outside, Disturb, Trouble
<1>31. CASE PruneFallsShort
  <2>1. PICK gone : cached' = [cached EXCEPT ![i] = @ \ gone]
    BY <1>31 DEF PruneFallsShort
  <2>2. UNCHANGED <<feed, manifest>>
    BY <1>31 DEF PruneFallsShort
  <2> QED
    BY <2>1, <2>2
<1>32. CASE Reboot
  BY <1>32 DEF Reboot, ForgetLocals, Disturb
<1>33. CASE \E p \in Podcasts : Publish(p)
  <2>0. PICK p \in Podcasts : Publish(p)
    BY <1>33
  <2>1. PICK n \in (1..MaxEpisodes[p]) \ Entries(feed[p]) :
          /\ Len(feed[p]) < MaxEpisodes[p]
          /\ feed' = [feed EXCEPT ![p] = <<n>> \o @]
          /\ UNCHANGED <<manifest, cached>>
    BY <2>0 DEF Publish
  <2>2. <<n>> \o feed[p] \in Lists(p)
    BY <2>1, PublishedLists
  <2>3. <<n>> \o feed[p] \in AllLists
    BY <2>2 DEF AllLists
  <2> QED
    BY <2>1, <2>2, <2>3
<1>34. CASE \E p \in Podcasts : Withdraw(p)
  <2>0. PICK p \in Podcasts : Withdraw(p)
    BY <1>34
  <2>1. PICK n \in 1..Len(feed[p]) :
          feed' = [feed EXCEPT ![p] = Without(@, n)] /\ UNCHANGED <<manifest, cached>>
    BY <2>0 DEF Withdraw
  <2>2. Without(feed[p], n) \in Lists(p)
    BY <2>1, ShorterLists
  <2>3. Without(feed[p], n) \in AllLists
    BY <2>2 DEF AllLists
  <2> QED
    BY <2>1, <2>2, <2>3
<1>35. CASE UNCHANGED vars
  BY <1>35 DEF vars
<1> QED
  BY <1>1, <1>2, <1>3, <1>4, <1>5, <1>6, <1>7, <1>8, <1>9, <1>10, <1>11,
     <1>12, <1>13, <1>14, <1>15, <1>16, <1>17, <1>18, <1>19, <1>20, <1>21,
     <1>22, <1>23, <1>24, <1>25, <1>26, <1>27, <1>28, <1>29, <1>30, <1>31,
     <1>32, <1>33, <1>34, <1>35 DEF Next, LvglTask, Worker

LEMMA Typed == Spec => []Types
<1>1. Types /\ [Next]_vars => Types'
  BY JobTypesStep, PlacesStep, LibraryStep, FlagsStep DEF Types
<1> QED
  BY <1>1, InitTypes, PTL DEF Spec

(* Type correctness, the index of the worker into a podcast's episodes and *)
(* the lists of the device included.                                       *)
THEOREM TypeCorrect == Spec => []TypeOK
<1>1. Types => TypeOK
  BY DEF Types, JobTypes, Places, Library, Flags, TypeOK
<1> QED
  BY <1>1, Typed, PTL

(* A job has the number of the asking that made it.                        *)
Ids == run \in Nat /\ run <= asks /\ s_dljob.id <= asks /\ saved.id <= asks

LEMMA NewIds ==
  ASSUME NEW job \in Jobs, NewJob(job)
  PROVE  s_dljob'.id = asks + 1 /\ (saved'.id = asks + 1 \/ saved' = saved)
BY DEF NewJob, Persist, Jobs

(* What a step of the worker may do to the job: nothing, or set fields     *)
(* other than its number, scope and mode, and the flash follows or not.    *)
SameJob ==
  /\ s_dljob'.id = s_dljob.id /\ s_dljob'.scope = s_dljob.scope
  /\ s_dljob'.force = s_dljob.force
  /\ saved' = saved \/ saved' = s_dljob'

LEMMA WorkerKeepsJob ==
  ASSUME Types, Worker \/ NoMemory \/ Unreadable \/ PruneFallsShort \/ ui_remote_cancel
  PROVE  SameJob /\ asks' = asks
<1> USE DEF SameJob, Types, JobTypes, Jobs
<1>1. CASE Claim
  BY <1>1 DEF Claim, Keep
<1>2. CASE Guard
  BY <1>2 DEF Guard, Keep, Outside
<1>3. CASE RefreshFeed
  BY <1>3 DEF RefreshFeed, Keep, Outside
<1>4. CASE RefreshDone
  BY <1>4 DEF RefreshDone, Persist, Outside
<1>5. CASE Prune
  BY <1>5 DEF Prune, Keep, Outside
<1>6. CASE ReadCursor
  BY <1>6 DEF ReadCursor, Keep, Outside
<1>7. CASE InterruptEarly
  BY <1>7 DEF InterruptEarly, Keep, Outside
<1>8. CASE SkipPodcast
  BY <1>8 DEF SkipPodcast, Keep, Outside
<1>9. CASE StartPodcast
  BY <1>9 DEF StartPodcast, Persist, Outside
<1>10. CASE SkipCached \/ Fetched \/ FetchFailed
  BY <1>10 DEF SkipCached, Fetched, FetchFailed, Advance, Persist, Outside
<1>11. CASE Fetch
  BY <1>11 DEF Fetch, Keep, Outside
<1>12. CASE Interrupt
  BY <1>12 DEF Interrupt, Persist, Outside
<1>13. CASE CardFull
  BY <1>13 DEF CardFull, Persist, Outside
<1>14. CASE EndPodcast
  BY <1>14 DEF EndPodcast, Keep, Outside
<1>15. CASE DownloadsDone
  BY <1>15 DEF DownloadsDone, Persist, Outside
<1>16. CASE InterruptScan
  BY <1>16 DEF InterruptScan, Persist, Outside
<1>17. CASE Complete
  BY <1>17 DEF Complete, Persist, Outside
<1>18. CASE NoMemory
  BY <1>18 DEF NoMemory, Outside
<1>19. CASE Unreadable
  BY <1>19 DEF Unreadable, Outside
<1>20. CASE PruneFallsShort
  BY <1>20 DEF PruneFallsShort, Outside
<1>21. CASE ui_remote_cancel
  BY <1>21 DEF ui_remote_cancel, Persist
<1> QED
  BY <1>1, <1>2, <1>3, <1>4, <1>5, <1>6, <1>7, <1>8, <1>9, <1>10, <1>11, <1>12,
     <1>13, <1>14, <1>15, <1>16, <1>17, <1>18, <1>19, <1>20, <1>21 DEF Worker

(* A run keeps its number until it ends.                                   *)
LEMMA RunKept ==
  ASSUME Worker \/ NoMemory \/ Unreadable \/ PruneFallsShort \/ ui_remote_cancel
  PROVE  \/ run' = run
         \/ run' = 0 /\ pc' = "receive"
         \/ Claim /\ run' = s_dljob.id
BY DEF Worker, Claim, Guard, RefreshFeed, RefreshDone, Prune, ReadCursor, InterruptEarly,
   SkipPodcast, StartPodcast, SkipCached, Fetch, Fetched, FetchFailed, Interrupt, CardFull,
   EndPodcast, DownloadsDone, InterruptScan, Complete, NoMemory, Unreadable,
   PruneFallsShort, ui_remote_cancel, Advance, Leave, Goto, ForgetLocals, history

LEMMA IdsStep ==
  ASSUME Types, Ids, [Next]_vars
  PROVE  Ids'
<1> USE DEF Ids, Types, JobTypes, cursor, flags, use, bounds, history
<1>0. s_dljob.id \in Nat /\ saved.id \in Nat
  BY Fields
<1>1. CASE Worker \/ NoMemory \/ Unreadable \/ PruneFallsShort \/ ui_remote_cancel
  <2>1. SameJob /\ asks' = asks
    BY <1>1, WorkerKeepsJob
  <2>2. run' = run \/ run' = 0 \/ run' = s_dljob.id
    BY <1>1, RunKept
  <2> QED
    BY <1>0, <2>1, <2>2 DEF SameJob
<1>2. CASE \E ask \in Asked : ui_remote_download(ask[1], ask[2])
  <2>1. PICK ask \in Asked : ui_remote_download(ask[1], ask[2])
    BY <1>2
  <2>2. /\ [NoJob EXCEPT !.scope = ask[1], !.force = ask[2]] \in Jobs
        /\ NewJob([NoJob EXCEPT !.scope = ask[1], !.force = ask[2]])
    BY <2>1, Asks, Starts DEF ui_remote_download
  <2>3. asks' = asks + 1 /\ run' = run
    BY <2>1, <2>2 DEF ui_remote_download, NewJob
  <2>4. s_dljob'.id = asks + 1 /\ (saved'.id = asks + 1 \/ saved' = saved)
    BY <2>2, NewIds
  <2> QED
    BY <1>0, <2>3, <2>4
<1>3. CASE StartJob
  BY <1>3, <1>0 DEF StartJob
<1>4. CASE ScheduleMaintenance
  <2>1. [NoJob EXCEPT !.maint = TRUE] \in Jobs /\ NewJob([NoJob EXCEPT !.maint = TRUE])
    BY <1>4, Starts DEF ScheduleMaintenance
  <2>2. asks' = asks + 1 /\ run' = run
    BY <1>4, <2>1 DEF ScheduleMaintenance, NewJob
  <2>3. s_dljob'.id = asks + 1 /\ (saved'.id = asks + 1 \/ saved' = saved)
    BY <2>1, NewIds
  <2> QED
    BY <1>0, <2>2, <2>3
<1>5. CASE Play
  BY <1>5, <1>0 DEF Play, Trouble
<1>6. CASE PlayEnds
  BY <1>6, <1>0 DEF PlayEnds
<1>7. CASE OtherAsked
  BY <1>7, <1>0 DEF OtherAsked, Trouble
<1>8. CASE OtherServed
  BY <1>8, <1>0 DEF OtherServed
<1>9. CASE \E p \in Podcasts : on_refresh(p)
  BY <1>9, <1>0 DEF on_refresh, Disturb
<1>10. CASE Reboot
  BY <1>10 DEF Reboot, ForgetLocals
<1>11. CASE \E p \in Podcasts : Publish(p)
  BY <1>11, <1>0 DEF Publish
<1>12. CASE \E p \in Podcasts : Withdraw(p)
  BY <1>12, <1>0 DEF Withdraw, Trouble
<1>13. CASE UNCHANGED vars
  BY <1>13, <1>0 DEF vars
<1> QED
  BY <1>1, <1>2, <1>3, <1>4, <1>5, <1>6, <1>7, <1>8, <1>9, <1>10, <1>11,
     <1>12, <1>13 DEF Next, LvglTask

(* Once past its files, a podcast of this run's job is within its limit,   *)
(* unless the run could not see to it.                                     *)
WithinLimit(p) ==
  job_in_scope(p) /\ keep_episodes[p] > 0 =>
    \A n \in cached[p] \cap Entries(manifest[p]) : n \in Kept(p) \/ <<p, n>> \in Protected

Limited ==
  pc \in {"prune", "podcast", "episode", "fetch"} /\ run = s_dljob.id =>
    \A p \in Podcasts \ unlimited : (pc = "prune" => p < i) => WithinLimit(p)

(* A step that leaves lists, files, job and run alone.                     *)
LEMMA LimitIdle ==
  ASSUME Limited, UNCHANGED <<manifest, cached, run, unlimited, i, pc>>,
         s_dljob'.id = s_dljob.id, s_dljob'.scope = s_dljob.scope
  PROVE  Limited'
BY DEF Limited, WithinLimit, job_in_scope, Kept, Window, Entries

(* The lists and limits of the other podcasts stay.                        *)
LEMMA LimitFrame ==
  ASSUME NEW p \in Podcasts, WithinLimit(p), manifest'[p] = manifest[p],
         cached'[p] \subseteq cached[p], s_dljob'.scope = s_dljob.scope
  PROVE  WithinLimit(p)'
BY DEF WithinLimit, job_in_scope, Kept, Window, Entries

LEMMA LimitStep ==
  ASSUME Types, Ids, Limited, [Next]_vars
  PROVE  Limited'
<1>1. CASE \E ask \in Asked : ui_remote_download(ask[1], ask[2])
  <2>1. s_dljob'.id = asks + 1 /\ run' = run
    BY <1>1, Starts, Asks, NewIds DEF ui_remote_download
  <2>2. run # asks + 1
    BY DEF Ids, Types, JobTypes
  <2> QED
    BY <2>1, <2>2 DEF Limited
<1>2. CASE ui_remote_cancel
  <2>1. SameJob
    BY <1>2, WorkerKeepsJob
  <2> QED
    BY <1>2, <2>1, LimitIdle DEF ui_remote_cancel, SameJob, library, history
<1>3. CASE StartJob
  BY <1>3, LimitIdle DEF StartJob, library, history
<1>4. CASE ScheduleMaintenance
  <2>1. s_dljob'.id = asks + 1 /\ run' = run
    BY <1>4, Starts, Asks, NewIds DEF ScheduleMaintenance
  <2>2. run # asks + 1
    BY DEF Ids, Types, JobTypes
  <2> QED
    BY <2>1, <2>2 DEF Limited
<1>5. CASE Play
  BY <1>5, LimitIdle DEF Play, library, history
<1>6. CASE PlayEnds
  BY <1>6, LimitIdle DEF PlayEnds, library, history
<1>7. CASE OtherAsked
  BY <1>7, LimitIdle DEF OtherAsked, library, history
<1>8. CASE OtherServed
  BY <1>8, LimitIdle DEF OtherServed, library, history
<1>9. CASE \E p \in Podcasts : on_refresh(p)
  BY <1>9 DEF on_refresh, Limited
<1>10. CASE Claim
  BY <1>10 DEF Claim, Goto, Limited
<1>11. CASE Guard
  <2>1. CASE pc' = "receive"
    BY <2>1 DEF Limited
  <2>2. CASE pc' # "receive"
    <3>1. i' = 1 /\ pc' \in {"refresh", "prune", "scan"}
      BY <1>11, <2>2 DEF Guard, Leave, Goto, FirstPhase
    <3> QED
      BY <3>1, DownloadJobAssumption DEF Limited, Podcasts
  <2> QED
    BY <2>1, <2>2
<1>12. CASE RefreshFeed
  BY <1>12 DEF RefreshFeed, Goto, Limited
<1>13. CASE RefreshDone
  <2>1. i' = 1 /\ pc' = "prune"
    BY <1>13 DEF RefreshDone, Goto
  <2> QED
    BY <2>1, DownloadJobAssumption DEF Limited, Podcasts
<1>14. CASE Prune
  <2> SUFFICES ASSUME run' = s_dljob'.id, NEW p \in Podcasts \ unlimited', p < i'
               PROVE  WithinLimit(p)'
    BY <1>14 DEF Prune, Goto, Limited
  <2>1. /\ s_dljob' = s_dljob /\ run' = run /\ manifest' = manifest /\ unlimited' = unlimited
        /\ i' = i + 1 /\ i \in Podcasts /\ pc = "prune"
        /\ cached' = [cached EXCEPT ![i] = @ \ Surplus(i)]
    BY <1>14 DEF Prune, Goto, Keep
  <2>2. CASE p = i
    <3>1. cached'[i] = cached[i] \ Surplus(i)
      BY <2>1 DEF Types, Library
    <3> QED
      BY <2>1, <2>2, <3>1 DEF WithinLimit, job_in_scope, Kept, Window, Entries, Surplus
  <2>3. CASE p # i
    <3>1. p < i
      BY <2>1, <2>3 DEF Podcasts, Types, Places
    <3>2. cached'[p] = cached[p]
      BY <2>1, <2>3 DEF Types, Library
    <3> QED
      BY <2>1, <3>1, <3>2, LimitFrame DEF Limited
  <2> QED
    BY <2>2, <2>3
<1>15. CASE ReadCursor
  <2> SUFFICES ASSUME run' = s_dljob'.id, NEW p \in Podcasts \ unlimited'
               PROVE  WithinLimit(p)'
    BY <1>15 DEF ReadCursor, Goto, Limited
  <2>1. /\ s_dljob' = s_dljob /\ run' = run /\ manifest' = manifest /\ cached' = cached
        /\ unlimited' = unlimited /\ i \notin Podcasts /\ pc = "prune"
    BY <1>15 DEF ReadCursor, Goto, Keep
  <2>2. p < i
    BY <2>1, DownloadJobAssumption DEF Podcasts, Types, Places
  <2> QED
    BY <2>1, <2>2, LimitFrame DEF Limited
<1>16. CASE InterruptEarly
  BY <1>16 DEF InterruptEarly, Leave, Goto, Limited
<1>17. CASE SkipPodcast
  <2>1. SameJob
    BY <1>17, WorkerKeepsJob DEF Worker
  <2>2. /\ pc \in {"podcast", "episode", "fetch"}
        /\ UNCHANGED <<manifest, cached, run, unlimited>>
    BY <1>17 DEF SkipPodcast, Goto
  <2> QED
    BY <2>1, <2>2, LimitFrame DEF SameJob, Limited
<1>18. CASE StartPodcast
  <2>1. SameJob
    BY <1>18, WorkerKeepsJob DEF Worker
  <2>2. /\ pc \in {"podcast", "episode", "fetch"}
        /\ UNCHANGED <<manifest, cached, run, unlimited>>
    BY <1>18 DEF StartPodcast, Goto
  <2> QED
    BY <2>1, <2>2, LimitFrame DEF SameJob, Limited
<1>19. CASE SkipCached
  <2>1. SameJob
    BY <1>19, WorkerKeepsJob DEF Worker
  <2>2. /\ pc \in {"podcast", "episode", "fetch"}
        /\ UNCHANGED <<manifest, cached, run, unlimited>>
    BY <1>19 DEF SkipCached, Advance, Goto
  <2> QED
    BY <2>1, <2>2, LimitFrame DEF SameJob, Limited
<1>20. CASE Fetch
  <2>1. SameJob
    BY <1>20, WorkerKeepsJob DEF Worker
  <2>2. /\ pc \in {"podcast", "episode", "fetch"}
        /\ UNCHANGED <<manifest, cached, run, unlimited>>
    BY <1>20 DEF Fetch, Goto
  <2> QED
    BY <2>1, <2>2, LimitFrame DEF SameJob, Limited
<1>21. CASE Fetched
  <2>1. SameJob
    BY <1>21, WorkerKeepsJob DEF Worker
  <2>2. /\ pc = "fetch" /\ UNCHANGED <<manifest, run, unlimited>>
        /\ cached' = [cached EXCEPT ![i] = @ \cup {Episode}]
    BY <1>21 DEF Fetched, Advance, Goto
  <2> SUFFICES ASSUME run' = s_dljob'.id, NEW p \in Podcasts \ unlimited
               PROVE  WithinLimit(p)'
    BY <2>2 DEF Limited
  <2>3. WithinLimit(p)
    BY <2>1, <2>2 DEF Limited, SameJob
  <2>4. CASE p # i
    <3>1. cached'[p] = cached[p]
      BY <2>2, <2>4 DEF Types, Library
    <3> QED
      BY <2>1, <2>2, <2>3, <3>1, LimitFrame DEF SameJob
  <2>5. CASE p = i
    <3>1. cached'[i] = cached[i] \cup {Episode}
      BY <2>2, <2>5 DEF Types, Library
    <3>2. Window(i) \in Nat /\ e < Window(i) /\ e \in Nat
      BY <2>2, <2>5, Windows DEF Types, Places
    <3>3. Episode \in Kept(i)
      BY <3>2 DEF Episode, Kept
    <3> QED
      BY <2>1, <2>2, <2>3, <2>5, <3>1, <3>3
         DEF SameJob, WithinLimit, job_in_scope, Kept, Window, Entries
  <2> QED
    BY <2>4, <2>5
<1>22. CASE FetchFailed
  <2>1. SameJob
    BY <1>22, WorkerKeepsJob DEF Worker
  <2>2. /\ pc \in {"podcast", "episode", "fetch"}
        /\ UNCHANGED <<manifest, cached, run, unlimited>>
    BY <1>22 DEF FetchFailed, Advance, Goto
  <2> QED
    BY <2>1, <2>2, LimitFrame DEF SameJob, Limited
<1>23. CASE Interrupt
  BY <1>23 DEF Interrupt, Leave, Goto, Limited
<1>24. CASE CardFull
  BY <1>24 DEF CardFull, Leave, Goto, Limited
<1>25. CASE EndPodcast
  <2>1. SameJob
    BY <1>25, WorkerKeepsJob DEF Worker
  <2>2. /\ pc \in {"podcast", "episode", "fetch"}
        /\ UNCHANGED <<manifest, cached, run, unlimited>>
    BY <1>25 DEF EndPodcast, Goto
  <2> QED
    BY <2>1, <2>2, LimitFrame DEF SameJob, Limited
<1>26. CASE DownloadsDone
  BY <1>26 DEF DownloadsDone, Goto, Limited
<1>27. CASE InterruptScan
  BY <1>27 DEF InterruptScan, Leave, Goto, Limited
<1>28. CASE Complete
  BY <1>28 DEF Complete, Leave, Goto, Limited
<1>29. CASE NoMemory
  BY <1>29 DEF NoMemory, Leave, Goto, Limited
<1>30. CASE Unreadable
  <2>1. SameJob
    BY <1>30, WorkerKeepsJob DEF Worker
  <2>2. /\ pc \in {"podcast", "episode", "fetch"}
        /\ UNCHANGED <<manifest, cached, run, unlimited>>
    BY <1>30 DEF Unreadable, Goto
  <2> QED
    BY <2>1, <2>2, LimitFrame DEF SameJob, Limited
<1>31. CASE PruneFallsShort
  <2> SUFFICES ASSUME run' = s_dljob'.id, NEW p \in Podcasts \ unlimited', p < i'
               PROVE  WithinLimit(p)'
    BY <1>31 DEF PruneFallsShort, Goto, Limited
  <2>1. /\ s_dljob' = s_dljob /\ run' = run /\ manifest' = manifest
        /\ unlimited' = unlimited \cup {i}
        /\ i' = i + 1 /\ i \in Podcasts /\ pc = "prune"
    BY <1>31 DEF PruneFallsShort, Goto
  <2>2. PICK gone : cached' = [cached EXCEPT ![i] = @ \ gone]
    BY <1>31 DEF PruneFallsShort
  <2>3. p # i /\ p \notin unlimited
    BY <2>1
  <2>4. p < i
    BY <2>1, <2>3 DEF Podcasts, Types, Places
  <2>5. cached'[p] = cached[p]
    BY <2>2, <2>3 DEF Types, Library
  <2> QED
    BY <2>1, <2>3, <2>4, <2>5, LimitFrame DEF Limited
<1>32. CASE Reboot
  BY <1>32 DEF Reboot, Limited
<1>33. CASE \E p \in Podcasts : Publish(p)
  BY <1>33, LimitIdle DEF Publish, library, history
<1>34. CASE \E p \in Podcasts : Withdraw(p)
  BY <1>34, LimitIdle DEF Withdraw, library, history
<1>35. CASE UNCHANGED vars
  BY <1>35, LimitIdle DEF vars, library, history
<1> QED
  BY <1>1, <1>2, <1>3, <1>4, <1>5, <1>6, <1>7, <1>8, <1>9, <1>10, <1>11,
     <1>12, <1>13, <1>14, <1>15, <1>16, <1>17, <1>18, <1>19, <1>20, <1>21,
     <1>22, <1>23, <1>24, <1>25, <1>26, <1>27, <1>28, <1>29, <1>30, <1>31,
     <1>32, <1>33, <1>34, <1>35 DEF Next, LvglTask, Worker

(* However a run was interrupted and resumed, jobs replaced, files and     *)
(* lists failed and feeds lost entries: what a run downloads for its job   *)
(* comes on top of podcasts that are within their limits, but for those    *)
(* that this run could not see to.                                         *)
THEOREM LimitIsKept == Spec => []KeepLimit
<1>1. Init => Ids /\ Limited
  BY DEF Init, Ids, Limited, NoJob
<1>2. Types /\ Ids /\ Limited /\ [Next]_vars => Ids' /\ Limited'
  BY IdsStep, LimitStep
<1>3. Limited => KeepLimit
  BY DEF Limited, KeepLimit, WithinLimit
<1> QED
  BY <1>1, <1>2, <1>3, Typed, PTL DEF Spec

-----------------------------------------------------------------------------
(* The first k entries of a podcast's window are dealt with, as far as the *)
(* job owes them.                                                          *)
Clear(p, k) ==
  \A j \in 1..Window(p) :
    j <= k /\ <<p, manifest[p][j]>> \in due => <<p, manifest[p][j]>> \in tried

InScope(job, p) == job.scope \in {0, p}

(* A job's cursor: it moves only after the refresh, it stands on a podcast *)
(* in scope, and what is before it is dealt with.                          *)
Good(job) ==
  /\ ~job.refresh_done /\ ~job.force => job.cur_pod_id = 0
  /\ job.cur_pod_id = 0 \/ InScope(job, job.cur_pod_id)
  /\ \A p \in Podcasts : InScope(job, p) =>
       /\ p < job.cur_pod_id => Clear(p, Window(p))
       /\ p = job.cur_pod_id => Clear(p, job.cur_ep_idx)

(* The flash may have an earlier state of the job.                         *)
Behind(old, new) ==
  /\ old.scope = new.scope /\ old.force = new.force
  /\ old.refresh_done => new.refresh_done
  /\ old.downloads_done => new.downloads_done
  /\ old.cur_pod_id <= new.cur_pod_id

JobsHold ==
  /\ Good(s_dljob)
  /\ s_dljob.downloads_done => due = {}
  /\ saved.id = s_dljob.id => Behind(saved, s_dljob) /\ Good(saved)

(* What the worker may rely on in each phase.                              *)
WorkerHolds ==
  /\ pc = "refresh" => ~s_dljob.force /\ ~s_dljob.refresh_done
  /\ pc \in {"prune", "podcast", "episode", "fetch"} => s_dljob.force \/ s_dljob.refresh_done
  /\ pc \in {"refresh", "prune", "podcast", "episode", "fetch"} => ~s_dljob.downloads_done
  /\ pc \in {"podcast", "episode", "fetch"} =>
       \A p \in Podcasts : p < i /\ job_in_scope(p) => Clear(p, Window(p))
  /\ pc = "podcast" /\ started => resume_pod < i /\ s_dljob.cur_pod_id <= i
  /\ pc = "podcast" /\ ~started =>
       /\ i <= resume_pod /\ resume_pod = s_dljob.cur_pod_id
       /\ Clear(resume_pod, resume_ep)
  /\ pc \in {"episode", "fetch"} =>
       started /\ resume_pod <= i /\ s_dljob.cur_pod_id = i /\ Clear(i, e) /\ job_in_scope(i)

Progress ==
  /\ pc # "receive" => s_downloading
  /\ disturbed \in BOOLEAN
  /\ disturbed => due = {}
  /\ ~disturbed => JobsHold /\ WorkerHolds

LEMMA Cursor ==
  ASSUME NEW job \in Jobs
  PROVE  job.cur_pod_id \in Nat /\ job.cur_pod_id <= NumPodcasts /\ job.cur_ep_idx \in Nat
<1>1. job.cur_pod_id \in 0..NumPodcasts /\ job.cur_ep_idx \in Nat
  BY DEF Jobs
<1> QED
  BY <1>1, DownloadJobAssumption

LEMMA JobFacts ==
  ASSUME Types
  PROVE  /\ s_dljob.cur_pod_id \in Nat /\ s_dljob.cur_pod_id <= NumPodcasts
         /\ saved.cur_pod_id \in Nat /\ saved.cur_pod_id <= NumPodcasts
         /\ s_dljob.cur_ep_idx \in Nat /\ saved.cur_ep_idx \in Nat
BY Cursor DEF Types, JobTypes

(* What is dealt with stays so while the lists and the debt do.            *)
LEMMA ClearStays ==
  ASSUME NEW p, NEW k, Clear(p, k), manifest'[p] = manifest[p], due' = due, tried \subseteq tried'
  PROVE  Clear(p, k)'
BY DEF Clear, Window

LEMMA GoodStays ==
  ASSUME NEW job, Good(job), UNCHANGED <<manifest, due>>, tried \subseteq tried'
  PROVE  Good(job)'
<1>1. \A p, k : Clear(p, k) => Clear(p, k)'
  BY ClearStays
<1>2. \A p : Window(p)' = Window(p)
  BY DEF Window
<1> QED
  BY <1>1, <1>2 DEF Good, InScope

LEMMA NothingOwed == ASSUME due = {} PROVE \A p, k : Clear(p, k)
BY DEF Clear

(* A job that has not begun.                                               *)
LEMMA FreshGood ==
  ASSUME NEW job, job.cur_pod_id = 0
  PROVE  Good(job)
BY DEF Good, Podcasts

(* The job moves on, and the flash follows or not.                         *)
LEMMA JobMoves ==
  ASSUME Types, JobsHold, UNCHANGED <<manifest, due>>, tried \subseteq tried',
         NEW job \in Jobs, s_dljob' = job, saved' = saved \/ saved' = job,
         job.id = s_dljob.id, Behind(s_dljob, job), Good(job)',
         job.downloads_done => due = {}
  PROVE  JobsHold'
<1>0. /\ saved.cur_pod_id \in Nat /\ s_dljob.cur_pod_id \in Nat /\ job.cur_pod_id \in Nat
  BY JobFacts, Cursor
<1>1. CASE saved' = job
  BY <1>0, <1>1 DEF JobsHold, Behind
<1>2. CASE saved' = saved
  <2>1. saved.id = s_dljob.id => Good(saved)'
    BY <1>2, GoodStays DEF JobsHold
  <2>2. saved.id = s_dljob.id => Behind(saved, job)
    BY <1>0 DEF JobsHold, Behind
  <2> QED
    BY <1>2, <2>1, <2>2 DEF JobsHold
<1> QED
  BY <1>1, <1>2

LEMMA JobStays ==
  ASSUME JobsHold, UNCHANGED <<s_dljob, saved, manifest, due>>, tried \subseteq tried'
  PROVE  JobsHold'
BY GoodStays DEF JobsHold

(* Entries that a list gained at its top are not owed, and those it had    *)
(* are in no longer a window than before.                                  *)
LEMMA GrownClear ==
  ASSUME Types, NEW p \in Podcasts, NEW m \in Lists(p), Grows(p, m),
         manifest' = [manifest EXCEPT ![p] = m], UNCHANGED <<due, tried>>
  PROVE  /\ \A k \in Nat : Clear(p, k) => Clear(p, k)'
         /\ Clear(p, Window(p)) => Clear(p, Window(p))'
<1> DEFINE old == manifest[p]
           new == Len(m) - Len(old)
<1>1. manifest'[p] = m
  BY DEF Types, Library
<1>2. Len(m) \in Nat /\ Len(old) \in Nat /\ Len(old) <= Len(m)
  BY ListFacts DEF Types, Library, Grows
<1>3. /\ \A k \in 1..Len(old) : m[k + new] = old[k]
      /\ \A k \in 1..new : <<p, m[k]>> \notin due
  BY DEF Grows
<1>4. keep_episodes[p] \in Nat
  BY DownloadJobAssumption
<1>5. /\ Window(p) = IF keep_episodes[p] \in 1..Len(old) THEN keep_episodes[p] ELSE Len(old)
      /\ Window(p)' = IF keep_episodes[p] \in 1..Len(m) THEN keep_episodes[p] ELSE Len(m)
  BY <1>1 DEF Window
<1>6. ASSUME NEW j \in 1..Window(p)', <<p, m[j]>> \in due
      PROVE  j - new \in 1..Window(p) /\ j - new <= j /\ m[j] = old[j - new]
  <2>1. j \in Nat /\ j \in 1..Len(m)
    BY <1>2, <1>4, <1>5
  <2>2. ~(j \in 1..new)
    BY <1>3, <1>6
  <2>3. j - new \in 1..Len(old) /\ j - new <= j
    BY <1>2, <2>1, <2>2
  <2>4. j - new \in 1..Window(p)
    BY <1>2, <1>4, <1>5, <2>1, <2>3
  <2>5. j = (j - new) + new
    BY <1>2, <2>1
  <2> QED
    BY <1>3, <2>3, <2>4, <2>5
<1>7. ASSUME NEW k \in Nat, Clear(p, k) PROVE Clear(p, k)'
  <2> SUFFICES ASSUME NEW j \in 1..Window(p)', j <= k, <<p, m[j]>> \in due
               PROVE  <<p, m[j]>> \in tried
    BY <1>1 DEF Clear
  <2>1. j - new \in 1..Window(p) /\ j - new <= j /\ m[j] = old[j - new]
    BY <1>6
  <2>2. j \in Nat /\ j - new \in Int
    BY <1>2, <1>4, <1>5
  <2> QED
    BY <1>7, <2>1, <2>2 DEF Clear
<1>8. ASSUME Clear(p, Window(p)) PROVE Clear(p, Window(p))'
  <2> SUFFICES ASSUME NEW j \in 1..Window(p)', <<p, m[j]>> \in due
               PROVE  <<p, m[j]>> \in tried
    BY <1>1 DEF Clear
  <2>1. j - new \in 1..Window(p) /\ m[j] = old[j - new]
    BY <1>6
  <2>2. j - new <= Window(p)
    BY <1>2, <1>4, <1>5, <2>1
  <2> QED
    BY <1>8, <2>1, <2>2 DEF Clear
<1> QED
  BY <1>7, <1>8

(* Under a refresh that does not disturb, a waiting job stays good.        *)
LEMMA RefreshGood ==
  ASSUME Types, NEW p \in Podcasts, NEW m \in Lists(p),
         manifest' = [manifest EXCEPT ![p] = m], UNCHANGED <<due, tried>>,
         NEW job \in Jobs, Good(job), job.cur_pod_id < p \/ Grows(p, m)
  PROVE  Good(job)'
<1>1. \A q \in Podcasts : q # p => manifest'[q] = manifest[q]
  BY DEF Types, Library
<1>2. ASSUME NEW q \in Podcasts, InScope(job, q)
      PROVE  /\ q < job.cur_pod_id => Clear(q, Window(q))'
             /\ q = job.cur_pod_id => Clear(q, job.cur_ep_idx)'
  <2>1. /\ q < job.cur_pod_id => Clear(q, Window(q))
        /\ q = job.cur_pod_id => Clear(q, job.cur_ep_idx)
    BY <1>2 DEF Good
  <2>2. CASE q # p
    <3>1. Window(q)' = Window(q)
      BY <1>1, <2>2 DEF Window
    <3> QED
      BY <1>1, <2>1, <2>2, <3>1, ClearStays
  <2>3. CASE q = p /\ job.cur_pod_id < p
    <3>1. job.cur_pod_id \in Nat /\ p \in Nat
      BY Cursor DEF Podcasts
    <3> QED
      BY <2>3, <3>1
  <2>4. CASE q = p /\ Grows(p, m)
    BY <2>1, <2>4, GrownClear, Fields
  <2> QED
    BY <2>2, <2>3, <2>4
<1> QED
  BY <1>2 DEF Good, InScope

(* What Progress says of the flags.                                        *)
Held ==
  /\ pc # "receive" => s_downloading
  /\ disturbed \in BOOLEAN
  /\ disturbed => due = {}

LEMMA HeldStep ==
  ASSUME Held, Flags, [Next]_vars
  PROVE  Held'
<1> USE DEF Held, Flags, flags, library, use, bounds, history, cursor
<1>1. CASE \E ask \in Asked : ui_remote_download(ask[1], ask[2])
  BY <1>1 DEF ui_remote_download, NewJob, Persist, Trouble
<1>2. CASE ui_remote_cancel
  BY <1>2 DEF ui_remote_cancel, Persist, Trouble
<1>3. CASE StartJob
  BY <1>3 DEF StartJob
<1>4. CASE ScheduleMaintenance
  BY <1>4 DEF ScheduleMaintenance, NewJob, Persist, Trouble
<1>5. CASE Play
  BY <1>5 DEF Play, Trouble
<1>6. CASE PlayEnds
  BY <1>6 DEF PlayEnds
<1>7. CASE OtherAsked
  BY <1>7 DEF OtherAsked, Trouble
<1>8. CASE OtherServed
  BY <1>8 DEF OtherServed
<1>9. CASE \E p \in Podcasts : on_refresh(p)
  BY <1>9 DEF on_refresh, Disturb
<1>10. CASE Claim
  BY <1>10 DEF Claim, Goto, Keep
<1>11. CASE Guard
  BY <1>11 DEF Guard, Goto, Leave, ForgetLocals, Outside, FirstPhase, Keep
<1>12. CASE RefreshFeed
  BY <1>12 DEF RefreshFeed, Goto, Outside, Keep
<1>13. CASE RefreshDone
  BY <1>13 DEF RefreshDone, Goto, Outside, Persist, Trouble
<1>14. CASE Prune
  BY <1>14 DEF Prune, Goto, Outside, Keep
<1>15. CASE ReadCursor
  BY <1>15 DEF ReadCursor, Goto, Outside, Keep
<1>16. CASE InterruptEarly
  BY <1>16 DEF InterruptEarly, Leave, Goto, ForgetLocals, Outside, Keep
<1>17. CASE SkipPodcast
  BY <1>17 DEF SkipPodcast, Goto, Outside, Keep
<1>18. CASE StartPodcast
  BY <1>18 DEF StartPodcast, Reached, Goto, Persist, Trouble, Outside
<1>19. CASE SkipCached
  BY <1>19 DEF SkipCached, Advance, Goto, Outside, Persist, Trouble
<1>20. CASE Fetch
  BY <1>20 DEF Fetch, Goto, Outside, Keep
<1>21. CASE Fetched
  BY <1>21 DEF Fetched, Advance, Goto, Outside, Persist, Trouble
<1>22. CASE FetchFailed
  BY <1>22 DEF FetchFailed, Advance, Goto, Outside, Persist, Trouble
<1>23. CASE Interrupt
  BY <1>23 DEF Interrupt, Leave, Goto, ForgetLocals, Outside, Persist,
     Trouble
<1>24. CASE CardFull
  BY <1>24 DEF CardFull, Leave, Goto, ForgetLocals, Outside, Persist,
     Trouble
<1>25. CASE EndPodcast
  BY <1>25 DEF EndPodcast, Goto, Outside, Keep
<1>26. CASE DownloadsDone
  BY <1>26 DEF DownloadsDone, Goto, Outside, Persist, Trouble
<1>27. CASE InterruptScan
  BY <1>27 DEF InterruptScan, Leave, Goto, ForgetLocals, Outside, Persist,
     Trouble
<1>28. CASE Complete
  BY <1>28 DEF Complete, Leave, Goto, ForgetLocals, Outside, Persist,
     Trouble
<1>29. CASE NoMemory
  BY <1>29 DEF NoMemory, Leave, Goto, ForgetLocals, Outside, Trouble
<1>30. CASE Unreadable
  BY <1>30 DEF Unreadable, Reached, Goto, Outside, Disturb, Trouble
<1>31. CASE PruneFallsShort
  BY <1>31 DEF PruneFallsShort, Goto, Outside, Trouble
<1>32. CASE Reboot
  BY <1>32 DEF Reboot, ForgetLocals, Disturb
<1>33. CASE \E p \in Podcasts : Publish(p)
  BY <1>33 DEF Publish
<1>34. CASE \E p \in Podcasts : Withdraw(p)
  BY <1>34 DEF Withdraw, Trouble
<1>35. CASE UNCHANGED vars
  BY <1>35 DEF vars
<1> QED
  BY <1>1, <1>2, <1>3, <1>4, <1>5, <1>6, <1>7, <1>8, <1>9, <1>10, <1>11,
     <1>12, <1>13, <1>14, <1>15, <1>16, <1>17, <1>18, <1>19, <1>20, <1>21,
     <1>22, <1>23, <1>24, <1>25, <1>26, <1>27, <1>28, <1>29, <1>30, <1>31,
     <1>32, <1>33, <1>34, <1>35 DEF Next, LvglTask, Worker

(* With nothing before the cursor there is nothing to show.                *)
LEMMA FreshJobs ==
  ASSUME s_dljob'.cur_pod_id = 0, s_dljob'.downloads_done => due' = {},
         saved'.id = s_dljob'.id => Behind(saved, s_dljob)' /\ saved'.cur_pod_id = 0
  PROVE  JobsHold'
<1>1. \A job : job.cur_pod_id = 0 => Good(job)'
  BY DEF Good, Podcasts
<1> QED
  BY <1>1 DEF JobsHold, Good, Podcasts

(* A new job is fresh, and the flash has it or the one before it.          *)
LEMMA NewJobsHold ==
  ASSUME Types, Ids, NEW job \in Jobs, job.cur_pod_id = 0, ~job.downloads_done, NewJob(job)
  PROVE  JobsHold'
<1>0. [job EXCEPT !.active = TRUE, !.id = asks + 1] \in Jobs
  <2>1. asks + 1 \in Nat
    BY DEF Types, JobTypes
  <2> QED
    BY <2>1, Fields
<1>1. PICK new \in Jobs : new = [job EXCEPT !.active = TRUE, !.id = asks + 1]
  BY <1>0
<1>2. s_dljob' = new /\ (saved' = saved \/ saved' = new)
  BY <1>1 DEF NewJob, Persist
<1>3. new.cur_pod_id = 0 /\ ~new.downloads_done /\ new.id = asks + 1
  BY <1>1 DEF Jobs
<1>4. saved.id # asks + 1
  BY DEF Ids, Types, JobTypes, Jobs
<1> QED
  BY <1>2, <1>3, <1>4, FreshJobs DEF Behind

LEMMA AdvanceClear ==
  ASSUME Types, Advance("episode") \/ Advance("fetch"), Clear(i, e)
  PROVE  Clear(i, e)'
<1>1. /\ e' = e + 1 /\ i' = i /\ manifest' = manifest /\ due' = due
      /\ tried' = tried \cup ({<<i, manifest[i][e + 1]>>} \cap due)
  BY DEF Advance, Episode
<1>2. \A j \in 1..Window(i) : j <= e + 1 => j <= e \/ j = e + 1
  <2>1. e \in Nat
    BY DEF Types, Places
  <2>2. \A j \in 1..Window(i) : j \in Int
    OBVIOUS
  <2> QED
    BY <2>1, <2>2
<1>3. Window(i)' = Window(i)
  BY <1>1 DEF Window
<1> QED
  BY <1>1, <1>2, <1>3 DEF Clear

LEMMA AdvanceJobs ==
  ASSUME Types, JobsHold, WorkerHolds, pc \in {"episode", "fetch"},
         Advance("episode") \/ Advance("fetch")
  PROVE  JobsHold'
<1>0. [s_dljob EXCEPT !.cur_ep_idx = e + 1] \in Jobs
  <2>1. s_dljob \in Jobs /\ e + 1 \in Nat
    BY DEF Types, JobTypes, Places
  <2> QED
    BY <2>1, Fields
<1>1. PICK job \in Jobs : job = [s_dljob EXCEPT !.cur_ep_idx = e + 1]
  BY <1>0
<1>2. s_dljob' = job /\ (saved' = saved \/ saved' = job)
  BY <1>1 DEF Advance, Persist
<1>3. /\ job.cur_pod_id = i /\ job.cur_ep_idx = e + 1 /\ job.scope = s_dljob.scope
      /\ job.id = s_dljob.id /\ Behind(s_dljob, job) /\ job.downloads_done = s_dljob.downloads_done
      /\ job.force = s_dljob.force /\ job.refresh_done = s_dljob.refresh_done
  BY <1>1, JobFacts DEF WorkerHolds, Behind, Types, JobTypes, Jobs
<1>4. UNCHANGED <<manifest, due>> /\ tried \subseteq tried' /\ e' = e + 1 /\ i' = i
  BY DEF Advance
<1>5. Clear(i, e)'
  BY AdvanceClear DEF WorkerHolds
<1>6. \A p \in Podcasts : p < i /\ job_in_scope(p) => Clear(p, Window(p))
  BY DEF WorkerHolds
<1>7. \A p \in Podcasts : Clear(p, Window(p)) => Clear(p, Window(p))'
  BY <1>4 DEF Clear, Window
<1>8. Good(job)'
  <2>1. \A p \in Podcasts : InScope(job, p) /\ p < i => Clear(p, Window(p))'
    BY <1>3, <1>6, <1>7 DEF InScope, job_in_scope
  <2>2. \A p : p = i => Clear(p, job.cur_ep_idx)'
    BY <1>3, <1>4, <1>5 DEF Clear, Window
  <2>3. job.force \/ job.refresh_done
    BY <1>3 DEF WorkerHolds
  <2>4. InScope(job, i)
    BY <1>3 DEF WorkerHolds, job_in_scope, InScope
  <2> QED
    BY <1>3, <1>4, <2>1, <2>2, <2>3, <2>4 DEF Good, InScope
<1> QED
  BY <1>2, <1>3, <1>4, <1>8, JobMoves DEF JobsHold

(* A step that moves the job's fields on, with what it shows of them.      *)
LEMMA MarkedJobs ==
  ASSUME Types, JobsHold, NEW job \in Jobs, s_dljob' = job, saved' = saved \/ saved' = job,
         UNCHANGED <<manifest, due>>, tried' = tried,
         job.id = s_dljob.id, job.scope = s_dljob.scope, job.force = s_dljob.force,
         job.refresh_done = s_dljob.refresh_done, job.downloads_done = s_dljob.downloads_done,
         job.cur_pod_id = s_dljob.cur_pod_id,
         job.cur_ep_idx = s_dljob.cur_ep_idx \/ Clear(job.cur_pod_id, job.cur_ep_idx)
  PROVE  JobsHold'
<1>1. Good(job)
  BY DEF JobsHold, Good, InScope
<1>2. Behind(s_dljob, job)
  BY JobFacts DEF Behind
<1>3. Good(job)'
  BY <1>1, GoodStays
<1> QED
  BY <1>2, <1>3, JobMoves DEF JobsHold

LEMMA StartJobs ==
  ASSUME Types, JobsHold, WorkerHolds, StartPodcast
  PROVE  JobsHold'
<1> DEFINE n == IF i = resume_pod THEN resume_ep ELSE 0
<1>0. [s_dljob EXCEPT !.cur_pod_id = i, !.cur_ep_idx = n] \in Jobs
  <2>1. s_dljob \in Jobs /\ n \in Nat /\ i \in 0..NumPodcasts
    BY DownloadJobAssumption DEF Types, JobTypes, Places, StartPodcast, Reached, Podcasts
  <2> QED
    BY <2>1, Fields
<1>1. PICK job \in Jobs : job = [s_dljob EXCEPT !.cur_pod_id = i, !.cur_ep_idx = n]
  BY <1>0
<1>2. s_dljob' = job /\ (saved' = saved \/ saved' = job)
  BY <1>1 DEF StartPodcast, Persist
<1>3. /\ job.cur_pod_id = i /\ job.cur_ep_idx = n /\ job.scope = s_dljob.scope
      /\ job.id = s_dljob.id /\ job.downloads_done = s_dljob.downloads_done
      /\ job.force = s_dljob.force /\ job.refresh_done = s_dljob.refresh_done
  BY <1>1 DEF Types, JobTypes, Jobs
<1>4. UNCHANGED <<manifest, due>> /\ tried' = tried
  BY DEF StartPodcast
<1>5. /\ pc = "podcast" /\ i \in Podcasts /\ job_in_scope(i) /\ (started \/ i = resume_pod)
  BY DEF StartPodcast, Goto, Reached
<1>6. s_dljob.cur_pod_id <= i
  BY <1>5, JobFacts DEF WorkerHolds, Types, Places
<1>7. Clear(i, n)
  <2>1. CASE i = resume_pod
    <3>1. ~started
      BY <1>5, <2>1 DEF WorkerHolds, Podcasts, Types, Places, Flags
    <3> QED
      BY <1>5, <2>1, <3>1 DEF WorkerHolds
  <2>2. CASE i # resume_pod
    BY <2>2 DEF Clear
  <2> QED
    BY <2>1, <2>2
<1>8. Good(job)
  BY <1>3, <1>5, <1>7 DEF Good, InScope, job_in_scope, WorkerHolds
<1>9. Good(job)'
  BY <1>4, <1>8, GoodStays
<1>10. Behind(s_dljob, job)
  BY <1>3, <1>6 DEF Behind
<1> QED
  BY <1>2, <1>3, <1>4, <1>9, <1>10, JobMoves DEF JobsHold

LEMMA RefreshedJobs ==
  ASSUME Types, JobsHold, WorkerHolds, RefreshDone
  PROVE  JobsHold'
<1>1. /\ s_dljob' = [s_dljob EXCEPT !.refresh_done = TRUE]
      /\ saved' = saved \/ saved' = s_dljob'
  BY DEF RefreshDone, Persist
<1>2. /\ ~s_dljob.force /\ ~s_dljob.refresh_done /\ ~s_dljob.downloads_done
      /\ s_dljob.cur_pod_id = 0
  BY DEF WorkerHolds, RefreshDone, Goto, JobsHold, Good
<1>3. /\ s_dljob'.cur_pod_id = 0 /\ ~s_dljob'.downloads_done /\ s_dljob'.id = s_dljob.id
      /\ s_dljob'.refresh_done /\ s_dljob'.force = s_dljob.force
      /\ s_dljob'.scope = s_dljob.scope
  BY <1>1, <1>2 DEF Types, JobTypes, Jobs
<1>4. saved.id = s_dljob.id => saved.cur_pod_id = 0 /\ Behind(saved, s_dljob)
  BY <1>2 DEF JobsHold, Good, Behind
<1>5. CASE saved' = s_dljob'
  BY <1>3, <1>5, FreshJobs DEF Behind
<1>6. CASE saved' = saved
  BY <1>2, <1>3, <1>4, <1>6, FreshJobs DEF Behind
<1> QED
  BY <1>1, <1>5, <1>6

LEMMA UnbegunJobs ==
  ASSUME Types, JobsHold, WorkerHolds, RefreshFeed
  PROVE  JobsHold'
<1>1. UNCHANGED <<s_dljob, saved>>
  BY DEF RefreshFeed, Keep
<1>2. /\ ~s_dljob.force /\ ~s_dljob.refresh_done /\ ~s_dljob.downloads_done
      /\ s_dljob.cur_pod_id = 0
  BY DEF WorkerHolds, RefreshFeed, Goto, JobsHold, Good
<1>3. saved.id = s_dljob.id => saved.cur_pod_id = 0 /\ Behind(saved, s_dljob)
  BY <1>2 DEF JobsHold, Good, Behind
<1> QED
  BY <1>1, <1>2, <1>3, FreshJobs DEF Behind

LEMMA DoneJobs ==
  ASSUME Types, JobsHold, WorkerHolds, DownloadsDone
  PROVE  JobsHold'
<1>1. /\ s_dljob' = [s_dljob EXCEPT !.downloads_done = TRUE]
      /\ saved' = saved \/ saved' = s_dljob'
      /\ due' = {}
  BY DEF DownloadsDone, Persist
<1>2. /\ s_dljob'.cur_pod_id = s_dljob.cur_pod_id /\ s_dljob'.id = s_dljob.id
      /\ s_dljob'.refresh_done = s_dljob.refresh_done /\ s_dljob'.force = s_dljob.force
      /\ s_dljob'.scope = s_dljob.scope /\ s_dljob'.downloads_done
  BY <1>1 DEF Types, JobTypes, Jobs
<1>3. \A job : Good(job) => Good(job)'
  BY <1>1 DEF Good, InScope, Clear
<1>4. Good(s_dljob)'
  BY <1>1, <1>2 DEF JobsHold, Good, InScope, Clear
<1>5. saved' = saved /\ saved.id = s_dljob.id => Behind(saved, s_dljob)' /\ Good(saved)'
  BY <1>1, <1>2 DEF JobsHold, Behind, Good, InScope, Clear
<1>6. s_dljob'.cur_pod_id <= s_dljob'.cur_pod_id
  BY <1>2, JobFacts
<1>7. Behind(s_dljob, s_dljob)'
  BY <1>6 DEF Behind
<1>8. saved' = s_dljob' => Behind(saved, s_dljob)' /\ Good(saved)'
  BY <1>4, <1>7 DEF Behind, Good
<1> QED
  BY <1>1, <1>2, <1>4, <1>5, <1>8 DEF JobsHold

LEMMA RebootJobs ==
  ASSUME Types, JobsHold, Reboot, ~disturbed'
  PROVE  JobsHold'
<1>1. saved.id = s_dljob.id
  BY DEF Reboot, Disturb
<1>2. s_dljob' = saved /\ saved' = saved /\ UNCHANGED <<manifest, due, tried>>
  BY <1>1 DEF Reboot, library
<1>3. PICK job \in Jobs : job = saved
  BY DEF Types, JobTypes
<1>4. Good(job)'
  BY <1>1, <1>2, <1>3, GoodStays DEF JobsHold
<1>5. Behind(job, job)
  BY <1>3, JobFacts DEF Behind
<1>6. job.downloads_done => due' = {}
  BY <1>1, <1>2, <1>3 DEF JobsHold, Behind
<1> QED
  BY <1>2, <1>3, <1>4, <1>5, <1>6 DEF JobsHold

LEMMA RefreshJobs ==
  ASSUME Types, JobsHold, \E p \in Podcasts : on_refresh(p), ~disturbed'
  PROVE  JobsHold'
<1>1. PICK p \in Podcasts : on_refresh(p)
  OBVIOUS
<1>2. PICK m \in Refreshed(p) : /\ manifest' = [manifest EXCEPT ![p] = m]
                                /\ ~(p <= s_dljob.cur_pod_id /\ ~Grows(p, m))
                                /\ UNCHANGED <<due, tried>>
  BY <1>1 DEF on_refresh, Disturb
<1>3. UNCHANGED <<s_dljob, saved>> /\ m \in Lists(p)
  BY <1>1, <1>2 DEF on_refresh, Refreshed
<1>4. s_dljob.cur_pod_id < p \/ Grows(p, m)
  BY <1>2, JobFacts DEF Podcasts
<1>5. saved.id = s_dljob.id => saved.cur_pod_id < p \/ Grows(p, m)
  <2>1. saved.id = s_dljob.id => saved.cur_pod_id <= s_dljob.cur_pod_id
    BY DEF JobsHold, Behind
  <2> QED
    BY <1>4, <2>1, JobFacts DEF Podcasts
<1>6. PICK job \in Jobs : job = s_dljob
  BY DEF Types, JobTypes
<1>7. PICK old \in Jobs : old = saved
  BY DEF Types, JobTypes
<1>8. Good(job)'
  BY <1>2, <1>3, <1>4, <1>6, RefreshGood DEF JobsHold
<1>9. old.id = job.id => Good(old)'
  BY <1>2, <1>3, <1>5, <1>6, <1>7, RefreshGood DEF JobsHold
<1> QED
  BY <1>2, <1>3, <1>6, <1>7, <1>8, <1>9 DEF JobsHold

LEMMA AskedJobs ==
  ASSUME Types, Ids, (\E ask \in Asked : ui_remote_download(ask[1], ask[2])) \/ ScheduleMaintenance
  PROVE  JobsHold'
<1>1. CASE \E ask \in Asked : ui_remote_download(ask[1], ask[2])
  <2>0. PICK ask \in Asked : ui_remote_download(ask[1], ask[2])
    BY <1>1
  <2>1. [NoJob EXCEPT !.scope = ask[1], !.force = ask[2]] \in Jobs
    BY Starts, Asks
  <2>2. PICK job \in Jobs : job = [NoJob EXCEPT !.scope = ask[1], !.force = ask[2]]
    BY <2>1
  <2>3. NewJob(job)
    BY <2>0, <2>2 DEF ui_remote_download
  <2>4. job.cur_pod_id = 0 /\ ~job.downloads_done
    BY <2>2 DEF NoJob
  <2> QED
    BY <2>3, <2>4, NewJobsHold
<1>2. CASE ScheduleMaintenance
  <2>1. [NoJob EXCEPT !.maint = TRUE] \in Jobs
    BY Starts, Asks
  <2>2. PICK job \in Jobs : job = [NoJob EXCEPT !.maint = TRUE]
    BY <2>1
  <2>3. NewJob(job)
    BY <1>2, <2>2 DEF ScheduleMaintenance
  <2>4. job.cur_pod_id = 0 /\ ~job.downloads_done
    BY <2>2 DEF NoJob
  <2> QED
    BY <2>3, <2>4, NewJobsHold
<1> QED
  BY <1>1, <1>2

LEMMA JobsStep ==
  ASSUME Types, Ids, JobsHold, WorkerHolds, [Next]_vars, ~disturbed'
  PROVE  JobsHold'
<1>1. CASE \E ask \in Asked : ui_remote_download(ask[1], ask[2])
  BY <1>1, AskedJobs
<1>2. CASE ui_remote_cancel
  <2>1. [s_dljob EXCEPT !.active = FALSE] \in Jobs
    BY Fields DEF Types, JobTypes, Places
  <2>2. PICK job \in Jobs : job = [s_dljob EXCEPT !.active = FALSE]
    BY <2>1
  <2>3. /\ s_dljob' = job /\ (saved' = saved \/ saved' = job)
        /\ UNCHANGED <<manifest, due>> /\ tried' = tried
    BY <1>2, <2>2 DEF ui_remote_cancel, Persist, library, history
  <2>4. /\ job.id = s_dljob.id /\ job.scope = s_dljob.scope /\ job.force = s_dljob.force
        /\ job.refresh_done = s_dljob.refresh_done
        /\ job.downloads_done = s_dljob.downloads_done
        /\ job.cur_pod_id = s_dljob.cur_pod_id
    BY <2>2 DEF Types, JobTypes, Jobs
  <2>5. job.cur_ep_idx = s_dljob.cur_ep_idx \/ Clear(job.cur_pod_id, job.cur_ep_idx)
    BY <1>2, <2>2, <2>4 DEF Types, JobTypes, Jobs, WorkerHolds, Leave, Goto, ui_remote_cancel
  <2> QED
    BY <2>2, <2>3, <2>4, <2>5, MarkedJobs
<1>3. CASE StartJob
  BY <1>3, JobStays DEF StartJob, library, history
<1>4. CASE ScheduleMaintenance
  BY <1>4, AskedJobs
<1>5. CASE Play
  BY <1>5, JobStays DEF Play, Trouble, library, history
<1>6. CASE PlayEnds
  BY <1>6, JobStays DEF PlayEnds, library, history
<1>7. CASE OtherAsked
  BY <1>7, JobStays DEF OtherAsked, Trouble, library, history
<1>8. CASE OtherServed
  BY <1>8, JobStays DEF OtherServed, library, history
<1>9. CASE \E p \in Podcasts : on_refresh(p)
  BY <1>9, RefreshJobs
<1>10. CASE Claim
  BY <1>10, JobStays DEF Claim, Goto, Keep, library, history
<1>11. CASE Guard
  BY <1>11, JobStays DEF Guard, Goto, Leave, ForgetLocals, Outside,
     FirstPhase, Keep, library, history
<1>12. CASE RefreshFeed
  BY <1>12, UnbegunJobs
<1>13. CASE RefreshDone
  BY <1>13, RefreshedJobs DEF RefreshDone
<1>14. CASE Prune
  BY <1>14, JobStays DEF Prune, Goto, Outside, Keep, library, history
<1>15. CASE ReadCursor
  BY <1>15, JobStays DEF ReadCursor, Goto, Outside, Keep, library, history
<1>16. CASE InterruptEarly
  BY <1>16, JobStays DEF InterruptEarly, Leave, Goto, ForgetLocals, Outside,
     Keep, library, history
<1>17. CASE SkipPodcast
  BY <1>17, JobStays DEF SkipPodcast, Goto, Outside, Keep, library, history
<1>18. CASE StartPodcast
  BY <1>18, StartJobs
<1>19. CASE SkipCached
  BY <1>19, AdvanceJobs DEF SkipCached, Advance, Goto
<1>20. CASE Fetch
  BY <1>20, JobStays DEF Fetch, Goto, Outside, Keep, library, history
<1>21. CASE Fetched
  BY <1>21, AdvanceJobs DEF Fetched, Advance, Goto
<1>22. CASE FetchFailed
  BY <1>22, AdvanceJobs DEF FetchFailed, Advance, Goto
<1>23. CASE Interrupt
  <2>1. [s_dljob EXCEPT !.cur_ep_idx = e] \in Jobs
    BY Fields DEF Types, JobTypes, Places
  <2>2. PICK job \in Jobs : job = [s_dljob EXCEPT !.cur_ep_idx = e]
    BY <2>1
  <2>3. /\ s_dljob' = job /\ (saved' = saved \/ saved' = job)
        /\ UNCHANGED <<manifest, due>> /\ tried' = tried
    BY <1>23, <2>2 DEF Interrupt, Leave, Persist
  <2>4. /\ job.id = s_dljob.id /\ job.scope = s_dljob.scope /\ job.force = s_dljob.force
        /\ job.refresh_done = s_dljob.refresh_done
        /\ job.downloads_done = s_dljob.downloads_done
        /\ job.cur_pod_id = s_dljob.cur_pod_id
    BY <2>2 DEF Types, JobTypes, Jobs
  <2>5. job.cur_ep_idx = s_dljob.cur_ep_idx \/ Clear(job.cur_pod_id, job.cur_ep_idx)
    BY <1>23, <2>2, <2>4 DEF Types, JobTypes, Jobs, WorkerHolds, Leave, Goto, Interrupt
  <2> QED
    BY <2>2, <2>3, <2>4, <2>5, MarkedJobs
<1>24. CASE CardFull
  <2>1. [s_dljob EXCEPT !.cur_ep_idx = e, !.active = FALSE] \in Jobs
    BY Fields DEF Types, JobTypes, Places
  <2>2. PICK job \in Jobs : job = [s_dljob EXCEPT !.cur_ep_idx = e, !.active = FALSE]
    BY <2>1
  <2>3. /\ s_dljob' = job /\ (saved' = saved \/ saved' = job)
        /\ UNCHANGED <<manifest, due>> /\ tried' = tried
    BY <1>24, <2>2 DEF CardFull, Leave, Persist
  <2>4. /\ job.id = s_dljob.id /\ job.scope = s_dljob.scope /\ job.force = s_dljob.force
        /\ job.refresh_done = s_dljob.refresh_done
        /\ job.downloads_done = s_dljob.downloads_done
        /\ job.cur_pod_id = s_dljob.cur_pod_id
    BY <2>2 DEF Types, JobTypes, Jobs
  <2>5. job.cur_ep_idx = s_dljob.cur_ep_idx \/ Clear(job.cur_pod_id, job.cur_ep_idx)
    BY <1>24, <2>2, <2>4 DEF Types, JobTypes, Jobs, WorkerHolds, Leave, Goto, CardFull
  <2> QED
    BY <2>2, <2>3, <2>4, <2>5, MarkedJobs
<1>25. CASE EndPodcast
  BY <1>25, JobStays DEF EndPodcast, Goto, Outside, Keep, library, history
<1>26. CASE DownloadsDone
  BY <1>26, DoneJobs
<1>27. CASE InterruptScan
  <2>1. /\ s_dljob' = s_dljob /\ (saved' = saved \/ saved' = s_dljob)
        /\ UNCHANGED <<manifest, due>> /\ tried' = tried
    BY <1>27 DEF InterruptScan, Leave, Persist
  <2>2. PICK job \in Jobs : job = s_dljob
    BY DEF Types, JobTypes
  <2> QED
    BY <2>1, <2>2, MarkedJobs
<1>28. CASE Complete
  <2>1. [s_dljob EXCEPT !.active = FALSE] \in Jobs
    BY Fields DEF Types, JobTypes, Places
  <2>2. PICK job \in Jobs : job = [s_dljob EXCEPT !.active = FALSE]
    BY <2>1
  <2>3. /\ s_dljob' = job /\ (saved' = saved \/ saved' = job)
        /\ UNCHANGED <<manifest, due>> /\ tried' = tried
    BY <1>28, <2>2 DEF Complete, Leave, Persist
  <2>4. /\ job.id = s_dljob.id /\ job.scope = s_dljob.scope /\ job.force = s_dljob.force
        /\ job.refresh_done = s_dljob.refresh_done
        /\ job.downloads_done = s_dljob.downloads_done
        /\ job.cur_pod_id = s_dljob.cur_pod_id
    BY <2>2 DEF Types, JobTypes, Jobs
  <2>5. job.cur_ep_idx = s_dljob.cur_ep_idx \/ Clear(job.cur_pod_id, job.cur_ep_idx)
    BY <1>28, <2>2, <2>4 DEF Types, JobTypes, Jobs, WorkerHolds, Leave, Goto, Complete
  <2> QED
    BY <2>2, <2>3, <2>4, <2>5, MarkedJobs
<1>29. CASE NoMemory
  BY <1>29, JobStays DEF NoMemory, Leave, Goto, ForgetLocals, Outside,
     Trouble, library, history
<1>30. CASE Unreadable
  BY <1>30 DEF Unreadable, Disturb
<1>31. CASE PruneFallsShort
  BY <1>31, JobStays DEF PruneFallsShort, Goto, Outside, Trouble, library,
     history
<1>32. CASE Reboot
  BY <1>32, RebootJobs
<1>33. CASE \E p \in Podcasts : Publish(p)
  BY <1>33, JobStays DEF Publish, library, history
<1>34. CASE \E p \in Podcasts : Withdraw(p)
  BY <1>34, JobStays DEF Withdraw, Trouble, library, history
<1>35. CASE UNCHANGED vars
  BY <1>35, JobStays DEF vars, library, history
<1> QED
  BY <1>1, <1>2, <1>3, <1>4, <1>5, <1>6, <1>7, <1>8, <1>9, <1>10, <1>11,
     <1>12, <1>13, <1>14, <1>15, <1>16, <1>17, <1>18, <1>19, <1>20, <1>21,
     <1>22, <1>23, <1>24, <1>25, <1>26, <1>27, <1>28, <1>29, <1>30, <1>31,
     <1>32, <1>33, <1>34, <1>35 DEF Next, LvglTask, Worker

LEMMA WorkerStays ==
  ASSUME WorkerHolds, UNCHANGED <<pc, i, e, resume_pod, resume_ep, started, manifest, due>>,
         tried' = tried, s_dljob'.scope = s_dljob.scope, s_dljob'.force = s_dljob.force,
         s_dljob'.refresh_done = s_dljob.refresh_done,
         s_dljob'.downloads_done = s_dljob.downloads_done,
         s_dljob'.cur_pod_id = s_dljob.cur_pod_id
  PROVE  WorkerHolds'
BY DEF WorkerHolds, Clear, Window, job_in_scope

LEMMA CursorWorker ==
  ASSUME Types, JobsHold, WorkerHolds, ReadCursor
  PROVE  WorkerHolds'
<1>1. /\ pc' = "podcast" /\ i' = 1 /\ pc = "prune" /\ UNCHANGED <<s_dljob, manifest, due, tried>>
      /\ resume_pod' = s_dljob.cur_pod_id /\ resume_ep' = s_dljob.cur_ep_idx
      /\ started' = (s_dljob.cur_pod_id = 0)
  BY DEF ReadCursor, Goto, Keep
<1>2. \A p \in Podcasts : ~(p < 1)
  BY DEF Podcasts
<1>3. s_dljob.cur_pod_id \in Nat /\ s_dljob.cur_pod_id <= NumPodcasts
  BY JobFacts
<1>4. CASE s_dljob.cur_pod_id = 0
  <2>1. s_dljob'.cur_pod_id = 0 /\ resume_pod' = 0 /\ i' = 1
    BY <1>1, <1>4
  <2>2. started' = TRUE
    BY <1>1, <1>4
  <2>3. resume_pod' < i' /\ s_dljob'.cur_pod_id <= i'
    BY <2>1
  <2> QED
    BY <1>1, <1>2, <2>2, <2>3 DEF WorkerHolds
<1>5. CASE s_dljob.cur_pod_id # 0
  <2>1. s_dljob.cur_pod_id \in Podcasts /\ 1 <= s_dljob.cur_pod_id
    BY <1>3, <1>5, DownloadJobAssumption DEF Podcasts
  <2>2. Clear(s_dljob.cur_pod_id, s_dljob.cur_ep_idx)
    BY <1>5, <2>1 DEF JobsHold, Good
  <2>3. Clear(resume_pod, resume_ep)'
    BY <1>1, <2>2 DEF Clear, Window
  <2> QED
    BY <1>1, <1>2, <1>5, <2>1, <2>3 DEF WorkerHolds
<1> QED
  BY <1>4, <1>5

LEMMA SkipWorker ==
  ASSUME Types, JobsHold, WorkerHolds, SkipPodcast
  PROVE  WorkerHolds'
<1>1. /\ pc = "podcast" /\ pc' = "podcast" /\ i' = i + 1 /\ i \in Podcasts
      /\ UNCHANGED <<s_dljob, manifest, due, tried, resume_pod, resume_ep, started>>
      /\ ~job_in_scope(i) \/ (~started /\ i # resume_pod)
  BY DEF SkipPodcast, Goto, Keep, cursor
<1>2. s_dljob.cur_pod_id \in Nat /\ i \in Nat /\ resume_pod \in Nat
  BY JobFacts, DownloadJobAssumption DEF Types, Places
<1>3. CASE started
  <2>1. ~job_in_scope(i) /\ resume_pod < i /\ s_dljob.cur_pod_id <= i
    BY <1>1, <1>3 DEF WorkerHolds
  <2>2. resume_pod < i + 1 /\ s_dljob.cur_pod_id <= i + 1
    BY <1>2, <2>1
  <2>3. \A p \in Podcasts : p < i + 1 /\ job_in_scope(p) => Clear(p, Window(p))
    BY <1>1, <1>2, <2>1 DEF WorkerHolds, Podcasts
  <2>4. \A p \in Podcasts : p < i' /\ job_in_scope(p)' => Clear(p, Window(p))'
    BY <1>1, <2>3 DEF Clear, Window, job_in_scope
  <2> QED
    BY <1>1, <1>3, <2>2, <2>4 DEF WorkerHolds
<1>4. CASE ~started
  <2>1. i <= resume_pod /\ resume_pod = s_dljob.cur_pod_id /\ Clear(resume_pod, resume_ep)
    BY <1>1, <1>4 DEF WorkerHolds
  <2>2. resume_pod # 0
    BY <1>1, <1>2, <2>1 DEF Podcasts
  <2>3. job_in_scope(resume_pod)
    BY <2>1, <2>2 DEF JobsHold, Good, InScope, job_in_scope
  <2>4. i # resume_pod
    BY <1>1, <2>3
  <2>5. i + 1 <= resume_pod
    BY <1>2, <2>1, <2>4
  <2>6. job_in_scope(i) => Clear(i, Window(i))
    <3>1. i < s_dljob.cur_pod_id
      BY <1>2, <2>1, <2>4
    <3> QED
      BY <1>1, <3>1 DEF JobsHold, Good, InScope, job_in_scope
  <2>7. \A p \in Podcasts : p < i + 1 /\ job_in_scope(p) => Clear(p, Window(p))
    <3>1. \A p \in Podcasts : p < i + 1 => p < i \/ p = i
      BY <1>2 DEF Podcasts
    <3> QED
      BY <1>1, <2>6, <3>1 DEF WorkerHolds
  <2>8. \A p \in Podcasts : p < i' /\ job_in_scope(p)' => Clear(p, Window(p))'
    BY <1>1, <2>7 DEF Clear, Window, job_in_scope
  <2>9. Clear(resume_pod, resume_ep)'
    BY <1>1, <2>1 DEF Clear, Window
  <2> QED
    BY <1>1, <1>4, <2>1, <2>5, <2>8, <2>9 DEF WorkerHolds
<1> QED
  BY <1>3, <1>4 DEF Types, Flags

LEMMA StartWorker ==
  ASSUME Types, JobsHold, WorkerHolds, StartPodcast
  PROVE  WorkerHolds'
<1>1. /\ pc = "podcast" /\ pc' = "episode" /\ i' = i /\ i \in Podcasts /\ job_in_scope(i)
      /\ UNCHANGED <<manifest, due, tried, resume_pod, resume_ep>>
      /\ started \/ i = resume_pod
      /\ started' = TRUE /\ e' = IF i = resume_pod THEN resume_ep ELSE 0
      /\ s_dljob' = [s_dljob EXCEPT !.cur_pod_id = i, !.cur_ep_idx = e']
  BY DEF StartPodcast, Goto, Reached, Persist
<1>2. /\ s_dljob'.cur_pod_id = i /\ s_dljob'.scope = s_dljob.scope
      /\ s_dljob'.downloads_done = s_dljob.downloads_done
      /\ s_dljob'.force = s_dljob.force /\ s_dljob'.refresh_done = s_dljob.refresh_done
  BY <1>1 DEF Types, JobTypes, Jobs
<1>3. s_dljob.cur_pod_id \in Nat /\ i \in Nat /\ resume_pod \in Nat
  BY JobFacts, DownloadJobAssumption DEF Types, Places
<1>4. resume_pod <= i
  BY <1>1, <1>3 DEF WorkerHolds
<1>5. Clear(i, e)'
  <2>1. CASE i = resume_pod
    <3>1. ~started
      BY <1>1, <1>3, <2>1 DEF WorkerHolds
    <3> QED
      BY <1>1, <2>1, <3>1 DEF WorkerHolds, Clear, Window
  <2>2. CASE i # resume_pod
    BY <1>1, <2>2 DEF Clear
  <2> QED
    BY <2>1, <2>2
<1>6. \A p \in Podcasts : p < i' /\ job_in_scope(p)' => Clear(p, Window(p))'
  BY <1>1, <1>2 DEF Clear, Window, job_in_scope, WorkerHolds
<1> QED
  BY <1>1, <1>2, <1>4, <1>5, <1>6 DEF WorkerHolds, job_in_scope

LEMMA AdvanceWorker ==
  ASSUME Types, WorkerHolds, pc \in {"episode", "fetch"},
         Advance("episode") \/ Advance("fetch")
  PROVE  WorkerHolds'
<1>1. /\ pc' = "episode" /\ i' = i /\ UNCHANGED <<manifest, due, resume_pod, started>>
      /\ tried \subseteq tried'
      /\ s_dljob' = [s_dljob EXCEPT !.cur_ep_idx = e + 1]
  BY DEF Advance, Goto, Persist, cursor
<1>2. /\ s_dljob'.cur_pod_id = s_dljob.cur_pod_id /\ s_dljob'.scope = s_dljob.scope
      /\ s_dljob'.downloads_done = s_dljob.downloads_done
      /\ s_dljob'.force = s_dljob.force /\ s_dljob'.refresh_done = s_dljob.refresh_done
  BY <1>1 DEF Types, JobTypes, Jobs
<1>3. Clear(i, e)'
  BY AdvanceClear DEF WorkerHolds
<1>4. \A p \in Podcasts : p < i' /\ job_in_scope(p)' => Clear(p, Window(p))'
  BY <1>1, <1>2 DEF Clear, Window, job_in_scope, WorkerHolds
<1> QED
  BY <1>1, <1>2, <1>3, <1>4 DEF WorkerHolds, job_in_scope

LEMMA EndWorker ==
  ASSUME Types, WorkerHolds, EndPodcast
  PROVE  WorkerHolds'
<1>1. /\ pc = "episode" /\ pc' = "podcast" /\ i' = i + 1 /\ e >= Window(i)
      /\ UNCHANGED <<s_dljob, manifest, due, tried, resume_pod, resume_ep, started>>
  BY DEF EndPodcast, Goto, Keep, cursor
<1>2. i \in Nat /\ resume_pod \in Nat /\ e \in Nat /\ i \in Podcasts
  BY <1>1, DownloadJobAssumption DEF Types, Places, Podcasts
<1>3. started /\ resume_pod <= i /\ s_dljob.cur_pod_id = i /\ Clear(i, e) /\ job_in_scope(i)
  BY <1>1 DEF WorkerHolds
<1>4. Clear(i, Window(i))
  <2>1. \A j \in 1..Window(i) : j <= e
    BY <1>1, <1>2, Windows DEF Types
  <2> QED
    BY <1>3, <2>1 DEF Clear
<1>5. resume_pod < i + 1 /\ s_dljob.cur_pod_id <= i + 1
  BY <1>2, <1>3
<1>6. \A p \in Podcasts : p < i + 1 => p < i \/ p = i
  BY <1>2 DEF Podcasts
<1>7. \A p \in Podcasts : p < i + 1 /\ job_in_scope(p) => Clear(p, Window(p))
  BY <1>1, <1>4, <1>6 DEF WorkerHolds
<1>8. \A p \in Podcasts : p < i' /\ job_in_scope(p)' => Clear(p, Window(p))'
  BY <1>1, <1>7 DEF Clear, Window, job_in_scope
<1> QED
  BY <1>1, <1>3, <1>5, <1>8 DEF WorkerHolds

LEMMA WorkerStep ==
  ASSUME Types, JobsHold, WorkerHolds, Held, [Next]_vars, ~disturbed'
  PROVE  WorkerHolds'
<1>1. CASE \E ask \in Asked : ui_remote_download(ask[1], ask[2])
  BY <1>1 DEF ui_remote_download, NewJob, WorkerHolds, Held
<1>2. CASE ui_remote_cancel
  <2>1. s_dljob' = [s_dljob EXCEPT !.active = FALSE]
    BY <1>2 DEF ui_remote_cancel, Persist
  <2>2. /\ s_dljob'.cur_pod_id = s_dljob.cur_pod_id /\ s_dljob'.scope = s_dljob.scope
        /\ s_dljob'.downloads_done = s_dljob.downloads_done
        /\ s_dljob'.force = s_dljob.force /\ s_dljob'.refresh_done = s_dljob.refresh_done
    BY <2>1 DEF Types, JobTypes, Jobs
  <2> QED
    BY <1>2, <2>2, WorkerStays DEF ui_remote_cancel, library, history, cursor
<1>3. CASE StartJob
  BY <1>3, WorkerStays DEF StartJob, library, history, cursor
<1>4. CASE ScheduleMaintenance
  BY <1>4 DEF ScheduleMaintenance, NewJob, WorkerHolds, Held
<1>5. CASE Play
  BY <1>5, WorkerStays DEF Play, Trouble, library, history, cursor
<1>6. CASE PlayEnds
  BY <1>6, WorkerStays DEF PlayEnds, library, history, cursor
<1>7. CASE OtherAsked
  BY <1>7, WorkerStays DEF OtherAsked, Trouble, library, history, cursor
<1>8. CASE OtherServed
  BY <1>8, WorkerStays DEF OtherServed, library, history, cursor
<1>9. CASE \E p \in Podcasts : on_refresh(p)
  BY <1>9 DEF on_refresh, WorkerHolds
<1>10. CASE Claim
  BY <1>10 DEF Claim, Goto, WorkerHolds
<1>11. CASE Guard
  BY <1>11 DEF Guard, Goto, Leave, Keep, FirstPhase, WorkerHolds
<1>12. CASE RefreshFeed
  BY <1>12 DEF RefreshFeed, Goto, Keep, WorkerHolds
<1>13. CASE RefreshDone
  <2>1. pc = "refresh" /\ pc' = "prune" /\ s_dljob' = [s_dljob EXCEPT !.refresh_done = TRUE]
    BY <1>13 DEF RefreshDone, Goto, Persist
  <2>2. s_dljob'.refresh_done /\ s_dljob'.downloads_done = s_dljob.downloads_done
    BY <2>1 DEF Types, JobTypes, Jobs
  <2> QED
    BY <2>1, <2>2 DEF WorkerHolds
<1>14. CASE Prune
  BY <1>14 DEF Prune, Goto, Keep, WorkerHolds
<1>15. CASE ReadCursor
  BY <1>15, CursorWorker
<1>16. CASE InterruptEarly
  BY <1>16 DEF InterruptEarly, Leave, Goto, WorkerHolds
<1>17. CASE SkipPodcast
  BY <1>17, SkipWorker
<1>18. CASE StartPodcast
  BY <1>18, StartWorker
<1>19. CASE SkipCached
  BY <1>19, AdvanceWorker DEF SkipCached, Advance, Goto
<1>20. CASE Fetch
  BY <1>20 DEF Fetch, Goto, Keep, cursor, WorkerHolds, Clear, Window, job_in_scope
<1>21. CASE Fetched
  BY <1>21, AdvanceWorker DEF Fetched, Advance, Goto
<1>22. CASE FetchFailed
  BY <1>22, AdvanceWorker DEF FetchFailed, Advance, Goto
<1>23. CASE Interrupt
  BY <1>23 DEF Interrupt, Leave, Goto, WorkerHolds
<1>24. CASE CardFull
  BY <1>24 DEF CardFull, Leave, Goto, WorkerHolds
<1>25. CASE EndPodcast
  BY <1>25, EndWorker
<1>26. CASE DownloadsDone
  BY <1>26 DEF DownloadsDone, Goto, WorkerHolds
<1>27. CASE InterruptScan
  BY <1>27 DEF InterruptScan, Leave, Goto, WorkerHolds
<1>28. CASE Complete
  BY <1>28 DEF Complete, Leave, Goto, WorkerHolds
<1>29. CASE NoMemory
  BY <1>29 DEF NoMemory, Leave, Goto, WorkerHolds
<1>30. CASE Unreadable
  BY <1>30 DEF Unreadable, Disturb
<1>31. CASE PruneFallsShort
  BY <1>31 DEF PruneFallsShort, Goto, WorkerHolds
<1>32. CASE Reboot
  BY <1>32 DEF Reboot, WorkerHolds
<1>33. CASE \E p \in Podcasts : Publish(p)
  BY <1>33, WorkerStays DEF Publish, library, history, cursor
<1>34. CASE \E p \in Podcasts : Withdraw(p)
  BY <1>34, WorkerStays DEF Withdraw, Trouble, library, history, cursor
<1>35. CASE UNCHANGED vars
  BY <1>35, WorkerStays DEF vars, library, history, cursor
<1> QED
  BY <1>1, <1>2, <1>3, <1>4, <1>5, <1>6, <1>7, <1>8, <1>9, <1>10, <1>11,
     <1>12, <1>13, <1>14, <1>15, <1>16, <1>17, <1>18, <1>19, <1>20, <1>21,
     <1>22, <1>23, <1>24, <1>25, <1>26, <1>27, <1>28, <1>29, <1>30, <1>31,
     <1>32, <1>33, <1>34, <1>35 DEF Next, LvglTask, Worker

(* Only a new job is held to what its predecessor no longer was.           *)
LEMMA Undisturbed ==
  ASSUME disturbed, ~disturbed', [Next]_vars
  PROVE  (\E ask \in Asked : ui_remote_download(ask[1], ask[2])) \/ ScheduleMaintenance
<1>1. CASE \E ask \in Asked : ui_remote_download(ask[1], ask[2])
  BY <1>1
<1>2. CASE ui_remote_cancel
  BY <1>2 DEF ui_remote_cancel, Persist, Trouble, history
<1>3. CASE StartJob
  BY <1>3 DEF StartJob, history
<1>4. CASE ScheduleMaintenance
  BY <1>4
<1>5. CASE Play
  BY <1>5 DEF Play, Trouble, history
<1>6. CASE PlayEnds
  BY <1>6 DEF PlayEnds, history
<1>7. CASE OtherAsked
  BY <1>7 DEF OtherAsked, Trouble, history
<1>8. CASE OtherServed
  BY <1>8 DEF OtherServed, history
<1>9. CASE \E p \in Podcasts : on_refresh(p)
  BY <1>9 DEF on_refresh, Disturb, history
<1>10. CASE Claim
  BY <1>10 DEF Claim, Goto, Keep, history
<1>11. CASE Guard
  BY <1>11 DEF Guard, Goto, Leave, ForgetLocals, Outside, FirstPhase, Keep,
     history
<1>12. CASE RefreshFeed
  BY <1>12 DEF RefreshFeed, Goto, Outside, Keep, history
<1>13. CASE RefreshDone
  BY <1>13 DEF RefreshDone, Goto, Outside, Persist, Trouble, history
<1>14. CASE Prune
  BY <1>14 DEF Prune, Goto, Outside, Keep, history
<1>15. CASE ReadCursor
  BY <1>15 DEF ReadCursor, Goto, Outside, Keep, history
<1>16. CASE InterruptEarly
  BY <1>16 DEF InterruptEarly, Leave, Goto, ForgetLocals, Outside, Keep,
     history
<1>17. CASE SkipPodcast
  BY <1>17 DEF SkipPodcast, Goto, Outside, Keep, history
<1>18. CASE StartPodcast
  BY <1>18 DEF StartPodcast, Reached, Goto, Persist, Trouble, Outside,
     history
<1>19. CASE SkipCached
  BY <1>19 DEF SkipCached, Advance, Goto, Outside, Persist, Trouble, history
<1>20. CASE Fetch
  BY <1>20 DEF Fetch, Goto, Outside, Keep, history
<1>21. CASE Fetched
  BY <1>21 DEF Fetched, Advance, Goto, Outside, Persist, Trouble, history
<1>22. CASE FetchFailed
  BY <1>22 DEF FetchFailed, Advance, Goto, Outside, Persist, Trouble,
     history
<1>23. CASE Interrupt
  BY <1>23 DEF Interrupt, Leave, Goto, ForgetLocals, Outside, Persist,
     Trouble, history
<1>24. CASE CardFull
  BY <1>24 DEF CardFull, Leave, Goto, ForgetLocals, Outside, Persist,
     Trouble, history
<1>25. CASE EndPodcast
  BY <1>25 DEF EndPodcast, Goto, Outside, Keep, history
<1>26. CASE DownloadsDone
  BY <1>26 DEF DownloadsDone, Goto, Outside, Persist, Trouble, history
<1>27. CASE InterruptScan
  BY <1>27 DEF InterruptScan, Leave, Goto, ForgetLocals, Outside, Persist,
     Trouble, history
<1>28. CASE Complete
  BY <1>28 DEF Complete, Leave, Goto, ForgetLocals, Outside, Persist,
     Trouble, history
<1>29. CASE NoMemory
  BY <1>29 DEF NoMemory, Leave, Goto, ForgetLocals, Outside, Trouble,
     history
<1>30. CASE Unreadable
  BY <1>30 DEF Unreadable, Reached, Goto, Outside, Disturb, Trouble, history
<1>31. CASE PruneFallsShort
  BY <1>31 DEF PruneFallsShort, Goto, Outside, Trouble, history
<1>32. CASE Reboot
  BY <1>32 DEF Reboot, ForgetLocals, Disturb, history
<1>33. CASE \E p \in Podcasts : Publish(p)
  BY <1>33 DEF Publish, history
<1>34. CASE \E p \in Podcasts : Withdraw(p)
  BY <1>34 DEF Withdraw, Trouble, history
<1>35. CASE UNCHANGED vars
  BY <1>35 DEF vars, history
<1> QED
  BY <1>1, <1>2, <1>3, <1>4, <1>5, <1>6, <1>7, <1>8, <1>9, <1>10, <1>11,
     <1>12, <1>13, <1>14, <1>15, <1>16, <1>17, <1>18, <1>19, <1>20, <1>21,
     <1>22, <1>23, <1>24, <1>25, <1>26, <1>27, <1>28, <1>29, <1>30, <1>31,
     <1>32, <1>33, <1>34, <1>35 DEF Next, LvglTask, Worker

LEMMA ProgressStep ==
  ASSUME Types, Ids, Progress, [Next]_vars
  PROVE  Progress'
<1>1. Held /\ Held'
  BY HeldStep DEF Progress, Held, Types
<1>2. ASSUME ~disturbed', disturbed PROVE JobsHold' /\ WorkerHolds'
  <2>1. (\E ask \in Asked : ui_remote_download(ask[1], ask[2])) \/ ScheduleMaintenance
    BY <1>2, Undisturbed
  <2>2. pc' = "receive"
    BY <1>1, <1>2, <2>1 DEF ui_remote_download, ScheduleMaintenance, NewJob, Held
  <2> QED
    BY <2>1, <2>2, AskedJobs DEF WorkerHolds
<1>3. ASSUME ~disturbed', ~disturbed PROVE JobsHold' /\ WorkerHolds'
  BY <1>1, <1>3, JobsStep, WorkerStep DEF Progress
<1> QED
  BY <1>1, <1>2, <1>3 DEF Progress, Held

LEMMA Progresses == Spec => [](Types /\ Ids /\ Progress)
<1>1. Init => Ids /\ Progress
  <2> SUFFICES ASSUME Init PROVE Ids /\ Progress
    OBVIOUS
  <2>1. Ids
    BY DEF Init, Ids, NoJob
  <2>2. s_dljob = NoJob /\ saved = NoJob /\ due = {} /\ pc = "receive" /\ disturbed = FALSE
    BY DEF Init
  <2>3. NoJob.cur_pod_id = 0 /\ NoJob.cur_pod_id <= NoJob.cur_pod_id
    BY DEF NoJob
  <2>4. Good(s_dljob) /\ Good(saved) /\ Behind(saved, s_dljob)
    BY <2>2, <2>3, FreshGood DEF Behind, Good, Podcasts
  <2>5. WorkerHolds
    BY <2>2 DEF WorkerHolds
  <2> QED
    BY <2>1, <2>2, <2>4, <2>5 DEF Progress, JobsHold
<1>2. Types /\ Ids /\ Progress /\ [Next]_vars => Ids' /\ Progress'
  BY IdsStep, ProgressStep
<1> QED
  BY <1>1, <1>2, Typed, PTL DEF Spec

LEMMA NewJobIds ==
  ASSUME (\E ask \in Asked : ui_remote_download(ask[1], ask[2])) \/ ScheduleMaintenance
  PROVE  s_dljob'.id = asks + 1
<1>1. CASE \E ask \in Asked : ui_remote_download(ask[1], ask[2])
  BY <1>1, Starts, Asks, NewIds DEF ui_remote_download
<1>2. CASE ScheduleMaintenance
  BY <1>2, Starts, NewIds DEF ScheduleMaintenance
<1> QED
  BY <1>1, <1>2

(* Only the worker's own step marks the downloads done.                    *)
LEMMA OnlyDone ==
  ASSUME Types, Ids, Progress, [Next]_vars, s_dljob'.id = s_dljob.id,
         s_dljob'.downloads_done, ~s_dljob.downloads_done
  PROVE  DownloadsDone \/ disturbed
<1> USE DEF Types, JobTypes, Jobs
<1>1. CASE \E ask \in Asked : ui_remote_download(ask[1], ask[2])
  <2>1. s_dljob'.id = asks + 1
    BY <1>1, NewJobIds
  <2> QED
    BY <2>1 DEF Ids, Types, JobTypes, Jobs
<1>2. CASE ui_remote_cancel
  BY <1>2 DEF ui_remote_cancel, Persist, Trouble
<1>3. CASE StartJob
  BY <1>3 DEF StartJob
<1>4. CASE ScheduleMaintenance
  <2>1. s_dljob'.id = asks + 1
    BY <1>4, NewJobIds
  <2> QED
    BY <2>1 DEF Ids, Types, JobTypes, Jobs
<1>5. CASE Play
  BY <1>5 DEF Play, Trouble
<1>6. CASE PlayEnds
  BY <1>6 DEF PlayEnds
<1>7. CASE OtherAsked
  BY <1>7 DEF OtherAsked, Trouble
<1>8. CASE OtherServed
  BY <1>8 DEF OtherServed
<1>9. CASE \E p \in Podcasts : on_refresh(p)
  BY <1>9 DEF on_refresh, Disturb
<1>10. CASE Claim
  BY <1>10 DEF Claim, Goto, Keep
<1>11. CASE Guard
  BY <1>11 DEF Guard, Goto, Leave, ForgetLocals, Outside, FirstPhase, Keep
<1>12. CASE RefreshFeed
  BY <1>12 DEF RefreshFeed, Goto, Outside, Keep
<1>13. CASE RefreshDone
  BY <1>13 DEF RefreshDone, Goto, Outside, Persist, Trouble
<1>14. CASE Prune
  BY <1>14 DEF Prune, Goto, Outside, Keep
<1>15. CASE ReadCursor
  BY <1>15 DEF ReadCursor, Goto, Outside, Keep
<1>16. CASE InterruptEarly
  BY <1>16 DEF InterruptEarly, Leave, Goto, ForgetLocals, Outside, Keep
<1>17. CASE SkipPodcast
  BY <1>17 DEF SkipPodcast, Goto, Outside, Keep
<1>18. CASE StartPodcast
  BY <1>18 DEF StartPodcast, Reached, Goto, Persist, Trouble, Outside
<1>19. CASE SkipCached
  BY <1>19 DEF SkipCached, Advance, Goto, Outside, Persist, Trouble
<1>20. CASE Fetch
  BY <1>20 DEF Fetch, Goto, Outside, Keep
<1>21. CASE Fetched
  BY <1>21 DEF Fetched, Advance, Goto, Outside, Persist, Trouble
<1>22. CASE FetchFailed
  BY <1>22 DEF FetchFailed, Advance, Goto, Outside, Persist, Trouble
<1>23. CASE Interrupt
  BY <1>23 DEF Interrupt, Leave, Goto, ForgetLocals, Outside, Persist,
     Trouble
<1>24. CASE CardFull
  BY <1>24 DEF CardFull, Leave, Goto, ForgetLocals, Outside, Persist,
     Trouble
<1>25. CASE EndPodcast
  BY <1>25 DEF EndPodcast, Goto, Outside, Keep
<1>26. CASE DownloadsDone
  BY <1>26
<1>27. CASE InterruptScan
  BY <1>27 DEF InterruptScan, Leave, Goto, ForgetLocals, Outside, Persist,
     Trouble
<1>28. CASE Complete
  BY <1>28 DEF Complete, Leave, Goto, ForgetLocals, Outside, Persist,
     Trouble
<1>29. CASE NoMemory
  BY <1>29 DEF NoMemory, Leave, Goto, ForgetLocals, Outside, Trouble
<1>30. CASE Unreadable
  BY <1>30 DEF Unreadable, Reached, Goto, Outside, Disturb, Trouble
<1>31. CASE PruneFallsShort
  BY <1>31 DEF PruneFallsShort, Goto, Outside, Trouble
<1>32. CASE Reboot
  BY <1>32 DEF Reboot, Progress, JobsHold, Behind
<1>33. CASE \E p \in Podcasts : Publish(p)
  BY <1>33 DEF Publish
<1>34. CASE \E p \in Podcasts : Withdraw(p)
  BY <1>34 DEF Withdraw, Trouble
<1>35. CASE UNCHANGED vars
  BY <1>35 DEF vars
<1> QED
  BY <1>1, <1>2, <1>3, <1>4, <1>5, <1>6, <1>7, <1>8, <1>9, <1>10, <1>11,
     <1>12, <1>13, <1>14, <1>15, <1>16, <1>17, <1>18, <1>19, <1>20, <1>21,
     <1>22, <1>23, <1>24, <1>25, <1>26, <1>27, <1>28, <1>29, <1>30, <1>31,
     <1>32, <1>33, <1>34, <1>35 DEF Next, LvglTask, Worker

(* Wherever writes failed and power was lost, a cursor found in the flash  *)
(* is not past an episode that the job still owes (Disturb aside).         *)
THEOREM FlashNeverAhead == Spec => []FlashBehind
<1>1. ASSUME Types, Progress PROVE FlashBehind
  <2> SUFFICES ASSUME saved.id = s_dljob.id, NEW p \in Podcasts, NEW n \in Passed(saved, p),
                      <<p, n>> \in due \cap Owed(saved)
               PROVE  <<p, n>> \in tried
    BY DEF FlashBehind
  <2>1. ~disturbed /\ JobsHold
    BY <1>1 DEF Progress
  <2>2. Good(saved) /\ ~saved.downloads_done
    BY <2>1 DEF JobsHold, Behind
  <2>3. InScope(saved, p) /\ n \in Kept(p)
    BY DEF Owed, InScope
  <2>4. PICK k \in 1..Window(p) : n = manifest[p][k]
    BY <2>3 DEF Kept
  <2>5. /\ Window(p) \in Nat /\ Window(p) <= Len(manifest[p]) /\ Len(manifest[p]) \in Nat
        /\ k \in 1..Len(manifest[p])
    BY <1>1, <2>4, Windows DEF Types
  <2>6. CASE p < saved.cur_pod_id
    <3>1. Clear(p, Window(p))
      BY <2>2, <2>3, <2>6 DEF Good
    <3> QED
      BY <2>4, <2>5, <3>1 DEF Clear
  <2>7. CASE ~(p < saved.cur_pod_id)
    <3>1. /\ p = saved.cur_pod_id
          /\ n \in {manifest[p][j] : j \in (1..saved.cur_ep_idx) \cap (1..Len(manifest[p]))}
      BY <2>2, <2>7 DEF Passed
    <3>2. PICK j \in (1..saved.cur_ep_idx) \cap (1..Len(manifest[p])) : n = manifest[p][j]
      BY <3>1
    <3>3. j = k
      BY <1>1, <2>4, <2>5, <3>2, ListFacts DEF Types, Library
    <3>4. Clear(p, saved.cur_ep_idx)
      BY <2>2, <2>3, <3>1 DEF Good
    <3>5. k <= saved.cur_ep_idx
      BY <1>1, <3>2, <3>3, JobFacts
    <3> QED
      BY <2>4, <3>4, <3>5 DEF Clear
  <2> QED
    BY <2>6, <2>7
<1> QED
  BY <1>1, Progresses, PTL

(* A job that calls its downloads done has dealt with all that it owed and *)
(* still has in its windows, whatever interrupted it (Disturb aside).      *)
THEOREM NoEpisodeSkipped == Spec => NothingSkipped
<1>1. ASSUME Types, Ids, Progress, [Next]_vars, s_dljob'.id = s_dljob.id,
             s_dljob'.downloads_done, ~s_dljob.downloads_done
      PROVE  due \cap Owed(s_dljob) \subseteq tried
  <2>1. DownloadsDone \/ disturbed
    BY <1>1, OnlyDone
  <2>2. CASE disturbed
    BY <1>1, <2>2 DEF Progress
  <2>3. CASE DownloadsDone /\ ~disturbed
    <3>1. pc = "podcast" /\ i \notin Podcasts /\ JobsHold /\ WorkerHolds
      BY <1>1, <2>3 DEF DownloadsDone, Goto, Progress
    <3>2. i = NumPodcasts + 1 /\ NumPodcasts \in Nat
      BY <1>1, <3>1, DownloadJobAssumption DEF Types, Places, Podcasts
    <3>3. \A p \in Podcasts : job_in_scope(p) => Clear(p, Window(p))
      BY <3>1, <3>2 DEF WorkerHolds, Podcasts
    <3> SUFFICES ASSUME NEW p \in Podcasts, job_in_scope(p), NEW n \in Kept(p), <<p, n>> \in due
                 PROVE  <<p, n>> \in tried
      BY DEF Owed, job_in_scope
    <3>4. PICK k \in 1..Window(p) : n = manifest[p][k]
      BY DEF Kept
    <3>5. k <= Window(p)
      BY <1>1, <3>4, Windows DEF Types
    <3> QED
      BY <3>3, <3>4, <3>5 DEF Clear
  <2> QED
    BY <2>1, <2>2, <2>3 DEF Progress
<1>2. Types /\ Ids /\ Progress /\ [Next]_vars =>
        [s_dljob'.id = s_dljob.id /\ s_dljob'.downloads_done /\ ~s_dljob.downloads_done
          => due \cap Owed(s_dljob) \subseteq tried]_vars
  BY <1>1
<1> QED
  BY <1>2, Progresses, PTL DEF Spec, NothingSkipped
===============================================================================
