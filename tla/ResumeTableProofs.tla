--------------------------- MODULE ResumeTableProofs ----------------------------
(***************************************************************************)
(* Proofs about ResumeTable, for any episodes, positions and capacity: its *)
(* types, that no two entries share an episode or an age, that a boot      *)
(* finds the last save, and that the whole implements LruPositions. The    *)
(* eviction takes "the" oldest entry and a boot "the" newest age; that     *)
(* both exist is the least-number principle.                               *)
(***************************************************************************)
EXTENDS ResumeTable, TLAPS, WellFoundedInduction, FiniteSetTheorems, FunctionTheorems

(* A whole table: no episode and no age twice, and no age above the bound. *)
Good(t) ==
  /\ t \in Seq(Entry) /\ Len(t) <= Cap
  /\ Unique(t)
  /\ \A i \in DOMAIN t : t[i].updated_at <= MaxSeq

TableInv ==
  /\ Good(s_entries)
  /\ s_seq \in 0..MaxSeq
  /\ \A i \in DOMAIN s_entries : s_entries[i].updated_at <= s_seq
  /\ sd \notin NoTable => Good(sd)
  /\ lfs \notin NoTable => Good(lfs)
  /\ Good(saved)
  /\ pc \in {"off", "idle", "card", "removed", "flash"}
  /\ home \in {"card", "flash", "nowhere"}

(* Where the last save is, a boot looks.                                   *)
HomeInv ==
  /\ home = "flash" => sd = Missing /\ lfs # Missing /\ lfs = saved
  /\ home = "card" => sd # Missing /\ sd = saved

-----------------------------------------------------------------------------
(* Helpers                                                                  *)

(* Every set of naturals has a least member.                               *)
LEMMA LeastNat ==
  ASSUME NEW T, T \subseteq Nat, T # {} PROVE \E m \in T : \A n \in T : m <= n
<1> DEFINE R == OpToRel(<, Nat)
<1>1. \A x, y \in Nat : x < y => <<x, y>> \in R
  BY DEF OpToRel
<1>2. IsWellFoundedOn(R, Nat)
  BY NatLessThanWellFounded
<1> HIDE DEF R
<1>3. \E m \in T : \A n \in T : <<n, m>> \notin R
  BY <1>2, WFMin
<1>4. \E m \in T : \A n \in T : ~(n < m)
  BY <1>1, <1>3, Zenon
<1>5. \A m, n \in T : ~(n < m) => m <= n
  OBVIOUS
<1> QED
  BY <1>4, <1>5, Zenon

(* What Good says of the entries.                                          *)
LEMMA GoodEntries ==
  ASSUME NEW t, Good(t)
  PROVE  /\ DOMAIN t = 1..Len(t) /\ Len(t) \in Nat /\ Len(t) <= Cap
         /\ \A i \in DOMAIN t : t[i] \in Entry /\ t[i].updated_at \in Nat
                                 /\ t[i].updated_at <= MaxSeq
<1>1. t \in Seq(Entry) /\ Len(t) <= Cap
  BY DEF Good
<1>2. \A i \in DOMAIN t : t[i] \in Entry
  BY <1>1
<1>3. \A e \in Entry : e.updated_at \in Nat
  BY DEF Entry
<1>4. \A i \in DOMAIN t : t[i].updated_at <= MaxSeq
  BY Zenon DEF Good
<1> QED
  BY <1>1, <1>2, <1>3, <1>4

LEMMA TablesAreNot == \A t : Good(t) => t \notin NoTable /\ t # Missing
BY ResumeTableAssumption DEF Good, Entry, NoTable

LEMMA EmptyIsGood == Good(<<>>)
BY ResumeTableAssumption DEF Good, Unique

(* Newest is an age of the table that no other exceeds.                    *)
LEMMA NewestIsBound ==
  ASSUME NEW t, Good(t)
  PROVE  /\ Newest(t) \in 0..MaxSeq
         /\ \A i \in DOMAIN t : t[i].updated_at <= Newest(t)
<1>0. /\ \A i \in DOMAIN t : t[i].updated_at \in Nat /\ t[i].updated_at <= MaxSeq
      /\ MaxSeq \in Nat /\ DOMAIN t = 1..Len(t) /\ Len(t) \in Nat
  BY ResumeTableAssumption, GoodEntries
<1>1. CASE t = <<>>
  BY <1>0, <1>1 DEF Newest
<1>2. CASE t # <<>>
  <2> DEFINE Ages == {t[i].updated_at : i \in DOMAIN t}
             Bounds == {n \in Nat : \A i \in DOMAIN t : t[i].updated_at <= n}
  <2>1. 1 \in DOMAIN t
    BY <1>0, <1>2 DEF Good
  <2>2. PICK m \in Bounds : \A n \in Bounds : m <= n
    <3>1. MaxSeq \in Bounds /\ Bounds \subseteq Nat
      BY <1>0
    <3> QED
      BY <3>1, LeastNat
  <2>3. m \in Ages
    <3> SUFFICES ASSUME m \notin Ages PROVE FALSE
      OBVIOUS
    <3>1. \A i \in DOMAIN t : t[i].updated_at < m
      BY <1>0, <2>2
    <3>2. m - 1 \in Nat /\ \A i \in DOMAIN t : t[i].updated_at <= m - 1
      BY <1>0, <2>1, <2>2, <3>1
    <3> QED
      BY <2>2, <3>2
  <2>4. \E n \in Ages : \A i \in DOMAIN t : t[i].updated_at <= n
    BY <2>2, <2>3
  <2>5. Newest(t) \in Ages /\ \A i \in DOMAIN t : t[i].updated_at <= Newest(t)
    BY <1>2, <2>4 DEF Newest
  <2> QED
    BY <1>0, <2>5
<1> QED
  BY <1>1, <1>2

(* A table that is not empty has an oldest entry.                          *)
LEMMA OldestExists ==
  ASSUME Good(s_entries), Len(s_entries) > 0
  PROVE  /\ Oldest \in DOMAIN s_entries
         /\ \A j \in DOMAIN s_entries : s_entries[Oldest].updated_at <= s_entries[j].updated_at
<1>0. /\ DOMAIN s_entries = 1..Len(s_entries) /\ Len(s_entries) \in Nat
      /\ \A i \in DOMAIN s_entries : s_entries[i].updated_at \in Nat
  BY GoodEntries
<1> DEFINE Ages == {s_entries[i].updated_at : i \in DOMAIN s_entries}
<1>1. Ages \subseteq Nat /\ s_entries[1].updated_at \in Ages
  BY <1>0
<1>2. PICK m \in Ages : \A n \in Ages : m <= n
  BY <1>1, LeastNat
<1>3. \E i \in DOMAIN s_entries :
        \A j \in DOMAIN s_entries : s_entries[i].updated_at <= s_entries[j].updated_at
  BY <1>2
<1> QED
  BY <1>3 DEF Oldest

(* The slot of an episode is its own, or the next, or that of the oldest.  *)
LEMMA SlotIsPlace ==
  ASSUME Good(s_entries), NEW k
  PROVE  /\ Slot(k) \in 1..(Len(s_entries) + 1) /\ Slot(k) <= Cap
         /\ \A i \in DOMAIN s_entries : i # Slot(k) => s_entries[i].key # k
<1>0. /\ DOMAIN s_entries = 1..Len(s_entries) /\ Len(s_entries) \in Nat
      /\ Len(s_entries) <= Cap /\ Cap \in Nat \ {0}
      /\ \A i \in DOMAIN s_entries : s_entries[i].updated_at \in Nat
  BY ResumeTableAssumption, GoodEntries
<1>1. CASE Found(k) # {}
  <2>1. Slot(k) \in Found(k)
    BY <1>1 DEF Slot
  <2> QED
    BY <1>0, <2>1 DEF Found, Good, Unique
<1>2. CASE Found(k) = {} /\ Len(s_entries) < Cap
  BY <1>0, <1>2 DEF Slot, Found
<1>3. CASE Found(k) = {} /\ ~(Len(s_entries) < Cap)
  <2>1. Oldest \in DOMAIN s_entries
    BY <1>0, <1>3, OldestExists
  <2> QED
    BY <1>0, <1>3, <2>1 DEF Slot, Found
<1> QED
  BY <1>1, <1>2, <1>3

-----------------------------------------------------------------------------
(* A position is stored, an episode is forgotten                            *)

LEMMA SetIsGood ==
  ASSUME TableInv, NEW k \in Keys, NEW p \in Positions, podcast_resume_set(k, p)
  PROVE  /\ Good(s_entries') /\ s_seq' \in 0..MaxSeq
         /\ \A i \in DOMAIN s_entries' : s_entries'[i].updated_at <= s_seq'
<1> DEFINE new == [key |-> k, pos |-> p, updated_at |-> s_seq + 1]
           n   == IF Slot(k) = Len(s_entries) + 1 THEN Len(s_entries) + 1 ELSE Len(s_entries)
<1>0. /\ Good(s_entries) /\ s_seq \in 0..MaxSeq /\ s_seq + 1 <= MaxSeq
      /\ MaxSeq \in Nat /\ s_seq' = s_seq + 1
      /\ \A i \in DOMAIN s_entries : s_entries[i].updated_at <= s_seq
  BY ResumeTableAssumption DEF TableInv, podcast_resume_set
<1>1. /\ DOMAIN s_entries = 1..Len(s_entries) /\ Len(s_entries) \in Nat
      /\ Len(s_entries) <= Cap /\ Cap \in Nat
      /\ \A i \in DOMAIN s_entries : s_entries[i] \in Entry /\ s_entries[i].updated_at \in Nat
  BY <1>0, GoodEntries, ResumeTableAssumption
<1>2. /\ Slot(k) \in 1..(Len(s_entries) + 1) /\ Slot(k) <= Cap
      /\ \A i \in DOMAIN s_entries : i # Slot(k) => s_entries[i].key # k
  BY <1>0, SlotIsPlace
<1>3. new \in Entry /\ new.key = k /\ new.updated_at = s_seq + 1
  BY <1>0 DEF Entry
<1> HIDE DEF new
<1>4. /\ s_entries' = [i \in DOMAIN s_entries \cup {Slot(k)} |->
                         IF i = Slot(k) THEN new ELSE s_entries[i]]
  BY DEF podcast_resume_set, new
<1>5. DOMAIN s_entries \cup {Slot(k)} = 1..n /\ n \in Nat /\ n <= Cap
  BY <1>1, <1>2
<1>6. /\ DOMAIN s_entries' = 1..n
      /\ \A i \in 1..n : s_entries'[i] = IF i = Slot(k) THEN new ELSE s_entries[i]
      /\ \A i \in 1..n : i # Slot(k) => i \in DOMAIN s_entries
  BY <1>4, <1>5
<1>7. s_entries' \in [1..n -> Entry]
  BY <1>1, <1>3, <1>4, <1>5
<1>8. s_entries' \in Seq(Entry) /\ Len(s_entries') <= Cap
  BY <1>5, <1>7
<1>9. \A i \in DOMAIN s_entries' : s_entries'[i].updated_at <= s_seq'
  BY <1>0, <1>1, <1>3, <1>6
<1>10. Unique(s_entries')
  <2> SUFFICES ASSUME NEW i \in 1..n, NEW j \in 1..n, i # j
               PROVE  /\ s_entries'[i].key # s_entries'[j].key
                      /\ s_entries'[i].updated_at # s_entries'[j].updated_at
    BY <1>6 DEF Unique
  <2>1. CASE i # Slot(k) /\ j # Slot(k)
    BY <1>0, <1>6, <2>1 DEF Good, Unique
  <2>2. CASE i = Slot(k) \/ j = Slot(k)
    BY <1>0, <1>1, <1>2, <1>3, <1>6, <2>2
  <2> QED
    BY <2>1, <2>2
<1>11. \A i \in DOMAIN s_entries' : s_entries'[i].updated_at <= MaxSeq
  BY <1>0, <1>1, <1>3, <1>6
<1> QED
  BY <1>0, <1>8, <1>9, <1>10, <1>11 DEF Good

LEMMA ClearIsGood ==
  ASSUME TableInv, NEW k \in Keys, podcast_resume_clear(k)
  PROVE  /\ Good(s_entries')
         /\ \A i \in DOMAIN s_entries' : s_entries'[i].updated_at <= s_seq
<1>0. Good(s_entries) /\ \A i \in DOMAIN s_entries : s_entries[i].updated_at <= s_seq
  BY DEF TableInv
<1>1. /\ DOMAIN s_entries = 1..Len(s_entries) /\ Len(s_entries) \in Nat
      /\ Len(s_entries) <= Cap /\ Cap \in Nat /\ MaxSeq \in Nat
      /\ \A i \in DOMAIN s_entries :
            /\ s_entries[i] \in Entry /\ s_entries[i].updated_at \in Nat
            /\ s_entries[i].updated_at <= MaxSeq
  BY <1>0, GoodEntries, ResumeTableAssumption
<1>2. PICK i \in Found(k) :
        s_entries' = [j \in 1..(Len(s_entries) - 1) |-> s_entries[IF j < i THEN j ELSE j + 1]]
  BY DEF podcast_resume_clear
<1> DEFINE n == Len(s_entries) - 1
           from(j) == IF j < i THEN j ELSE j + 1
<1>3. i \in 1..Len(s_entries) /\ n \in Nat /\ n <= Cap
  BY <1>1 DEF Found
<1>4. \A j \in 1..n : from(j) \in DOMAIN s_entries
  BY <1>1, <1>3
<1>5. \A j, l \in 1..n : j # l => from(j) # from(l)
  BY <1>3
<1>6. DOMAIN s_entries' = 1..n /\ \A j \in 1..n : s_entries'[j] = s_entries[from(j)]
  BY <1>2
<1> HIDE DEF from, n
<1>7. s_entries' \in [1..n -> Entry]
  <2>1. s_entries' = [j \in 1..n |-> s_entries[from(j)]]
    BY <1>2 DEF from, n
  <2> QED
    BY <1>1, <1>4, <2>1
<1>8. s_entries' \in Seq(Entry) /\ Len(s_entries') <= Cap
  BY <1>3, <1>7
<1>9. Unique(s_entries')
  BY <1>0, <1>4, <1>5, <1>6 DEF Unique, Good
<1>10. \A j \in DOMAIN s_entries' : /\ s_entries'[j].updated_at <= MaxSeq
                                      /\ s_entries'[j].updated_at <= s_seq
  BY <1>0, <1>1, <1>4, <1>6
<1> QED
  BY <1>8, <1>9, <1>10 DEF Good

-----------------------------------------------------------------------------
(* The invariants                                                           *)

LEMMA TableInit == Init => TableInv /\ HomeInv
<1> SUFFICES ASSUME Init PROVE TableInv /\ HomeInv
  OBVIOUS
<1>1. sd \in NoTable /\ lfs \in NoTable
  BY ResumeTableAssumption DEF Init
<1> QED
  BY <1>1, EmptyIsGood, ResumeTableAssumption DEF Init, TableInv, HomeInv

LEMMA TableStep == TableInv /\ [Next]_vars => TableInv'
<1> SUFFICES ASSUME TableInv, [Next]_vars PROVE TableInv'
  OBVIOUS
<1> USE DEF memory, files
<1>1. ASSUME NEW readable \in BOOLEAN, podcast_resume_init(readable) PROVE TableInv'
  <2>1. Good(Loaded(readable))
    BY EmptyIsGood DEF Loaded, TableInv
  <2>2. s_entries' = Loaded(readable) /\ s_seq' = Newest(s_entries')
    BY <1>1 DEF podcast_resume_init
  <2>3. /\ s_seq' \in 0..MaxSeq
        /\ \A i \in DOMAIN s_entries' : s_entries'[i].updated_at <= s_seq'
    BY <2>1, <2>2, NewestIsBound
  <2>4. UNCHANGED <<sd, lfs, saved, home>> /\ pc' = "idle"
    BY <1>1 DEF podcast_resume_init
  <2> QED
    BY <2>1, <2>2, <2>3, <2>4 DEF TableInv
<1>10. CASE InitFails
  BY <1>10, EmptyIsGood, ResumeTableAssumption DEF InitFails, TableInv
<1>2. ASSUME NEW k \in Keys, NEW p \in Positions, podcast_resume_set(k, p) PROVE TableInv'
  <2>1. UNCHANGED <<sd, lfs, saved, home>> /\ pc' = "card"
    BY <1>2 DEF podcast_resume_set
  <2> QED
    BY <1>2, <2>1, SetIsGood DEF TableInv
<1>3. ASSUME NEW k \in Keys, podcast_resume_clear(k) PROVE TableInv'
  <2>1. UNCHANGED <<s_seq, sd, lfs, saved, home>> /\ pc' = "card"
    BY <1>3 DEF podcast_resume_clear
  <2> QED
    BY <1>3, <2>1, ClearIsGood DEF TableInv
<1>4. CASE RemoveOld
  BY <1>4, EmptyIsGood DEF RemoveOld, TableInv, NoTable
<1>5. CASE RenameOnCard
  BY <1>5 DEF RenameOnCard, TableInv
<1>6. CASE CardFails \/ FlashFails
  BY <1>6 DEF CardFails, FlashFails, TableInv
<1>7. CASE SaveToFlash
  BY <1>7, EmptyIsGood DEF SaveToFlash, TableInv
<1>8. CASE PowerLost
  BY <1>8, EmptyIsGood, ResumeTableAssumption DEF PowerLost, TableInv
<1>9. CASE UNCHANGED vars
  BY <1>9 DEF vars, TableInv
<1> QED
  BY <1>1, <1>2, <1>3, <1>4, <1>5, <1>6, <1>7, <1>8, <1>9, <1>10 DEF Next

LEMMA HomeStep == TableInv /\ HomeInv /\ [Next]_vars => HomeInv'
<1> SUFFICES ASSUME TableInv, HomeInv, [Next]_vars PROVE HomeInv'
  OBVIOUS
<1> USE DEF memory, files, HomeInv
<1>0. s_entries # Missing
  BY TablesAreNot DEF TableInv
<1>1. CASE \/ \E readable \in BOOLEAN : podcast_resume_init(readable)
           \/ \E k \in Keys : podcast_resume_clear(k)
           \/ \E k \in Keys, p \in Positions : podcast_resume_set(k, p)
  BY <1>1 DEF podcast_resume_init, podcast_resume_clear, podcast_resume_set
<1>2. CASE RemoveOld \/ RenameOnCard
  BY <1>0, <1>2 DEF RemoveOld, RenameOnCard
<1>3. CASE SaveToFlash
  BY <1>0, <1>3 DEF SaveToFlash
<1>4. CASE CardFails \/ FlashFails \/ PowerLost \/ InitFails \/ UNCHANGED vars
  BY <1>4 DEF InitFails, CardFails, FlashFails, PowerLost, vars
<1> QED
  BY <1>1, <1>2, <1>3, <1>4 DEF Next

(* The table and both files always hold at most Cap entries of the right   *)
(* shape.                                                                  *)
THEOREM TypeCorrect == Spec => []TypeOK
<1>1. TableInv => TypeOK
  BY ResumeTableAssumption DEF TableInv, Good, TypeOK, Table
<1> QED
  BY TableInit, TableStep, <1>1, PTL DEF Spec

(* However saves, losses of power and changes of medium interleave, no     *)
(* episode has two entries and no two entries share an age, so that the    *)
(* eviction takes the single oldest one.                                   *)
THEOREM EntriesStayUnique == Spec => []EntriesUnique
<1>1. TableInv => EntriesUnique
  BY DEF TableInv, Good, EntriesUnique
<1> QED
  BY TableInit, TableStep, <1>1, PTL DEF Spec

(* A boot that can read its file finds the table of the last save that     *)
(* succeeded, if that save is where the boot looks first: neither removed  *)
(* before a rename that did not come, nor hidden by an older file on a     *)
(* card that refused it.                                                   *)
THEOREM BootFinds == Spec => BootFindsLastSave
<1> DEFINE Finds == \A readable \in BOOLEAN :
       podcast_resume_init(readable) /\ home \in {"flash"} \cup {h \in {"card"} : readable}
         => s_entries' = saved
<1>1. TableInv /\ HomeInv => Finds
  BY TablesAreNot DEF TableInv, HomeInv, podcast_resume_init, Loaded
<1> QED
  BY TableInit, TableStep, HomeStep, <1>1, PTL DEF Spec, BootFindsLastSave

-----------------------------------------------------------------------------
(* The refinement of LruPositions                                          *)

(* A whole table has as many entries as places.                            *)
LEMMA EntriesCount ==
  ASSUME NEW t, Good(t)
  PROVE  IsFiniteSet(Entries(t)) /\ Cardinality(Entries(t)) = Len(t)
<1>1. t \in Seq(Entry) /\ DOMAIN t = 1..Len(t) /\ Len(t) \in Nat
  BY GoodEntries DEF Good
<1>2. \A i, j \in 1..Len(t) : i # j => t[i] # t[j]
  BY <1>1, Zenon DEF Good, Unique
<1>3. t \in [1..Len(t) -> Entries(t)]
  BY <1>1 DEF Entries
<1>4. \A e \in Entries(t) : \E i \in 1..Len(t) : t[i] = e
  BY <1>1, Zenon DEF Entries
<1>5. t \in Bijection(1..Len(t), Entries(t))
  BY <1>2, <1>3, <1>4, Zenon DEF Bijection, Injection, IsInjective, Surjection
<1>6. ExistsBijection(1..Len(t), Entries(t))
  BY <1>5, Zenon DEF ExistsBijection
<1>7. IsFiniteSet(1..Len(t)) /\ Cardinality(1..Len(t)) = Len(t)
  BY <1>1, FS_Interval
<1> QED
  BY <1>6, <1>7, FS_Bijection

(* The entries of other episodes are those at other places than the one    *)
(* where the episode is, if it is anywhere.                                *)
LEMMA OthersAre ==
  ASSUME Good(s_entries), NEW k
  PROVE  /\ Found(k) = {} => Lru!Others(k) = Entries(s_entries)
         /\ \A i \in Found(k) :
               /\ Lru!Others(k) = {s_entries[j] : j \in DOMAIN s_entries \ {i}}
               /\ Lru!Others(k) = Entries(s_entries) \ {s_entries[i]}
               /\ s_entries[i] \in Entries(s_entries)
<1>1. \A i \in Found(k) : \A j \in DOMAIN s_entries :
         (s_entries[j].key # k <=> j # i) /\ (s_entries[j] # s_entries[i] <=> j # i)
  BY Zenon DEF Found, Good, Unique
<1>2. \A i \in Found(k) : i \in DOMAIN s_entries
  BY DEF Found
<1>3. Found(k) = {} => \A j \in DOMAIN s_entries : s_entries[j].key # k
  BY DEF Found
<1> QED
  BY <1>1, <1>2, <1>3 DEF Lru!Others, Entries

(* The instance counts as FiniteSets does.                                 *)
LEMMA SameCardinality == \A S : Lru!Cardinality(S) = Cardinality(S)
BY Zenon DEF Lru!Cardinality, Cardinality

(* The slot of podcast_resume_set leaves exactly the entries that stay.    *)
LEMMA SlotLeaves ==
  ASSUME Good(s_entries), NEW k
  PROVE  Lru!Staying(k) = {s_entries[i] : i \in DOMAIN s_entries \ {Slot(k)}}
<1>0. /\ DOMAIN s_entries = 1..Len(s_entries) /\ Len(s_entries) \in Nat
      /\ Len(s_entries) <= Cap /\ Cap \in Nat \ {0}
      /\ \A i \in DOMAIN s_entries : s_entries[i].updated_at \in Nat
  BY ResumeTableAssumption, GoodEntries
<1>1. IsFiniteSet(Entries(s_entries)) /\ Cardinality(Entries(s_entries)) = Len(s_entries)
  BY EntriesCount
<1> USE SameCardinality
<1>2. CASE Found(k) # {}
  <2>1. Slot(k) \in Found(k)
    BY <1>2 DEF Slot
  <2>2. /\ Lru!Others(k) = {s_entries[j] : j \in DOMAIN s_entries \ {Slot(k)}}
        /\ Lru!Others(k) = Entries(s_entries) \ {s_entries[Slot(k)]}
        /\ s_entries[Slot(k)] \in Entries(s_entries)
    BY <2>1, OthersAre
  <2>3. Cardinality(Lru!Others(k)) = Len(s_entries) - 1
    BY <1>1, <2>2, FS_RemoveElement
  <2> QED
    <3>1. Lru!Cardinality(Lru!Others(k)) < Cap
      BY <1>0, <2>3
    <3> QED
      BY <2>2, <3>1, Zenon DEF Lru!Staying
<1>3. CASE Found(k) = {} /\ Len(s_entries) < Cap
  <2>1. Lru!Others(k) = Entries(s_entries)
    BY <1>3, OthersAre
  <2>2. Lru!Staying(k) = Entries(s_entries)
    BY <1>1, <1>3, <2>1 DEF Lru!Staying
  <2>3. DOMAIN s_entries \ {Slot(k)} = DOMAIN s_entries
    BY <1>0, <1>3 DEF Slot
  <2> QED
    BY <2>2, <2>3, Zenon DEF Entries
<1>4. CASE Found(k) = {} /\ ~(Len(s_entries) < Cap)
  <2>1. Lru!Others(k) = Entries(s_entries)
    BY <1>4, OthersAre
  <2>2. Lru!Staying(k) = {e \in Entries(s_entries) :
                            \E o \in Entries(s_entries) : o.updated_at < e.updated_at}
    BY <1>1, <1>4, <2>1 DEF Lru!Staying
  <2>3. Slot(k) = Oldest
    BY <1>4 DEF Slot
  <2>4. /\ Slot(k) \in DOMAIN s_entries
        /\ \A j \in DOMAIN s_entries : s_entries[Slot(k)].updated_at <= s_entries[j].updated_at
    BY <1>0, <1>4, <2>3, OldestExists
  <2>5. \A j \in DOMAIN s_entries : j # Slot(k) =>
           s_entries[Slot(k)].updated_at < s_entries[j].updated_at
    <3>1. \A j \in DOMAIN s_entries : j # Slot(k) =>
             s_entries[Slot(k)].updated_at # s_entries[j].updated_at
      BY <2>4, Zenon DEF Good, Unique
    <3> QED
      BY <1>0, <2>4, <3>1
  <2>6. \A j \in DOMAIN s_entries :
           (\E o \in Entries(s_entries) : o.updated_at < s_entries[j].updated_at) <=> j # Slot(k)
    BY <1>0, <2>4, <2>5 DEF Entries
  <2> QED
    BY <2>2, <2>6, Zenon DEF Entries
<1> QED
  BY <1>2, <1>3, <1>4

LEMMA SetRemembers ==
  ASSUME TableInv, NEW k \in Keys, NEW p \in Positions, podcast_resume_set(k, p)
  PROVE  Lru!Remember(k, p)
<1> DEFINE new == [key |-> k, pos |-> p, updated_at |-> s_seq + 1]
<1>0. /\ Good(s_entries) /\ s_seq + 1 \in 1..MaxSeq /\ s_seq \in Nat
      /\ \A i \in DOMAIN s_entries : s_entries[i].updated_at <= s_seq
  BY ResumeTableAssumption DEF TableInv, podcast_resume_set
<1>1. \A e \in Entries(s_entries) : e.updated_at < s_seq + 1
  <2>1. \A i \in DOMAIN s_entries : s_entries[i].updated_at \in Nat
    BY <1>0, GoodEntries
  <2> QED
    BY <1>0, <2>1 DEF Entries
<1> HIDE DEF new
<1>2. s_entries' = [i \in DOMAIN s_entries \cup {Slot(k)} |->
                      IF i = Slot(k) THEN new ELSE s_entries[i]]
  BY DEF podcast_resume_set, new
<1>3. Entries(s_entries') = {s_entries[i] : i \in DOMAIN s_entries \ {Slot(k)}} \cup {new}
  <2>1. DOMAIN s_entries' = DOMAIN s_entries \cup {Slot(k)}
    BY <1>2
  <2>2. s_entries'[Slot(k)] = new
    BY <1>2
  <2>3. \A i \in DOMAIN s_entries \ {Slot(k)} : s_entries'[i] = s_entries[i]
    BY <1>2
  <2> HIDE DEF Entries
  <2>4. ASSUME NEW e \in Entries(s_entries')
        PROVE  e \in {s_entries[i] : i \in DOMAIN s_entries \ {Slot(k)}} \cup {new}
    BY <2>1, <2>2, <2>3 DEF Entries
  <2>5. ASSUME NEW e \in {s_entries[i] : i \in DOMAIN s_entries \ {Slot(k)}} \cup {new}
        PROVE  e \in Entries(s_entries')
    BY <2>1, <2>2, <2>3 DEF Entries
  <2> QED
    BY <2>4, <2>5
<1>4. Entries(s_entries)' = Lru!Staying(k) \cup {new}
  BY <1>0, <1>3, SlotLeaves DEF Entries
<1>5. {Entries(f) : f \in {sd, lfs} \ NoTable}' = {Entries(f) : f \in {sd, lfs} \ NoTable}
  BY DEF podcast_resume_set, files, Entries
<1> QED
  BY <1>0, <1>1, <1>4, <1>5 DEF Lru!Remember, new

LEMMA ClearForgets ==
  ASSUME TableInv, NEW k \in Keys, podcast_resume_clear(k)
  PROVE  Lru!Forget(k)
<1>1. /\ Good(s_entries) /\ DOMAIN s_entries = 1..Len(s_entries) /\ Len(s_entries) \in Nat
  BY GoodEntries DEF TableInv
<1>2. PICK i \in Found(k) :
        s_entries' = [j \in 1..(Len(s_entries) - 1) |-> s_entries[IF j < i THEN j ELSE j + 1]]
  BY DEF podcast_resume_clear
<1> DEFINE n == Len(s_entries) - 1
           from(j) == IF j < i THEN j ELSE j + 1
<1>3. i \in 1..Len(s_entries)
  BY <1>1 DEF Found
<1>4. \A j \in 1..n : from(j) \in DOMAIN s_entries \ {i}
  BY <1>1, <1>3
<1>5. \A l \in DOMAIN s_entries \ {i} : \E j \in 1..n : from(j) = l
  <2> SUFFICES ASSUME NEW l \in DOMAIN s_entries \ {i} PROVE \E j \in 1..n : from(j) = l
    OBVIOUS
  <2>1. CASE l < i
    <3>1. l \in 1..n /\ from(l) = l
      BY <1>1, <1>3, <2>1
    <3> QED
      BY <3>1
  <2>2. CASE ~(l < i)
    <3>1. l - 1 \in 1..n /\ from(l - 1) = l
      BY <1>1, <1>3, <2>2
    <3> QED
      BY <3>1
  <2> QED
    BY <2>1, <2>2
<1>6. DOMAIN s_entries' = 1..n /\ \A j \in 1..n : s_entries'[j] = s_entries[from(j)]
  BY <1>2
<1> HIDE DEF from, n
<1>7. Entries(s_entries') = {s_entries[l] : l \in DOMAIN s_entries \ {i}}
  <2>1. ASSUME NEW j \in 1..n PROVE s_entries'[j] \in {s_entries[l] : l \in DOMAIN s_entries \ {i}}
    BY <1>4, <1>6
  <2>2. ASSUME NEW l \in DOMAIN s_entries \ {i} PROVE \E j \in 1..n : s_entries'[j] = s_entries[l]
    BY <1>5, <1>6, Zenon
  <2> QED
    BY <1>6, <2>1, <2>2 DEF Entries
<1>8. Entries(s_entries)' = Lru!Others(k)
  BY <1>1, <1>7, OthersAre DEF Entries
<1>9. {Entries(f) : f \in {sd, lfs} \ NoTable}' = {Entries(f) : f \in {sd, lfs} \ NoTable}
  BY DEF podcast_resume_clear, files, Entries
<1> QED
  BY <1>8, <1>9 DEF Lru!Forget

(* The table with its files is a least-recently-used table that a restart  *)
(* keeps whole or not at all: the slots, the eviction, the shift of a      *)
(* forgotten entry, the two files and their torn saves do nothing that     *)
(* LruPositions does not allow.                                            *)
THEOREM TableIsLru == Spec => ImplementsLru
<1> DEFINE remembered == Entries(s_entries)
           stored     == {Entries(f) : f \in {sd, lfs} \ NoTable}
<1>1. Init => Lru!Init
  BY ResumeTableAssumption DEF Init, Lru!Init, Entries
<1>2. TableInv /\ [Next]_vars => [Lru!Next]_<<remembered, stored>>
  <2> SUFFICES ASSUME TableInv, [Next]_vars PROVE [Lru!Next]_<<remembered, stored>>
    OBVIOUS
  <2> USE DEF memory, files
  <2>0. s_entries # Missing
    BY TablesAreNot DEF TableInv
  <2>1. ASSUME NEW readable \in BOOLEAN, podcast_resume_init(readable) PROVE Lru!Restart
    BY <2>1 DEF podcast_resume_init, Loaded, Lru!Restart, Entries
  <2>9. CASE InitFails
    BY <2>9 DEF InitFails, Lru!Restart, Lru!Next, Entries
  <2>2. ASSUME NEW k \in Keys, NEW p \in Positions, podcast_resume_set(k, p) PROVE Lru!Next
    BY <2>2, SetRemembers DEF Lru!Next
  <2>3. ASSUME NEW k \in Keys, podcast_resume_clear(k) PROVE Lru!Next
    BY <2>3, ClearForgets DEF Lru!Next
  <2>4. CASE RemoveOld
    BY <2>4 DEF RemoveOld, Lru!Persist, Lru!Next, Entries, NoTable
  <2>5. CASE RenameOnCard
    BY <2>5 DEF RenameOnCard, Lru!Persist, Lru!Next, Entries
  <2>6. CASE SaveToFlash
    BY <2>6 DEF SaveToFlash, Lru!Persist, Lru!Next, Entries
  <2>7. CASE PowerLost
    BY <2>7 DEF PowerLost, Lru!Restart, Lru!Next, Entries
  <2>8. CASE CardFails \/ FlashFails \/ UNCHANGED vars
    BY <2>8 DEF CardFails, FlashFails, vars, Entries
  <2> QED
    BY <2>1, <2>2, <2>3, <2>4, <2>5, <2>6, <2>7, <2>8, <2>9 DEF Next, Lru!Next
<1> QED
  BY TableInit, TableStep, <1>1, <1>2, PTL DEF Spec, ImplementsLru, Lru!Spec

=============================================================================
