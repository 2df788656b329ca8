------------------------------ MODULE LruPositions ------------------------------
(***************************************************************************)
(* What a table of resume positions promises (podcast_resume.h): the       *)
(* position last stored of each of the Cap episodes stored most recently.  *)
(* After a restart it is a whole table that storage held, or an empty one. *)
(***************************************************************************)
EXTENDS Naturals, FiniteSets

CONSTANTS
  Keys, Positions, Cap,
  Ages                  (* numbers that order what is remembered            *)

VARIABLES
  recent,   (* [key, pos, updated_at] of the remembered episodes            *)
  kept      (* the whole tables in storage                                  *)

Others(k) == {e \in recent : e.key # k}

(* What stays beside a new entry for k: all, or all but the oldest.        *)
Staying(k) == IF Cardinality(Others(k)) < Cap THEN Others(k)
              ELSE {e \in Others(k) : \E o \in Others(k) : o.updated_at < e.updated_at}

Init == recent = {} /\ kept = {}

Remember(k, p) ==
  /\ \E n \in Ages :
       /\ \A e \in recent : e.updated_at < n
       /\ recent' = Staying(k) \cup {[key |-> k, pos |-> p, updated_at |-> n]}
  /\ UNCHANGED kept

Forget(k) == recent' = Others(k) /\ UNCHANGED kept

(* Storage gains the present table or loses one; it never gains another.   *)
Persist == kept' \in SUBSET (kept \cup {recent}) /\ UNCHANGED recent

Restart == recent' \in kept \cup {{}} /\ UNCHANGED kept

Next ==
  \/ \E k \in Keys : Forget(k) \/ \E p \in Positions : Remember(k, p)
  \/ Persist
  \/ Restart

Spec == Init /\ [][Next]_<<recent, kept>>
===============================================================================
