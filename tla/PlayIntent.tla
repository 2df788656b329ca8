------------------------------ MODULE PlayIntent ------------------------------
(***************************************************************************)
(* What playback promises its user, without tasks, flags or sources. Plays *)
(* are numbered in the order they are asked for. A wish is withdrawn by a  *)
(* stop or by the next play. Only a standing wish starts to sound, one     *)
(* play sounds at a time, and a withdrawn play never comes back.           *)
(***************************************************************************)
EXTENDS Naturals

VARIABLES
  asked,     (* the number of the newest play *)
  wish,      (* the play the user wants now, 0 for none *)
  sounding   (* the play being decoded, 0 for none *)

vars == <<asked, wish, sounding>>

Init == asked = 0 /\ wish = 0 /\ sounding = 0

Ask ==
  /\ wish = 0
  /\ asked' \in Nat /\ asked' > asked
  /\ wish' = asked'
  /\ UNCHANGED sounding

Withdraw ==
  /\ wish # 0
  /\ wish' = 0
  /\ UNCHANGED <<asked, sounding>>

Sound ==
  /\ sounding = 0 /\ wish # 0
  /\ sounding' = wish
  /\ UNCHANGED <<asked, wish>>

Silence ==
  /\ sounding # 0
  /\ sounding' = 0
  /\ UNCHANGED <<asked, wish>>

Next == Ask \/ Withdraw \/ Sound \/ Silence

Spec == Init /\ [][Next]_vars
=============================================================================
