----------------------------- MODULE MCResumeTable ------------------------------
EXTENDS ResumeTable, TLC

(* A new device, or one whose card has a file of an older firmware.        *)
MCLeftovers == {<<Missing, Missing>>, <<OldFormat, Missing>>}

(* No definition tells one episode, or one position, from another.         *)
Alike == Permutations(Keys) \cup Permutations(Positions)
===============================================================================
