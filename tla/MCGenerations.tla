--------------------------- MODULE MCGenerations ----------------------------
(* Small instances of Generations. *)
EXTENDS Generations

MCGens == Strong \cup Weak
=============================================================================
