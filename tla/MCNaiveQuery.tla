---------------------------- MODULE MCNaiveQuery ----------------------------
(* The same grammars as for the sampled structure. *)
EXTENDS NaiveQuery, MCGrammars
=============================================================================
