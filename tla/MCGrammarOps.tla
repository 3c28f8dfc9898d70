---------------------------- MODULE MCGrammarOps ----------------------------
(* The grammars of MCRenumber, asked for their statistics or their text. *)
EXTENDS GrammarOps, MCRenumber
=============================================================================
