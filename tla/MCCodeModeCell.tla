--------------------------- MODULE MCCodeModeCell ---------------------------
(***************************************************************************)
(* Instances of CodeModeCell for TLC.                                       *)
(***************************************************************************)
EXTENDS CodeModeCell, TLC

CallSymmetry == Permutations(Calls \ {Initial}) \union Permutations(Killers)
=============================================================================
