--------------------------- MODULE MCActiveMessages ---------------------------
(***************************************************************************)
(* Instances of ActiveMessages for TLC: the symmetry of the messages that   *)
(* the parent sends.                                                        *)
(***************************************************************************)
EXTENDS ActiveMessages, TLC

MessageSymmetry == Permutations(Messages \ Strangers)
=============================================================================
