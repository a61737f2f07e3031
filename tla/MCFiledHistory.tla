--------------------------- MODULE MCFiledHistory ---------------------------
(* FiledHistory for TLC: the users are interchangeable, and no property of  *)
(* the runs is a liveness property.                                        *)
EXTENDS FiledHistory, TLC

Symmetry == Permutations(User)

=============================================================================
