---------------------------- MODULE MCSqlHelper ----------------------------
(* Instances of SqlHelper for TLC.                                            *)
EXTENDS SqlHelper, TLC

Symmetry == Permutations(Workers)
=============================================================================
