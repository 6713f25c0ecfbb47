---------------------------- MODULE MCSemantic ----------------------------
(* The instance of SemanticIndex for TLC.                                   *)
EXTENDS SemanticIndex, TLC

CONSTANTS p1, p2
TwoProcs == {p1, p2}
TwoKeys == {1, 2}
=============================================================================
