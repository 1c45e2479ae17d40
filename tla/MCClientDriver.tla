--------------------------- MODULE MCClientDriver ---------------------------
(* Small instances of ClientDriver for TLC. *)
EXTENDS ClientDriver

(* -2 and 4 lie outside the accepted range when MaxRepeatsPerPhase is 3 *)
MCRepeatFlags == {-2, -1, 0, 2, 4}
=============================================================================
