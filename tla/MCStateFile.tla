---------------------------- MODULE MCStateFile ----------------------------
(* A receive loop and the cleanup thread; a small and a larger registry. *)
EXTENDS StateFile, TLC

MCLength == "small" :> 1 @@ "large" :> 2
=============================================================================
