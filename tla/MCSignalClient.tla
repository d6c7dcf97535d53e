--------------------------- MODULE MCSignalClient ---------------------------
(* Two servers; a start and one more, a rebind or a fresh one.             *)
EXTENDS SignalClient
=============================================================================
