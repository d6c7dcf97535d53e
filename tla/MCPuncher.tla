----------------------------- MODULE MCPuncher -----------------------------
(* A peer with none to four addresses, tried two at a time (the default).   *)
EXTENDS Puncher
=============================================================================
