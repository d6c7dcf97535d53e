------------------------------- MODULE MCSync -------------------------------
(* Clocks that agree and clocks that do not, either way; old and new peers. *)
EXTENDS Sync

MCSkews == {-3, 2}
=============================================================================
