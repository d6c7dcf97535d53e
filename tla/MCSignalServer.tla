--------------------------- MODULE MCSignalServer ---------------------------
(* Two receive loops, either of which takes the messages of a device or of *)
(* a client without a device id.                                           *)
EXTENDS SignalServer, TLC
CONSTANTS room1, room2, v4, v6, i1, i2, i3, d1, h1, h2, h3

Interchangeable == Permutations(Rooms) \cup Permutations(Ids) \cup Permutations(Tables)
=============================================================================
