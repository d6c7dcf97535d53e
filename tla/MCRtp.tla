------------------------------- MODULE MCRtp -------------------------------
(* Small instances of Rtp: the bulk of the traffic goes from a to b.        *)
EXTENDS Rtp, TLC

CONSTANTS a, b

\* Two-way: b answers with one chunk, whose header acknowledges a's stream
BothSend == (a :> 4) @@ (b :> 1)
=============================================================================
