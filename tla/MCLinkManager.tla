--------------------------- MODULE MCLinkManager ---------------------------
EXTENDS LinkManager, TLC

CONSTANTS t1, t2, t3, s1, s2

\* TCP before UDP (proto_priority).
MCRank == "tcp" :> 0 @@ "udp" :> 1

\* Tasks and connections are interchangeable.
Interchangeable == Permutations(Tasks) \cup Permutations(Socks)
=============================================================================
