---------------------------- MODULE MCPeerPaths ----------------------------
EXTENDS PeerPaths, TLC

\* Two paths of each protocol, TCP before UDP, then by RTT.
MCRank == "tcp1" :> 1 @@ "tcp2" :> 2 @@ "udp1" :> 3 @@ "udp2" :> 4
MCProto == "tcp1" :> "tcp" @@ "tcp2" :> "tcp" @@ "udp1" :> "udp" @@ "udp2" :> "udp"

\* The values of dpmp/protocol/constants.py:107-109 and path.py:45.
MCFloor == "tcp" :> 30 @@ "udp" :> 15
MCSafeCap == "tcp" :> 3600 @@ "udp" :> 60
MCDoubleFactor == "hot" :> 2 @@ "warm_safe" :> 3 @@ "warm_loose" :> 8
=============================================================================
