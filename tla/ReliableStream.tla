--------------------------- MODULE ReliableStream ---------------------------
(***************************************************************************)
(* What dpmp/link/rtp.py promises in its first line: a reliable byte       *)
(* stream in each direction between two peers.  The k-th chunk a peer      *)
(* hands to sendall() is named by its position k-1, so a stream is a       *)
(* sequence of naturals and "in order, once, nothing invented" reads       *)
(* got = <<0, 1, ..., n-1>>.                                               *)
(***************************************************************************)
EXTENDS Naturals, Sequences

CONSTANT Peers

VARIABLES sent, \* sent[p]: how many chunks p's application has handed over
          got   \* got[p]: the chunks p's side of the channel made readable

absVars == <<sent, got>>

\* The end a peer talks to.
Other(p) == CHOOSE q \in Peers : q # p

\* The first n chunks of a stream, in order.
FirstChunks(n) == [i \in 1 .. n |-> i - 1]

AbsInit == /\ sent = [p \in Peers |-> 0]
           /\ got = [p \in Peers |-> << >>]

\* sendall() accepts one more chunk.
Accept(p) == /\ sent' = [sent EXCEPT ![p] = @ + 1]
             /\ UNCHANGED got

\* One or more of the accepted chunks become readable, never out of order.
Hand(p) == /\ \E n \in Len(got[p]) + 1 .. sent[Other(p)] :
                got' = [got EXCEPT ![p] = FirstChunks(n)]
           /\ UNCHANGED sent

AbsNext == \E p \in Peers : Accept(p) \/ Hand(p)

AbsSpec == AbsInit /\ [][AbsNext]_absVars

\* With a network that delivers what is transmitted, nothing stays behind.
AbsFairSpec == AbsSpec /\ \A p \in Peers : WF_absVars(Hand(p))
=============================================================================
