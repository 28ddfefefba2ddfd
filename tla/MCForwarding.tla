---------------------------- MODULE MCForwarding ----------------------------
(* The instances of Forwarding that TLC checks.                            *)
EXTENDS Forwarding, TLC

\* Nothing tells the subscribers apart.
Symmetry == Permutations(Subscribers)
\* A frame is two packets.  The timestamps wrap after the first frame, a frame before
\* the numbers do.
FramesOfTwo == [ext \in 12 .. 17 |-> (ext + 1) \div 2]

=============================================================================
