------------------------------ MODULE MCFanout ------------------------------
(* The instance of Fanout that TLC checks.                                 *)
EXTENDS Fanout, TLC

CONSTANTS p1, p2, p3, chat

ThreePeers == {p1, p2, p3}

\* Two owners bring one label, and the third peer only joins.
TwoOwners == {<<p1, chat>>, <<p2, chat>>}

\* The two do the same.
Owners == Permutations({p1, p2})

=============================================================================
