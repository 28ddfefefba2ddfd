--------------------------- MODULE MCNegotiation ----------------------------
(* The instances of Negotiation that TLC checks.                           *)
EXTENDS Negotiation

CONSTANTS t1, t2, t3, t4

TwoChanges == {t1, t2}

FourChanges == {t1, t2, t3, t4}

=============================================================================
