------------------------------ MODULE MCBuffer ------------------------------
(* The instances of Buffer that TLC checks.                                *)
EXTENDS Buffer

\* One cycle of the sender, and the packets sent before the first that arrived.
RocsOfOneCycle == {-1, 0}

\* Two wraps of the sequence number.
RocsOfThreeCycles == {-1, 0, 1, 2}

\* One that comes over a gap, and one at whose number the second cycle ends.
GarbledInGap  == {[roc |-> 0, sn |-> 4]}
GarbledAtWrap == {[roc |-> 2, sn |-> 0]}

=============================================================================
