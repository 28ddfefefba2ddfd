------------------------------- MODULE MCTwcc --------------------------------
(* The instance of Twcc that TLC checks.                                   *)
EXTENDS Twcc

\* Never, soon after the reference time, and longer after than a small delta.
ThreeTimes == {0, 1, 6}
=============================================================================
