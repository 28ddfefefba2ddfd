------------------------------- MODULE SeqNum -------------------------------
(***************************************************************************)
(* RTP sequence numbers (rsfu/src/buffer/bucket.rs, buffer.rs).  The code  *)
(* keeps them in a u16 and decides "newer" or "older" by the top bit of a  *)
(* wrap-around distance.  HalfSN stands for 0x8000, so that a sequence     *)
(* number is one of the 2 * HalfSN values of the type.                     *)
(***************************************************************************)
EXTENDS Integers

CONSTANT HalfSN

ASSUME HalfSNAssumption == HalfSN \in Nat \ {0}

MaxSN == 2 * HalfSN              \* MAX_SEQUENCE_NUMBER = 1 << 16
SN    == 0 .. MaxSN - 1          \* u16

\* How many increments lead from old to new, around the end of the type.
Distance(new, old) ==
    IF new < old THEN (MaxSN - 1) - old + new + 1 ELSE new - old

\* distance & 0x8000 == 0: new is at or ahead of old.
AtOrAhead(new, old) == Distance(new, old) < HalfSN

\* sn & 0x8000 > 0
HighHalf(sn) == sn >= HalfSN

=============================================================================
