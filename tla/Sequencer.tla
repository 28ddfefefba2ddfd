----------------------------- MODULE Sequencer -----------------------------
(***************************************************************************)
(* The ring in which a down track notes the packets it sent, to find the   *)
(* publisher's packet when a subscriber asks for one again                 *)
(* (rsfu/src/sfu/sequencer.rs).  AtomicSequencer holds one lock in push    *)
(* and in get_seq_no_pairs, so each is one operator.                       *)
(*                                                                         *)
(* An entry [src, num] is the part of PacketMeta that lookups compare: src *)
(* stands for the publisher's packet, num for the number it was sent under *)
(***************************************************************************)
EXTENDS SeqNum, Sequences

NewSequencer(max) == [init |-> FALSE, max |-> max, seq |-> <<>>, step |-> 0, head_sn |-> 0]

\* One step of the index: a ring without room stays at 0.
NextStep(s, step) == IF step + 1 >= s.max THEN 0 ELSE step + 1

\* The index after the slots of n numbers that were not sent.
Skipped(s, n) == IF n <= 0 \/ s.max = 0 THEN s.step ELSE (s.step + n) % s.max

\* Slip: the difference is not brought back into the type.
MinusSigned(a, b) == a - b

\* head_sn - off_sn and off_sn - head_sn, on a u16.
Minus(a, b) == (a - b) % MaxSN

Initialized(s, num) == IF s.init THEN s ELSE [s EXCEPT !.init = TRUE, !.head_sn = num]

\* A late packet the ring no longer reaches back to.
OutOfReach(s, num) ==
    LET step == s.step - Minus(s.head_sn, num)
    IN  step < 0 /\ -step >= s.max

\* Insert at the slot and go on to the next.
Insert(s, slot, src, num) ==
    [s EXCEPT !.seq  = [i \in DOMAIN @ \cup {slot} |->
                            IF i = slot THEN [src |-> src, num |-> num] ELSE @[i]],
              !.step = NextStep(s, slot)]

\* Slip: a skipped number leaves no slot behind.
PushHeadDense(s, src, num) == [Insert(s, s.step, src, num) EXCEPT !.head_sn = num]

PushHead(s, src, num) ==
    [Insert(s, Skipped(s, Minus(num, s.head_sn) - 1), src, num) EXCEPT !.head_sn = num]

\* A late packet takes the current slot too, not the one its number was skipped at.
PushLate(s, src, num) ==
    IF OutOfReach(s, num) THEN s ELSE Insert(s, s.step, src, num)

PushMeta(s, src, num, head) ==
    LET s0 == Initialized(s, num)
    IN  IF head THEN PushHead(s0, src, num) ELSE PushLate(s0, src, num)

\* The subtraction of push that overflows.
PushOverflows(s, num, head) ==
    LET s0 == Initialized(s, num)
    IN  IF head THEN num < s0.head_sn ELSE s0.head_sn < num

\* The slot get_seq_no_pairs reads for num, {} when it gives up before.
SlotsRead(s, num) ==
    LET step == s.step - Minus(s.head_sn, num) - 1
    IN  IF step >= 0 THEN {step}
        ELSE IF -step < s.max THEN {step + s.max}
        ELSE {}

\* get_seq_no_pairs of one number never asked for before: the packets it finds.  At a
\* slot never written the code unwraps None (sequencer.rs:161); here it finds nothing.
GetSeqNoPairs(s, num) ==
    {s.seq[i].src : i \in {j \in SlotsRead(s, num) \cap DOMAIN s.seq : s.seq[j].num = num}}

=============================================================================
