----------------------------- MODULE NackQueue ------------------------------
(***************************************************************************)
(* The queue of missing packets of one video stream                        *)
(* (rsfu/src/buffer/nack.rs).                                              *)
(*                                                                         *)
(* The Vec<Nack>, kept sorted and free of duplicates by a binary search,   *)
(* is the partial function from the extended sequence number of a missing  *)
(* packet to the number of times it has been requested (nackd).            *)
(***************************************************************************)
EXTENDS SeqNum, Sequences

CONSTANTS
    MaxNackTimes,   \* MAX_NACK_TIMES (3)
    BlpBits,        \* packets named by one lost_packets bitmap (16)
    OverflowChecks  \* TRUE: a debug build, an overflow panics

ASSUME NackAssumption ==
    /\ MaxNackTimes \in Nat \ {0}
    /\ BlpBits \in 1 .. MaxSN - 1
    /\ OverflowChecks \in BOOLEAN

EmptyQueue == [sn \in {} |-> 0]

\* push: every sequence number of the set that is not queued yet.
Push(nacks, sns) ==
    [sn \in DOMAIN nacks \cup sns |->
        IF sn \in DOMAIN nacks THEN nacks[sn] ELSE 0]

\* remove
Remove(nacks, sn) == [s \in DOMAIN nacks \ {sn} |-> nacks[s]]

-----------------------------------------------------------------------------
(* pairs(head_seq_number), entry by entry in the order of the queue.       *)

\* Slips: one request too many, and one too few.
ExhaustedLate(nacks)  == {sn \in DOMAIN nacks : nacks[sn] > MaxNackTimes}
ExhaustedEarly(nacks) == {sn \in DOMAIN nacks : nacks[sn] >= MaxNackTimes - 1}

\* The entries given up on: requested MAX_NACK_TIMES times already.
Exhausted(nacks) == {sn \in DOMAIN nacks : nacks[sn] >= MaxNackTimes}

\* The entries requested now: not among the two packets before the head.
Due(nacks, head) == {sn \in DOMAIN nacks \ Exhausted(nacks) : sn < head - 2}

\* head_seq_number - 2 is evaluated for every entry that is not exhausted.
HeadUnderflow(nacks, head) == head < 2 /\ DOMAIN nacks # Exhausted(nacks)

\* Given up on for the first time, so that a key frame is asked for.
KeyFrameFor(nacks, keyFrameSN) == {sn \in Exhausted(nacks) : sn > keyFrameSN}

AskKeyFrame(nacks, keyFrameSN) == KeyFrameFor(nacks, keyFrameSN) # {}

NextKeyFrameSN(nacks, keyFrameSN) ==
    IF AskKeyFrame(nacks, keyFrameSN)
    THEN CHOOSE sn \in KeyFrameFor(nacks, keyFrameSN) :
             \A other \in KeyFrameFor(nacks, keyFrameSN) : other <= sn
    ELSE keyFrameSN

AfterPairs(nacks, head) ==
    [sn \in DOMAIN nacks \ Exhausted(nacks) |->
        IF sn \in Due(nacks, head) THEN nacks[sn] + 1 ELSE nacks[sn]]

-----------------------------------------------------------------------------
(* The grouping of the due sequence numbers into NackPairs: packet_id      *)
(* names one packet and bit i of lost_packets the packet packet_id + i + 1.*)
(* packet_id 0 stands for "no pair begun".                                 *)

NoPair == [packet_id |-> 0, lost_packets |-> {}]

\* Slip: the bitmap taken to be one bit longer than it is.
LastNamedOneMore(np) == (np.packet_id + BlpBits + 1) % MaxSN

\* np.packet_id + 16, the wrap included when overflow is not checked.
LastNamed(np) == (np.packet_id + BlpBits) % MaxSN

PackOne(acc, extSN) ==
    LET np       == acc.np
        sn       == extSN % MaxSN
        begun    == np.packet_id # 0
        shift    == sn - np.packet_id - 1
        panicked == [acc EXCEPT !.panic = TRUE]
    IN  IF acc.panic THEN acc
        ELSE IF begun /\ OverflowChecks /\ np.packet_id + BlpBits >= MaxSN THEN panicked
        ELSE IF ~begun \/ sn > LastNamed(np)
             THEN [acc EXCEPT !.pairs = IF begun THEN Append(@, np) ELSE @,
                              !.np    = [packet_id |-> sn, lost_packets |-> {}]]
        ELSE IF OverflowChecks /\ shift < 0 THEN panicked
        ELSE [acc EXCEPT !.np.lost_packets = @ \cup {(shift % MaxSN) % BlpBits}]

\* The loop over the queue, in its order: [n] is what the entries below n make.
Packing(due, head) ==
    LET acc[n \in 0 .. head] ==
            IF n = 0 THEN [np |-> NoPair, pairs |-> <<>>, panic |-> FALSE]
            ELSE IF n - 1 \in due THEN PackOne(acc[n - 1], n - 1)
            ELSE acc[n - 1]
    IN  acc

Packed(due, head) == Packing(due, head)[head]

Pairs(due, head) ==
    LET acc == Packed(due, head)
    IN  IF acc.np.packet_id = 0 THEN acc.pairs ELSE Append(acc.pairs, acc.np)

PairsPanic(nacks, head) ==
    /\ OverflowChecks
    /\ \/ HeadUnderflow(nacks, head)
       \/ Packed(Due(nacks, head), head).panic

\* The sequence numbers a receiver of the pairs reads out of them (RFC 4585).
Named(pairs) ==
    UNION {{pairs[i].packet_id} \cup
           {(pairs[i].packet_id + bit + 1) % MaxSN : bit \in pairs[i].lost_packets}
           : i \in DOMAIN pairs}

=============================================================================
