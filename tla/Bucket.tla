------------------------------- MODULE Bucket -------------------------------
(***************************************************************************)
(* The ring of recently received packets of one stream                     *)
(* (rsfu/src/buffer/bucket.rs).  A slot of MAX_PACKET_SIZE bytes holds one *)
(* packet; what tells packets apart here is their sequence number sn.  A   *)
(* slot never written is all zeroes, so a sequence number read from it     *)
(* is 0.                                                                   *)
(***************************************************************************)
EXTENDS SeqNum

CONSTANT MaxSteps   \* index of the last slot: length / MAX_PACKET_SIZE - 1

ASSUME MaxStepsAssumption == MaxSteps \in 1 .. HalfSN - 1

CONSTANT NoPacket   \* the content of a slot never written

Slots == 0 .. MaxSteps

SlotSN(slot) == IF slot = NoPacket THEN 0 ELSE slot.sn

NewBucket == [init    |-> FALSE,
              step    |-> 0,
              head_sn |-> 0,
              slots   |-> [i \in Slots |-> NoPacket]]

\* self.head_sn = sn - 1, done before the first packet is added.
Initialised(b, sn) ==
    IF b.init THEN b ELSE [b EXCEPT !.init = TRUE, !.head_sn = (sn - 1) % MaxSN]

-----------------------------------------------------------------------------
\* Slip: the last packet written is looked for where the next one goes.
SlotOfOneOff(b, sn) ==
    LET pos == b.step - Distance(b.head_sn, sn)
    IN  IF pos < 0 THEN MaxSteps + pos + 1 ELSE pos

\* The slot of sn, counted back from the last one written: get and set.
SlotOf(b, sn) ==
    LET pos == b.step - (Distance(b.head_sn, sn) + 1)
    IN  IF pos < 0 THEN MaxSteps + pos + 1 ELSE pos

\* get: the packet found under sn, or {} when there is none.
Get(b, sn) ==
    {b.slots[i] : i \in {j \in Slots : /\ Distance(b.head_sn, sn) <= b.step + MaxSteps
                                       /\ j = SlotOf(b, sn)
                                       /\ SlotSN(b.slots[j]) = sn}}

\* The slots skipped for packets not received, i in 1 .. diff - 1: the index
\* goes back to 0 when it reaches MaxSteps.
Skip(step, n) ==
    IF n <= 0 THEN step
    ELSE IF step = MaxSteps THEN (n - 1) % MaxSteps ELSE (step + n) % MaxSteps

\* Slip: the index runs one slot past the end before it goes back to 0.
PushLatestPastTheEnd(b, p) ==
    LET at == Skip(b.step, Distance(p.sn, b.head_sn) - 1)
    IN  [b EXCEPT !.head_sn = p.sn,
                  !.slots[at] = p,
                  !.step = IF at > MaxSteps THEN 0 ELSE at + 1]

\* push, with the head moved by add_packet: always succeeds.
PushLatest(b, p) ==
    LET at == Skip(b.step, Distance(p.sn, b.head_sn) - 1)
    IN  [b EXCEPT !.head_sn = p.sn,
                  !.slots[at] = p,
                  !.step = IF at + 1 > MaxSteps THEN 0 ELSE at + 1]

\* set: ErrPacketTooOld and ErrRTXPacket leave the ring alone.
TooOld(b, sn) == Distance(b.head_sn, sn) > MaxSteps
Received(b, sn) == SlotSN(b.slots[SlotOf(b, sn)]) = sn
Rejected(b, sn) == TooOld(b, sn) \/ Received(b, sn)

SetLate(b, p) == [b EXCEPT !.slots[SlotOf(b, p.sn)] = p]

\* add_packet: the ring after it, and whether it returned an error.
AddPacket(b, p, latest) ==
    LET b0 == Initialised(b, p.sn)
    IN  CASE latest                          -> [ring |-> PushLatest(b0, p), err |-> FALSE]
          [] ~latest /\ Rejected(b0, p.sn)   -> [ring |-> b0, err |-> TRUE]
          [] ~latest /\ ~Rejected(b0, p.sn)  -> [ring |-> SetLate(b0, p), err |-> FALSE]

=============================================================================
