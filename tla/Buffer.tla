------------------------------- MODULE Buffer -------------------------------
(***************************************************************************)
(* The receive buffer of one stream (rsfu/src/buffer/buffer.rs).  The      *)
(* reader task of the router writes every packet of the track into it      *)
(* (calc), which extends the sequence number, keeps the queue of missing   *)
(* packets, stores the packet, appends it to ext_packets for the           *)
(* forwarding task (read_extended) and asks for retransmissions.  calc     *)
(* holds the buffer's lock from beginning to end: it is one action.        *)
(*                                                                         *)
(* A packet is a pair of the sender's rollover counter, which is not       *)
(* transmitted, and the sequence number sn, which is.                      *)
(***************************************************************************)
EXTENDS Bucket, NackQueue

CONSTANTS
    Nack,         \* a VP8 stream, whose feedback has "nack": nacker is Some
    FirstSNs,     \* the sequence numbers a stream may begin with
    Garbled,      \* the packets that Packet::unmarshal refuses; never the first
    Rocs,         \* the sender's rollover counters considered
    Cycles32,     \* the number of values of cycles / MAX_SEQUENCE_NUMBER (u32)
    MaxLead,      \* the network: how far ahead of the newest a packet arrives
    MaxLag,       \* ... and within how many of it behind (0: never late, never twice)
    MaxBacklog,   \* bound: packets waiting in ext_packets
    MaxPackets    \* bound: packets counted by calc

ASSUME BufferAssumption ==
    /\ Nack \in BOOLEAN
    /\ FirstSNs \subseteq SN
    /\ Rocs \subseteq Int
    /\ 0 \in Rocs
    /\ Cycles32 \in Nat \ {0}
    /\ \A roc \in Rocs : roc < Cycles32
    /\ MaxLead \in 1 .. HalfSN - 1
    /\ MaxLag \in 0 .. HalfSN + 1
    /\ MaxBacklog \in Nat
    /\ MaxPackets \in Nat

Packet == [roc : Rocs, sn : SN]

ASSUME GarbledAssumption ==
    Garbled \subseteq Packet /\ \A p \in Garbled : p.roc = 0 => p.sn \notin FirstSNs

ASSUME NoPacketAssumption == NoPacket \notin Packet

\* The place of a packet in the stream, as the sender counts it.
Ext(p) == p.roc * MaxSN + p.sn

VARIABLES
    reader,        \* the task that calls calc: "running" or "panicked"
    packet_count,  \* stats.packet_count
    max_seq_no,
    cycles,
    nacker,        \* the queue: see NackQueue
    key_frame_seq_number,
    bucket,        \* see Bucket
    ext_packets,   \* the queue read by read_extended
    feedback,      \* what the last on_feedback_callback was given
    \* What the network did, to compare the above with:
    arrived,       \* the packets handed to calc
    newest,        \* Ext of the newest of them
    requested      \* how often each packet has been requested

vars == <<reader, packet_count, max_seq_no, cycles, nacker,
          key_frame_seq_number, bucket, ext_packets, feedback,
          arrived, newest, requested>>

Init ==
    /\ reader = "running"
    /\ packet_count = 0
    /\ max_seq_no = 0
    /\ cycles = 0
    /\ nacker = EmptyQueue
    /\ key_frame_seq_number = 0
    /\ bucket = NewBucket
    /\ ext_packets = <<>>
    /\ feedback = [due |-> {}, pairs |-> <<>>, pli |-> {}]
    /\ arrived = {}
    /\ newest = 0
    /\ requested = EmptyQueue
-----------------------------------------------------------------------------
(* Extending a sequence number with the cycles counted so far.             *)

\* sn > max_seq_no && (sn & 0x8000) > 0 && max_seq_no & 0x8000 == 0
FromLastCycle(sn) == sn > max_seq_no /\ HighHalf(sn) /\ ~HighHalf(max_seq_no)

\* cycles - MAX_SEQUENCE_NUMBER wraps around the u32 when there is no last cycle.
ExtendedSN(cyc, sn) ==
    IF FromLastCycle(sn)
    THEN ((cyc - MaxSN) % (Cycles32 * MaxSN)) + sn
    ELSE cyc + sn

IsFirst    == packet_count = 0
Ahead(sn)  == ~IsFirst /\ AtOrAhead(sn, max_seq_no)
Behind(sn) == ~IsFirst /\ ~AtOrAhead(sn, max_seq_no)

\* Slip: any smaller sequence number, a late one too, counts as a new cycle.
WrapsOnAnySmaller(sn) == ~IsFirst /\ sn < max_seq_no
Wraps(sn)  == Ahead(sn) /\ sn < max_seq_no

CyclesAfter(sn) == IF Wraps(sn) THEN cycles + MaxSN ELSE cycles

\* Slip: a late packet becomes the highest one.
MaxAfterAny(sn) == sn
MaxAfter(sn)    == IF Behind(sn) THEN max_seq_no ELSE sn

\* The sequence numbers sn - i for i in 1 .. diff - 1.
Gap(sn) == {(sn - i) % MaxSN : i \in 1 .. Distance(sn, max_seq_no) - 1}

\* Slip: a late arrival stays in the queue.
NackerAfterForgetful(sn) ==
    IF Nack /\ Ahead(sn)
    THEN Push(nacker, {ExtendedSN(CyclesAfter(sn), msn) : msn \in Gap(sn)})
    ELSE nacker

NackerAfter(sn) ==
    CASE Nack /\ Ahead(sn) ->
            Push(nacker, {ExtendedSN(CyclesAfter(sn), msn) : msn \in Gap(sn)})
      [] Nack /\ Behind(sn) -> Remove(nacker, ExtendedSN(cycles, sn))
      [] OTHER -> nacker

\* sn - max_seq_no, and cycles - MAX_SEQUENCE_NUMBER, where overflow is checked.
TrackingPanics(sn) ==
    /\ OverflowChecks /\ Nack
    /\ \/ Wraps(sn)
       \/ Ahead(sn) /\ cycles < MaxSN /\ \E msn \in Gap(sn) : FromLastCycle(msn)
       \/ Behind(sn) /\ cycles < MaxSN /\ FromLastCycle(sn)

\* The head_sn = sn - 1 of the first packet.
StoringPanics(sn) == OverflowChecks /\ ~bucket.init /\ sn = 0

ExtHead == cycles' + max_seq_no'
-----------------------------------------------------------------------------
(* The network: packets arrive in any order, some never and some twice,    *)
(* but none from so far back or so far ahead that a u16 cannot tell which. *)

InWindow(p) ==
    IF arrived = {}
    THEN p.roc = 0 /\ p.sn \in FirstSNs
    ELSE /\ Ext(p) - newest <= MaxLead
         /\ newest - Ext(p) < MaxLag

Arrive(p) ==
    /\ reader = "running"
    /\ packet_count < MaxPackets
    /\ InWindow(p)
    /\ arrived' = arrived \cup {p}
    /\ newest' = IF arrived = {} \/ Ext(p) > newest THEN Ext(p) ELSE newest

\* calc up to the point where the packet is given to the bucket.
Track(p) ==
    /\ ~TrackingPanics(p.sn)
    /\ ~StoringPanics(p.sn)
    /\ max_seq_no' = MaxAfter(p.sn)
    /\ cycles' = CyclesAfter(p.sn)

Stored(p) == AddPacket(bucket, p, p.sn = max_seq_no')

\* The packet is stored, counted and queued for the forwarding task.
Enqueue(p) ==
    /\ ~Stored(p).err
    /\ p \notin Garbled
    /\ Len(ext_packets) < MaxBacklog
    /\ bucket' = Stored(p).ring
    /\ packet_count' = packet_count + 1
    /\ ext_packets' = Append(ext_packets, [pkt |-> p, head |-> p.sn = max_seq_no'])

\* build_nack_packet and the feedback callback.
AskAgain(queue) ==
    LET due == Due(queue, ExtHead)
    IN  IF Nack
        THEN /\ nacker' = AfterPairs(queue, ExtHead)
             /\ key_frame_seq_number' = NextKeyFrameSN(queue, key_frame_seq_number)
             /\ feedback' = [due   |-> due,
                             pairs |-> Pairs(due, ExtHead),
                             pli   |-> KeyFrameFor(queue, key_frame_seq_number)]
             /\ requested' = [e \in DOMAIN requested \cup due |->
                                 (IF e \in DOMAIN requested THEN requested[e] ELSE 0)
                                 + (IF e \in due THEN 1 ELSE 0)]
        ELSE UNCHANGED <<nacker, key_frame_seq_number, feedback, requested>>
-----------------------------------------------------------------------------
(* calc, by the way it ends.                                               *)

Calc(p) ==
    /\ Arrive(p)
    /\ Track(p)
    /\ Enqueue(p)
    /\ ~(Nack /\ PairsPanic(NackerAfter(p.sn), ExtHead))
    /\ AskAgain(NackerAfter(p.sn))
    /\ UNCHANGED reader

\* add_packet returns an error: nothing is forwarded and no feedback is built.
CalcRejected(p) ==
    /\ Arrive(p)
    /\ Track(p)
    /\ Stored(p).err
    /\ bucket' = Stored(p).ring
    /\ nacker' = NackerAfter(p.sn)
    /\ UNCHANGED <<reader, packet_count, ext_packets, key_frame_seq_number,
                   feedback, requested>>

\* What the ring gives back is no RTP packet: it stays stored, and is not counted.
CalcUnparsed(p) ==
    /\ Arrive(p)
    /\ Track(p)
    /\ ~Stored(p).err
    /\ p \in Garbled
    /\ bucket' = Stored(p).ring
    /\ nacker' = NackerAfter(p.sn)
    /\ UNCHANGED <<reader, packet_count, ext_packets, key_frame_seq_number,
                   feedback, requested>>

\* The payload is not a VP8 descriptor: stored and counted, nothing more.
CalcMalformed(p) ==
    /\ Nack
    /\ Arrive(p)
    /\ Track(p)
    /\ ~Stored(p).err
    /\ p \notin Garbled
    /\ bucket' = Stored(p).ring
    /\ packet_count' = packet_count + 1
    /\ nacker' = NackerAfter(p.sn)
    /\ UNCHANGED <<reader, ext_packets, key_frame_seq_number, feedback, requested>>

\* An overflow before the packet is stored ends the reader task.  Nothing
\* reads the queue of missing packets, part of which it may have changed, again.
CalcPanics(p) ==
    /\ Arrive(p)
    /\ TrackingPanics(p.sn) \/ StoringPanics(p.sn)
    /\ reader' = "panicked"
    /\ cycles' = CyclesAfter(p.sn)
    /\ max_seq_no' = IF TrackingPanics(p.sn) THEN max_seq_no ELSE MaxAfter(p.sn)
    /\ UNCHANGED <<packet_count, nacker, key_frame_seq_number, bucket,
                   ext_packets, feedback, requested>>

\* An overflow while the NackPairs are built: the packet is forwarded.
CalcPanicsAsking(p) ==
    /\ Arrive(p)
    /\ Track(p)
    /\ Enqueue(p)
    /\ Nack /\ PairsPanic(NackerAfter(p.sn), ExtHead)
    /\ reader' = "panicked"
    /\ nacker' = NackerAfter(p.sn)
    /\ UNCHANGED <<key_frame_seq_number, feedback, requested>>

\* The forwarding task takes the oldest packet.
ReadExtended ==
    /\ ext_packets # <<>>
    /\ ext_packets' = Tail(ext_packets)
    /\ UNCHANGED <<reader, packet_count, max_seq_no, cycles, nacker,
                   key_frame_seq_number, bucket, feedback, arrived, newest,
                   requested>>

Next ==
    \/ \E p \in Packet : \/ Calc(p)
                         \/ CalcRejected(p)
                         \/ CalcUnparsed(p)
                         \/ CalcMalformed(p)
                         \/ CalcPanics(p)
                         \/ CalcPanicsAsking(p)
    \/ ReadExtended

Spec == Init /\ [][Next]_vars
-----------------------------------------------------------------------------
(* Properties.                                                             *)

ExtArrived == {Ext(p) : p \in arrived}

TypeOK ==
    /\ reader \in {"running", "panicked"}
    /\ packet_count \in Nat
    /\ max_seq_no \in SN
    /\ cycles \in Nat
    /\ DOMAIN nacker \subseteq Nat
    /\ \A sn \in DOMAIN nacker : nacker[sn] \in 0 .. MaxNackTimes
    /\ key_frame_seq_number \in Nat
    /\ bucket \in [init : BOOLEAN, step : Slots, head_sn : SN,
                   slots : [Slots -> Packet \cup {NoPacket}]]
    /\ arrived \subseteq Packet
    /\ newest \in Int

\* cycles and max_seq_no are the place in the stream of the newest packet, over
\* any loss, reordering, repetition and wrap of the u16 (calc, lines 268-303).
ExtendedSNIsRight ==
    reader = "running" /\ arrived # {} => newest = cycles + max_seq_no

\* Only packets that were passed over and have not come are asked for again: a
\* late arrival leaves the queue, nothing else gets into it (lines 276-303).
QueueHoldsTheMissing ==
    reader = "running" =>
        \A e \in DOMAIN nacker : e < newest /\ e \notin ExtArrived

\* A packet is asked for at most MAX_NACK_TIMES times in its life, and not only
\* while one entry of the queue lasts (nack.rs, pairs).
RequestsAreBounded ==
    \A e \in DOMAIN requested : requested[e] <= MaxNackTimes

\* A key frame is asked for only when some packet was asked for MAX_NACK_TIMES
\* times and is still missing (pairs, build_nack_packet).
KeyFrameIsJustified ==
    [][feedback' # feedback =>
        \A e \in feedback'.pli : /\ e \in DOMAIN requested
                                 /\ requested[e] = MaxNackTimes
                                 /\ e \notin {Ext(p) : p \in arrived'}]_vars

\* The task that reads the track goes on whatever packets come.
ReaderSurvives == reader = "running"

\* The NackPairs name the packets due, all of them and no other.
PairsNameTheDue ==
    Named(feedback.pairs) = {e % MaxSN : e \in feedback.due}

\* The packets flagged head, by which a down track numbers what it sends, are
\* queued for it in the order of the stream.
HeadsAreInOrder ==
    \A i, j \in DOMAIN ext_packets :
        i < j /\ ext_packets[i].head /\ ext_packets[j].head
            => Ext(ext_packets[i].pkt) <= Ext(ext_packets[j].pkt)

\* The step queues p for the forwarding task.
Forwards(p) ==
    /\ Len(ext_packets') > Len(ext_packets)
    /\ ext_packets'[Len(ext_packets')].pkt = p

\* A packet just forwarded can be read back from the bucket.
ForwardedIsStored ==
    [][\A p \in Packet : Forwards(p) => Get(bucket', p.sn) = {p}]_vars

\* The bucket finds each of the last MaxSteps + 1 packets of the stream that came.
KeepsTheLastPackets ==
    reader = "running" =>
        \A p \in arrived :
            newest - Ext(p) <= MaxSteps => Get(bucket, p.sn) = {p}
=============================================================================
