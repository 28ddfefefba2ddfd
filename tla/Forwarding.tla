----------------------------- MODULE Forwarding -----------------------------
(***************************************************************************)
(* The forwarding of one track to its subscribers: the task of the         *)
(* receiver that takes packets from the Buffer and writes each to every    *)
(* down track (receiver.rs, write_rtp), the down tracks, which renumber    *)
(* what they send (down_track.rs, write_simple_rtp), and the subscribers,  *)
(* who mute and unmute them over a data channel (subscriber.rs, process),  *)
(* in tasks of their own.  enabled and re_sync are atomics: the steps of a *)
(* write are split where a mute may come between and make a difference.    *)
(*                                                                         *)
(* The track is not a simulcast one: no packet of a simulcast track gets   *)
(* this far (see Room).                                                    *)
(***************************************************************************)
EXTENDS Sequencer

CONSTANTS
    Subscribers,     \* each has one down track of the track
    Kinds,           \* what the track may be: "audio", "video"
    MaxTrack,        \* config.max_packet_track, the length of a video track's ring
    Builds,          \* "debug" panics on overflow, "release" does not
    FirstExts,       \* the place in the publisher's stream of the first packet
    Time,            \* the time on the publisher's clock of the packet in each place
    MaxTS,           \* the number of timestamps, 2^32
    MaxLead,         \* the Buffer: how far ahead of the newest a packet comes
    MaxLag,          \* ... and how far behind (0: never late)
    MaxPackets,      \* bound: packets taken from the Buffer
    MaxMutes,        \* bound: mutes
    NoPkt

ASSUME ForwardingAssumption ==
    /\ Kinds \subseteq {"audio", "video"}
    /\ MaxTrack \in Nat \ {0}
    /\ Builds \subseteq {"debug", "release"}
    /\ DOMAIN Time \subseteq Nat /\ Time \in [DOMAIN Time -> Nat]
    /\ FirstExts \subseteq DOMAIN Time
    /\ MaxTS \in Nat \ {0}
    /\ MaxLead \in 1 .. HalfSN - 1
    /\ MaxLag \in 0 .. HalfSN - 1

\* A packet taken from the Buffer: its place in the stream, its time, whether it is
\* the newest so far, and whether a key frame begins with it.
ExtPacket(ext, head, key) == [ext |-> ext, time |-> Time[ext], head |-> head, key |-> key]
Source(p)    == p.ext % MaxSN
Timestamp(p) == p.time % MaxTS

\* a - b on a u32.
MinusTS(a, b) == (a - b) % MaxTS

VARIABLES
    build,        \* of the program
    kind,         \* of the track
    forwarder,    \* the task: "running" or "panicked"
    pkt,          \* the packet in its hand
    todo,         \* the down tracks it has still to write pkt to
    at,           \* where it is in the write to the first of them
    failed,       \* the writes of pkt that found the connection closed
    down_tracks,  \* the receiver's down tracks of the layer, in order
    dt,           \* the state of each down track
    ts,           \* ... its ts_offset and last_ts
    gone,         \* the subscribers whose connection is closed
    \* What happened, to compare the above with:
    taken,        \* the number of packets taken
    newest,       \* the place of the newest packet taken
    mutes,        \* the number of mutes
    since,        \* what each down track has been through since the last packet
    before,       \* ... what the write in progress found there
    sent          \* what each down track sent, and under what number

vars == <<build, kind, forwarder, pkt, todo, at, failed, down_tracks, dt, ts, gone,
          taken, newest, mutes, since, before, sent>>

Init ==
    /\ build \in Builds
    /\ kind \in Kinds
    /\ forwarder = "running"
    /\ pkt = NoPkt
    /\ todo = <<>>
    /\ at = "check"
    /\ failed = 0
    /\ down_tracks = <<>>
    /\ dt = [d \in Subscribers |->
                [enabled |-> FALSE, bound |-> FALSE, re_sync |-> FALSE,
                 sn_offset |-> 0, last_sn |-> 0, sequencer |-> NewSequencer(0)]]
    /\ ts = [d \in Subscribers |-> [offset |-> 0, last |-> 0]]
    /\ gone = {}
    /\ taken = 0
    /\ newest = 0
    /\ mutes = 0
    /\ since = [d \in Subscribers |-> "nothing"]
    /\ before = "nothing"
    /\ sent = [d \in Subscribers |-> <<>>]

history == <<taken, newest, mutes, since, before, sent>>
-----------------------------------------------------------------------------
(* The subscribers and their connections.                                  *)

\* re_sync is set when a track is bound and not cleared before a packet is sent.
NeverBound(d) == ~dt[d].re_sync /\ sent[d] = <<>>

\* store_down_track, which takes the lock that a round of writes holds.
AddDownTrack(d) ==
    /\ todo = <<>>
    /\ \A i \in DOMAIN down_tracks : down_tracks[i] # d
    /\ NeverBound(d)
    /\ down_tracks' = Append(down_tracks, d)
    /\ UNCHANGED <<build, kind, forwarder, pkt, todo, at, failed, dt, ts, gone, history>>

\* The answer has come and the webrtc stack binds the track to its sender.
Bind(d) ==
    /\ \E i \in DOMAIN down_tracks : down_tracks[i] = d
    /\ NeverBound(d)
    /\ dt' = [dt EXCEPT ![d].enabled = TRUE,
                        ![d].re_sync = TRUE,
                        ![d].bound = TRUE,
                        ![d].sequencer = IF kind = "video" THEN NewSequencer(MaxTrack) ELSE @]
    /\ since' = [since EXCEPT ![d] = "pause"]
    /\ UNCHANGED <<build, kind, forwarder, pkt, todo, at, failed, down_tracks, ts, gone,
                   taken, newest, mutes, before, sent>>

\* The down track is in the subscriber's list and its data channel open.
Reachable(d) == dt[d].bound /\ d \notin gone

\* The write to d has been let through and has not yet cleared re_sync.
MayClear(d) == todo # <<>> /\ Head(todo) = d /\ at \in {"load", "sync"}

Mute(d) ==
    /\ Reachable(d)
    /\ mutes < MaxMutes
    /\ dt[d].enabled
    /\ dt' = [dt EXCEPT ![d].enabled = FALSE, ![d].re_sync = TRUE]
    /\ mutes' = mutes + 1
    /\ since' = [since EXCEPT ![d] = IF MayClear(d) THEN "race" ELSE "pause"]
    /\ before' = IF MayClear(d) THEN "race" ELSE before
    /\ UNCHANGED <<build, kind, forwarder, pkt, todo, at, failed, down_tracks, ts, gone,
                   taken, newest, sent>>

\* re_sync stays as the mute left it.
Unmute(d) ==
    /\ Reachable(d)
    /\ ~dt[d].enabled
    /\ dt' = [dt EXCEPT ![d].enabled = TRUE]
    /\ UNCHANGED <<build, kind, forwarder, pkt, todo, at, failed, down_tracks, ts, gone,
                   history>>

\* A connection closes when its ICE fails: its track may be unbound, and a write to
\* it fails.
Disconnect(d) ==
    /\ dt[d].bound
    /\ gone' = gone \cup {d}
    /\ \E bound \in BOOLEAN : dt' = [dt EXCEPT ![d].bound = bound]
    /\ UNCHANGED <<build, kind, forwarder, pkt, todo, at, failed, down_tracks, ts, history>>
-----------------------------------------------------------------------------
(* The forwarding task.                                                    *)

\* Places of the packets the Buffer may hand over next: heads in the order of
\* the stream, the newest perhaps twice, and late ones.
Heads == IF taken = 0 THEN FirstExts ELSE (newest .. newest + MaxLead) \cap DOMAIN Time
Late  == IF taken = 0 THEN {} ELSE (newest - MaxLag .. newest - 1) \cap DOMAIN Time

\* read_extended returns a packet; down_tracks is locked for the round.
Read(p) ==
    /\ forwarder = "running"
    /\ todo = <<>> /\ failed = 0
    /\ taken < MaxPackets
    /\ pkt' = p
    /\ todo' = down_tracks
    /\ at' = "check"
    /\ taken' = taken + 1
    /\ newest' = IF p.head THEN p.ext ELSE newest
    /\ UNCHANGED <<build, kind, forwarder, failed, down_tracks, dt, ts, gone, mutes,
                   since, before, sent>>

Writing(where) == forwarder = "running" /\ todo # <<>> /\ at = where

\* The write to the first down track is over.
NextDownTrack == todo' = Tail(todo) /\ at' = "check"

\* enabled and bound are looked at first.
Check ==
    /\ Writing("check")
    /\ LET d == Head(todo)
       IN  IF dt[d].enabled /\ dt[d].bound
           THEN /\ at' = "load"
                /\ before' = since[d]
                /\ since' = [since EXCEPT ![d] = "nothing"]
                /\ UNCHANGED todo
           ELSE NextDownTrack /\ UNCHANGED <<before, since>>
    /\ UNCHANGED <<build, kind, forwarder, pkt, failed, down_tracks, dt, ts, gone, taken,
                   newest, mutes, sent>>

\* Slip: any packet will do to go on with.
NeedsKeyFrameNever == FALSE

\* A video track goes on with a key frame only.
NeedsKeyFrame == kind = "video" /\ ~pkt.key

\* Slip: the number of the last packet is used again.
OffsetAtLast(d) == Minus(Source(pkt), dt[d].last_sn)

\* The packet goes on right after the last one sent; 0 stands for none sent.
OffsetAfterPause(d) ==
    IF dt[d].last_sn # 0 THEN Minus(Source(pkt), dt[d].last_sn + 1) ELSE dt[d].sn_offset

TsOffsetAfterPause(d) ==
    IF dt[d].last_sn # 0 THEN MinusTS(Timestamp(pkt), ts[d].last + 1) ELSE ts[d].offset

OffsetOverflows(d) ==
    /\ dt[d].last_sn # 0
    /\ \/ Source(pkt) - dt[d].last_sn - 1 < 0
       \/ Timestamp(pkt) - ts[d].last - 1 < 0

\* What a write that panics has assigned before is read by nobody after it.
Panic ==
    /\ forwarder' = "panicked"
    /\ UNCHANGED <<build, kind, pkt, todo, at, failed, down_tracks, dt, ts, gone, history>>

\* re_sync is set and the packet no key frame: ask for one and drop the packet.
AskForKeyFrame ==
    /\ Writing("load")
    /\ dt[Head(todo)].re_sync /\ NeedsKeyFrame
    /\ NextDownTrack
    /\ since' = [since EXCEPT ![Head(todo)] = IF @ = "nothing" THEN before ELSE @]
    /\ UNCHANGED <<build, kind, forwarder, pkt, failed, down_tracks, dt, ts, gone, taken,
                   newest, mutes, before, sent>>

\* re_sync is set: new offsets.
SetOffset ==
    /\ Writing("load")
    /\ LET d == Head(todo)
       IN  /\ dt[d].re_sync /\ ~NeedsKeyFrame
           /\ ~(build = "debug" /\ OffsetOverflows(d))
           /\ dt' = [dt EXCEPT ![d].sn_offset = OffsetAfterPause(d)]
           /\ ts' = [ts EXCEPT ![d].offset = TsOffsetAfterPause(d)]
    /\ at' = "sync"
    /\ UNCHANGED <<build, kind, forwarder, pkt, todo, failed, down_tracks, gone, history>>

SetOffsetPanics ==
    /\ Writing("load")
    /\ dt[Head(todo)].re_sync /\ ~NeedsKeyFrame
    /\ build = "debug" /\ OffsetOverflows(Head(todo))
    /\ Panic

NewSN(d) == Minus(Source(pkt), dt[d].sn_offset)
NewTS(d) == MinusTS(Timestamp(pkt), ts[d].offset)

SendOverflows(d) ==
    \/ Source(pkt) < dt[d].sn_offset
    \/ Timestamp(pkt) < ts[d].offset
    \/ PushOverflows(dt[d].sequencer, NewSN(d), pkt.head)

\* re_sync is not set; or it is, the offset is, and re_sync is cleared, also
\* when a mute has set it since it was read.
ReadyToSend == (Writing("load") /\ ~dt[Head(todo)].re_sync) \/ Writing("sync")

\* The packet is noted in the sequencer and written under its new number.
Send ==
    /\ ReadyToSend
    /\ LET d == Head(todo)
       IN  /\ ~(build = "debug" /\ SendOverflows(d))
           /\ dt' = [dt EXCEPT ![d].re_sync = IF at = "sync" THEN FALSE ELSE @,
                               ![d].sequencer = PushMeta(@, pkt.ext, NewSN(d), pkt.head),
                               ![d].last_sn = IF pkt.head THEN NewSN(d) ELSE @]
           /\ ts' = IF pkt.head THEN [ts EXCEPT ![d].last = NewTS(d)] ELSE ts
           /\ failed' = IF d \in gone THEN failed + 1 ELSE failed
           /\ sent' = [sent EXCEPT ![d] =
                         Append(@, [pkt |-> pkt, num |-> NewSN(d), since |-> before])]
    /\ NextDownTrack
    /\ UNCHANGED <<build, kind, forwarder, pkt, down_tracks, gone, taken, newest,
                   mutes, since, before>>

SendPanics ==
    /\ ReadyToSend
    /\ build = "debug" /\ SendOverflows(Head(todo))
    /\ Panic

\* Slip: every down track with the id is removed.
AfterDeleteAll == <<>>

\* Every down track of a receiver has the id of its track: the first is the one.
AfterDelete == Tail(down_tracks)

\* delete_down_track, for one failed write: the first down track is closed,
\* which takes it from its connection if that is still open, and removed.
\* On an empty list remove panics.
DeleteDownTrack ==
    /\ forwarder = "running"
    /\ todo = <<>> /\ failed > 0
    /\ failed' = failed - 1
    /\ forwarder' = IF down_tracks = <<>> THEN "panicked" ELSE forwarder
    /\ down_tracks' = IF down_tracks = <<>> THEN <<>> ELSE AfterDelete
    /\ dt' = [d \in Subscribers |->
                 IF down_tracks # <<>> /\ d = Head(down_tracks) /\ d \notin gone
                 THEN [dt[d] EXCEPT !.bound = FALSE] ELSE dt[d]]
    /\ UNCHANGED <<build, kind, pkt, todo, at, ts, gone, history>>

ForwarderStep ==
    \/ \E ext \in Heads, key \in BOOLEAN :
           /\ kind = "audio" => ~key
           /\ Read(ExtPacket(ext, TRUE, key))
    \/ \E ext \in Late, key \in BOOLEAN :
           /\ kind = "audio" => ~key
           /\ Read(ExtPacket(ext, FALSE, key))
    \/ Check
    \/ AskForKeyFrame
    \/ SetOffset
    \/ SetOffsetPanics
    \/ Send
    \/ SendPanics
    \/ DeleteDownTrack

SubscriberStep(d) ==
    \/ AddDownTrack(d)
    \/ Bind(d)
    \/ Mute(d)
    \/ Unmute(d)
    \/ Disconnect(d)

Next == ForwarderStep \/ \E d \in Subscribers : SubscriberStep(d)

Spec == Init /\ [][Next]_vars
-----------------------------------------------------------------------------
(* Properties.                                                             *)

Packets == [ext : Nat, time : Nat, head : BOOLEAN, key : BOOLEAN]
Pauses  == {"nothing", "pause", "race"}
TS      == 0 .. MaxTS - 1

\* seq has the slots that have been written.
IsSequencer(s) ==
    /\ s \in [init : BOOLEAN, max : {0, MaxTrack}, seq : {s.seq},
              step : 0 .. MaxTrack - 1, head_sn : SN]
    /\ \E slots \in SUBSET (0 .. MaxTrack - 1) : s.seq \in [slots -> [src : Nat, num : SN]]

IsDownTrack(t) ==
    /\ t \in [enabled : BOOLEAN, bound : BOOLEAN, re_sync : BOOLEAN,
              sn_offset : SN, last_sn : SN, sequencer : {t.sequencer}]
    /\ IsSequencer(t.sequencer)

\* The shape of each variable; in particular the numbers stay in their type and
\* the index of the sequencer in its ring.
TypeOK ==
    /\ build \in Builds
    /\ kind \in Kinds
    /\ forwarder \in {"running", "panicked"}
    /\ pkt \in Packets \cup {NoPkt}
    /\ todo \in Seq(Subscribers)
    /\ at \in {"check", "load", "sync"}
    /\ failed \in Nat
    /\ down_tracks \in Seq(Subscribers)
    /\ dt = [d \in Subscribers |-> dt[d]] /\ \A d \in Subscribers : IsDownTrack(dt[d])
    /\ ts \in [Subscribers -> [offset : TS, last : TS]]
    /\ gone \subseteq Subscribers
    /\ taken \in Nat /\ newest \in Nat /\ mutes \in Nat
    /\ since \in [Subscribers -> Pauses]
    /\ before \in Pauses
    /\ sent \in [Subscribers -> Seq([pkt : Packets, num : SN, since : Pauses])]

\* After a subscription or a mute, the first packet of a video track sent is a
\* key frame, which alone can be decoded; but for a mute that comes while a
\* write is between its look at enabled and the clearing of re_sync
\* (down_track.rs, lines 217-521).
KeyFrameFirst ==
    kind = "video" =>
        \A d \in Subscribers : \A i \in DOMAIN sent[d] :
            sent[d][i].since = "pause" => sent[d][i].pkt.key

\* Heads sent one after the other to d.
HeadsInARow(d) ==
    {ij \in (DOMAIN sent[d]) \X (DOMAIN sent[d]) :
        /\ ij[1] < ij[2]
        /\ \A k \in ij[1] .. ij[2] : sent[d][k].pkt.head <=> k \in {ij[1], ij[2]}}

\* What a subscriber can tell from the numbers of the packets is what it lost:
\* from one head to the next they differ as the publisher's do, and where it
\* was muted in between, as those after the pause do, which itself is no gap.
\* (Not if the mute raced a write, or the number before it was 0, which the
\* code takes for none: there the pause is a gap.)
GapsAreLosses ==
    \A d \in Subscribers : \A ij \in HeadsInARow(d) :
        LET p      == sent[d][ij[1]]
            q      == sent[d][ij[2]]
            pauses == {k \in ij[1] + 1 .. ij[2] : sent[d][k].since = "pause"}
        IN  (\A k \in ij[1] + 1 .. ij[2] : sent[d][k].since # "race") =>
                /\ pauses = {} => Minus(q.num, p.num) = Minus(q.pkt.ext, p.pkt.ext)
                /\ p.num # 0 =>
                      \A k \in pauses : (\A l \in pauses : l <= k) =>
                          Minus(q.num, p.num + 1) = Minus(q.pkt.ext, sent[d][k].pkt.ext)

\* The i-th packet sent to d is among the last max_packet_track - 1 numbers: so
\* far apart at most are the heads from there on.
AmongTheLast(d, i) ==
    \A j, k \in i .. Len(sent[d]) :
        j <= k /\ sent[d][j].pkt.head /\ sent[d][k].pkt.head =>
            Minus(sent[d][k].num, sent[d][j].num) < MaxTrack - 1

\* The sequencer finds the heads among the last numbers.
FindsLastHeads(d) ==
    \A i \in DOMAIN sent[d] : sent[d][i].pkt.head /\ AmongTheLast(d, i) =>
        GetSeqNoPairs(dt[d].sequencer, sent[d][i].num) = {sent[d][i].pkt.ext}

InOrder(d) == \A i, j \in DOMAIN sent[d] : i < j => sent[d][i].pkt.ext < sent[d][j].pkt.ext

\* From one head to the next, what is numbered with one offset is less than half
\* a cycle apart: a subscriber whom nothing reaches for longer is numbered anew.
NoLongGap(d) ==
    \A i, j \in DOMAIN sent[d] :
        LET p == sent[d][i]
            q == sent[d][j]
        IN  /\ i < j
            /\ \A k \in i + 1 .. j - 1 : ~sent[d][k].pkt.head
            /\ Minus(p.pkt.ext, p.num) = Minus(q.pkt.ext, q.num)
            => q.pkt.ext - p.pkt.ext < HalfSN

\* The sequencer of a video track finds, over losses, pauses and wraps, the
\* packet that was sent under each of the last numbers, as long as the packets
\* came in order and no gap is so long that numbers cannot tell (push,
\* get_seq_no_pairs).
SequencerFindsInOrder ==
    kind = "video" => \A d \in Subscribers : InOrder(d) /\ NoLongGap(d) => FindsLastHeads(d)

\* The packet in hand came late, or was sent to d before.
LateOrRepeated(d) == ~pkt.head \/ \E i \in DOMAIN sent[d] : sent[d][i].pkt.ext = pkt.ext

\* The timestamps have wrapped, or those of the frames go back; or d goes on, after
\* a pause, in the middle of a frame that it has packets of.
TimesDoNotGoOn(d) ==
    \/ pkt.time >= MaxTS
    \/ \E i \in DOMAIN sent[d] : sent[d][i].pkt.time > pkt.time
    \/ dt[d].re_sync /\ \E i \in DOMAIN sent[d] : sent[d][i].pkt.time = pkt.time

\* What stops the forwarding is an overflow alone, and that only when the
\* publisher's numbers or timestamps have wrapped, a packet comes late or twice, or
\* a pause ends in the frame it began in: no other mute, and nobody who
\* subscribes or leaves in the middle of a round, does.
OnlyOverflowStops ==
    forwarder = "panicked" =>
        /\ build = "debug"
        /\ todo # <<>>
        /\ \/ newest >= MaxSN
           \/ LateOrRepeated(Head(todo))
           \/ TimesDoNotGoOn(Head(todo))
=============================================================================
