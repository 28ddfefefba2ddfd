# A verification of rsfu

rsfu is a selective forwarding unit: it receives the audio and video that a peer
publishes and forwards it to the other peers of its session. This directory
holds TLA+ models of its parts, the instances of them that TLC checks, and
theorems about them with proofs that TLAPS checks. Paths below are relative to
`src/rsfu/src` unless they begin with `src/`; `signal.rs` is
`src/app/jrpc2-server/src/server/signal.rs`.

The build matters. README.md of the repository tells to run the result of
`cargo build`, in which an integer overflow panics. A panic ends the tokio task
it happens in and nothing else: a tokio Mutex is not poisoned. The models say
what happens with overflow checked and without.

## The parts of the system

| Part | State it keeps | Operations | Model |
|---|---|---|---|
| Receive buffer, `buffer/buffer.rs` | `max_seq_no`, `cycles`, `ext_packets`, the queue of missing packets, the ring | `write`, `calc`, `build_nack_packet`, `read_extended`, `bind` | Buffer |
| Packet ring, `buffer/bucket.rs` | slots of 1500 bytes, `step`, `head_sn` | `add_packet`, `push`, `set`, `get` | Bucket |
| Missing packets, `buffer/nack.rs` | sorted list of numbers, how often each was asked for | `push`, `remove`, `pairs` | NackQueue |
| Forwarding task, `sfu/receiver.rs` `write_rtp` | down tracks of a layer | one round of writes per packet, `delete_down_track` | Forwarding |
| Down track, `sfu/down_track.rs`, `down_track_internal.rs` | `enabled`, `bound`, `re_sync`, `sn_offset`, `last_sn`, `ts_offset`, `last_ts` | `bind`, `mute`, `write_simple_rtp` | Forwarding |
| Sequencer, `sfu/sequencer.rs` | ring of the packets sent, with their numbers on both sides | `push`, `get_seq_no_pairs` | Sequencer |
| Offers of a subscriber, `sfu/peer.rs`, `sfu/subscriber.rs`, `signal.rs` | `remote_answer_pending`, `negotiation_pending`, queue of candidates | `negotiate`, `set_remote_description`, `trickle` | Negotiation, and Offers for what it promises |
| Publisher connection and its calls, `sfu/peer.rs`, `sfu/publisher.rs`, `signal.rs` | session, subscriber and publisher of the peer, the connection, candidates | `join`, `answer`, `trickle`, the callback on ICE | Publisher |
| RTCP to a publisher, `sfu/router.rs`, `sfu/receiver.rs` | two channels, the task that drains one into the writer | `send_rtcp`, `set_rtcp_writer`, `stop` | Publisher |
| Session registry, `sfu/sfu.rs` | map of sessions | `get_session`, `new_session` | Room |
| Session, routers, publishers, `sfu/session.rs`, `router.rs`, `publisher.rs`, `receiver.rs` | map of peers, map of receivers, down tracks by stream | `join`, `subscribe`, `on_track`, `publish`, `add_receiver`, `add_down_track` | Room |
| Data channels, `sfu/session.rs`, `sfu/data_channel.rs` | labels fanned out, channels of each peer | `add_data_channel`, `get_data_channels`, `add_data_channel_2` | Fanout |
| Congestion feedback, `twcc/twcc.rs` | arrival times since the last report, cycles, the payload of the reports | `push`, `build_transport_cc_packet` | Twcc |
| Sender reports, relay, audio levels, simulcast layers, buffer factory, configuration, media engine, TURN, statistics, parsing of VP8 | | | not modelled, see the end |

### How they interact

A client joins over JSON-RPC. `join` finds or makes the session, makes a
subscriber connection and a publisher connection and subscribes the peer to every
track the others have published; then the offer that came with the call is
answered by the publisher connection. When a track of the publisher connection
comes, `on_track` makes a receiver for it, a task that reads the track into a
buffer, and a task that takes the packets from the buffer and writes them to the
down tracks of the receiver; then it publishes the receiver to the other peers.
Both ways end in `add_down_track`, followed by an offer to the client of the
subscriber. The client answers, which binds the down tracks. Over a data channel
the client may mute and unmute them. What the buffers and down tracks want of the
publisher, retransmissions and key frames, goes through a channel of its router
to a task that sends it. When ICE fails, the publisher connection is closed and
that task is stopped.

So one track is touched by the reader task (Buffer), the forwarding task and the
data channel tasks of its subscribers (Forwarding), the tasks that subscribe to
it (Room) and those that offer it (Negotiation). The modules meet where the code
does: Forwarding takes the packets that Buffer queues, in the order that
Buffer's `HeadsAreInOrder` states; `negotiated` of Room is set where a
negotiation of Negotiation begins; `EnterSession` of Publisher is what Room and
Fanout take apart, and the handler of Publisher is that of Negotiation, whose
requests concern the other connection; the simulcast branch that Room shows to
block is why Forwarding has no simulcast packets.

### What is hard in it

- sequence numbers of 16 bits that wrap, in subtractions of u16 all over
  `buffer/`, `down_track.rs`, `sequencer.rs` and `twcc.rs`, with packets that are
  lost, late and repeated;
- flags that two tasks read and write without a lock: `remote_answer_pending` and
  `negotiation_pending`, `enabled` and `re_sync`;
- locks held across awaits, one inside another: the provider, the peers of the
  session, the receivers of a router, `available`, `buffers`;
- a join and a publication that overlap and must not miss each other;
- a step of a join or an answer that fails and leaves what came before it in place;
- candidates, offers and answers that come in any order, and refused ones;
- connections that close in the middle of a round of writes, or of an answer.

PROJECT.json lists each of these hazards at its line, with the property that
covers it or the reason why none does.

### What makes each part correct

- Buffer: the extended number of the newest packet is its place in the stream;
  what is asked for again is missing, and asked for a bounded number of times; a
  packet forwarded is in the ring; heads are queued in order.
- Down track: the numbers a subscriber gets have gaps where packets were lost and
  nowhere else; after a pause a video goes on with a key frame.
- Sequencer: it finds the publisher's packet under the number it was sent under.
- Offers: one at a time, from a stable connection, none forgotten, no candidate lost.
- Publisher: a call gets one response; no offer meets the negotiation of another;
  each candidate reaches the connection; the RTCP task ends with the connection.
- Session: all who join are in one; whoever has joined gets whatever has been
  published; every join ends.
- Data channels: whoever has joined has a channel of each label; who opens a label
  later is heard; nobody hears himself.
- Congestion feedback: a report says of each number whether and when it arrived, and
  begins where the last one ended.

## The modules

`SeqNum` has the arithmetic of sequence numbers. `HalfSN` stands for 0x8000: a
number is one of the `2 * HalfSN` values of its type, and "newer or older" is
decided by the half of the type a difference falls in, as the code does.

`Bucket` and `NackQueue` are operators on a ring and on a queue. `Buffer` extends
both and has one action for each way `calc` ends: the packet is stored and
feedback built (`Calc`), the ring refuses it (`CalcRejected`), what the ring gives
back is no RTP packet (`CalcUnparsed`: it stays stored and is not counted), its payload
is malformed (`CalcMalformed`), an overflow ends the task before the packet is
stored (`CalcPanics`) or while the NACKs are built (`CalcPanicsAsking`). `calc`
holds the buffer's lock all along, so it is one action. `ReadExtended` is the
forwarding task. A packet is a pair of the sender's rollover counter, which is
never transmitted, and the number that is; the counter only lets properties say
what is right. Which packets cannot be parsed is a constant (`Garbled`), a packet that
comes again having the same bytes; the first of a stream is none of them, since each
packet is taken for the first until one is counted. `MCBuffer` gives the counters their
ranges.

`Negotiation` has one step for each access of a flag or of the connection that
another task may come between. Tasks of other peers make a change and negotiate;
the handler of the client's requests takes one request after the other
(`handle(&mut self)`), and the client answers offers and sends candidates. A
candidate that the connection refuses makes the handler answer an error to a
notification, which has no id, and panics (`signal.rs:80`). `CreateOffer` has no step for
an error of `create_offer` or `set_local_description` (the `?` at `peer.rs:234`): the
connection is found stable, as `OffersFromStable` says, and that the crate fails for
reasons of its own there is left out.

`Offers` is what Negotiation promises, without a flag, a lock, a candidate or the
network in it: changes are added; an offer is made of everything added, only when
the one before was answered; an offer is answered, unless the handler has ended. In
`Promise == INSTANCE Offers`, an offer is unanswered while the connection is in
`have-local-offer`, and the handler has ended when it has panicked; `added` and
`offered` are those of Negotiation. That each change is offered is not part of the
promise: the run Negotiation_race shows that the code does not keep it.

`Publisher` has the calls of one client (`join`, `offer`), its candidates for the
publisher connection, and that connection's life. A call is handled in steps, each
of which may fail if the webrtc crate may refuse it; what was set before stays
(`JoinFails`, `AnswerFails`). `config` is what the client joins for: without
`no_subscribe` and `no_publish` a join makes both connections. A join whose offer
is refused gets no response, as the code has it (`signal.rs:150`: the error is
logged). `IceFails`, `CloseConnection` and `IceClosed` are the callback on the ICE
state, which closing calls once more; `TakeFeedback` and `TakeStop` are the two
branches of the `select!` of `send_rtcp`. What is taken out of the channel is not
sent: the future of the writer is dropped before it runs (`router.rs:611`).
`upset` is history: a step of an answer was refused.

`Room` has the tasks `join` and `on_track`, with an owner for each lock that is
held across an await: the provider (`join`), the peers of the session
(`subscribe`), the receivers of a router (`add_receiver`). A lock taken and given
back around one access is part of the step. `GetSession` and `NewSession` are the
registry's part of a join: the peers of the model join under one id, `sessions`
counts the sessions made of it, and `EnterReceiver` is the entry of a receiver in
its router. The webrtc crate calls `on_track` for one track of a connection after
the other. Nobody leaves: `PeerLocal::close` has no caller.

`Sequencer` is the ring of the packets sent; its `Minus` is subtraction of u16.
`Forwarding` has the forwarding task, the down tracks and the subscribers. A
write is split where a mute can make a difference: `Check` (enabled and bound),
then, in the branch that re-synchronises, `SetOffset` or `AskForKeyFrame`, then
`Send`, which clears `re_sync`. A mute between two steps that neither read what
it writes nor write it commutes with them, and those steps are one. `build` and
`kind` (audio or video) are chosen at the start, so that one run has all four. A packet
has a time (`Time`, of its place in the stream; a frame is several packets of one time),
and a down track an offset for timestamps and the last it sent (`ts`), since their
subtractions on a u32 panic as those of the numbers do.
`get_seq_no_pairs` unwraps what it reads in the sequencer (`sequencer.rs:161`) where
`GetSeqNoPairs` yields nothing: the properties ask for numbers that were sent.
`sent`, `since` and `before` are history: what was sent under which number, and
whether a mute came since, or came in the middle of a write ("race").

`Fanout` has the data channels of a session: the task that a client's new channel
starts (`add_data_channel`) and the channels' part of `join`, with an owner for the
lock of the labels (`subscribe` keeps it to its end), that of the peers and that of
the provider. `get_data_channels` and the loop over the other peers take one peer
a step, in any order, since the map they go through has none. A channel is known by
where it is, its label and the task that made it, so that two channels of one label
on one connection are two. `on_message` is, for each channel with a handler, the
channels its messages are passed to: that list is fixed when the handler is made.
`due` is history: what the list would be if it were collected at once. The first
who opens a label is heard by nobody: its list is collected before the others have a
channel of that label, and never again. No document says what was meant.

`Twcc` has the two operations of the responder, each under `&mut self` and so one
action. `Push` notes a packet and counts the cycles of the numbers; `Build` sorts
what was noted, fills the numbers that did not come, gives each a status and packs
the statuses in chunks: runs of one status, or 14 of one bit, or 7 of two. It appends the
header and the chunks to `payload`, which no call clears, any more than the length and
the count of headers, which overflow: `BuildPanics` is a call of a debug build that ends
there, the packets noted being gone and half of the report written. `reports` is history:
what each report was of, and where in the payload its chunks are. The deltas and the
marshalling, which fails in every call (`twcc.rs:316`), are left out. The
marks 0x0fff and 0xf000, the widths of a run and of a chunk, and how many deltas fit
a byte are constants, so that a small instance meets each boundary. The three bits in
which a symbol and a run too long for its field meet are the only ones spelled out
(`EitherBit`). The loops over a list are recursive functions of how far they have come,
and the order of the sort is any that puts the newest first and keeps what came earlier
ahead among equals (`Sortings`, of which there is one), so that all of it can be proved
about. The first packet that arrives is `First`, with any number; packets sent before it
may come after.

The assumptions of Twcc are about the network and the caller, since the code checks
none of them. `WindowAssumption`: a packet is less than 0x0fff numbers from the newest,
the width of the two marks; past that `push` cannot tell a wrap from a jump.
`RunAssumption`: packets noted between two reports, times how far each may be ahead,
stay below 2^13, the longest run a chunk can say. The condition in `push` under which a
report would be due (`twcc.rs:125-130`, an empty branch) is met at the latest at 101
packets, so that this allows steps of 80 numbers at each.

Definitions marked "Slip" are the forms a plausible mistake would have. No
behaviour uses them: each replaces the definition after it to show that a
property would notice.

## What is checked

All bounds are constants of the .cfg files. Deadlock is not checked because each
model may rightly stop: everybody is done, or a bound is reached.

| Run | What it shows |
|---|---|
| Buffer_debug | With overflow checked and any order, loss and repetition in the window: the queue of missing packets holds only packets that are missing, none is asked for more than `MaxNackTimes` times in its life, the NackPairs name exactly those due, a key frame is asked for only after a packet was given up on, heads are queued in order. |
| Buffer_release | With integers that wrap, over two wraps of the numbers: `cycles + max_seq_no` is the place of the newest packet, and what is forwarded is in the ring. |
| Buffer_wrap | Violation: in a debug build the reader of a video track dies when its numbers wrap (`buffer.rs:277`). |
| Buffer_lossy | Violation: after a gap across the end of the ring, packets younger than the ring is long are overwritten and not found (`bucket.rs:54` leaves the last slot out, which `96` uses, so that the index is one slot too far). |
| Forwarding_mutes | Two subscribers who subscribe, mute, unmute and leave at any moment: key frame first after a pause, gaps are losses, the sequencer finds packets sent in order and over no gap of half a cycle, and only an overflow of a number or a timestamp stops the task. |
| Negotiation_flags | Four changes and two candidates, one refused: one offer at most is out, made of a stable connection; a deferred negotiation stays noted; no candidate is lost; an offer does not block later ones for ever; Negotiation implements Offers. |
| Negotiation_race | Violation: a negotiation deferred between the handler's two accesses of the flags is not made until somebody negotiates again, so a track may never be offered (`peer.rs:371`). |
| Publisher_life | Two joins, an offer and two candidates, one refused, for any JoinConfig, with a failure of the crate at any step and of ICE at any moment: a call gets one response, but for a join whose offer is refused, and an answer only when the peer is in its session; an offer is ignored only after a failure; no candidate is lost; the RTCP task ends when ICE fails. |
| Room_race | Three peers, three tracks of two publishers, one of them simulcast: all are in one session, nobody who has joined misses what has been published, no receiver is subscribed to before its up track is set, and no lock is waited for in a circle. |
| Room_simulcast | Violation: `add_up_track` of a simulcast track waits for a lock it holds, with the receivers locked, and the next join waits for those with the session and the provider locked (`receiver.rs:234`). |
| Fanout_owners | Two peers open a channel of one label, together or one after the other, while a third joins: nobody who has joined is without a channel of the label, no message returns to its sender, who opens a label that is there reaches all whose channel is open, and the locks are not waited for in a circle. |
| Twcc_reports | Up to five packets in any order around the end of a cycle, with reports in between: the cycles counted are those of the stream and one more for each packet that came behind one of the next cycle; what was written for a report says its statuses, behind its header, whatever was written before and after; no packet that did not come is reported received; one report follows the other without a hole. |

Exceptions are written into the properties where the code has them:

- A mute that comes while a write is between its look at `enabled` and the clearing
  of `re_sync` is lost, and the track goes on with a gap and without a key frame.
- The number 0 of a down track stands for "none sent", so that a pause after it is a
  gap.
- In a debug build a packet that is late or repeated can overflow in the renumbering, and
  so can one after the numbers or the timestamps wrapped, one whose time is before that
  of a packet sent, as with frames sent out of the order of their times, and one that
  ends a pause within the frame it began in (`timestamp - last_ts - 1`,
  `down_track.rs:511`): `OnlyOverflowStops` allows it.
- In a debug build the forwarding of an audio track dies when the numbers wrap
  (`sequencer.rs:95`): `OnlyOverflowStops` allows it.
- A late packet takes a slot of the sequencer that its number does not own, and the
  packets before it are not found (`sequencer.rs:109`): `SequencerFindsInOrder`
  speaks of packets sent in order. It speaks of tracks with no long gap (`NoLongGap`)
  too: packets half a cycle apart that were numbered with one offset, as after a long
  loss, or a pause which a mute that raced a write or the number 0 hid, cannot be told
  from late ones by their numbers. A pause that the track is re-synchronised after may
  be of any length.
- `delete_down_track` finds a track by an id that all down tracks of a receiver
  share: a failed write cuts off the first subscriber in the list. The model does
  the same; `OnlyOverflowStops` shows that the list is at least never indexed past
  its end.
- A packet behind the end of its cycle is placed a cycle ahead by the congestion
  feedback, whose report then has a status for each number of the cycle between:
  `PayloadSaysTheReports` and `NoLossIsHidden` speak of reports before that. A packet
  that came twice has two statuses, which puts those after it off by one.
- The packets of a report are sorted newest first (`twcc.rs:146`), the wrong way round
  for the loop over them, so that all but the newest are reported lost. The draft that
  the comment at `twcc.rs:44-47` names wants them reported received; no report is sent,
  and no property says that they are.
- What was noted for a report that an overflow ended is in no report:
  `ReportsLeaveNoHole` begins after it.

### Bounds, and why they are enough

- Buffer: `HalfSN` 8 with `MaxNackTimes` 2, `BlpBits` 5 and five packets (debug),
  so that a gap is longer than one pair names and a packet is asked for until it
  is given up on; `HalfSN` 4 over four rollover counters and `MaxSteps` 2
  (release), so that five packets wrap the numbers twice and the ring once. The
  window (`MaxLead`, `MaxLag`) is the widest in which a u16 can tell new from old. One
  packet is garbled, one that comes over a gap (debug) or ends the second cycle (release).
- Forwarding: three packets from number 13 of 16, leads up to 2, one mute, a ring of
  four: the numbers wrap, the packets skipped fill the ring beyond its end, a pause has
  a head on each side, and both subscribers can leave in one round. A frame is two
  packets and there are 8 timestamps, which wrap a frame before the numbers, so that a
  timestamp overflows alone, a pause ends within a frame or after it, and both offsets
  change at once (2.0 million states). The type is the smallest power of two for which
  the ring is as short as `SequencerFinds` assumes, a quarter of the numbers.
- Negotiation: four changes, so that one is deferred while another is offered and
  others come between any two steps of the handler; one good and one bad
  candidate, before and after the first answer.
- Publisher: two joins, so that one finds the peer joined, or half joined by the
  one that failed; one offer beside them, so that two answers follow each other;
  one good and one bad candidate; `MaxFeedback` 2, so that the channel may
  be empty, full, or neither. What the client joins for is any of the four `JoinConfig`.
- Room: two tracks of one stream (the first of a stream is handled differently),
  a second publisher with a simulcast track, a third peer (416,000 states).
- Fanout: one label, two owners, and a third peer that joins meanwhile (the owners
  have joined, since a publisher's channel comes after its join). Both owners may find
  the label new and replace each other's channels, or one may come late. The owners do
  the same and are interchangeable (symmetry; no liveness is checked in this run). A
  second label would only repeat the first: labels share nothing but the lock.
- Twcc: a cycle of 16 numbers with the marks at 3 and 12, begun at 13 (an earlier
  packet may come after the first), with leads of
  up to two and lags of one, so that a packet is ahead of, behind and across the end
  of the cycle; chunks of four or two statuses and five packets with up to three
  losses between, so that a chunk is filled, overfilled and left short, after a run
  and before one; `SmallDeltas` 2 with the times 0 (which stands for "did not come"),
  1 and 6, so that a delta is small, large and negative. At most three packets come
  between two reports; the count of headers wraps at 3 and the length at 4, so that one
  panics or wraps before the other and reports follow one that panicked (870,000
  states).

### Fairness

Buffer, Forwarding, Fanout and Twcc assume none and state safety only; that a task of
Fanout ends follows from `NobodyIsStuck`, since each has a bounded number of steps.
Negotiation assumes that each task that has begun to negotiate goes on, that the
handler takes the next request, and that the client answers offers it got; nothing
makes a client send candidates or a change happen. `Offers` assumes that an offer is
answered; under the fairness of Negotiation it is. Room assumes weak fairness of each
join and publication begun. tokio polls every task that is ready, and its Mutex hands
the lock to waiters in order; the steps of one task that wait for a lock are under one
weak fairness condition each, which suffices since a task has one lock at a time
to wait for and, apart from the simulcast case, no lock is taken up again and
again for ever. Publisher assumes that the handler, the callback on ICE and the RTCP
task go on, and that the stop is taken if it is there again and again while the task
loops: `select!` polls its branches in a random order, so that a branch that stays
ready is taken at last, however much feedback comes meanwhile.

## What is proved

Each set of theorems is for every value of the constants under the assumptions the
modules name, which TLC evaluates in every run. Where a theorem needs more than its
property says, the inductive invariant is given with what it adds; TLC found each
kept on the instance of the component's run before it was proved. `SequenceFacts` has
the lemmas about Append and Tail that the proofs about queues and channels share, and
what those about loops need: induction over a set of numbers (`NatSetInduction`, from
the well-foundedness of `<`, since the induction theorems of the library take an
operator) and that a function defined step by step exists (`RecursionExists`), from
which a recursive definition is seen to satisfy its equation.

`BufferProofs`, for every size of the type, length of the ring, number of requests and
window, and any number of packets and wraps:

- `TypeCorrect`: `Spec => []TypeOK`, in particular that the index of the ring stays
  in it. The inductive invariant is `TypeInv` (TypeOK, with the bound on the count
  of each entry of the queue) together with `TrackInv`.
- `ExtendedSNCorrect`: `Spec => []ExtendedSNIsRight`. The inductive invariant
  `TrackInv` adds to the property, which speaks of a track that has received
  something, what holds before that (nothing counted, nothing arrived) and that
  `cycles` is a whole number of cycles. The argument is in `PlaceInTheWindow`: a
  packet less than half a cycle from the newest is ahead of it, or behind, exactly
  when its distance modulo the type falls in that half.
- `HeadsInOrder`: the invariant `HeadsInv` adds that no head in the queue is newer
  than the newest packet, so that the next head comes behind them all. What is flagged
  head is the newest packet because the extended numbers are right (`HeadIsNewest`).
  Forwarding takes its packets in this order.
- `ForwardedStored`: what `add_packet` takes is found under its number
  (`AddedIsFound`), whichever of `push` and `set` puts it there; a packet is queued in
  the step that stores it.
- `QueueHoldsOnlyTheMissing`, `RequestsBounded` and `KeyFrameWhenGivenUp`, for a build
  that checks overflow (`OverflowChecks`). The inductive invariant `QueueInv` says,
  while the reader
  runs: every entry of the queue is behind the newest packet and has not arrived,
  only packets behind the newest have been asked for, and the count in an entry is
  the number of requests made for that packet (`CountsRequests`). The last part is
  what the bound needs: `RequestsAreBounded` speaks of a packet's whole life, an
  entry of the queue only of its stay there. `QueueInv` also says that `cycles` is 0
  in a track with Nack: with overflow checked the task panics at the first wrap (the
  run Buffer_wrap), so that an extended number is the sequence number itself. In a
  build whose integers wrap the queue is reckoned in other numbers after a wrap, and
  the theorems are not claimed of it.
- `PairsNameAllDue`, for the same builds: the requests written to the publisher name
  every packet due and no other, whatever the numbers due and in whatever words they
  fall. The invariant of the packing, `PackInv`, is over the numbers 0 to n: the pairs
  written so far with the one begun name the numbers due up to n, and the pair begun
  covers the sixteen after its first. `QueueInv` brings that 0 is never queued, since
  the code takes a first number of 0 for no pair begun.

`ForwardingProofs`, for any number of packets, subscribers and mutes, either build:

- `TypeCorrect`, from `TypeInv` and `TaskInv`: a task in the middle of a write has a
  packet and a track in hand, and its index never passes the end of the list.
- `KeyFrameComesFirst`: `KeyFrameFirst` speaks of what was sent. `SyncInv` says what
  `re_sync` means before that: it is set after every pause, and while it is set
  something has happened since the last packet (`SyncOf`); in the middle of a write the
  same holds of what the write began with, and past the look at the key frame the packet
  is one (`SyncOfWrite`).
- `StoppedByOverflow`: while overflow is checked and the publisher's numbers have not
  wrapped, no offset, no number sent and no number of the sequencer goes beyond the
  place of the newest packet (`NumberInv`, over `PlaceInv`, which says that a head is
  the newest), so that only a late or repeated packet overflows. Of the timestamps
  `TimeInv` says that the offset and the last one are no further than the time of a packet
  that was sent, or is being sent (`TimeOf`), so that only a packet whose time does not go on overflows.
- `GapsAreOnlyLosses`: the property compares two packets sent, any number of steps
  apart. `OffsetInv` says what the offset of a track is in terms of the last head sent
  to it: the one that head was sent with, or, after a pause, the one that lets the
  packet after the pause follow it, but where a mute raced a write since. Equations
  hold modulo the type, so that no bound on the length of a pause or on the wraps is
  needed.
- `SequencerFinds`, from `RingIsShort`: the ring is about a quarter of the numbers long
  at most (500 of 65536, `config.toml:14`). The property compares the ring with the
  history of what was sent. `SequencerInv` names an anchor, the last head sent, or the
  first packet while no head was. It says that `head_sn` is the anchor's number, that
  the offset of the track is that of the anchor or of a packet after a pause that
  followed it (`NumbersFrom`), and that each of the last heads stands as many slots
  behind the index as its number is behind the anchor's (`RingFrom`), where
  `get_seq_no_pairs` reads it (`FoundInItsSlot`). A head moves the index by as many
  slots as numbers are skipped and leaves the last ones alone (`InsertWrites`,
  `SlotStays`). The assumption is needed for a packet that is no head and goes first
  after a pause: its number is a little ahead of `head_sn`, and the ring leaves it out
  because it is too late for any slot (`PushLateIgnored`).

`NegotiationProofs`, for any number of tasks and candidates:

- `TypeCorrect`: `Spec => []TypeOK`.
- `StableWhenOffering` and `OneOffer`, from the inductive invariant `OfferInv`
  (`OffersAreSerial`). The properties count offers in three places and speak of the
  connection's state; the invariant says what keeps a second offer from being made:
  who is past the flags holds the lock (`LockInv`), there is at most one offer or
  answer underway (`UniqueInv`), while there is one, or while the handler has the
  answer in hand, the flag `remote_answer_pending` is set and nobody is making an
  offer (`AwaitedInv`, `AnsweredInv`), and the connection waits exactly while an
  offer is being sent or underway (`SignalingInv`).
- `EveryStepIsPromised`: `Spec => Promise!Init /\ [][Promise!Next]_(Promise!vars)`,
  the safety part of the refinement of Offers. An offer of Negotiation is one of
  Offers because `OfferInv` gives a stable connection; an answer, because it is
  underway only while the connection waits.
- `NothingForgotten`: the invariant `ForgottenInv` adds that a task past its change
  has it added, and in the offer once it is made.
- `CandidatesArrive`: the property speaks of a handler between two requests; the
  invariant `CandidateInv` says where a candidate is meanwhile, applied or kept.

`PublisherProofs`, for any calls and candidates of the client and whatever is refused:

- `TypeCorrect`, which needs `ConnectionInv`: the stop is sent at most once.
- `CallsAreAnswered` and `OffersAreTaken`: a call waits in exactly one place
  (`PlaceInv`) and has no response there; outside, it has one, but for a join whose
  offer met no publisher or one that refused it (`ResponseInv`). What the peer has at
  each step of a call, which a call that failed before may have left, is `PhaseInv`;
  that a negotiation is found open only where a step of an earlier answer was refused
  is `FailedInv`.
- `CandidatesReach`: `CandidateInv` says that a candidate is with the client, on its
  way or kept, and that all that is kept was given to the connection once it has a
  remote description and the answer is past the replay.

`RoomProofs`, for any number of peers, tracks and streams, simulcast or not:

- `InOneSession`, from `SessionInv`: a join past `get_session` holds the lock of the
  provider until it ends, so that what it found still holds when it makes a session.
- `UpTrackFirst`, from `UpInv`: a receiver whose up track is being added is in nobody's
  hands, because the receivers are locked from its entry on.
- `NobodyMisses`. The property speaks of the end; while a join and a publication run, a
  peer may lack a track because either has it still to do. `CoverInv` says so of each
  pair of a peer and a track of another's: it is fed, or the join has it before it or
  in hand (`JoinHas`), or the publication has (`PublicationHas`). A task may let go of
  a pair that it finds registered, because then it is fed or the other is about to
  feed it (`FedInv`); and the pair is negotiated after it was added, or somebody is
  about to (`NegotiatedInv`). That a join takes the peers of the session under their
  lock, after it has entered itself, is what makes one of the two see the other.
- `TypeCorrect`, whose hard part is that nothing of a pair is counted more than twice,
  although a join and a publication may both find the subscriber without the track
  (the hazard at `router.rs:485`). `CountInv` says that each of the two counts a pair
  once: the count leaves room for whoever has it still before it (`JoinMay`,
  `PublicationMay`), and a task does not go back to what it has taken up (`OnceInv`).

The seven parts of the first three together, with the shape of the variables
(`ShapeInv`) and what each task may have in hand (`JobInv`), are `RoomInv`;
`RoomIsKept` says that it is inductive.

`FanoutProofs`, for any peers, labels and owners:

- `LabelsReachAll`: as in Room, the property speaks of the end. `CoverInv` says that who
  has read the list of labels has a channel of each, or has it still to make, or is
  reached by the task of an owner that brings it (`Reaches`): the label is put in the
  list before that task takes the peers. `ChannelInv` says that a channel in a map has a
  handler, or the task that made it is about to give it one.
- `NobodyHearsHimself`: no task looks at its own peer for whom to pass messages to
  (`TaskInv`), so no list of a handler holds a channel of the peer it belongs to.
- `LateOpenersAreHeard`, an action property: what a task could have collected when it
  began is in its list or its peer still to be asked (`DueInv`), and the channel it is
  about to make was never there before (`FreshInv`).
- `TypeCorrect`, from the same invariant, `FanoutInv`.

`TwccProofs`, for any number of packets and reports, and any widths:

- `CyclesCounted`: `CycleInv` adds that the last packet is no further behind the newest
  than the window. `CountedIs` is the heart: with the window narrower than the marks, a
  number below the lower after one above the upper is exactly a packet of the next
  cycle, so that a cycle is counted there and never taken back.
- `NoLossHidden` and `ReportsFollow`: `CollectedIs` says, by induction over the packets
  sorted, what the loop of a report makes of them: nothing, if all are older than the
  last report, or the numbers that did not come before the newest, then the newest once
  for each time it came, the others being passed over. `Noted` says that what was
  noted, while no cycle was miscounted, is what came.
- `ChunksAre`, which is of any list of statuses, and `PayloadSays`: `PackInv` says, after each status, that what the chunks
  written say followed by the list not yet written is the statuses so far, and what
  keeps the next chunk right (`Kept`): a list of one status is the last one's, a mixed
  list is short of a chunk of one bit, and with a large delta in it no longer than a
  chunk of two. `CollectedLen` bounds a report by what a run can say: `Noted` says how
  far ahead of the last report the newest can be. The payload only grows: what stands
  in it of a report (`Placed`) and what that says (`Says`) is left alone by what is
  appended later, whole or cut short (`SaysStill`).
- `TypeCorrect`, from the same invariant, `TwccInv`.

Only model-checked:

- `NobodyIsStuck` of Fanout, which says that a step is ENABLED.
- All liveness: `OffersAreSettled`, `EveryTaskEnds`, `WriterEnds`, and the fairness of
  Offers.

## The plan

Done: all modules below with their runs, and proofs for each of the seven components.
Left:

1. `Stream`: an abstract specification of a forwarded track (each subscriber gets an
   increasing subsequence of what was published, renumbered without holes of the
   server's own making), which Forwarding implements but for the races named above.

## What is not modelled

Code that nothing reaches, so that a model of it would be one of what is missing:

- The relay (`relay/relay.rs`, `sfu/relay_peer.rs`, `Publisher::relay`,
  `SessionLocal::add_relay_peer`): nothing makes one, and the side that would answer a
  request is commented out (`relay.rs:265`), so that every request times out.
- Sender reports: `down_tracks_reports`, the only reader of `create_sender_report`, is
  called by nothing.
- The audio level observer: a session is made with none (`session.rs:88`).
- Simulcast forwarding and the switching of layers, since no simulcast track gets
  past `add_up_track`; `switch_down_track` returns an error in every case.
- The RTCP of subscribers: its handler belongs to a buffer factory that nothing feeds.
- The closing of peers and sessions, `handle_layer_change`, `build_remb_packet`,
  `build_reception_report`.

Input and output, parsing and configuration:

- The bytes of packets and the parsing of RTP, VP8 and JSON: a packet is its place in
  the stream and its flags, and a payload that cannot be parsed is an input. Of a
  congestion report, the bytes of the deltas and the marshalling.
- Time: the 10 ms sleep of `read_extended`, the throttle of key frame requests,
  statistics, jitter and bitrate.
- The webrtc crate: a connection offers what was added to it, is stable or waits for
  an answer, accepts or refuses a candidate, and a closed one fails writes.
- The buffer factory: a map under one lock that makes one buffer for an SSRC.
- The sending of data channel messages, and the channel the server makes itself for its
  control messages, but for the mutes.
- Configuration, media engine, TURN server and the accepting of sockets.
