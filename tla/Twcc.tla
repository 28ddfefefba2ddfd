-------------------------------- MODULE Twcc ---------------------------------
(***************************************************************************)
(* The responder of transport-wide congestion control (rsfu/src/twcc/      *)
(* twcc.rs): it notes when each packet of a connection arrived and packs   *)
(* what it noted into a report, a status for each number, the statuses in  *)
(* chunks of 16 bits.                                                      *)
(*                                                                         *)
(* A router has one responder for all its tracks, locked from outside, and *)
(* both operations take it as &mut self, so each is one action.  push is   *)
(* called from the buffers; nothing in the repository calls                *)
(* build_transport_cc_packet, which is public: the branch of push that     *)
(* would is empty (twcc.rs:125-130).                                       *)
(*                                                                         *)
(* A call appends its header and chunks to the payload, which no call ever *)
(* clears, any more than the length: what a report would be sent with is   *)
(* the payload of all reports.  None is sent: marshalling the RTCP header  *)
(* into an empty slot fails in every call (twcc.rs:316), or a panic before *)
(* it, at line 309, ends the call with the same state.  What serves only   *)
(* the marshalling is left out, the deltas and their length among it, and  *)
(* the wrap of the u32 cycles.  A time is counted in units of a delta; 0   *)
(* is also what the responder takes for "never arrived".                   *)
(***************************************************************************)
EXTENDS Integers, Sequences, SequencesExt

CONSTANTS
    Cycle,        \* how many numbers a u16 has
    LowMark,      \* 0x0fff
    HighMark,     \* 0xf000
    OneBit,       \* how many symbols of one bit a chunk has: 14
    RunField,     \* one more than the longest run a chunk can say: 2^13
    SmallDeltas,  \* how many deltas fit one byte: 256
    CountSize,    \* how many numbers the u8 has that counts headers: 256
    LenSize,      \* ... and the u16 of the length
    Builds,       \* "debug" panics on overflow, "release" does not
    First,        \* the place in the stream of the first packet that arrives
    Times,        \* the arrival times
    MaxLead,      \* how far ahead of the newest a packet may be
    MaxLag,       \* how far behind
    MaxPushes,    \* packets that arrive in a behaviour
    MaxPending    \* packets that arrive between two reports

ASSUME TwccAssumption ==
    /\ {Cycle, LowMark, HighMark, OneBit, RunField, SmallDeltas, CountSize, LenSize} \subseteq Nat \ {0}
    /\ LowMark < HighMark /\ HighMark < Cycle
    /\ OneBit % 2 = 0
    /\ Builds \subseteq {"debug", "release"}
    /\ First \in 0 .. Cycle - 1 /\ Times \subseteq Nat
    /\ {MaxLead, MaxLag, MaxPending} \subseteq Nat

\* The packets in the window are told apart by the marks.
ASSUME WindowAssumption ==
    /\ MaxLead + MaxLag <= LowMark /\ MaxLead + MaxLag < Cycle - HighMark
    /\ MaxLag <= HighMark - LowMark

\* Reports are made before the numbers go on by more than a run can say.
ASSUME RunAssumption == MaxPending * (MaxLead + 1) < RunField

VARIABLES
    build,            \* of the program
    cycles, last_sn,  \* push: cycles counted, the last number
    ext_info,         \* what arrived since the last report
    last_ext_sn,      \* the newest number reported, 0 before the first report
    payload,          \* the headers and chunks written
    pkt_ctn,          \* the count of headers
    len,              \* ... and the length of the chunks of symbols
    reports,          \* history: what each report was of, and where its chunks are
    last, newest,     \* history: the places of the last and the newest packet
    straddles,        \* history: packets of a cycle right after one of the next
    arrived,          \* history: the places that arrived
    pushes, repeated  \* history: how many came, and whether one came twice

history == <<last, newest, straddles, arrived, pushes, repeated>>

vars == <<build, cycles, last_sn, ext_info, last_ext_sn, payload, pkt_ctn, len, reports,
          history>>

\* The symbols, of which the third is never written.
NotReceived == 0
SmallDelta  == 1
LargeDelta  == 2
NoStatus    == 3

TwoBit == OneBit \div 2

Larger(a, b) == IF a > b THEN a ELSE b

Init ==
    /\ build \in Builds
    /\ cycles = 0
    /\ last_sn = 0
    /\ ext_info = <<>>
    /\ last_ext_sn = 0
    /\ payload = <<>>
    /\ pkt_ctn = 0
    /\ len = 0
    /\ reports = <<>>
    /\ last = First
    /\ newest = First
    /\ straddles = 0
    /\ arrived = {}
    /\ pushes = 0
    /\ repeated = FALSE
-----------------------------------------------------------------------------
(* push.                                                                   *)

\* Slip: a cycle is counted whenever a number is lower than the last.
CountedAtAnyFall(sn) == IF sn < last_sn THEN cycles + Cycle ELSE cycles
Counted(sn) ==
    IF sn < LowMark /\ last_sn > HighMark THEN cycles + Cycle ELSE cycles

Push(place, time) ==
    LET sn == place % Cycle IN
    /\ pushes < MaxPushes /\ Len(ext_info) < MaxPending
    /\ cycles' = Counted(sn)
    /\ ext_info' = Append(ext_info, [ext_tsn |-> cycles' + sn, timestamp |-> time])
    /\ last_sn' = sn
    /\ straddles' = straddles
                    + (IF place \div Cycle < last \div Cycle THEN 1 ELSE 0)
    /\ last' = place
    /\ newest' = Larger(newest, place)
    /\ repeated' = (repeated \/ place \in arrived)
    /\ arrived' = arrived \cup {place}
    /\ pushes' = pushes + 1
    /\ UNCHANGED <<build, last_ext_sn, payload, pkt_ctn, len, reports>>
-----------------------------------------------------------------------------
(* build_transport_cc_packet: the packets that the report is of.           *)

\* The i-th noted comes before the j-th: newest first; those of one number stay in
\* the order they came.
Before(i, j) ==
    \/ ext_info[i].ext_tsn > ext_info[j].ext_tsn
    \/ ext_info[i].ext_tsn = ext_info[j].ext_tsn /\ i < j

\* What sort_by makes of the packets noted: there is one such order.
Sortings ==
    {[i \in DOMAIN ext_info |-> ext_info[order[i]]] :
        order \in {o \in Bijection(DOMAIN ext_info, DOMAIN ext_info) :
                      \A i, j \in DOMAIN ext_info : i < j => Before(o[i], o[j])}}

\* Slip: the range ends one number early.
MissingButOne(from, to) ==
    [i \in 1 .. Larger(0, to - from - 2) |-> [ext_tsn |-> from + i, timestamp |-> 0]]
Missing(from, to) ==
    [i \in 1 .. Larger(0, to - from - 1) |-> [ext_tsn |-> from + i, timestamp |-> 0]]

Add(acc, info) ==
    IF info.ext_tsn < acc.last
    THEN acc
    ELSE [last |-> info.ext_tsn,
          pkts |-> (IF acc.last = 0 THEN acc.pkts
                    ELSE acc.pkts \o Missing(acc.last, info.ext_tsn))
                   \o <<info>>]

\* The loops over a list are recursive functions of how far they have come: [n] is
\* what is known after the n-th element.
Collecting(sorted) ==
    LET acc[n \in 0 .. Len(sorted)] ==
            IF n = 0 THEN [last |-> last_ext_sn, pkts |-> <<>>] ELSE Add(acc[n - 1], sorted[n])
    IN  acc

Collected(sorted) == Collecting(sorted)[Len(sorted)]

\* Slip: a packet that did not arrive has no status.
AddStatusOfReceived(acc, pkt) ==
    LET since == IF acc.received THEN acc.time
                 ELSE (pkt.timestamp \div SmallDeltas) * SmallDeltas
        status == IF pkt.timestamp - since \in 0 .. SmallDeltas - 1
                  THEN SmallDelta ELSE LargeDelta
    IN  IF pkt.timestamp = 0
        THEN acc
        ELSE [received |-> TRUE, time |-> pkt.timestamp,
              statuses |-> Append(acc.statuses, status)]

\* The status of each, by its distance in time from the one received before it,
\* or from the reference time.
AddStatus(acc, pkt) ==
    LET since == IF acc.received THEN acc.time
                 ELSE (pkt.timestamp \div SmallDeltas) * SmallDeltas
        status == IF pkt.timestamp - since \in 0 .. SmallDeltas - 1
                  THEN SmallDelta ELSE LargeDelta
    IN  IF pkt.timestamp = 0
        THEN [acc EXCEPT !.statuses = Append(@, NotReceived)]
        ELSE [received |-> TRUE, time |-> pkt.timestamp,
              statuses |-> Append(acc.statuses, status)]

StatusesTo(pkts) ==
    LET acc[n \in 0 .. Len(pkts)] ==
            IF n = 0 THEN [received |-> FALSE, time |-> 0, statuses |-> <<>>]
            ELSE AddStatus(acc[n - 1], pkts[n])
    IN  acc

Statuses(pkts) == StatusesTo(pkts)[Len(pkts)].statuses
-----------------------------------------------------------------------------
(* build_transport_cc_packet: the chunks.  A run is its symbol above the   *)
(* bits of its length; a chunk of symbols has a place for each.            *)

\* The bit of the given weight, if a or b has it.
EitherBit(a, b, weight) ==
    IF (a \div weight) % 2 = 1 \/ (b \div weight) % 2 = 1 THEN weight ELSE 0

\* symbol << 13 | run_length, on a u16: a length too long for its field runs into the
\* three bits above it.
RunLengthChunk(symbol, length) ==
    LET over == (length \div RunField) % 8
    IN  [kind   |-> "run",
         symbol |-> EitherBit(symbol, over, 1) + EitherBit(symbol, over, 2)
                        + EitherBit(symbol, over, 4),
         length |-> length % RunField]

SymbolChunk(size, list) ==
    [kind    |-> "symbols",
     symbols |-> [i \in 1 .. (IF size = 1 THEN OneBit ELSE TwoBit) |->
                     IF i \in DOMAIN list THEN list[i] % 2^size ELSE 0]]

\* What is known of a list of statuses not yet written.
Pending(list, chunks) ==
    [list |-> list, chunks |-> chunks,
     same |-> \A i, j \in DOMAIN list : list[i] = list[j],
     last |-> IF list = <<>> THEN NoStatus ELSE Last(list),
     max |-> Max(Range(list) \cup {NotReceived})]

\* A run ends: it is written if it is long, or else the list is mixed from now on.
EndRun(acc, status) ==
    IF ~acc.same \/ status = acc.last \/ acc.last = NoStatus
    THEN acc
    ELSE IF Len(acc.list) > TwoBit
         THEN [acc EXCEPT !.chunks = Append(@, RunLengthChunk(acc.last, Len(acc.list))),
                          !.list = <<>>, !.max = NotReceived]
         ELSE [acc EXCEPT !.same = FALSE]

Listed(acc, status) ==
    [acc EXCEPT !.list = Append(@, status), !.last = status,
                !.max = Larger(@, status)]

\* Slip: the large deltas are forgotten when the list is looked at.
PackOneBitFirst(acc, status) ==
    LET next == Listed(EndRun(acc, status), status) IN
    IF ~next.same /\ Len(next.list) >= OneBit
    THEN Pending(<<>>, Append(next.chunks, SymbolChunk(1, next.list)))
    ELSE next

Pack(acc, status) ==
    LET next == Listed(EndRun(acc, status), status) IN
    IF ~next.same /\ next.max = LargeDelta /\ Len(next.list) >= TwoBit
    THEN Pending(SubSeq(next.list, TwoBit + 1, Len(next.list)),
                 Append(next.chunks, SymbolChunk(2, next.list)))
    ELSE IF ~next.same /\ Len(next.list) >= OneBit
    THEN Pending(<<>>, Append(next.chunks, SymbolChunk(1, next.list)))
    ELSE next

\* What is left when all statuses have been looked at.
Rest(acc) ==
    IF acc.list = <<>> THEN <<>>
    ELSE IF acc.same THEN <<RunLengthChunk(acc.last, Len(acc.list))>>
    ELSE IF acc.max = LargeDelta THEN <<SymbolChunk(2, acc.list)>>
    ELSE <<SymbolChunk(1, acc.list)>>

Packing(statuses) ==
    LET acc[n \in 0 .. Len(statuses)] ==
            IF n = 0 THEN Pending(<<>>, <<>>) ELSE Pack(acc[n - 1], statuses[n])
    IN  acc

Chunks(statuses) ==
    LET packed == Packing(statuses)[Len(statuses)]
    IN  packed.chunks \o Rest(packed)

-----------------------------------------------------------------------------
(* build_transport_cc_packet: what it writes.                              *)

\* A header is written at the first packet that has a time, before any chunk.
Header(pkts) ==
    IF \E i \in DOMAIN pkts : pkts[i].timestamp # 0
    THEN <<[kind |-> "header", base |-> pkts[1].ext_tsn % Cycle,
            count |-> Len(pkts) % Cycle, nth |-> pkt_ctn]>>
    ELSE <<>>

CountAfter(pkts) == pkt_ctn + Len(Header(pkts))

\* Chunks of symbols are counted in the length, two bytes each; runs are not.
LenAfter(chunks, n) == len + 2 * Cardinality({i \in 1 .. n : chunks[i].kind = "symbols"})

CountFits(pkts)   == build = "release" \/ CountAfter(pkts) < CountSize
LenFits(chunks, n) == build = "release" \/ LenAfter(chunks, n) < LenSize

\* Slip: the newest number reported is that of the last in the list.
CollectFromTheLast(sorted) ==
    /\ ext_info # <<>>
    /\ ext_info' = <<>>
    /\ last_ext_sn' = Last(sorted).ext_tsn
    /\ UNCHANGED <<build, cycles, last_sn, history>>

\* What was noted is taken off and the newest number goes on, whatever comes of it.
Collect(sorted) ==
    /\ ext_info # <<>>
    /\ ext_info' = <<>>
    /\ last_ext_sn' = Collected(sorted).last
    /\ UNCHANGED <<build, cycles, last_sn, history>>

Build ==
    \E sorted \in Sortings :
        LET pkts     == Collected(sorted).pkts
            statuses == Statuses(pkts)
            chunks   == Chunks(statuses)
            before   == Len(payload) + Len(Header(pkts))
        IN  /\ CountFits(pkts) /\ LenFits(chunks, Len(chunks))
            /\ Collect(sorted)
            /\ payload' = payload \o Header(pkts) \o chunks
            /\ pkt_ctn' = CountAfter(pkts) % CountSize
            /\ len' = LenAfter(chunks, Len(chunks)) % LenSize
            /\ reports' = Append(reports, [pkts |-> pkts, statuses |-> statuses,
                                           from |-> before + 1,
                                           to |-> before + Len(chunks)])

\* The count of headers overflows after the header, or the length after a chunk.
BuildPanics ==
    /\ build = "debug" /\ ext_info # <<>>
    /\ \E sorted \in Sortings :
           LET pkts   == Collected(sorted).pkts
               chunks == Chunks(Statuses(pkts))
           IN  /\ Collect(sorted)
               /\ UNCHANGED reports
               /\ \/ /\ ~CountFits(pkts)
                     /\ payload' = payload \o Header(pkts)
                     /\ UNCHANGED <<pkt_ctn, len>>
                  \/ /\ CountFits(pkts)
                     /\ \E n \in DOMAIN chunks :
                           /\ LenFits(chunks, n - 1) /\ ~LenFits(chunks, n)
                           /\ payload' = payload \o Header(pkts) \o SubSeq(chunks, 1, n)
                           /\ pkt_ctn' = CountAfter(pkts)
                           /\ len' = LenAfter(chunks, n - 1)

\* Where the next packet may be in the stream.
Window == IF pushes = 0 THEN {First} ELSE newest - MaxLag .. newest + MaxLead

Next ==
    \/ \E place \in Window, time \in Times : Push(place, time)
    \/ Build
    \/ BuildPanics

Spec == Init /\ [][Next]_vars
-----------------------------------------------------------------------------
(* Properties.                                                             *)

Infos == [ext_tsn : Nat, timestamp : Times \cup {0}]

\* A header; a chunk of a run, and one that has a place for each symbol.
Headers  == [kind : {"header"}, base : 0 .. Cycle - 1, count : 0 .. Cycle - 1,
             nth : 0 .. CountSize - 1]
ChunkSet ==
    [kind : {"run"}, symbol : Nat, length : Nat] \cup [kind : {"symbols"}, symbols : Seq(Nat)]

Reports ==
    [pkts : Seq(Infos), statuses : Seq({NotReceived, SmallDelta, LargeDelta}),
     from : Nat, to : Nat]

TypeOK ==
    /\ build \in Builds
    /\ cycles \in Nat /\ cycles % Cycle = 0
    /\ last_sn \in 0 .. Cycle - 1
    /\ ext_info \in Seq(Infos)
    /\ last_ext_sn \in Nat
    /\ pkt_ctn \in 0 .. CountSize - 1 /\ len \in 0 .. LenSize - 1
    /\ payload \in Seq(Headers \cup ChunkSet)
    /\ reports \in Seq(Reports)
    /\ \A i \in DOMAIN reports : Len(reports[i].statuses) = Len(reports[i].pkts)

\* The cycles counted are those of the stream, and one more for each packet that
\* came behind one of the next cycle: that packet is placed a cycle ahead, and
\* the count never comes back (push).
CyclesAreOffByTheStraddles ==
    cycles = (last \div Cycle + straddles) * Cycle

\* What a receiver of the report reads in its chunks.
Read(chunk) ==
    IF chunk.kind = "run" THEN [i \in 1 .. chunk.length |-> chunk.symbol] ELSE chunk.symbols

ReadTo(chunks) ==
    LET acc[n \in 0 .. Len(chunks)] == IF n = 0 THEN <<>> ELSE acc[n - 1] \o Read(chunks[n])
    IN  acc

AllRead(chunks) == ReadTo(chunks)[Len(chunks)]

Received(statuses) == \E i \in DOMAIN statuses : statuses[i] # NotReceived

\* Of all reports made, however runs and mixed statuses follow each other in them,
\* and however many others, cut short by a panic or not, were written before and
\* after: what stands in the payload of one says the status of each of its packets,
\* in order, and has before it a header with its first number and how many they are.
\* Unless a packet behind the end of its cycle made a report longer than a run can say.
PayloadSaysTheReports ==
    straddles = 0 =>
        \A i \in DOMAIN reports :
            LET r == reports[i] IN
            /\ IsPrefix(r.statuses, AllRead(SubSeq(payload, r.from, r.to)))
            /\ Received(r.statuses) =>
                   /\ payload[r.from - 1].kind = "header"
                   /\ payload[r.from - 1].base = r.pkts[1].ext_tsn % Cycle
                   /\ payload[r.from - 1].count = Len(r.statuses) % Cycle

\* Reports follow each other without a hole: each begins at most one number after
\* the newest that was collected before, has a status for each number from there, and
\* goes up to the newest that arrived (build_transport_cc_packet).  The one hole is
\* what was collected for a report that panicked.
ReportsLeaveNoHole ==
    [][ \A i \in DOMAIN ext_info :
          reports' # reports /\ last_ext_sn # 0 /\ ext_info[i].ext_tsn > last_ext_sn =>
            LET pkts == Last(reports').pkts IN
            /\ pkts[1].ext_tsn = last_ext_sn + 1
            /\ \A j \in 1 .. Len(pkts) - 1 :
                  pkts[j + 1].ext_tsn - pkts[j].ext_tsn \in {0, 1}
            /\ last_ext_sn' >= ext_info[i].ext_tsn ]_vars

\* A packet that did not arrive is not reported received: the sender counts a
\* status for each number from the first of the report.  A packet that came twice
\* puts the statuses after it off by one.
NoLossIsHidden ==
    straddles = 0 /\ ~repeated =>
        \A i \in DOMAIN reports : \A j \in DOMAIN reports[i].statuses :
            reports[i].statuses[j] # NotReceived =>
                reports[i].pkts[1].ext_tsn + j - 1 \in arrived
=============================================================================
