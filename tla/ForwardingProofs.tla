-------------------------- MODULE ForwardingProofs --------------------------
(***************************************************************************)
(* Proofs about Forwarding: for any number of packets, subscribers and     *)
(* mutes, any length of the sequencer's ring and any size of the type.     *)
(***************************************************************************)
EXTENDS Forwarding, SequenceFacts

-----------------------------------------------------------------------------
(* Arithmetic of numbers that wrap.                                        *)

LEMMA ModFacts ==
    ASSUME NEW m \in Nat \ {0}, NEW x \in Int
    PROVE  /\ x % m \in 0 .. m - 1
           /\ \E q \in Int : x = (x % m) + m * q
<1>1. x % m \in 0 .. m - 1
  OBVIOUS
<1> DEFINE q == x \div m
           r == x % m
<1>2. q \in Int /\ r \in Int /\ m * q \in Int /\ x = m * q + r
  OBVIOUS
<1> HIDE DEF q, r
<1>3. x = r + m * q
  BY <1>2
<1> QED
  BY <1>1, <1>2, <1>3 DEF r

LEMMA NoMultipleBetween ==
    ASSUME NEW m \in Nat \ {0}, NEW q \in Int, -m < m * q, m * q < m
    PROVE  q = 0
<1>1. CASE q >= 1
  BY <1>1
<1>2. CASE q <= -1
  BY <1>2
<1> QED
  BY <1>1, <1>2

\* Numbers a multiple of m apart are the same modulo m.
LEMMA ModOfSum ==
    ASSUME NEW m \in Nat \ {0}, NEW x \in Int, NEW y \in Int, NEW q \in Int, x = y + m * q
    PROVE  x % m = y % m
<1> DEFINE X == x % m
           Y == y % m
<1>1. X \in 0 .. m - 1 /\ Y \in 0 .. m - 1
  BY ModFacts
<1>2. PICK r \in Int : x = X + m * r
  BY ModFacts
<1>3. PICK t \in Int : y = Y + m * t
  BY ModFacts
<1>4. PICK d \in Int : d = t + q - r
  OBVIOUS
<1>5. m * d = m * t + m * q - m * r
  BY <1>4
<1>6. m * r \in Int /\ m * t \in Int /\ m * q \in Int /\ m * d \in Int
  OBVIOUS
<1> HIDE DEF X, Y
<1>7. X - Y = m * d
  BY <1>1, <1>2, <1>3, <1>5, <1>6
<1>8. d = 0
  BY <1>1, <1>6, <1>7, NoMultipleBetween
<1>9. X - Y = 0
  BY <1>7, <1>8
<1> QED
  BY <1>1, <1>9 DEF X, Y

LEMMA ModSmall == ASSUME NEW m \in Nat \ {0}, NEW x \in 0 .. m - 1 PROVE x % m = x
OBVIOUS

LEMMA WidthFacts == MaxSN \in Nat \ {0} /\ MaxSN >= 2 /\ 0 \in SN
BY HalfSNAssumption DEF MaxSN, SN

LEMMA MinusType == ASSUME NEW a \in Int, NEW b \in Int PROVE Minus(a, b) \in SN
BY WidthFacts, ModFacts DEF Minus, SN

\* Minus takes differences modulo MaxSN.
LEMMA MinusSame ==
    ASSUME NEW a \in Int, NEW b \in Int, NEW c \in Int, NEW e \in Int, NEW q \in Int,
           a - b = c - e + MaxSN * q
    PROVE  Minus(a, b) = Minus(c, e)
<1>1. a - b \in Int /\ c - e \in Int
  OBVIOUS
<1>2. (a - b) % MaxSN = (c - e) % MaxSN
  BY <1>1, WidthFacts, ModOfSum
<1> QED
  BY <1>2 DEF Minus

LEMMA MinusParts ==
    ASSUME NEW a \in Int, NEW b \in Int
    PROVE  \E q \in Int : a - b = Minus(a, b) + MaxSN * q
<1>1. a - b \in Int
  OBVIOUS
<1> QED
  BY <1>1, WidthFacts, ModFacts DEF Minus

LEMMA MinusOfNumber == ASSUME NEW n \in SN PROVE Minus(n, 0) = n
BY WidthFacts, ModSmall DEF Minus, SN

\* A number stands for its place.
LEMMA MinusOfSource ==
    ASSUME NEW a \in Int, NEW b \in Int
    PROVE  /\ a % MaxSN \in SN
           /\ Minus(a % MaxSN, b) = Minus(a, b)
<1>1. a % MaxSN \in SN
  BY WidthFacts, ModFacts DEF SN
<1>2. PICK q \in Int : a = (a % MaxSN) + MaxSN * q
  BY WidthFacts, ModFacts
<1>3. a % MaxSN \in Int
  BY <1>1, WidthFacts DEF SN
<1>4. -q \in Int /\ MaxSN * (-q) = -(MaxSN * q)
  BY WidthFacts
<1>5. (a % MaxSN) - b = a - b + MaxSN * (-q)
  BY <1>2, <1>3, <1>4, WidthFacts
<1> QED
  BY <1>1, <1>3, <1>4, <1>5, MinusSame

\* Two places numbered with one offset are as far apart as their numbers.
LEMMA MinusSameOffset ==
    ASSUME NEW a \in Int, NEW b \in Int, NEW o \in Int, NEW n \in Int, NEW k \in Int,
           Minus(b, o) = Minus(n, k)
    PROVE  Minus(Minus(a, o), n - k) = Minus(a, b)
<1>1. PICK q \in Int : a - o = Minus(a, o) + MaxSN * q
  BY MinusParts
<1>2. PICK r \in Int : b - o = Minus(b, o) + MaxSN * r
  BY MinusParts
<1>3. PICK t \in Int : n - k = Minus(n, k) + MaxSN * t
  BY MinusParts
<1>4. Minus(a, o) \in Int /\ Minus(b, o) \in Int /\ Minus(n, k) \in Int /\ n - k \in Int
  BY MinusType, WidthFacts DEF SN
<1> DEFINE w == r - q - t
<1>5. w \in Int /\ MaxSN * w = MaxSN * r - MaxSN * q - MaxSN * t
  BY WidthFacts
<1>6. Minus(a, o) - (n - k) = a - b + MaxSN * w
  <2> HIDE DEF w
  <2>1. /\ MaxSN * w \in Int /\ MaxSN * r \in Int /\ MaxSN * q \in Int /\ MaxSN * t \in Int
    BY <1>5, WidthFacts
  <2> QED
    BY <1>1, <1>2, <1>3, <1>4, <1>5, <2>1
<1> HIDE DEF w
<1> QED
  BY <1>4, <1>5, <1>6, MinusSame

\* The offset that lets a follow the number n.
LEMMA MinusToFollow ==
    ASSUME NEW a \in Int, NEW n \in Int
    PROVE  Minus(a, Minus(a, n + 1)) = Minus(n + 1, 0)
<1>1. PICK q \in Int : a - (n + 1) = Minus(a, n + 1) + MaxSN * q
  BY MinusParts
<1>2. Minus(a, n + 1) \in Int
  BY MinusType, WidthFacts DEF SN
<1>3. MaxSN * q \in Int
  BY WidthFacts
<1>4. a - Minus(a, n + 1) = (n + 1) - 0 + MaxSN * q
  BY <1>1, <1>2, <1>3
<1> QED
  BY <1>2, <1>4, MinusSame

\* What is taken away by the offset comes back.
LEMMA MinusBack == ASSUME NEW a \in Int, NEW o \in SN PROVE Minus(a, Minus(a, o)) = o
<1>1. o \in Int /\ Minus(a, o) \in Int
  BY MinusType, WidthFacts DEF SN
<1>2. PICK q \in Int : a - o = Minus(a, o) + MaxSN * q
  BY <1>1, MinusParts
<1>3. MaxSN * q \in Int
  BY WidthFacts
<1>4. a - Minus(a, o) = o - 0 + MaxSN * q
  BY <1>1, <1>2, <1>3
<1> QED
  BY <1>1, <1>4, MinusSame, MinusOfNumber

\* A distance less than a cycle is the difference.
LEMMA MinusNear ==
    ASSUME NEW a \in Int, NEW b \in Int, NEW k \in SN, NEW q \in Int, a - b = k + MaxSN * q
    PROVE  Minus(a, b) = k
<1>1. k \in Int
  BY WidthFacts DEF SN
<1>2. Minus(a, b) = Minus(k, 0)
  BY <1>1, MinusSame
<1> QED
  BY <1>2, MinusOfNumber

\* Distances add up as long as they are less than a cycle.
LEMMA MinusSum ==
    ASSUME NEW a \in Int, NEW b \in Int, NEW c \in Int,
           Minus(a, b) + Minus(b, c) < MaxSN
    PROVE  Minus(a, c) = Minus(a, b) + Minus(b, c)
<1> DEFINE x == Minus(a, b)
           y == Minus(b, c)
<1>1. x \in SN /\ y \in SN
  BY MinusType
<1>2. PICK q \in Int : a - b = x + MaxSN * q
  BY MinusParts
<1>3. PICK r \in Int : b - c = y + MaxSN * r
  BY MinusParts
<1> HIDE DEF x, y
<1>4. x \in Nat /\ y \in Nat
  BY <1>1, WidthFacts DEF SN
<1>5. x + y \in SN
  BY <1>4, WidthFacts DEF SN, x, y
<1>6. PICK t \in Int : t = q + r
  OBVIOUS
<1>7. MaxSN * t = MaxSN * q + MaxSN * r
  BY <1>6, WidthFacts
<1>8. /\ MaxSN * q \in Int /\ MaxSN * r \in Int /\ MaxSN * t \in Int
  BY WidthFacts
<1>9. a - c = (x + y) + MaxSN * t
  BY <1>2, <1>3, <1>4, <1>7, <1>8
<1> QED
  BY <1>5, <1>9, MinusNear DEF x, y

\* The other way round.
LEMMA MinusOpposite ==
    ASSUME NEW a \in Int, NEW b \in Int, Minus(a, b) # 0
    PROVE  Minus(b, a) = MaxSN - Minus(a, b)
<1> DEFINE x == Minus(a, b)
<1>1. x \in SN
  BY MinusType
<1>2. PICK q \in Int : a - b = x + MaxSN * q
  BY MinusParts
<1> HIDE DEF x
<1>3. x \in Nat /\ MaxSN - x \in SN
  BY <1>1, WidthFacts DEF SN, x
<1>4. PICK t \in Int : t = -1 - q
  OBVIOUS
<1>5. MaxSN * t = -MaxSN - MaxSN * q /\ MaxSN * q \in Int /\ MaxSN * t \in Int
  BY <1>4, WidthFacts
<1>6. b - a = (MaxSN - x) + MaxSN * t
  BY <1>2, <1>3, <1>5, WidthFacts
<1> QED
  BY <1>3, <1>6, MinusNear DEF x

\* The number after n is one from it.
LEMMA MinusOfNext == ASSUME NEW n \in Int PROVE Minus(Minus(n + 1, 0), n) = 1
<1>1. PICK next \in Int : next = n + 1
  OBVIOUS
<1>2. Minus(Minus(next, 0), n - 0) = Minus(next, n)
  BY <1>1, MinusSameOffset
<1>3. 1 \in SN /\ next - n = 1 + MaxSN * 0
  BY <1>1, WidthFacts DEF SN
<1>4. Minus(next, n) = 1
  BY <1>3, MinusNear
<1>5. n - 0 = n
  OBVIOUS
<1> QED
  BY <1>1, <1>2, <1>4, <1>5

-----------------------------------------------------------------------------
(* The inductive invariant.                                                *)

\* The packet in hand is written to d, past the look at enabled.
InWrite(d)    == at # "check" /\ d = Head(todo)
Resyncing(d)  == at = "sync" /\ d = Head(todo)

\* Where the task is.
TaskInv ==
    /\ at # "check" => todo # <<>>
    /\ todo # <<>> => pkt \in Packets
    /\ failed + Len(todo) <= Len(down_tracks)

\* What re_sync says: a track that has been bound has it set or has sent
\* something; it is set after every pause, and only then.
SyncOf(d) ==
    /\ dt[d].enabled \/ dt[d].bound \/ InWrite(d) => ~NeverBound(d)
    /\ since[d] = "pause" => dt[d].re_sync /\ ~InWrite(d)
    /\ dt[d].re_sync /\ ~InWrite(d) => since[d] # "nothing"

\* ... and of the track that is written to.
SyncOfWrite ==
    /\ at # "check" /\ dt[Head(todo)].re_sync => before # "nothing"
    /\ at = "load" /\ before = "pause" => dt[Head(todo)].re_sync
    /\ at = "sync" => before # "nothing" /\ ~NeedsKeyFrame

SyncInv == SyncOfWrite /\ \A d \in Subscribers : SyncOf(d)

\* The places of the packets, as far as they have come.
PlaceInv ==
    /\ taken = 0 => newest = 0
    /\ todo # <<>> => pkt.ext <= newest /\ (pkt.head => pkt.ext = newest)
    /\ \A d \in Subscribers : \A i \in DOMAIN sent[d] : sent[d][i].pkt.ext <= newest

\* While overflow is checked, numbers do not go beyond the places they stand for.
NumberOf(d) ==
    LET s == dt[d].sequencer
    IN  /\ dt[d].sn_offset <= newest
        /\ s.init => s.head_sn + dt[d].sn_offset <= newest
        /\ dt[d].last_sn # 0 =>
              /\ s.init /\ s.head_sn = dt[d].last_sn
              /\ \E i \in DOMAIN sent[d] : dt[d].last_sn <= sent[d][i].pkt.ext

NumberInv == build = "debug" => \A d \in Subscribers : NumberOf(d)

\* ... nor timestamps beyond the times of what was sent, or is about to be.
Reached(d, t) == \E i \in DOMAIN sent[d] : t <= sent[d][i].pkt.time

TimeOf(d) ==
    /\ \/ ts[d].offset = 0
       \/ Reached(d, ts[d].offset)
       \/ Resyncing(d) /\ ts[d].offset <= pkt.time
    /\ dt[d].last_sn # 0 => Reached(d, ts[d].last)

TimeInv == build = "debug" => \A d \in Subscribers : TimeOf(d)

\* The last head sent to d was its h-th packet; the k-th was the last after a pause.
LastHead(d, h) ==
    h \in DOMAIN sent[d] /\ \A i \in DOMAIN sent[d] : i >= h => (sent[d][i].pkt.head <=> i = h)
NoneAfter(d, h, what) == \A i \in DOMAIN sent[d] : i > h => sent[d][i].since # what
LastPause(d, h, k) ==
    k \in DOMAIN sent[d] /\ k > h /\ sent[d][k].since = "pause" /\ NoneAfter(d, k, "pause")

\* What the offset is, unless a mute raced a write since the last head: that of
\* the last head, or the one that lets the packet after the pause follow it.
OffsetOf(d, h) ==
    LET p == sent[d][h]
    IN  /\ dt[d].last_sn = p.num
        /\ Resyncing(d) /\ p.num # 0 => Minus(pkt.ext, dt[d].sn_offset) = Minus(p.num + 1, 0)
        /\ ~Resyncing(d) /\ NoneAfter(d, h, "race") =>
              /\ NoneAfter(d, h, "pause") => Minus(p.pkt.ext, dt[d].sn_offset) = p.num
              /\ p.num # 0 =>
                    \A k \in DOMAIN sent[d] : LastPause(d, h, k) =>
                        Minus(sent[d][k].pkt.ext, dt[d].sn_offset) = Minus(p.num + 1, 0)

OffsetInv ==
    \A d \in Subscribers : \A h \in DOMAIN sent[d] : LastHead(d, h) => OffsetOf(d, h)

-----------------------------------------------------------------------------
(* The shape of the variables.                                             *)

Slots      == 0 .. MaxTrack - 1
Entries    == [src : Nat, num : SN]
Rings      == UNION {[slots -> Entries] : slots \in SUBSET Slots}
Sequencers == [init : BOOLEAN, max : {0, MaxTrack}, seq : Rings, step : Slots, head_sn : SN]
DownTracks == [enabled : BOOLEAN, bound : BOOLEAN, re_sync : BOOLEAN,
               sn_offset : SN, last_sn : SN, sequencer : Sequencers]
Sent       == [pkt : Packets, num : SN, since : Pauses]
Times      == [Subscribers -> [offset : TS, last : TS]]

\* TypeOK but for the down tracks, whose shape is DtType.
FlatType ==
    /\ build \in Builds
    /\ kind \in Kinds
    /\ forwarder \in {"running", "panicked"}
    /\ pkt \in Packets \cup {NoPkt}
    /\ todo \in Seq(Subscribers)
    /\ at \in {"check", "load", "sync"}
    /\ failed \in Nat
    /\ down_tracks \in Seq(Subscribers)
    /\ ts \in Times
    /\ gone \subseteq Subscribers
    /\ taken \in Nat /\ newest \in Nat /\ mutes \in Nat
    /\ since \in [Subscribers -> Pauses]
    /\ before \in Pauses
    /\ sent \in [Subscribers -> Seq(Sent)]

DtType == dt \in [Subscribers -> DownTracks]

TypeInv == FlatType /\ DtType

LEMMA SequencersAre == ASSUME NEW s PROVE IsSequencer(s) <=> s \in Sequencers
<1>1. ASSUME IsSequencer(s) PROVE s \in Sequencers
  <2>1. s.seq \in Rings
    BY <1>1 DEF IsSequencer, Rings, Entries, Slots
  <2> QED
    BY <1>1, <2>1 DEF IsSequencer, Sequencers, Slots
<1>2. ASSUME s \in Sequencers PROVE IsSequencer(s)
  <2>1. \E slots \in SUBSET Slots : s.seq \in [slots -> Entries]
    BY <1>2 DEF Sequencers, Rings
  <2>2. s \in [init : BOOLEAN, max : {0, MaxTrack}, seq : {s.seq}, step : Slots, head_sn : SN]
    BY <1>2 DEF Sequencers
  <2> QED
    BY <2>1, <2>2 DEF IsSequencer, Entries, Slots
<1> QED
  BY <1>1, <1>2

LEMMA DownTracksAre == ASSUME NEW t PROVE IsDownTrack(t) <=> t \in DownTracks
<1>1. IsSequencer(t.sequencer) <=> t.sequencer \in Sequencers
  BY SequencersAre
<1> QED
  BY <1>1 DEF IsDownTrack, DownTracks

LEMMA TypeIsTypeOK == TypeInv => TypeOK
<1> SUFFICES ASSUME TypeInv PROVE TypeOK
  OBVIOUS
<1>1. \A d \in Subscribers : IsDownTrack(dt[d])
  BY DownTracksAre DEF TypeInv, DtType
<1>2. dt = [d \in Subscribers |-> dt[d]]
  BY DEF TypeInv, DtType
<1> QED
  BY <1>1, <1>2 DEF TypeInv, FlatType, TypeOK, Sent, Times

LEMMA NewSequencerType == ASSUME NEW m \in {0, MaxTrack} PROVE NewSequencer(m) \in Sequencers
<1>1. <<>> \in Rings
  <2>1. <<>> \in [{} -> Entries] /\ {} \in SUBSET Slots
    OBVIOUS
  <2> QED
    BY <2>1 DEF Rings
<1>2. 0 \in Slots
  BY ForwardingAssumption DEF Slots
<1> QED
  BY <1>1, <1>2, WidthFacts DEF NewSequencer, Sequencers

LEMMA InsertType ==
    ASSUME NEW s \in Sequencers, NEW slot \in Slots, NEW src \in Nat, NEW num \in SN
    PROVE  /\ Insert(s, slot, src, num) \in Sequencers
           /\ Insert(s, slot, src, num).init = s.init
           /\ Insert(s, slot, src, num).head_sn = s.head_sn
<1> DEFINE entry == [src |-> src, num |-> num]
           ring  == [i \in DOMAIN s.seq \cup {slot} |-> IF i = slot THEN entry ELSE s.seq[i]]
<1>1. entry \in Entries
  BY DEF Entries
<1>2. PICK slots \in SUBSET Slots : s.seq \in [slots -> Entries]
  BY DEF Sequencers, Rings
<1>3. ring \in [slots \cup {slot} -> Entries] /\ slots \cup {slot} \in SUBSET Slots
  BY <1>1, <1>2
<1>4. ring \in Rings
  BY <1>3 DEF Rings
<1>5. NextStep(s, slot) \in Slots
  BY ForwardingAssumption DEF NextStep, Slots, Sequencers
<1>6. Insert(s, slot, src, num) = [s EXCEPT !.seq = ring, !.step = NextStep(s, slot)]
  BY DEF Insert
<1> HIDE DEF ring
<1> QED
  BY <1>4, <1>5, <1>6 DEF Sequencers

LEMMA InitializedType ==
    ASSUME NEW s \in Sequencers, NEW num \in SN
    PROVE  /\ Initialized(s, num) \in Sequencers
           /\ Initialized(s, num).init
           /\ Initialized(s, num).head_sn = IF s.init THEN s.head_sn ELSE num
BY DEF Initialized, Sequencers

LEMMA SkippedType ==
    ASSUME NEW s \in Sequencers, NEW n \in Int
    PROVE  Skipped(s, n) \in Slots
<1>1. s.step \in Slots /\ s.max \in {0, MaxTrack}
  BY DEF Sequencers
<1>2. CASE n <= 0 \/ s.max = 0
  BY <1>1, <1>2 DEF Skipped
<1>3. CASE ~(n <= 0 \/ s.max = 0)
  <2>1. s.step + n \in Int
    BY <1>1, ForwardingAssumption DEF Slots
  <2>2. (s.step + n) % MaxTrack \in Slots
    BY <2>1, ForwardingAssumption, ModFacts DEF Slots
  <2>3. Skipped(s, n) = (s.step + n) % MaxTrack
    BY <1>1, <1>3 DEF Skipped
  <2> QED
    BY <2>2, <2>3
<1> QED
  BY <1>2, <1>3

\* What push does to the sequencer, as far as numbers go.
LEMMA PushMetaType ==
    ASSUME NEW s \in Sequencers, NEW src \in Nat, NEW num \in SN, NEW head \in BOOLEAN
    PROVE  LET t == PushMeta(s, src, num, head)
           IN  /\ t \in Sequencers
               /\ t.init
               /\ t.head_sn = IF head \/ ~s.init THEN num ELSE s.head_sn
<1> DEFINE s0 == Initialized(s, num)
<1>1. s0 \in Sequencers /\ s0.init /\ s0.head_sn = IF s.init THEN s.head_sn ELSE num
  BY InitializedType
<1> HIDE DEF s0
<1>2. ASSUME head
      PROVE  LET t == PushHead(s0, src, num)
             IN  t \in Sequencers /\ t.init /\ t.head_sn = num
  <2>1. Minus(num, s0.head_sn) - 1 \in Int
    <3>1. s0.head_sn \in Int /\ num \in Int
      BY <1>1, WidthFacts DEF SN, Sequencers
    <3>2. Minus(num, s0.head_sn) \in SN
      BY <3>1, MinusType
    <3> QED
      BY <3>2, WidthFacts DEF SN
  <2>2. PICK slot \in Slots : slot = Skipped(s0, Minus(num, s0.head_sn) - 1)
    BY <1>1, <2>1, SkippedType
  <2>3. /\ Insert(s0, slot, src, num) \in Sequencers
        /\ Insert(s0, slot, src, num).init
    BY <1>1, InsertType
  <2>4. PushHead(s0, src, num) = [Insert(s0, slot, src, num) EXCEPT !.head_sn = num]
    BY <2>2 DEF PushHead
  <2> QED
    BY <2>3, <2>4 DEF Sequencers
<1>3. ASSUME ~head
      PROVE  LET t == PushLate(s0, src, num)
             IN  t \in Sequencers /\ t.init /\ t.head_sn = s0.head_sn
  <2>1. s0.step \in Slots
    BY <1>1 DEF Sequencers
  <2>2. /\ Insert(s0, s0.step, src, num) \in Sequencers
        /\ Insert(s0, s0.step, src, num).init
        /\ Insert(s0, s0.step, src, num).head_sn = s0.head_sn
    BY <1>1, <2>1, InsertType
  <2> QED
    BY <1>1, <2>2 DEF PushLate
<1>4. PushMeta(s, src, num, head) = IF head THEN PushHead(s0, src, num) ELSE PushLate(s0, src, num)
  BY DEF PushMeta, s0
<1> QED
  BY <1>1, <1>2, <1>3, <1>4

-----------------------------------------------------------------------------
(* The steps.                                                              *)

\* The next packet of the Buffer is p.
Arrives(p) ==
    /\ p.head => taken = 0 \/ newest <= p.ext
    /\ ~p.head => p.ext < newest
    /\ Read(p)

LEMMA NextCases ==
    ASSUME TypeInv, Next
    PROVE  \/ \E p \in Packets : Arrives(p)
           \/ Check
           \/ AskForKeyFrame
           \/ SetOffset
           \/ SetOffsetPanics
           \/ Send
           \/ SendPanics
           \/ DeleteDownTrack
           \/ \E d \in Subscribers : SubscriberStep(d)
<1>1. newest \in Nat
  BY DEF TypeInv, FlatType
<1>2. Heads \subseteq DOMAIN Time /\ (taken # 0 => \A e \in Heads : newest <= e)
  BY <1>1, ForwardingAssumption DEF Heads
<1>9. \A e \in DOMAIN Time : e \in Nat /\ Time[e] \in Nat
  BY ForwardingAssumption
<1>3. \A e \in Late : e \in DOMAIN Time /\ e \in Nat /\ e < newest
  <2>1. MaxLag \in Nat
    BY ForwardingAssumption, HalfSNAssumption
  <2> QED
    BY <1>1, <1>9, <2>1 DEF Late
<1>4. ASSUME NEW ext \in Heads, NEW key \in BOOLEAN, Read(ExtPacket(ext, TRUE, key))
      PROVE  \E p \in Packets : Arrives(p)
  <2> DEFINE p == ExtPacket(ext, TRUE, key)
  <2>1. p \in Packets /\ p.head /\ p.ext = ext
    BY <1>2, <1>9 DEF ExtPacket, Packets
  <2>2. Arrives(p)
    BY <1>2, <1>4, <2>1 DEF Arrives
  <2> QED
    BY <2>1, <2>2
<1>5. ASSUME NEW ext \in Late, NEW key \in BOOLEAN, Read(ExtPacket(ext, FALSE, key))
      PROVE  \E p \in Packets : Arrives(p)
  <2> DEFINE p == ExtPacket(ext, FALSE, key)
  <2>1. p \in Packets /\ ~p.head /\ p.ext = ext
    BY <1>3, <1>9 DEF ExtPacket, Packets
  <2>2. Arrives(p)
    BY <1>3, <1>5, <2>1 DEF Arrives
  <2> QED
    BY <2>1, <2>2
<1> QED
  BY <1>4, <1>5 DEF Next, ForwarderStep

\* A write is to one of the subscribers, of a packet.
LEMMA WriteFacts ==
    ASSUME TypeInv, TaskInv, todo # <<>>
    PROVE  /\ Head(todo) \in Subscribers
           /\ Tail(todo) \in Seq(Subscribers) /\ Len(Tail(todo)) = Len(todo) - 1
           /\ pkt \in Packets
           /\ Source(pkt) \in SN
           /\ dt[Head(todo)] \in DownTracks
           /\ NewSN(Head(todo)) \in SN
           /\ NewSN(Head(todo)) = Minus(pkt.ext, dt[Head(todo)].sn_offset)
<1> DEFINE d == Head(todo)
<1>1. d \in Subscribers /\ Tail(todo) \in Seq(Subscribers) /\ Len(Tail(todo)) = Len(todo) - 1
  BY HeadTailProperties DEF TypeInv, FlatType
<1>2. pkt \in Packets /\ pkt.ext \in Int
  BY DEF TaskInv, Packets
<1>3. dt[d] \in DownTracks /\ dt[d].sn_offset \in Int
  BY <1>1, WidthFacts DEF TypeInv, DtType, DownTracks, SN
<1>4. Source(pkt) \in SN /\ Minus(Source(pkt), dt[d].sn_offset) = Minus(pkt.ext, dt[d].sn_offset)
  BY <1>2, <1>3, MinusOfSource DEF Source
<1>5. Minus(pkt.ext, dt[d].sn_offset) \in SN
  BY <1>2, <1>3, MinusType
<1> HIDE DEF d
<1> QED
  BY <1>1, <1>2, <1>3, <1>4, <1>5 DEF NewSN, d

\* What a packet leaves behind in the down track it was written to.
LEMMA SendFacts ==
    ASSUME TypeInv, TaskInv, Send
    PROVE  LET d == Head(todo)
               s == dt[d].sequencer
               t == dt'[d].sequencer
               e == [pkt |-> pkt, num |-> NewSN(d), since |-> before]
           IN  /\ DtType'
               /\ sent' \in [Subscribers -> Seq(Sent)] /\ e \in Sent
               /\ sent'[d] = Append(sent[d], e)
               /\ \A x \in Subscribers \ {d} : dt'[x] = dt[x] /\ sent'[x] = sent[x]
               /\ dt'[d].enabled = dt[d].enabled /\ dt'[d].bound = dt[d].bound
               /\ dt'[d].sn_offset = dt[d].sn_offset
               /\ dt'[d].re_sync = (at # "sync" /\ dt[d].re_sync)
               /\ dt'[d].last_sn = IF pkt.head THEN NewSN(d) ELSE dt[d].last_sn
               /\ t = PushMeta(s, pkt.ext, NewSN(d), pkt.head)
               /\ t.init
               /\ t.head_sn = IF pkt.head \/ ~s.init THEN NewSN(d) ELSE s.head_sn
<1> DEFINE d == Head(todo)
           s == dt[d].sequencer
           n == NewSN(d)
           t == PushMeta(s, pkt.ext, n, pkt.head)
           e == [pkt |-> pkt, num |-> n, since |-> before]
<1>1. todo # <<>>
  BY DEF Send, ReadyToSend, Writing
<1>2. /\ d \in Subscribers /\ pkt \in Packets /\ dt[d] \in DownTracks /\ n \in SN
  BY <1>1, WriteFacts
<1>3. /\ pkt.ext \in Nat /\ pkt.head \in BOOLEAN /\ s \in Sequencers
  BY <1>2 DEF Packets, DownTracks
<1>4. t \in Sequencers /\ t.init /\ t.head_sn = IF pkt.head \/ ~s.init THEN n ELSE s.head_sn
  BY <1>2, <1>3, PushMetaType
<1>5. dt \in [Subscribers -> DownTracks] /\ sent \in [Subscribers -> Seq(Sent)] /\ e \in Sent
  BY <1>2 DEF TypeInv, DtType, FlatType, Sent
<1>6. /\ dt' = [dt EXCEPT ![d].re_sync = IF at = "sync" THEN FALSE ELSE dt[d].re_sync,
                          ![d].sequencer = t,
                          ![d].last_sn = IF pkt.head THEN n ELSE dt[d].last_sn]
      /\ sent' = [sent EXCEPT ![d] = Append(sent[d], e)]
  BY DEF Send
<1> HIDE DEF d, s, n, t, e
<1>7. /\ dt'[d] = [dt[d] EXCEPT !.re_sync = IF at = "sync" THEN FALSE ELSE dt[d].re_sync,
                               !.sequencer = t,
                               !.last_sn = IF pkt.head THEN n ELSE dt[d].last_sn]
      /\ \A x \in Subscribers \ {d} : dt'[x] = dt[x]
      /\ dt' = [x \in Subscribers |-> dt'[x]]
  BY <1>2, <1>5, <1>6
<1>8. /\ dt'[d] \in DownTracks
      /\ dt'[d].enabled = dt[d].enabled /\ dt'[d].bound = dt[d].bound
      /\ dt'[d].sn_offset = dt[d].sn_offset
      /\ dt'[d].re_sync = (at # "sync" /\ dt[d].re_sync)
      /\ dt'[d].last_sn = IF pkt.head THEN n ELSE dt[d].last_sn
      /\ dt'[d].sequencer = t
  BY <1>2, <1>3, <1>4, <1>7 DEF DownTracks
<1>9. dt' \in [Subscribers -> DownTracks]
  BY <1>5, <1>7, <1>8
<1>10. /\ sent' \in [Subscribers -> Seq(Sent)] /\ sent'[d] = Append(sent[d], e)
       /\ \A x \in Subscribers \ {d} : sent'[x] = sent[x]
  <2>1. Append(sent[d], e) \in Seq(Sent)
    BY <1>2, <1>5, AppendFacts
  <2> QED
    BY <1>2, <1>5, <1>6, <2>1
<1> QED
  BY <1>4, <1>5, <1>7, <1>8, <1>9, <1>10 DEF DtType, d, s, n, t, e

LEMMA SetOffsetFacts ==
    ASSUME TypeInv, TaskInv, SetOffset
    PROVE  LET d == Head(todo)
           IN  /\ dt' \in [Subscribers -> DownTracks]
               /\ \A x \in Subscribers \ {d} : dt'[x] = dt[x]
               /\ dt'[d] = [dt[d] EXCEPT !.sn_offset = OffsetAfterPause(d)]
               /\ OffsetAfterPause(d) \in SN
<1> DEFINE d == Head(todo)
<1>1. todo # <<>>
  BY DEF SetOffset, Writing
<1>2. d \in Subscribers /\ dt[d] \in DownTracks /\ Source(pkt) \in SN
  BY <1>1, WriteFacts
<1>3. OffsetAfterPause(d) \in SN
  <2>1. dt[d].last_sn \in SN /\ dt[d].sn_offset \in SN
    BY <1>2 DEF DownTracks
  <2>2. Source(pkt) \in Int /\ dt[d].last_sn + 1 \in Int
    BY <1>2, <2>1, WidthFacts DEF SN
  <2>3. Minus(Source(pkt), dt[d].last_sn + 1) \in SN
    BY <2>2, MinusType
  <2> QED
    BY <2>1, <2>3 DEF OffsetAfterPause
<1>4. dt' = [dt EXCEPT ![d].sn_offset = OffsetAfterPause(d)]
  BY DEF SetOffset
<1>5. dt \in [Subscribers -> DownTracks]
  BY DEF TypeInv, DtType
<1> HIDE DEF d
<1>6. /\ \A x \in Subscribers \ {d} : dt'[x] = dt[x]
      /\ dt'[d] = [dt[d] EXCEPT !.sn_offset = OffsetAfterPause(d)]
  BY <1>2, <1>4, <1>5
<1>7. dt'[d] \in DownTracks
  BY <1>2, <1>3, <1>6 DEF DownTracks
<1>8. dt' \in [Subscribers -> DownTracks]
  BY <1>4, <1>5, <1>6, <1>7
<1> QED
  BY <1>3, <1>6, <1>8 DEF d

LEMMA TimestampTypes == 0 \in TS /\ TS \subseteq Nat /\ MaxTS \in Nat \ {0}
BY ForwardingAssumption DEF TS

LEMMA TimestampFacts ==
    ASSUME NEW p \in Packets
    PROVE  /\ p.time \in Nat /\ Timestamp(p) \in TS /\ Timestamp(p) \in Nat
           /\ Timestamp(p) <= p.time
           /\ p.time < MaxTS => Timestamp(p) = p.time
<1>1. \A x \in Nat, m \in Nat \ {0} : x % m \in 0 .. m - 1 /\ x % m <= x /\ (x < m => x % m = x)
  OBVIOUS
<1>2. p.time \in Nat
  BY DEF Packets
<1> QED
  BY <1>1, <1>2, TimestampTypes DEF Timestamp, TS

LEMMA MinusTSFacts ==
    ASSUME NEW a \in Nat, NEW b \in Nat
    PROVE  /\ MinusTS(a, b) \in TS
           /\ a < MaxTS /\ b <= a => MinusTS(a, b) = a - b
<1>1. (a - b) % MaxTS \in TS
  BY TimestampTypes, ModFacts DEF TS
<1>2. a < MaxTS /\ b <= a => a - b \in 0 .. MaxTS - 1
  BY TimestampTypes
<1>3. a - b \in 0 .. MaxTS - 1 => (a - b) % MaxTS = a - b
  BY TimestampTypes, ModSmall
<1> QED
  BY <1>1, <1>2, <1>3 DEF MinusTS

\* What the steps of a write leave behind in the times of the track.
LEMMA TimesFacts ==
    ASSUME TypeInv, TaskInv, SetOffset \/ Send
    PROVE  LET d == Head(todo)
           IN  /\ ts' \in Times
               /\ \A x \in Subscribers \ {d} : ts'[x] = ts[x]
               /\ SetOffset => ts'[d].offset = TsOffsetAfterPause(d) /\ ts'[d].last = ts[d].last
               /\ Send => /\ ts'[d].offset = ts[d].offset
                          /\ ts'[d].last = IF pkt.head THEN NewTS(d) ELSE ts[d].last
<1> DEFINE d == Head(todo)
<1>1. todo # <<>>
  BY DEF SetOffset, Send, ReadyToSend, Writing
<1>2. d \in Subscribers /\ pkt \in Packets
  BY <1>1, WriteFacts
<1>3. ts \in Times /\ Timestamp(pkt) \in Nat /\ ts[d].offset \in TS /\ ts[d].last \in TS
  <2>1. ts \in Times
    BY DEF TypeInv, FlatType
  <2>2. ts[d] \in [offset : TS, last : TS]
    BY <1>2, <2>1 DEF Times
  <2>3. Timestamp(pkt) \in Nat
    BY <1>2, TimestampFacts
  <2> QED
    BY <2>1, <2>2, <2>3
<1>4. TsOffsetAfterPause(d) \in TS /\ NewTS(d) \in TS
  <2>1. ts[d].last \in Nat /\ ts[d].offset \in Nat
    BY <1>3, TimestampTypes
  <2>2. ts[d].last + 1 \in Nat
    BY <2>1
  <2>3. /\ MinusTS(Timestamp(pkt), ts[d].last + 1) \in TS
        /\ MinusTS(Timestamp(pkt), ts[d].offset) \in TS
    BY <1>3, <2>1, <2>2, MinusTSFacts
  <2> QED
    BY <1>3, <2>3 DEF TsOffsetAfterPause, NewTS
<1>5. CASE SetOffset
  <2>1. ts' = [ts EXCEPT ![d].offset = TsOffsetAfterPause(d)] /\ ~Send
    BY <1>5 DEF SetOffset, Send, ReadyToSend, Writing
  <2> HIDE DEF d
  <2> QED
    BY <1>2, <1>3, <1>4, <2>1 DEF Times, d
<1>6. CASE Send
  <2>1. ts' = IF pkt.head THEN [ts EXCEPT ![d].last = NewTS(d)] ELSE ts
    BY <1>6 DEF Send
  <2>2. ~SetOffset
    BY <1>6 DEF SetOffset, Send, ReadyToSend, Writing
  <2> HIDE DEF d
  <2>3. /\ ts' \in Times
        /\ \A x \in Subscribers \ {d} : ts'[x] = ts[x]
        /\ ts'[d].offset = ts[d].offset
        /\ ts'[d].last = IF pkt.head THEN NewTS(d) ELSE ts[d].last
    BY <1>2, <1>3, <1>4, <2>1 DEF Times
  <2> QED
    BY <1>6, <2>2, <2>3 DEF d
<1> QED
  BY <1>5, <1>6

\* A step of one subscriber leaves the down tracks of the others alone.
OthersStay(d) ==
    /\ DtType'
    /\ \A x \in Subscribers \ {d} : dt'[x] = dt[x] /\ since'[x] = since[x]
    /\ dt'[d].sn_offset = dt[d].sn_offset /\ dt'[d].last_sn = dt[d].last_sn

LEMMA BindFacts ==
    ASSUME TypeInv, NEW d \in Subscribers, Bind(d)
    PROVE  /\ OthersStay(d)
           /\ dt'[d].enabled /\ dt'[d].bound /\ dt'[d].re_sync
           /\ dt'[d].sequencer \in {dt[d].sequencer, NewSequencer(MaxTrack)}
           /\ since'[d] = "pause" /\ since' \in [Subscribers -> Pauses]
<1> DEFINE s == IF kind = "video" THEN NewSequencer(MaxTrack) ELSE dt[d].sequencer
           t == [dt[d] EXCEPT !.enabled = TRUE, !.re_sync = TRUE, !.bound = TRUE,
                              !.sequencer = s]
<1>1. dt \in [Subscribers -> DownTracks] /\ since \in [Subscribers -> Pauses]
  BY DEF TypeInv, DtType, FlatType
<1>2. s \in Sequencers /\ s \in {dt[d].sequencer, NewSequencer(MaxTrack)}
  BY <1>1, NewSequencerType DEF DownTracks
<1>3. dt' = [dt EXCEPT ![d] = t]
  BY <1>1 DEF Bind
<1> HIDE DEF s
<1>4. /\ t \in DownTracks /\ t.enabled /\ t.bound /\ t.re_sync /\ t.sequencer = s
      /\ t.sn_offset = dt[d].sn_offset /\ t.last_sn = dt[d].last_sn
  BY <1>1, <1>2 DEF DownTracks
<1> HIDE DEF t
<1>5. DtType' /\ dt'[d] = t /\ \A x \in Subscribers \ {d} : dt'[x] = dt[x]
  BY <1>1, <1>3, <1>4 DEF DtType
<1>6. since' = [since EXCEPT ![d] = "pause"]
  BY DEF Bind
<1> QED
  BY <1>1, <1>2, <1>4, <1>5, <1>6 DEF OthersStay, Pauses

LEMMA MuteFacts ==
    ASSUME TypeInv, NEW d \in Subscribers, Mute(d)
    PROVE  /\ OthersStay(d)
           /\ ~dt'[d].enabled /\ dt'[d].re_sync /\ dt'[d].bound = dt[d].bound
           /\ dt'[d].sequencer = dt[d].sequencer
           /\ since'[d] = IF MayClear(d) THEN "race" ELSE "pause"
           /\ since' \in [Subscribers -> Pauses] /\ before' \in Pauses
<1> DEFINE t == [dt[d] EXCEPT !.enabled = FALSE, !.re_sync = TRUE]
<1>1. dt \in [Subscribers -> DownTracks] /\ since \in [Subscribers -> Pauses]
  BY DEF TypeInv, DtType, FlatType
<1>2. dt' = [dt EXCEPT ![d] = t]
  BY <1>1 DEF Mute
<1>3. /\ t \in DownTracks /\ ~t.enabled /\ t.bound = dt[d].bound /\ t.re_sync
      /\ t.sequencer = dt[d].sequencer
      /\ t.sn_offset = dt[d].sn_offset /\ t.last_sn = dt[d].last_sn
  BY <1>1 DEF DownTracks
<1> HIDE DEF t
<1>4. DtType' /\ dt'[d] = t /\ \A x \in Subscribers \ {d} : dt'[x] = dt[x]
  BY <1>1, <1>2, <1>3 DEF DtType
<1>5. since' = [since EXCEPT ![d] = IF MayClear(d) THEN "race" ELSE "pause"]
  BY DEF Mute
<1>6. before' \in Pauses
  BY DEF Mute, Pauses, TypeInv, FlatType
<1> QED
  BY <1>1, <1>3, <1>4, <1>5, <1>6 DEF OthersStay, Pauses

LEMMA UnmuteFacts ==
    ASSUME TypeInv, NEW d \in Subscribers, Unmute(d)
    PROVE  /\ OthersStay(d)
           /\ dt'[d].re_sync = dt[d].re_sync /\ dt'[d].bound = dt[d].bound
           /\ dt'[d].sequencer = dt[d].sequencer
<1> DEFINE t == [dt[d] EXCEPT !.enabled = TRUE]
<1>1. dt \in [Subscribers -> DownTracks]
  BY DEF TypeInv, DtType
<1>2. dt' = [dt EXCEPT ![d] = t] /\ since' = since
  BY <1>1 DEF Unmute, history
<1>3. /\ t \in DownTracks /\ t.bound = dt[d].bound /\ t.re_sync = dt[d].re_sync
      /\ t.sequencer = dt[d].sequencer
      /\ t.sn_offset = dt[d].sn_offset /\ t.last_sn = dt[d].last_sn
  BY <1>1 DEF DownTracks
<1> HIDE DEF t
<1>4. DtType' /\ dt'[d] = t /\ \A x \in Subscribers \ {d} : dt'[x] = dt[x]
  BY <1>1, <1>2, <1>3 DEF DtType
<1> QED
  BY <1>2, <1>3, <1>4 DEF OthersStay

\* Whether a track is bound changes, and nothing else of it.
LEMMA BoundFacts ==
    ASSUME TypeInv, NEW d \in Subscribers, NEW b \in BOOLEAN,
           dt' = [dt EXCEPT ![d] = [@ EXCEPT !.bound = b]], since' = since
    PROVE  /\ OthersStay(d)
           /\ dt'[d].enabled = dt[d].enabled /\ dt'[d].re_sync = dt[d].re_sync
           /\ dt'[d].sequencer = dt[d].sequencer /\ dt'[d].bound = b
<1> DEFINE t == [dt[d] EXCEPT !.bound = b]
<1>1. dt \in [Subscribers -> DownTracks]
  BY DEF TypeInv, DtType
<1>2. /\ t \in DownTracks /\ t.enabled = dt[d].enabled /\ t.re_sync = dt[d].re_sync
      /\ t.sequencer = dt[d].sequencer /\ t.bound = b
      /\ t.sn_offset = dt[d].sn_offset /\ t.last_sn = dt[d].last_sn
  BY <1>1 DEF DownTracks
<1>3. dt' = [dt EXCEPT ![d] = t]
  BY <1>1
<1> HIDE DEF t
<1>4. DtType' /\ dt'[d] = t /\ \A x \in Subscribers \ {d} : dt'[x] = dt[x]
  BY <1>1, <1>2, <1>3 DEF DtType
<1> QED
  BY <1>2, <1>4 DEF OthersStay

LEMMA DisconnectFacts ==
    ASSUME TypeInv, NEW d \in Subscribers, Disconnect(d)
    PROVE  /\ OthersStay(d)
           /\ dt'[d].enabled = dt[d].enabled /\ dt'[d].re_sync = dt[d].re_sync
           /\ dt'[d].sequencer = dt[d].sequencer
<1>1. PICK b \in BOOLEAN : dt' = [dt EXCEPT ![d].bound = b]
  BY DEF Disconnect
<1>2. dt' = [dt EXCEPT ![d] = [@ EXCEPT !.bound = b]] /\ since' = since
  BY <1>1 DEF Disconnect, history
<1> QED
  BY <1>2, BoundFacts

\* A deletion leaves all but bound as it is, and bound may only be given up.
LEMMA DeleteFacts ==
    ASSUME TypeInv, TaskInv, DeleteDownTrack
    PROVE  /\ down_tracks # <<>>
           /\ down_tracks' = Tail(down_tracks) /\ forwarder' = forwarder
           /\ DtType'
           /\ \A d \in Subscribers :
                 /\ dt'[d].enabled = dt[d].enabled /\ dt'[d].re_sync = dt[d].re_sync
                 /\ dt'[d].sequencer = dt[d].sequencer
                 /\ dt'[d].sn_offset = dt[d].sn_offset /\ dt'[d].last_sn = dt[d].last_sn
                 /\ dt'[d].bound => dt[d].bound
<1>1. down_tracks # <<>>
  <2>1. failed > 0 /\ failed \in Nat /\ todo = <<>> /\ Len(<<>>) = 0
    BY DEF DeleteDownTrack, TypeInv, FlatType
  <2> QED
    BY <2>1 DEF TaskInv
<1>2. dt \in [Subscribers -> DownTracks]
  BY DEF TypeInv, DtType
<1>3. ASSUME NEW d \in Subscribers
      PROVE  \/ dt'[d] = dt[d]
             \/ dt'[d] = [dt[d] EXCEPT !.bound = FALSE]
  BY DEF DeleteDownTrack
<1>4. ASSUME NEW d \in Subscribers
      PROVE  /\ dt'[d] \in DownTracks
             /\ dt'[d].enabled = dt[d].enabled /\ dt'[d].re_sync = dt[d].re_sync
             /\ dt'[d].sequencer = dt[d].sequencer
             /\ dt'[d].sn_offset = dt[d].sn_offset /\ dt'[d].last_sn = dt[d].last_sn
             /\ dt'[d].bound => dt[d].bound
  <2>1. dt[d] \in DownTracks
    BY <1>2
  <2>2. CASE dt'[d] = dt[d]
    BY <2>1, <2>2
  <2>3. CASE dt'[d] = [dt[d] EXCEPT !.bound = FALSE]
    BY <2>1, <2>3 DEF DownTracks
  <2> QED
    BY <1>3, <2>2, <2>3
<1>5. dt' = [d \in Subscribers |-> dt'[d]]
  BY DEF DeleteDownTrack
<1>6. DtType'
  BY <1>4, <1>5 DEF DtType
<1> QED
  BY <1>1, <1>4, <1>6 DEF DeleteDownTrack, AfterDelete

-----------------------------------------------------------------------------
(* The shape is kept, and with it where the task is.                       *)

LEMMA TypeInit == Init => TypeInv /\ TaskInv
<1> SUFFICES ASSUME Init PROVE TypeInv /\ TaskInv
  OBVIOUS
<1>1. NewSequencer(0) \in Sequencers
  BY NewSequencerType
<1>2. DtType
  BY <1>1, WidthFacts DEF Init, DtType, DownTracks
<1>3. <<>> \in Seq(Subscribers) /\ <<>> \in Seq(Sent) /\ Len(<<>>) = 0
  OBVIOUS
<1>4. FlatType
  BY <1>3, TimestampTypes DEF Init, FlatType, Pauses, Times
<1> QED
  BY <1>2, <1>3, <1>4 DEF TypeInv, Init, TaskInv

LEMMA TypeNext == TypeInv /\ TaskInv /\ [Next]_vars => TypeInv' /\ TaskInv'
<1> SUFFICES ASSUME TypeInv, TaskInv, [Next]_vars PROVE TypeInv' /\ TaskInv'
  OBVIOUS
<1> USE DEF TypeInv
<1>1. CASE UNCHANGED vars
  BY <1>1 DEF vars, FlatType, DtType, TaskInv
<1>2. ASSUME NEW p \in Packets, Arrives(p) PROVE TypeInv' /\ TaskInv'
  <2>1. p.ext \in Nat /\ p.head \in BOOLEAN
    BY DEF Packets
  <2>2. FlatType' /\ DtType'
    BY <1>2, <2>1 DEF Arrives, Read, FlatType, DtType
  <2>3. TaskInv'
    BY <1>2 DEF Arrives, Read, TaskInv, FlatType
  <2> QED
    BY <2>2, <2>3
<1>3. ASSUME todo # <<>>, NextDownTrack, failed' \in {failed, failed + 1},
             DtType', UNCHANGED <<build, kind, forwarder, pkt, down_tracks, gone, taken,
                                  newest, mutes>>,
             ts' \in Times, since' \in [Subscribers -> Pauses], before' \in Pauses,
             sent' \in [Subscribers -> Seq(Sent)]
      PROVE  TypeInv' /\ TaskInv'
  <2>1. /\ Tail(todo) \in Seq(Subscribers) /\ Len(Tail(todo)) = Len(todo) - 1
        /\ pkt \in Packets
    BY <1>3, WriteFacts
  <2>2. FlatType'
    BY <1>3, <2>1 DEF FlatType, NextDownTrack
  <2>3. Len(todo) \in Nat /\ Len(down_tracks) \in Nat /\ failed \in Nat
    BY LenProperties DEF FlatType
  <2>4. TaskInv'
    BY <1>3, <2>1, <2>3 DEF TaskInv, NextDownTrack
  <2> QED
    BY <1>3, <2>2, <2>4
<1>4. CASE Check
  <2>1. todo # <<>>
    BY <1>4 DEF Check, Writing
  <2>2. CASE dt[Head(todo)].enabled /\ dt[Head(todo)].bound
    <3>1. Head(todo) \in Subscribers
      BY <2>1, WriteFacts
    <3>2. since' \in [Subscribers -> Pauses] /\ before' \in Pauses
      BY <1>4, <2>2, <3>1 DEF Check, FlatType, Pauses
    <3>3. FlatType' /\ DtType' /\ TaskInv'
      BY <1>4, <2>1, <2>2, <3>2 DEF Check, FlatType, DtType, TaskInv
    <3> QED
      BY <3>3
  <2>3. CASE ~(dt[Head(todo)].enabled /\ dt[Head(todo)].bound)
    BY <1>3, <1>4, <2>1, <2>3 DEF Check, FlatType, DtType
  <2> QED
    BY <2>2, <2>3
<1>5. CASE AskForKeyFrame
  <2>1. todo # <<>>
    BY <1>5 DEF AskForKeyFrame, Writing
  <2>2. since' \in [Subscribers -> Pauses]
    <3>1. since' = [since EXCEPT ![Head(todo)] =
                       IF since[Head(todo)] = "nothing" THEN before ELSE since[Head(todo)]]
      BY <1>5, <2>1, WriteFacts DEF AskForKeyFrame, FlatType
    <3>2. Head(todo) \in Subscribers
      BY <2>1, WriteFacts
    <3> QED
      BY <3>1, <3>2 DEF FlatType
  <2> QED
    BY <1>3, <1>5, <2>1, <2>2 DEF AskForKeyFrame, FlatType, DtType
<1>6. CASE SetOffset
  <2>1. DtType'
    BY <1>6, SetOffsetFacts DEF DtType
  <2>2. FlatType' /\ TaskInv'
    BY <1>6, TimesFacts DEF SetOffset, Writing, FlatType, TaskInv, history
  <2> QED
    BY <2>1, <2>2
<1>7. CASE SetOffsetPanics \/ SendPanics
  BY <1>7 DEF SetOffsetPanics, SendPanics, Panic, FlatType, DtType, TaskInv, history
<1>8. CASE Send
  <2>1. DtType' /\ sent' \in [Subscribers -> Seq(Sent)] /\ ts' \in Times
    BY <1>8, SendFacts, TimesFacts
  <2>2. todo # <<>> /\ failed' \in {failed, failed + 1}
    BY <1>8 DEF Send, ReadyToSend, Writing
  <2>3. NextDownTrack /\ UNCHANGED <<build, kind, forwarder, pkt, down_tracks, gone,
                                     taken, newest, mutes, since, before>>
    BY <1>8 DEF Send
  <2> QED
    BY <1>3, <2>1, <2>2, <2>3 DEF FlatType
<1>9. CASE DeleteDownTrack
  <2>1. /\ DtType' /\ down_tracks # <<>> /\ down_tracks' = Tail(down_tracks)
        /\ forwarder' = forwarder
    BY <1>9, DeleteFacts
  <2>2. /\ Tail(down_tracks) \in Seq(Subscribers)
        /\ Len(Tail(down_tracks)) = Len(down_tracks) - 1 /\ Len(down_tracks) \in Nat
    BY <2>1, TailFacts DEF FlatType
  <2>3. failed > 0 /\ failed' = failed - 1 /\ failed \in Nat
    BY <1>9 DEF DeleteDownTrack, FlatType
  <2>4. FlatType'
    <3>1. /\ failed' \in Nat /\ down_tracks' \in Seq(Subscribers)
          /\ UNCHANGED <<build, kind, pkt, todo, at, ts, gone, history>>
      BY <1>9, <2>1, <2>2, <2>3 DEF DeleteDownTrack
    <3> QED
      BY <2>1, <3>1 DEF FlatType, history
  <2>5. TaskInv'
    BY <1>9, <2>1, <2>2, <2>3 DEF DeleteDownTrack, TaskInv
  <2> QED
    BY <2>1, <2>4, <2>5
<1>10. ASSUME NEW d \in Subscribers, SubscriberStep(d) PROVE TypeInv' /\ TaskInv'
  <2>1. CASE AddDownTrack(d)
    <3>1. /\ Append(down_tracks, d) \in Seq(Subscribers)
          /\ Len(Append(down_tracks, d)) = Len(down_tracks) + 1 /\ Len(down_tracks) \in Nat
      BY AppendFacts DEF FlatType
    <3>2. FlatType' /\ DtType'
      BY <2>1, <3>1 DEF AddDownTrack, FlatType, DtType, history
    <3>3. TaskInv'
      BY <2>1, <3>1 DEF AddDownTrack, TaskInv, FlatType
    <3> QED
      BY <3>2, <3>3
  <2>2. CASE Bind(d)
    <3>1. DtType' /\ since' \in [Subscribers -> Pauses]
      BY <2>2, BindFacts DEF OthersStay
    <3>2. FlatType' /\ TaskInv'
      BY <2>2, <3>1 DEF Bind, FlatType, TaskInv
    <3> QED
      BY <3>1, <3>2
  <2>3. CASE Mute(d)
    <3>1. DtType' /\ since' \in [Subscribers -> Pauses] /\ before' \in Pauses
      BY <2>3, MuteFacts DEF OthersStay
    <3>2. /\ UNCHANGED <<build, kind, forwarder, pkt, todo, at, failed, down_tracks, ts,
                           gone, taken, newest, sent>>
          /\ mutes' = mutes + 1
      BY <2>3 DEF Mute
    <3>3. FlatType'
      BY <3>1, <3>2 DEF FlatType
    <3>4. TaskInv'
      BY <3>2 DEF TaskInv
    <3> QED
      BY <3>1, <3>3, <3>4
  <2>4. CASE Unmute(d)
    <3>1. DtType'
      BY <2>4, UnmuteFacts DEF OthersStay
    <3>2. FlatType' /\ TaskInv'
      BY <2>4 DEF Unmute, FlatType, TaskInv, history
    <3> QED
      BY <3>1, <3>2
  <2>5. CASE Disconnect(d)
    <3>1. DtType'
      BY <2>5, DisconnectFacts DEF OthersStay
    <3>2. FlatType' /\ TaskInv'
      BY <2>5 DEF Disconnect, FlatType, TaskInv, history
    <3> QED
      BY <3>1, <3>2
  <2> QED
    BY <1>10, <2>1, <2>2, <2>3, <2>4, <2>5 DEF SubscriberStep
<1> QED
  BY <1>1, <1>2, <1>4, <1>5, <1>6, <1>7, <1>8, <1>9, <1>10, NextCases

LEMMA TypeInvariant == Spec => [](TypeInv /\ TaskInv)
BY TypeInit, TypeNext, PTL DEF Spec

\* Every variable keeps its type: the numbers of a down track and of its
\* sequencer stay in a u16, the index of the sequencer in its ring, over any
\* wraps, pauses and late packets (write_simple_rtp, AtomicSequencer::push).
THEOREM TypeCorrect == Spec => []TypeOK
BY TypeInvariant, TypeIsTypeOK, PTL

-----------------------------------------------------------------------------
(* Pauses end with a key frame.                                            *)

LEMMA SyncInit == Init => SyncInv /\ KeyFrameFirst
BY DEF Init, SyncInv, SyncOf, SyncOfWrite, InWrite, KeyFrameFirst

\* A step that changes nothing of d and of the write keeps what SyncOf says of d.
LEMMA SyncStays ==
    ASSUME NEW d \in Subscribers, SyncOf(d), dt'[d] = dt[d], since'[d] = since[d],
           sent'[d] = sent[d], InWrite(d)' = InWrite(d)
    PROVE  SyncOf(d)'
BY DEF SyncOf, NeverBound

LEMMA SyncNext ==
    TypeInv /\ TaskInv /\ SyncInv /\ KeyFrameFirst /\ [Next]_vars => SyncInv' /\ KeyFrameFirst'
<1> SUFFICES ASSUME TypeInv, TaskInv, SyncInv, KeyFrameFirst, [Next]_vars
             PROVE  SyncInv' /\ KeyFrameFirst'
  OBVIOUS
<1>1. CASE UNCHANGED vars
  BY <1>1 DEF vars, SyncInv, SyncOf, SyncOfWrite, InWrite, NeverBound, NeedsKeyFrame, KeyFrameFirst
<1>2. ASSUME UNCHANGED <<kind, sent>> PROVE KeyFrameFirst'
  BY <1>2 DEF KeyFrameFirst
<1>3. ASSUME NEW p \in Packets, Arrives(p) PROVE SyncInv' /\ KeyFrameFirst'
  <2>1. /\ todo = <<>> /\ at = "check" /\ at' = "check"
        /\ UNCHANGED <<kind, dt, since, sent>>
    BY <1>3 DEF Arrives, Read, TaskInv, TypeInv, FlatType
  <2> QED
    BY <1>2, <2>1, SyncStays DEF SyncInv, SyncOfWrite, InWrite
<1>4. CASE Check
  <2>1. /\ todo # <<>> /\ at = "check" /\ Head(todo) \in Subscribers
        /\ UNCHANGED <<kind, dt, sent, pkt>>
    BY <1>4, WriteFacts DEF Check, Writing
  <2>2. CASE dt[Head(todo)].enabled /\ dt[Head(todo)].bound
    <3>1. /\ at' = "load" /\ todo' = todo /\ before' = since[Head(todo)]
          /\ since' = [since EXCEPT ![Head(todo)] = "nothing"]
          /\ since \in [Subscribers -> Pauses]
      BY <1>4, <2>2 DEF Check, TypeInv, FlatType
    <3>2. SyncOf(Head(todo)) /\ ~InWrite(Head(todo))
      BY <2>1 DEF SyncInv, InWrite
    <3>3. SyncOf(Head(todo))' /\ SyncOfWrite'
      BY <2>1, <2>2, <3>1, <3>2 DEF SyncOf, SyncOfWrite, InWrite, NeverBound
    <3>4. ASSUME NEW x \in Subscribers \ {Head(todo)} PROVE SyncOf(x)'
      BY <2>1, <3>1, SyncStays DEF SyncInv, InWrite
    <3> QED
      BY <1>2, <2>1, <3>3, <3>4, <3>1 DEF SyncInv
  <2>3. CASE ~(dt[Head(todo)].enabled /\ dt[Head(todo)].bound)
    <3>1. at' = "check" /\ UNCHANGED since
      BY <1>4, <2>3 DEF Check, NextDownTrack
    <3> QED
      BY <1>2, <2>1, <3>1, SyncStays DEF SyncInv, SyncOfWrite, InWrite
  <2> QED
    BY <2>2, <2>3
<1>5. CASE AskForKeyFrame
  <2>1. PICK d \in Subscribers :
           /\ todo # <<>> /\ at = "load" /\ d = Head(todo) /\ at' = "check"
           /\ UNCHANGED <<kind, dt, sent>> /\ dt[d].re_sync
    BY <1>5, WriteFacts DEF AskForKeyFrame, Writing, NextDownTrack
  <2>2. /\ since'[d] = IF since[d] = "nothing" THEN before ELSE since[d]
        /\ \A x \in Subscribers \ {d} : since'[x] = since[x]
    BY <1>5, <2>1 DEF AskForKeyFrame, TypeInv, FlatType
  <2>3. SyncOf(d)'
    BY <2>1, <2>2 DEF SyncInv, SyncOf, SyncOfWrite, InWrite, NeverBound
  <2>4. ASSUME NEW x \in Subscribers \ {d} PROVE SyncOf(x)'
    BY <2>1, <2>2, SyncStays DEF SyncInv, InWrite
  <2>5. SyncOfWrite'
    BY <2>1 DEF SyncOfWrite
  <2> QED
    BY <1>2, <2>1, <2>3, <2>4, <2>5 DEF SyncInv
<1>6. CASE SetOffset
  <2>1. /\ todo # <<>> /\ at = "load" /\ Head(todo) \in Subscribers /\ at' = "sync"
        /\ UNCHANGED <<kind, sent, todo, pkt, since, before>> /\ dt[Head(todo)].re_sync
        /\ ~NeedsKeyFrame
    BY <1>6, WriteFacts DEF SetOffset, Writing, history
  <2>2. /\ dt[Head(todo)] \in DownTracks
        /\ dt'[Head(todo)] = [dt[Head(todo)] EXCEPT !.sn_offset = OffsetAfterPause(Head(todo))]
        /\ \A x \in Subscribers \ {Head(todo)} : dt'[x] = dt[x]
    BY <1>6, <2>1, SetOffsetFacts, WriteFacts
  <2>3. /\ dt'[Head(todo)].re_sync = dt[Head(todo)].re_sync
        /\ dt'[Head(todo)].bound = dt[Head(todo)].bound
        /\ dt'[Head(todo)].enabled = dt[Head(todo)].enabled
    BY <2>2 DEF DownTracks
  <2>4. SyncOf(Head(todo))'
    BY <2>1, <2>3 DEF SyncInv, SyncOf, InWrite, NeverBound
  <2>5. ASSUME NEW x \in Subscribers \ {Head(todo)} PROVE SyncOf(x)'
    BY <2>1, <2>2, SyncStays DEF SyncInv, InWrite
  <2>6. SyncOfWrite'
    BY <2>1, <2>3 DEF SyncInv, SyncOfWrite, NeedsKeyFrame
  <2> QED
    BY <1>2, <2>1, <2>4, <2>5, <2>6 DEF SyncInv
<1>7. CASE SetOffsetPanics \/ SendPanics
  <2>1. UNCHANGED <<kind, pkt, todo, at, dt, since, before, sent>>
    BY <1>7 DEF SetOffsetPanics, SendPanics, Panic, history
  <2> QED
    BY <1>2, <2>1, SyncStays DEF SyncInv, SyncOfWrite, InWrite, NeedsKeyFrame
<1>8. CASE Send
  <2>1. PICK d \in Subscribers :
           /\ todo # <<>> /\ d = Head(todo) /\ at' = "check" /\ UNCHANGED <<kind, since>>
           /\ (at = "load" /\ ~dt[d].re_sync) \/ at = "sync"
    BY <1>8, WriteFacts DEF Send, ReadyToSend, Writing, NextDownTrack
  <2>0. PICK e : e = [pkt |-> pkt, num |-> NewSN(d), since |-> before]
    OBVIOUS
  <2>2. /\ sent[d] \in Seq(Sent) /\ e \in Sent /\ sent'[d] = Append(sent[d], e)
        /\ \A x \in Subscribers \ {d} : dt'[x] = dt[x] /\ sent'[x] = sent[x]
        /\ dt'[d].re_sync = (at # "sync" /\ dt[d].re_sync)
    BY <1>8, <2>1, <2>0, SendFacts DEF TypeInv, FlatType
  <2>3. /\ sent'[d] # <<>> /\ DOMAIN sent'[d] = 1 .. Len(sent[d]) + 1 /\ Len(sent[d]) \in Nat
        /\ \A i \in DOMAIN sent[d] : sent'[d][i] = sent[d][i]
        /\ DOMAIN sent[d] = 1 .. Len(sent[d])
        /\ sent'[d][Len(sent[d]) + 1] = e
    BY <2>2, AppendFacts, EmptySeq
  <2>4. SyncOf(d)'
    <3>1. ~dt'[d].re_sync /\ since'[d] # "pause" /\ ~NeverBound(d)'
      BY <2>1, <2>2, <2>3 DEF SyncInv, SyncOf, InWrite, NeverBound
    <3> QED
      BY <3>1 DEF SyncOf
  <2>5. ASSUME NEW x \in Subscribers \ {d} PROVE SyncOf(x)'
    BY <2>1, <2>2, SyncStays DEF SyncInv, InWrite
  <2>6. SyncOfWrite'
    BY <2>1 DEF SyncOfWrite
  <2>7. kind = "video" /\ before = "pause" => pkt.key
    BY <2>1 DEF SyncInv, SyncOfWrite, NeedsKeyFrame
  <2>8. ASSUME kind = "video", NEW i \in DOMAIN sent'[d], sent'[d][i].since = "pause"
        PROVE  sent'[d][i].pkt.key
    <3>1. CASE i \in DOMAIN sent[d]
      BY <2>1, <2>3, <2>8, <3>1 DEF KeyFrameFirst
    <3>2. CASE i = Len(sent[d]) + 1
      BY <2>3, <2>0, <2>7, <2>8, <3>2
    <3> QED
      BY <2>3, <3>1, <3>2
  <2>9. KeyFrameFirst'
    BY <2>1, <2>2, <2>8 DEF KeyFrameFirst
  <2> QED
    BY <2>4, <2>5, <2>6, <2>9 DEF SyncInv
<1>9. CASE DeleteDownTrack
  <2>1. at = "check" /\ UNCHANGED <<kind, at, since, sent>>
    BY <1>9 DEF DeleteDownTrack, TaskInv, TypeInv, FlatType, history
  <2>2. ASSUME NEW d \in Subscribers PROVE SyncOf(d)'
    BY <1>9, <2>1, DeleteFacts DEF SyncInv, SyncOf, InWrite, NeverBound
  <2> QED
    BY <1>2, <2>1, <2>2 DEF SyncInv, SyncOfWrite
<1>10. ASSUME NEW d \in Subscribers, SubscriberStep(d) PROVE SyncInv' /\ KeyFrameFirst'
  <2>1. UNCHANGED <<kind, sent, pkt, at>> /\ Head(todo) = Head(todo)'
    BY <1>10 DEF SubscriberStep, AddDownTrack, Bind, Mute, Unmute, Disconnect, history
  <2>2. at # "check" => Head(todo) \in Subscribers
    BY WriteFacts DEF TaskInv
  <2>3. ASSUME OthersStay(d), NEW x \in Subscribers \ {d} PROVE SyncOf(x)'
    BY <2>1, <2>3, SyncStays DEF SyncInv, InWrite, OthersStay
  <2>4. ASSUME OthersStay(d), UNCHANGED before, dt'[d].re_sync = dt[d].re_sync \/ ~InWrite(d)
        PROVE  SyncOfWrite'
    <3>1. at # "check" => dt'[Head(todo)].re_sync = dt[Head(todo)].re_sync
      BY <2>2, <2>4 DEF OthersStay, InWrite
    <3> QED
      BY <2>1, <2>4, <3>1 DEF SyncInv, SyncOfWrite, NeedsKeyFrame
  <2>5. CASE AddDownTrack(d)
    <3>1. UNCHANGED <<dt, since, before>>
      BY <2>5 DEF AddDownTrack, history
    <3> QED
      BY <1>2, <2>1, <3>1, SyncStays DEF SyncInv, SyncOfWrite, InWrite, NeedsKeyFrame
  <2>6. CASE Bind(d)
    <3>1. NeverBound(d) /\ UNCHANGED before
      BY <2>6 DEF Bind
    <3>2. ~InWrite(d)
      BY <3>1 DEF SyncInv, SyncOf
    <3>3. OthersStay(d) /\ dt'[d].re_sync /\ since'[d] = "pause"
      BY <2>6, BindFacts
    <3>4. SyncOf(d)'
      BY <2>1, <3>2, <3>3 DEF SyncOf, InWrite, NeverBound
    <3> QED
      BY <1>2, <2>1, <2>3, <2>4, <3>1, <3>2, <3>3, <3>4 DEF SyncInv
  <2>7. CASE Mute(d)
    <3>1. OthersStay(d) /\ dt'[d].re_sync /\ since'[d] = IF MayClear(d) THEN "race" ELSE "pause"
      BY <2>7, MuteFacts
    <3>2. MayClear(d) <=> InWrite(d)
      BY DEF MayClear, InWrite, TaskInv, TypeInv, FlatType
    <3>3. SyncOf(d)'
      BY <2>1, <3>1, <3>2 DEF SyncOf, InWrite, NeverBound
    <3>4. before' = IF InWrite(d) THEN "race" ELSE before
      BY <2>7, <3>2 DEF Mute
    <3>5. SyncOfWrite'
      <4>1. CASE InWrite(d)
        BY <2>1, <3>1, <3>4, <4>1 DEF SyncInv, SyncOfWrite, InWrite, NeedsKeyFrame
      <4>2. CASE ~InWrite(d)
        BY <2>4, <3>1, <3>4, <4>2
      <4> QED
        BY <4>1, <4>2
    <3> QED
      BY <1>2, <2>1, <2>3, <3>1, <3>3, <3>5 DEF SyncInv
  <2>8. CASE Unmute(d)
    <3>1. OthersStay(d) /\ dt'[d].re_sync = dt[d].re_sync /\ dt'[d].bound = dt[d].bound
      BY <2>8, UnmuteFacts
    <3>2. dt[d].bound /\ UNCHANGED <<since, before>>
      BY <2>8 DEF Unmute, Reachable, history
    <3>3. SyncOf(d)'
      BY <2>1, <3>1, <3>2 DEF SyncInv, SyncOf, InWrite, NeverBound
    <3> QED
      BY <1>2, <2>1, <2>3, <2>4, <3>1, <3>2, <3>3 DEF SyncInv
  <2>9. CASE Disconnect(d)
    <3>1. /\ OthersStay(d) /\ dt'[d].re_sync = dt[d].re_sync
          /\ dt'[d].enabled = dt[d].enabled
      BY <2>9, DisconnectFacts
    <3>2. dt[d].bound /\ UNCHANGED <<since, before>>
      BY <2>9 DEF Disconnect, history
    <3>3. SyncOf(d)'
      BY <2>1, <3>1, <3>2 DEF SyncInv, SyncOf, InWrite, NeverBound
    <3> QED
      BY <1>2, <2>1, <2>3, <2>4, <3>1, <3>2, <3>3 DEF SyncInv
  <2> QED
    BY <1>10, <2>5, <2>6, <2>7, <2>8, <2>9 DEF SubscriberStep
<1> QED
  BY <1>1, <1>3, <1>4, <1>5, <1>6, <1>7, <1>8, <1>9, <1>10, NextCases

LEMMA SyncInvariant == Spec => []SyncInv /\ []KeyFrameFirst
<1>1. Init => TypeInv /\ TaskInv /\ SyncInv /\ KeyFrameFirst
  BY TypeInit, SyncInit
<1>2. /\ TypeInv /\ TaskInv /\ SyncInv /\ KeyFrameFirst /\ [Next]_vars
      => TypeInv' /\ TaskInv' /\ SyncInv' /\ KeyFrameFirst'
  BY TypeNext, SyncNext
<1> QED
  BY <1>1, <1>2, PTL DEF Spec

\* Whoever subscribes, is muted and unmuted, the first packet of a video after a
\* pause that raced no write is a key frame: while since says "pause", re_sync is
\* set, and a write that found it so has asked for a key frame before it clears
\* it (write_simple_rtp, DownTrack::mute).
THEOREM KeyFrameComesFirst == Spec => []KeyFrameFirst
BY SyncInvariant, PTL

-----------------------------------------------------------------------------
(* What stops the task.                                                    *)

LEMMA SourceFacts ==
    ASSUME NEW p \in Packets
    PROVE  /\ Source(p) \in SN /\ Source(p) \in Nat /\ p.ext \in Nat
           /\ Source(p) <= p.ext
           /\ p.ext < MaxSN => Source(p) = p.ext
<1>1. p.ext \in Nat
  BY DEF Packets
<1>2. \A x \in Nat, m \in Nat \ {0} : x % m <= x /\ (x < m => x % m = x)
  OBVIOUS
<1>3. p.ext % MaxSN \in SN
  BY <1>1, MinusOfSource
<1> QED
  BY <1>1, <1>2, <1>3, WidthFacts DEF Source, SN

LEMMA NumberTypes ==
    ASSUME TypeInv, NEW d \in Subscribers
    PROVE  /\ dt[d] \in DownTracks /\ dt[d].sequencer \in Sequencers
           /\ dt[d].sn_offset \in SN /\ dt[d].last_sn \in SN /\ dt[d].sequencer.head_sn \in SN
           /\ SN \subseteq Nat /\ newest \in Nat
           /\ sent[d] \in Seq(Sent) /\ \A i \in DOMAIN sent[d] : sent[d][i] \in Sent
           /\ \A i \in DOMAIN sent[d] : sent[d][i].pkt.ext \in Nat
<1>1. dt[d] \in DownTracks
  BY DEF TypeInv, DtType
<1>2. dt[d].sequencer \in Sequencers /\ dt[d].sn_offset \in SN /\ dt[d].last_sn \in SN
  BY <1>1 DEF DownTracks
<1>3. SN \subseteq Nat
  BY WidthFacts DEF SN
<1>4. sent[d] \in Seq(Sent) /\ \A i \in DOMAIN sent[d] : sent[d][i] \in Sent
  BY LenProperties, ElementOfSeq DEF TypeInv, FlatType
<1>5. \A i \in DOMAIN sent[d] : sent[d][i].pkt.ext \in Nat
  BY <1>4 DEF Sent, Packets
<1> QED
  BY <1>1, <1>2, <1>3, <1>4, <1>5 DEF Sequencers, TypeInv, FlatType

\* An addition to what was sent.
LEMMA SentGrows ==
    ASSUME TypeInv, TaskInv, Send, NEW d \in Subscribers, d = Head(todo)
    PROVE  LET n == Len(sent[d])
           IN  /\ n \in Nat /\ DOMAIN sent[d] = 1 .. n /\ DOMAIN sent'[d] = 1 .. n + 1
               /\ \A i \in 1 .. n : sent'[d][i] = sent[d][i]
               /\ sent'[d][n + 1].pkt = pkt /\ sent'[d][n + 1].num = NewSN(d)
               /\ sent'[d][n + 1].since = before
<1>1. PICK e \in Sent : /\ e.pkt = pkt /\ e.num = NewSN(d) /\ e.since = before
                        /\ sent'[d] = Append(sent[d], e)
  BY SendFacts
<1>2. sent[d] \in Seq(Sent)
  BY DEF TypeInv, FlatType
<1> QED
  BY <1>1, <1>2, AppendFacts

LEMMA PlaceNext == TypeInv /\ TaskInv /\ PlaceInv /\ [Next]_vars => PlaceInv'
<1> SUFFICES ASSUME TypeInv, TaskInv, PlaceInv, [Next]_vars PROVE PlaceInv'
  OBVIOUS
<1>1. CASE UNCHANGED vars
  BY <1>1 DEF vars, PlaceInv
<1>2. ASSUME NEW p \in Packets, Arrives(p) PROVE PlaceInv'
  <2>1. p.ext \in Nat /\ p.head \in BOOLEAN /\ newest \in Nat /\ taken \in Nat
    BY DEF Packets, TypeInv, FlatType
  <2>2. /\ taken' = taken + 1 /\ newest' = (IF p.head THEN p.ext ELSE newest) /\ pkt' = p
        /\ sent' = sent
    BY <1>2 DEF Arrives, Read
  <2>3. newest <= newest' /\ p.ext <= newest' /\ (p.head => p.ext = newest')
    BY <1>2, <2>1, <2>2 DEF Arrives, PlaceInv
  <2>4. ASSUME NEW d \in Subscribers, NEW i \in DOMAIN sent[d] PROVE sent[d][i].pkt.ext <= newest'
    <3>1. sent[d][i].pkt.ext \in Nat /\ sent[d][i].pkt.ext <= newest
      BY NumberTypes DEF PlaceInv
    <3>2. newest' \in Nat
      BY <2>1, <2>2
    <3> QED
      BY <2>1, <2>3, <3>1, <3>2
  <2> QED
    BY <2>1, <2>2, <2>3, <2>4 DEF PlaceInv
<1>3. ASSUME UNCHANGED <<taken, newest, pkt, sent>>, todo' # <<>> => todo # <<>> PROVE PlaceInv'
  BY <1>3 DEF PlaceInv
<1>4. CASE Check \/ AskForKeyFrame
  <2>1. todo # <<>> /\ UNCHANGED <<taken, newest, pkt, sent>>
    BY <1>4 DEF Check, AskForKeyFrame, Writing
  <2> QED
    BY <1>3, <2>1
<1>5. CASE SetOffset \/ SetOffsetPanics \/ SendPanics
  BY <1>3, <1>5 DEF SetOffset, SetOffsetPanics, SendPanics, Panic, history
<1>6. CASE Send
  <2>1. todo # <<>> /\ UNCHANGED <<taken, newest, pkt>>
    BY <1>6 DEF Send, ReadyToSend, Writing
  <2>2. PICK d \in Subscribers : d = Head(todo)
    BY <2>1, WriteFacts
  <2>3. \A i \in DOMAIN sent'[d] : sent'[d][i].pkt.ext <= newest
    BY <1>6, <2>1, <2>2, SentGrows DEF PlaceInv
  <2>4. \A x \in Subscribers \ {d} : sent'[x] = sent[x]
    BY <1>6, <2>2, SendFacts
  <2> QED
    BY <2>1, <2>2, <2>3, <2>4 DEF PlaceInv
<1>7. CASE DeleteDownTrack
  BY <1>3, <1>7 DEF DeleteDownTrack, history
<1>8. ASSUME NEW d \in Subscribers, SubscriberStep(d) PROVE PlaceInv'
  BY <1>3, <1>8 DEF SubscriberStep, AddDownTrack, Bind, Mute, Unmute, Disconnect, history
<1> QED
  BY <1>1, <1>2, <1>4, <1>5, <1>6, <1>7, <1>8, NextCases

\* What does not touch the numbers of d keeps what is said of them.
LEMMA NumberStays ==
    ASSUME TypeInv, TypeInv', NEW d \in Subscribers, NumberOf(d), newest <= newest',
           sent'[d] = sent[d], dt'[d].sn_offset = dt[d].sn_offset,
           dt'[d].last_sn = dt[d].last_sn, dt'[d].sequencer = dt[d].sequencer
    PROVE  NumberOf(d)'
<1>1. newest \in Nat /\ newest' \in Nat
  BY DEF TypeInv, FlatType
<1>2. dt[d].sn_offset \in Nat /\ dt[d].sequencer.head_sn \in Nat
  BY NumberTypes
<1> QED
  BY <1>1, <1>2 DEF NumberOf

\* The offset after a pause, without overflow: the packet follows the last one.
LEMMA OffsetWithoutOverflow ==
    ASSUME TypeInv, NEW p \in Packets, pkt = p, NEW d \in Subscribers, ~OffsetOverflows(d)
    PROVE  dt[d].last_sn # 0 => OffsetAfterPause(d) = Source(p) - dt[d].last_sn - 1
<1> SUFFICES ASSUME dt[d].last_sn # 0 PROVE OffsetAfterPause(d) = Source(p) - dt[d].last_sn - 1
  OBVIOUS
<1>1. Source(p) \in SN /\ dt[d].last_sn \in SN /\ SN \subseteq Nat
  BY NumberTypes, SourceFacts
<1>2. Source(p) - (dt[d].last_sn + 1) \in 0 .. MaxSN - 1
  BY <1>1, WidthFacts DEF OffsetOverflows, SN
<1>3. Minus(Source(p), dt[d].last_sn + 1) = Source(p) - (dt[d].last_sn + 1)
  BY <1>2, WidthFacts, ModSmall DEF Minus
<1>4. Source(p) - (dt[d].last_sn + 1) = Source(p) - dt[d].last_sn - 1
  <2>1. ASSUME NEW x \in Nat, NEW y \in Nat PROVE x - (y + 1) = x - y - 1
    OBVIOUS
  <2>2. Source(p) \in Nat /\ dt[d].last_sn \in Nat
    BY <1>1
  <2> QED
    BY <2>1, <2>2
<1> QED
  BY <1>3, <1>4 DEF OffsetAfterPause

LEMMA NumberWithoutOverflow ==
    ASSUME TypeInv, NEW p \in Packets, pkt = p, NEW d \in Subscribers, Source(p) >= dt[d].sn_offset
    PROVE  NewSN(d) = Source(p) - dt[d].sn_offset
<1>1. Source(p) \in SN /\ dt[d].sn_offset \in SN /\ SN \subseteq Nat
  BY NumberTypes, SourceFacts
<1>2. Source(p) - dt[d].sn_offset \in 0 .. MaxSN - 1
  BY <1>1, WidthFacts DEF SN
<1> QED
  BY <1>2, WidthFacts, ModSmall DEF NewSN, Minus

LEMMA NumberNext ==
    TypeInv /\ TaskInv /\ TypeInv' /\ PlaceInv /\ NumberInv /\ [Next]_vars => NumberInv'
<1> SUFFICES ASSUME TypeInv, TaskInv, TypeInv', PlaceInv, NumberInv, [Next]_vars,
                    build' = "debug"
             PROVE  \A d \in Subscribers : NumberOf(d)'
  BY DEF NumberInv
<1>1. build = "debug" /\ \A d \in Subscribers : NumberOf(d)
  <2>1. build' = build
    BY DEF vars, Next, ForwarderStep, SubscriberStep, Read, Check, AskForKeyFrame, SetOffset,
           SetOffsetPanics, Send, SendPanics, Panic, DeleteDownTrack, AddDownTrack, Bind, Mute,
           Unmute, Disconnect
  <2> QED
    BY <2>1 DEF NumberInv
<1>2. newest \in Nat /\ newest <= newest
  BY DEF TypeInv, FlatType
<1>3. ASSUME UNCHANGED <<dt, sent>>, newest <= newest'
      PROVE  \A d \in Subscribers : NumberOf(d)'
  BY <1>1, <1>3, NumberStays
<1>4. CASE UNCHANGED vars
  BY <1>2, <1>3, <1>4 DEF vars
<1>5. ASSUME NEW p \in Packets, Arrives(p) PROVE \A d \in Subscribers : NumberOf(d)'
  <2>1. newest <= newest'
    BY <1>2, <1>5 DEF Arrives, Read, PlaceInv, Packets
  <2> QED
    BY <1>3, <1>5, <2>1 DEF Arrives, Read
<1>6. CASE Check \/ AskForKeyFrame \/ SetOffsetPanics \/ SendPanics
  BY <1>2, <1>3, <1>6 DEF Check, AskForKeyFrame, SetOffsetPanics, SendPanics, Panic, history
<1>7. CASE SetOffset
  <2>1. PICK d \in Subscribers :
           /\ todo # <<>> /\ d = Head(todo) /\ pkt \in Packets
           /\ ~OffsetOverflows(d) /\ UNCHANGED <<sent, newest>>
    BY <1>1, <1>7, WriteFacts DEF SetOffset, Writing, history
  <2>2. /\ dt'[d] = [dt[d] EXCEPT !.sn_offset = OffsetAfterPause(d)]
        /\ \A x \in Subscribers \ {d} : dt'[x] = dt[x]
    BY <1>7, <2>1, SetOffsetFacts
  <2>3. /\ dt'[d].sn_offset = OffsetAfterPause(d) /\ dt'[d].last_sn = dt[d].last_sn
        /\ dt'[d].sequencer = dt[d].sequencer
    BY <2>2, NumberTypes DEF DownTracks
  <2>4. CASE dt[d].last_sn = 0
    <3>1. dt'[d].sn_offset = dt[d].sn_offset
      BY <2>3, <2>4 DEF OffsetAfterPause
    <3> QED
      BY <1>1, <1>2, <2>1, <2>2, <2>3, <3>1, NumberStays
  <2>5. CASE dt[d].last_sn # 0
    <3>1. OffsetAfterPause(d) = Source(pkt) - dt[d].last_sn - 1
      BY <2>1, <2>5, OffsetWithoutOverflow
    <3>2. Source(pkt) \in Nat /\ Source(pkt) <= pkt.ext /\ pkt.ext \in Nat /\ pkt.ext <= newest
      BY <2>1, SourceFacts DEF PlaceInv
    <3>3. dt[d].last_sn \in Nat /\ dt[d].sequencer.head_sn = dt[d].last_sn
      BY <1>1, <2>5, NumberTypes DEF NumberOf
    <3>4. NumberOf(d)'
      BY <1>1, <1>2, <2>1, <2>3, <2>5, <3>1, <3>2, <3>3 DEF NumberOf
    <3> QED
      BY <1>1, <1>2, <2>1, <2>2, <3>4, NumberStays
  <2> QED
    BY <2>4, <2>5
<1>8. CASE Send
  <2>1. PICK d \in Subscribers :
           /\ todo # <<>> /\ d = Head(todo) /\ pkt \in Packets
           /\ ~SendOverflows(d) /\ UNCHANGED newest
    BY <1>1, <1>8, WriteFacts DEF Send, ReadyToSend, Writing
  <2>2. /\ \A x \in Subscribers \ {d} : dt'[x] = dt[x] /\ sent'[x] = sent[x]
        /\ dt'[d].sn_offset = dt[d].sn_offset
        /\ dt'[d].last_sn = (IF pkt.head THEN NewSN(d) ELSE dt[d].last_sn)
        /\ dt'[d].sequencer.init
        /\ dt'[d].sequencer.head_sn = (IF pkt.head \/ ~dt[d].sequencer.init
                                       THEN NewSN(d) ELSE dt[d].sequencer.head_sn)
    BY <1>8, <2>1, SendFacts
  <2>3. Source(pkt) \in Nat /\ Source(pkt) <= pkt.ext /\ pkt.ext \in Nat /\ pkt.ext <= newest
    BY <2>1, SourceFacts DEF PlaceInv
  <2>4. dt[d].sn_offset \in Nat /\ dt[d].last_sn \in Nat /\ dt[d].sequencer.head_sn \in Nat
    BY NumberTypes
  <2>5. NewSN(d) = Source(pkt) - dt[d].sn_offset
    BY <2>1, <2>3, <2>4, NumberWithoutOverflow DEF SendOverflows
  <2>6. NewSN(d) + dt[d].sn_offset <= newest /\ NewSN(d) <= pkt.ext
    BY <1>2, <2>3, <2>4, <2>5
  <2>7. \E i \in DOMAIN sent'[d] : NewSN(d) <= sent'[d][i].pkt.ext
    <3>1. Len(sent[d]) + 1 \in DOMAIN sent'[d] /\ sent'[d][Len(sent[d]) + 1].pkt = pkt
      BY <1>8, <2>1, SentGrows
    <3> QED
      BY <2>6, <3>1
  <2>8. (\E i \in DOMAIN sent[d] : dt[d].last_sn <= sent[d][i].pkt.ext)
        => \E i \in DOMAIN sent'[d] : dt[d].last_sn <= sent'[d][i].pkt.ext
    <3>1. \A i \in DOMAIN sent[d] : i \in DOMAIN sent'[d] /\ sent'[d][i] = sent[d][i]
      BY <1>8, <2>1, SentGrows
    <3> QED
      BY <3>1
  <2>9. NumberOf(d)'
    <3>1. CASE pkt.head
      BY <1>1, <2>1, <2>2, <2>6, <2>7, <3>1 DEF NumberOf
    <3>2. CASE ~pkt.head
      BY <1>1, <2>1, <2>2, <2>6, <2>8, <3>2 DEF NumberOf
    <3> QED
      BY <3>1, <3>2
  <2> QED
    BY <1>1, <1>2, <2>1, <2>2, <2>9, NumberStays
<1>9. CASE DeleteDownTrack
  <2>1. UNCHANGED <<sent, newest>>
    BY <1>9 DEF DeleteDownTrack, history
  <2> QED
    BY <1>1, <1>2, <1>9, <2>1, DeleteFacts, NumberStays
<1>10. ASSUME NEW d \in Subscribers, SubscriberStep(d) PROVE \A x \in Subscribers : NumberOf(x)'
  <2>1. UNCHANGED <<sent, newest>>
    BY <1>10 DEF SubscriberStep, AddDownTrack, Bind, Mute, Unmute, Disconnect, history
  <2>2. ASSUME OthersStay(d), NumberOf(d)' PROVE \A x \in Subscribers : NumberOf(x)'
    BY <1>1, <1>2, <2>1, <2>2, NumberStays DEF OthersStay
  <2>3. ASSUME OthersStay(d), dt'[d].sequencer = dt[d].sequencer
        PROVE  \A x \in Subscribers : NumberOf(x)'
    BY <1>1, <1>2, <2>1, <2>2, <2>3, NumberStays DEF OthersStay
  <2>4. CASE AddDownTrack(d)
    BY <1>2, <1>3, <2>4 DEF AddDownTrack, history
  <2>5. CASE Bind(d)
    <3>1. /\ OthersStay(d)
          /\ dt'[d].sequencer \in {dt[d].sequencer, NewSequencer(MaxTrack)}
      BY <2>5, BindFacts
    <3>2. CASE dt'[d].sequencer = NewSequencer(MaxTrack)
      <4>1. sent[d] = <<>>
        BY <2>5 DEF Bind, NeverBound
      <4>2. dt[d].last_sn = 0
        BY <1>1, <4>1 DEF NumberOf
      <4>3. NumberOf(d)'
        BY <1>1, <2>1, <3>1, <3>2, <4>2 DEF NumberOf, OthersStay, NewSequencer
      <4> QED
        BY <2>2, <3>1, <4>3
    <3> QED
      BY <2>3, <3>1, <3>2
  <2>6. CASE Mute(d)
    BY <2>3, <2>6, MuteFacts
  <2>7. CASE Unmute(d)
    BY <2>3, <2>7, UnmuteFacts
  <2>8. CASE Disconnect(d)
    BY <2>3, <2>8, DisconnectFacts
  <2> QED
    BY <1>10, <2>4, <2>5, <2>6, <2>7, <2>8 DEF SubscriberStep
<1> QED
  BY <1>4, <1>5, <1>6, <1>7, <1>8, <1>9, <1>10, NextCases

\* What does not touch the times of d keeps what is said of them.
LEMMA TimeStays ==
    ASSUME NEW d \in Subscribers, TimeOf(d), sent'[d] = sent[d], ts'[d] = ts[d],
           dt'[d].last_sn = dt[d].last_sn, Resyncing(d) => Resyncing(d)' /\ pkt' = pkt
    PROVE  TimeOf(d)'
BY DEF TimeOf, Reached

LEMMA TimeTypes ==
    ASSUME TypeInv, NEW d \in Subscribers
    PROVE  /\ ts[d].offset \in Nat /\ ts[d].last \in Nat
           /\ \A i \in DOMAIN sent[d] : sent[d][i].pkt \in Packets /\ sent[d][i].pkt.time \in Nat
<1>1. ts[d] \in [offset : TS, last : TS]
  BY DEF TypeInv, FlatType, Times
<1>2. \A i \in DOMAIN sent[d] : sent[d][i] \in Sent
  BY NumberTypes
<1>3. \A i \in DOMAIN sent[d] : sent[d][i].pkt \in Packets /\ sent[d][i].pkt.time \in Nat
  BY <1>2 DEF Sent, Packets
<1> QED
  BY <1>1, <1>3, TimestampTypes

LEMMA TimeNext == TypeInv /\ TaskInv /\ TypeInv' /\ TimeInv /\ [Next]_vars => TimeInv'
<1> SUFFICES ASSUME TypeInv, TaskInv, TypeInv', TimeInv, [Next]_vars, build' = "debug"
             PROVE  \A d \in Subscribers : TimeOf(d)'
  BY DEF TimeInv
<1>1. build = "debug" /\ \A d \in Subscribers : TimeOf(d)
  <2>1. build' = build
    BY DEF vars, Next, ForwarderStep, SubscriberStep, Read, Check, AskForKeyFrame, SetOffset,
           SetOffsetPanics, Send, SendPanics, Panic, DeleteDownTrack, AddDownTrack, Bind, Mute,
           Unmute, Disconnect
  <2> QED
    BY <2>1 DEF TimeInv
<1>2. ASSUME UNCHANGED <<sent, ts>>,
             \A d \in Subscribers : dt'[d].last_sn = dt[d].last_sn,
             at # "sync" \/ UNCHANGED <<at, todo, pkt>>
      PROVE  \A d \in Subscribers : TimeOf(d)'
  BY <1>1, <1>2, TimeStays DEF Resyncing
<1>3. CASE UNCHANGED vars
  BY <1>2, <1>3 DEF vars
<1>4. ASSUME NEW p \in Packets, Arrives(p) PROVE \A d \in Subscribers : TimeOf(d)'
  BY <1>2, <1>4 DEF Arrives, Read, TaskInv
<1>5. CASE Check \/ AskForKeyFrame
  <2>1. at \in {"check", "load"}
    BY <1>5 DEF Check, AskForKeyFrame, Writing
  <2>2. UNCHANGED <<sent, ts, dt>>
    BY <1>5 DEF Check, AskForKeyFrame
  <2> QED
    BY <1>2, <2>1, <2>2
<1>6. CASE SetOffsetPanics \/ SendPanics
  BY <1>2, <1>6 DEF SetOffsetPanics, SendPanics, Panic, history
<1>7. CASE SetOffset
  <2>1. PICK d \in Subscribers :
           /\ todo # <<>> /\ d = Head(todo) /\ pkt \in Packets
           /\ ~OffsetOverflows(d) /\ UNCHANGED <<sent, todo, pkt>>
           /\ at = "load" /\ at' = "sync"
    BY <1>1, <1>7, WriteFacts DEF SetOffset, Writing, history
  <2>2. /\ ts'[d].offset = TsOffsetAfterPause(d) /\ ts'[d].last = ts[d].last
        /\ \A x \in Subscribers \ {d} : ts'[x] = ts[x]
    BY <1>7, <2>1, TimesFacts
  <2>3. \A x \in Subscribers : dt'[x].last_sn = dt[x].last_sn
    <3>1. /\ dt'[d] = [dt[d] EXCEPT !.sn_offset = OffsetAfterPause(d)]
          /\ \A x \in Subscribers \ {d} : dt'[x] = dt[x]
      BY <1>7, <2>1, SetOffsetFacts
    <3>2. dt'[d].last_sn = dt[d].last_sn
      BY <2>1, <3>1, NumberTypes DEF DownTracks
    <3> QED
      BY <3>1, <3>2
  <2>4. ASSUME NEW x \in Subscribers, x # d PROVE TimeOf(x)'
    <3>1. sent'[x] = sent[x] /\ ts'[x] = ts[x] /\ dt'[x].last_sn = dt[x].last_sn
          /\ ~Resyncing(x) /\ TimeOf(x)
      BY <1>1, <2>1, <2>2, <2>3, <2>4 DEF Resyncing
    <3> QED
      BY <3>1, TimeStays
  <2>5. TimeOf(d)'
    <3>1. Resyncing(d)' /\ ~Resyncing(d) /\ TimeOf(d)
      BY <1>1, <2>1 DEF Resyncing
    <3>2. dt'[d].last_sn # 0 => Reached(d, ts[d].last)'
      BY <2>1, <2>2, <2>3, <3>1 DEF TimeOf, Reached
    <3>3. CASE dt[d].last_sn = 0
      BY <2>1, <2>2, <3>1, <3>2, <3>3 DEF TsOffsetAfterPause, TimeOf, Reached
    <3>4. CASE dt[d].last_sn # 0
      <4>1. /\ Timestamp(pkt) \in Nat /\ Timestamp(pkt) <= pkt.time /\ Timestamp(pkt) < MaxTS
            /\ pkt.time \in Nat /\ ts[d].last \in Nat
        BY <2>1, TimestampFacts, TimestampTypes, TimeTypes DEF TS
      <4>2. Timestamp(pkt) >= ts[d].last + 1
        BY <2>1, <3>4, <4>1 DEF OffsetOverflows
      <4>3. MinusTS(Timestamp(pkt), ts[d].last + 1) = Timestamp(pkt) - (ts[d].last + 1)
        BY <4>1, <4>2, MinusTSFacts
      <4>4. ts'[d].offset <= pkt.time
        BY <2>2, <3>4, <4>1, <4>3 DEF TsOffsetAfterPause
      <4> QED
        BY <2>1, <2>2, <3>1, <3>2, <4>4 DEF TimeOf
    <3> QED
      BY <3>3, <3>4
  <2> QED
    BY <2>4, <2>5
<1>8. CASE Send
  <2>1. PICK d \in Subscribers :
           /\ todo # <<>> /\ d = Head(todo) /\ pkt \in Packets
           /\ ~SendOverflows(d)
    BY <1>1, <1>8, WriteFacts DEF Send, ReadyToSend, Writing
  <2>2. /\ \A x \in Subscribers \ {d} : dt'[x] = dt[x] /\ sent'[x] = sent[x]
        /\ dt'[d].last_sn = (IF pkt.head THEN NewSN(d) ELSE dt[d].last_sn)
    BY <1>8, <2>1, SendFacts
  <2>3. /\ \A x \in Subscribers \ {d} : ts'[x] = ts[x]
        /\ ts'[d].offset = ts[d].offset
        /\ ts'[d].last = (IF pkt.head THEN NewTS(d) ELSE ts[d].last)
    BY <1>8, <2>1, TimesFacts
  <2>4. ASSUME NEW x \in Subscribers, x # d PROVE TimeOf(x)'
    <3>1. sent'[x] = sent[x] /\ ts'[x] = ts[x] /\ dt'[x].last_sn = dt[x].last_sn
          /\ ~Resyncing(x) /\ TimeOf(x)
      BY <1>1, <2>1, <2>2, <2>3, <2>4 DEF Resyncing
    <3> QED
      BY <3>1, TimeStays
  <2>5. ASSUME NEW t, t <= pkt.time PROVE Reached(d, t)'
    <3>1. Len(sent[d]) + 1 \in DOMAIN sent'[d] /\ sent'[d][Len(sent[d]) + 1].pkt = pkt
      BY <1>8, <2>1, SentGrows
    <3> QED
      BY <2>5, <3>1 DEF Reached
  <2>6. ASSUME NEW t, Reached(d, t) PROVE \E i \in DOMAIN sent'[d] : t <= sent'[d][i].pkt.time
    <3>1. \A i \in DOMAIN sent[d] : i \in DOMAIN sent'[d] /\ sent'[d][i] = sent[d][i]
      BY <1>8, <2>1, SentGrows
    <3> QED
      BY <2>6, <3>1 DEF Reached
  <2>7. TimeOf(d)
    BY <1>1
  <2>8. ts'[d].offset = 0 \/ Reached(d, ts[d].offset)'
    BY <2>3, <2>5, <2>6, <2>7 DEF TimeOf, Reached
  <2>9. dt'[d].last_sn # 0 => Reached(d, ts[d].last)'
    <3>1. CASE pkt.head
      <4>1. /\ Timestamp(pkt) \in Nat /\ Timestamp(pkt) <= pkt.time /\ Timestamp(pkt) < MaxTS
            /\ pkt.time \in Nat /\ ts[d].offset \in Nat
        BY <2>1, TimestampFacts, TimestampTypes, TimeTypes DEF TS
      <4>2. ts[d].offset <= Timestamp(pkt)
        BY <2>1, <4>1 DEF SendOverflows
      <4>3. NewTS(d) = Timestamp(pkt) - ts[d].offset
        BY <4>1, <4>2, MinusTSFacts DEF NewTS
      <4>4. ts'[d].last <= pkt.time
        BY <2>3, <3>1, <4>1, <4>3
      <4>5. \E i \in DOMAIN sent'[d] : ts'[d].last <= sent'[d][i].pkt.time
        BY <2>5, <4>4 DEF Reached
      <4> QED
        BY <4>5 DEF Reached
    <3>2. CASE ~pkt.head
      BY <2>2, <2>3, <2>6, <2>7, <3>2 DEF TimeOf, Reached
    <3> QED
      BY <3>1, <3>2
  <2>10. TimeOf(d)'
    BY <2>8, <2>9 DEF TimeOf
  <2> QED
    BY <2>4, <2>10
<1>9. CASE DeleteDownTrack
  <2>1. UNCHANGED <<sent, ts, at, todo, pkt>>
    BY <1>9 DEF DeleteDownTrack, history
  <2> QED
    BY <1>2, <1>9, <2>1, DeleteFacts
<1>10. ASSUME NEW d \in Subscribers, SubscriberStep(d) PROVE \A x \in Subscribers : TimeOf(x)'
  <2>1. UNCHANGED <<sent, ts, at, todo, pkt>>
    BY <1>10 DEF SubscriberStep, AddDownTrack, Bind, Mute, Unmute, Disconnect, history
  <2>2. \A x \in Subscribers : dt'[x].last_sn = dt[x].last_sn
    <3>1. AddDownTrack(d) => UNCHANGED dt
      BY DEF AddDownTrack
    <3>2. OthersStay(d) => \A x \in Subscribers : dt'[x].last_sn = dt[x].last_sn
      BY DEF OthersStay
    <3> QED
      BY <1>10, <3>1, <3>2, BindFacts, MuteFacts, UnmuteFacts, DisconnectFacts DEF SubscriberStep
  <2> QED
    BY <1>2, <2>1, <2>2
<1> QED
  BY <1>3, <1>4, <1>5, <1>6, <1>7, <1>8, <1>9, <1>10, NextCases

\* No write overflows before a wrap, unless the packet is late or repeated or its
\* time does not go on.
LEMMA NoOverflow ==
    ASSUME TypeInv, TaskInv, PlaceInv, NumberInv, TimeInv, build = "debug", todo # <<>>,
           newest < MaxSN, ~LateOrRepeated(Head(todo)), ~TimesDoNotGoOn(Head(todo))
    PROVE  /\ dt[Head(todo)].re_sync => ~OffsetOverflows(Head(todo))
           /\ ~SendOverflows(Head(todo))
<1>1. PICK d \in Subscribers : d = Head(todo) /\ pkt \in Packets
  BY WriteFacts
<1>2. /\ pkt.head /\ pkt.ext = newest /\ newest \in Nat
      /\ \A i \in DOMAIN sent[d] : sent[d][i].pkt.ext # pkt.ext /\ sent[d][i].pkt.ext <= newest
  BY <1>1 DEF LateOrRepeated, PlaceInv, TypeInv, FlatType
<1>3. Source(pkt) = newest
  BY <1>1, <1>2, SourceFacts
<1>4. NumberOf(d) /\ TimeOf(d)
  BY DEF NumberInv, TimeInv
<1>5. /\ dt[d].sn_offset \in Nat /\ dt[d].last_sn \in Nat /\ dt[d].sequencer.head_sn \in Nat
      /\ dt[d].sequencer \in Sequencers
      /\ \A i \in DOMAIN sent[d] : sent[d][i].pkt.ext \in Nat
  BY NumberTypes
<1>6. /\ pkt.time \in Nat /\ Timestamp(pkt) = pkt.time
      /\ ts[d].offset \in Nat /\ ts[d].last \in Nat
      /\ \A i \in DOMAIN sent[d] :
            /\ sent[d][i].pkt.time \in Nat /\ sent[d][i].pkt.time <= pkt.time
            /\ dt[d].re_sync => sent[d][i].pkt.time # pkt.time
  <2>1. pkt.time \in Nat /\ MaxTS \in Nat /\ (pkt.time < MaxTS => Timestamp(pkt) = pkt.time)
    BY <1>1, TimestampFacts, TimestampTypes
  <2>2. pkt.time < MaxTS
    BY <1>1, <2>1 DEF TimesDoNotGoOn
  <2>3. /\ ts[d].offset \in Nat /\ ts[d].last \in Nat
        /\ \A i \in DOMAIN sent[d] : sent[d][i].pkt.time \in Nat
    BY TimeTypes
  <2>4. \A i \in DOMAIN sent[d] :
            /\ ~(sent[d][i].pkt.time > pkt.time)
            /\ dt[d].re_sync => sent[d][i].pkt.time # pkt.time
    BY <1>1 DEF TimesDoNotGoOn
  <2> QED
    BY <2>1, <2>2, <2>3, <2>4
<1>7. ASSUME dt[d].re_sync PROVE ~OffsetOverflows(d)
  <2>1. CASE dt[d].last_sn = 0
    BY <2>1 DEF OffsetOverflows
  <2>2. CASE dt[d].last_sn # 0
    <3>1. PICK i \in DOMAIN sent[d] : dt[d].last_sn <= sent[d][i].pkt.ext
      BY <1>4, <2>2 DEF NumberOf
    <3>2. dt[d].last_sn < newest
      BY <1>2, <1>5, <3>1
    <3>3. PICK j \in DOMAIN sent[d] : ts[d].last <= sent[d][j].pkt.time
      BY <1>4, <2>2 DEF TimeOf, Reached
    <3>4. ts[d].last < pkt.time
      BY <1>6, <1>7, <3>3
    <3>5. ~(Source(pkt) - dt[d].last_sn - 1 < 0)
      BY <1>2, <1>3, <1>5, <3>2
    <3>6. ~(Timestamp(pkt) - ts[d].last - 1 < 0)
      BY <1>6, <3>4
    <3> QED
      BY <3>5, <3>6 DEF OffsetOverflows
  <2> QED
    BY <2>1, <2>2
<1>8. ~SendOverflows(d)
  <2>1. dt[d].sn_offset <= newest
    BY <1>4 DEF NumberOf
  <2>2. NewSN(d) = newest - dt[d].sn_offset
    BY <1>1, <1>2, <1>3, <1>5, <2>1, NumberWithoutOverflow
  <2>3. NewSN(d) \in SN
    BY <1>1, WriteFacts
  <2>4. Initialized(dt[d].sequencer, NewSN(d)).head_sn =
           IF dt[d].sequencer.init THEN dt[d].sequencer.head_sn ELSE NewSN(d)
    BY <1>5, <2>3, InitializedType
  <2>5. ~(NewSN(d) < Initialized(dt[d].sequencer, NewSN(d)).head_sn)
    <3>1. CASE dt[d].sequencer.init
      <4>1. dt[d].sequencer.head_sn + dt[d].sn_offset <= newest
        BY <1>4, <3>1 DEF NumberOf
      <4> QED
        BY <1>2, <1>5, <2>2, <2>4, <3>1, <4>1
    <3>2. CASE ~dt[d].sequencer.init
      BY <1>2, <1>5, <2>2, <2>4, <3>2
    <3> QED
      BY <3>1, <3>2
  <2>6. ~(Source(pkt) < dt[d].sn_offset)
    BY <1>2, <1>3, <1>5, <2>1
  <2>7. ~(Timestamp(pkt) < ts[d].offset)
    <3>1. ts[d].offset = 0 \/ ts[d].offset <= pkt.time \/ Reached(d, ts[d].offset)
      BY <1>4 DEF TimeOf
    <3>2. ts[d].offset <= pkt.time
      BY <1>6, <3>1 DEF Reached
    <3> QED
      BY <1>6, <3>2
  <2> QED
    BY <1>2, <2>5, <2>6, <2>7 DEF SendOverflows, PushOverflows
<1> QED
  BY <1>1, <1>7, <1>8

LEMMA StopsNext ==
    TypeInv /\ TaskInv /\ PlaceInv /\ NumberInv /\ TimeInv /\ OnlyOverflowStops /\ [Next]_vars
    => OnlyOverflowStops'
<1> SUFFICES ASSUME TypeInv, TaskInv, PlaceInv, NumberInv, TimeInv, OnlyOverflowStops,
                    [Next]_vars
             PROVE  OnlyOverflowStops'
  OBVIOUS
<1>1. ASSUME UNCHANGED <<build, todo, pkt, newest, sent, forwarder>>,
             \A d \in Subscribers : dt[d].re_sync => dt'[d].re_sync
      PROVE  OnlyOverflowStops'
  <2>1. todo # <<>> => Head(todo) \in Subscribers
    BY WriteFacts
  <2> QED
    BY <1>1, <2>1 DEF OnlyOverflowStops, LateOrRepeated, TimesDoNotGoOn
<1>2. ASSUME forwarder' # "panicked" PROVE OnlyOverflowStops'
  BY <1>2 DEF OnlyOverflowStops
<1>3. CASE UNCHANGED vars
  BY <1>1, <1>3 DEF vars
<1>4. ASSUME NEW p \in Packets, Arrives(p) PROVE OnlyOverflowStops'
  BY <1>2, <1>4 DEF Arrives, Read
<1>5. CASE Check \/ AskForKeyFrame \/ SetOffset \/ Send
  BY <1>2, <1>5 DEF Check, AskForKeyFrame, SetOffset, Send, ReadyToSend, Writing
<1>6. CASE SetOffsetPanics \/ SendPanics
  <2>1. /\ build = "debug" /\ todo # <<>>
        /\ \/ dt[Head(todo)].re_sync /\ OffsetOverflows(Head(todo))
           \/ SendOverflows(Head(todo))
    BY <1>6 DEF SetOffsetPanics, SendPanics, ReadyToSend, Writing
  <2>2. newest >= MaxSN \/ LateOrRepeated(Head(todo)) \/ TimesDoNotGoOn(Head(todo))
    <3>1. newest \in Nat
      BY DEF TypeInv, FlatType
    <3> QED
      BY <2>1, <3>1, NoOverflow, WidthFacts
  <2>3. UNCHANGED <<build, todo, pkt, newest, sent, dt>>
    BY <1>6 DEF SetOffsetPanics, SendPanics, Panic, history
  <2> QED
    BY <2>1, <2>2, <2>3 DEF OnlyOverflowStops, LateOrRepeated, TimesDoNotGoOn
<1>7. CASE DeleteDownTrack
  <2>1. forwarder' = forwarder
    BY <1>7, DeleteFacts
  <2> QED
    BY <1>2, <1>7, <2>1 DEF DeleteDownTrack
<1>8. ASSUME NEW d \in Subscribers, SubscriberStep(d) PROVE OnlyOverflowStops'
  <2>1. UNCHANGED <<build, todo, pkt, newest, sent, forwarder>>
    BY <1>8 DEF SubscriberStep, AddDownTrack, Bind, Mute, Unmute, Disconnect, history
  <2>2. \A x \in Subscribers : dt[x].re_sync => dt'[x].re_sync
    <3>1. AddDownTrack(d) => UNCHANGED dt
      BY DEF AddDownTrack
    <3>2. OthersStay(d) /\ (dt[d].re_sync => dt'[d].re_sync)
          => \A x \in Subscribers : dt[x].re_sync => dt'[x].re_sync
      BY DEF OthersStay
    <3> QED
      BY <1>8, <3>1, <3>2, BindFacts, MuteFacts, UnmuteFacts, DisconnectFacts DEF SubscriberStep
  <2> QED
    BY <1>1, <2>1, <2>2
<1> QED
  BY <1>3, <1>4, <1>5, <1>6, <1>7, <1>8, NextCases

LEMMA NumberInit == Init => PlaceInv /\ NumberInv /\ TimeInv /\ OnlyOverflowStops
<1> SUFFICES ASSUME Init PROVE PlaceInv /\ NumberInv /\ TimeInv /\ OnlyOverflowStops
  OBVIOUS
<1>1. \A d \in Subscribers : /\ dt[d].sn_offset = 0 /\ dt[d].last_sn = 0
                             /\ ~dt[d].sequencer.init
                             /\ ts[d].offset = 0
  BY DEF Init, NewSequencer
<1>2. newest = 0 /\ \A d \in Subscribers : sent[d] = <<>>
  BY DEF Init
<1>3. TimeInv
  BY <1>1 DEF TimeInv, TimeOf
<1> QED
  BY <1>1, <1>2, <1>3 DEF Init, PlaceInv, NumberInv, NumberOf, OnlyOverflowStops

LEMMA NumberInvariant ==
    Spec => []PlaceInv /\ []NumberInv /\ []TimeInv /\ []OnlyOverflowStops
<1> DEFINE Inv == TypeInv /\ TaskInv /\ PlaceInv /\ NumberInv /\ TimeInv /\ OnlyOverflowStops
<1>1. Init => Inv
  BY TypeInit, NumberInit
<1>2. Inv /\ [Next]_vars => Inv'
  BY TypeNext, PlaceNext, NumberNext, TimeNext, StopsNext
<1> QED
  BY <1>1, <1>2, PTL DEF Spec

\* Whatever is muted, unmuted, subscribed and disconnected in the middle of a
\* round, the forwarding task ends by an overflow only, and in a debug build:
\* never by deleting from an empty list of down tracks, for there are no more
\* failed writes than down tracks (write_rtp, delete_down_track), and never by the
\* renumbering of a packet that is new, and whose time goes on, before its number or
\* its timestamp wraps.
THEOREM StoppedByOverflow == Spec => []OnlyOverflowStops
BY NumberInvariant, PTL

-----------------------------------------------------------------------------
(* Gaps are losses.                                                        *)

\* GapsAreLosses says this of each pair of packets sent to d.
GapOf(d, i, j) ==
    LET p == sent[d][i]
        q == sent[d][j]
    IN  /\ i < j /\ \A k \in i .. j : sent[d][k].pkt.head <=> k \in {i, j}
        /\ \A k \in i + 1 .. j : sent[d][k].since # "race"
        => /\ (\A k \in i + 1 .. j : sent[d][k].since # "pause") =>
                 Minus(q.num, p.num) = Minus(q.pkt.ext, p.pkt.ext)
           /\ p.num # 0 =>
                 \A k \in i + 1 .. j :
                     /\ sent[d][k].since = "pause"
                     /\ \A l \in i + 1 .. j : sent[d][l].since = "pause" => l <= k
                     => Minus(q.num, p.num + 1) = Minus(q.pkt.ext, sent[d][k].pkt.ext)

NoOtherGaps == \A d \in Subscribers : \A i, j \in DOMAIN sent[d] : GapOf(d, i, j)

LEMMA GapsAre == GapsAreLosses <=> NoOtherGaps
<1>1. ASSUME GapsAreLosses, NEW d \in Subscribers, NEW i \in DOMAIN sent[d], NEW j \in DOMAIN sent[d]
      PROVE  GapOf(d, i, j)
  <2> SUFFICES ASSUME i < j, \A k \in i .. j : sent[d][k].pkt.head <=> k \in {i, j},
                      \A k \in i + 1 .. j : sent[d][k].since # "race"
               PROVE  GapOf(d, i, j)
    BY DEF GapOf
  <2>1. <<i, j>> \in HeadsInARow(d) /\ <<i, j>>[1] = i /\ <<i, j>>[2] = j
    BY DEF HeadsInARow
  <2> QED
    BY <1>1, <2>1 DEF GapsAreLosses, GapOf
<1>2. ASSUME NoOtherGaps PROVE GapsAreLosses
  <2> SUFFICES ASSUME NEW d \in Subscribers, NEW i \in DOMAIN sent[d], NEW j \in DOMAIN sent[d],
                      <<i, j>> \in HeadsInARow(d),
                      \A k \in i + 1 .. j : sent[d][k].since # "race"
               PROVE  LET p      == sent[d][i]
                          q      == sent[d][j]
                          pauses == {k \in i + 1 .. j : sent[d][k].since = "pause"}
                      IN  /\ pauses = {} => Minus(q.num, p.num) = Minus(q.pkt.ext, p.pkt.ext)
                          /\ p.num # 0 =>
                                \A k \in pauses : (\A l \in pauses : l <= k) =>
                                    Minus(q.num, p.num + 1) = Minus(q.pkt.ext, sent[d][k].pkt.ext)
    <3>1. \A d \in Subscribers : \A ij \in HeadsInARow(d) :
             \E i, j \in DOMAIN sent[d] : ij = <<i, j>> /\ ij[1] = i /\ ij[2] = j
      BY DEF HeadsInARow
    <3> QED
      BY <3>1 DEF GapsAreLosses
  <2>1. i < j /\ \A k \in i .. j : sent[d][k].pkt.head <=> k \in {i, j}
    BY DEF HeadsInARow
  <2> QED
    BY <1>2, <2>1 DEF NoOtherGaps, GapOf
<1> QED
  BY <1>1, <1>2 DEF NoOtherGaps

LEMMA GapsAreNext == GapsAreLosses' <=> NoOtherGaps'
BY GapsAre, PTL

\* What neither sends to d nor changes its offset keeps what is said of both.
LEMMA OffsetStays ==
    ASSUME NEW d \in Subscribers, sent'[d] = sent[d], dt'[d].sn_offset = dt[d].sn_offset,
           dt'[d].last_sn = dt[d].last_sn, Resyncing(d)' <=> Resyncing(d),
           Resyncing(d) => pkt' = pkt, NEW h, LastHead(d, h)', LastHead(d, h) => OffsetOf(d, h)
    PROVE  OffsetOf(d, h)'
<1>1. LastHead(d, h)
  BY DEF LastHead
<1>2. /\ NoneAfter(d, h, "race")' = NoneAfter(d, h, "race")
      /\ NoneAfter(d, h, "pause")' = NoneAfter(d, h, "pause")
      /\ \A k : LastPause(d, h, k)' = LastPause(d, h, k)
  BY DEF NoneAfter, LastPause
<1> QED
  BY <1>1, <1>2 DEF OffsetOf

\* What is written while re_sync is clear came after no pause.
LEMMA SendFinds ==
    ASSUME TypeInv, TaskInv, SyncInv, Send
    PROVE  /\ at = "sync" => before \in {"pause", "race"}
           /\ at # "sync" => before \in {"nothing", "race"}
<1>1. before \in Pauses /\ at \in {"check", "load", "sync"}
  BY DEF TypeInv, FlatType
<1>2. (at = "load" /\ ~dt[Head(todo)].re_sync) \/ at = "sync"
  BY DEF Send, ReadyToSend, Writing
<1> QED
  BY <1>1, <1>2 DEF SyncInv, SyncOfWrite, Pauses

LEMMA SendGaps ==
    ASSUME TypeInv, TaskInv, SyncInv, OffsetInv, Send, NEW d \in Subscribers, d = Head(todo),
           \A i, j \in DOMAIN sent[d] : GapOf(d, i, j)
    PROVE  \A i, j \in DOMAIN sent'[d] : GapOf(d, i, j)'
<1>1. PICK n \in Nat :
         /\ n = Len(sent[d]) /\ DOMAIN sent[d] = 1 .. n /\ DOMAIN sent'[d] = 1 .. n + 1
         /\ \A i \in 1 .. n : sent'[d][i] = sent[d][i]
         /\ sent'[d][n + 1].pkt = pkt /\ sent'[d][n + 1].num = NewSN(d)
         /\ sent'[d][n + 1].since = before
  BY SentGrows
<1>2. /\ todo # <<>> /\ pkt \in Packets /\ NewSN(d) = Minus(pkt.ext, dt[d].sn_offset)
      /\ Resyncing(d) <=> at = "sync"
  BY WriteFacts DEF Send, ReadyToSend, Writing, Resyncing
<1>3. /\ at = "sync" => before \in {"pause", "race"}
      /\ at # "sync" => before \in {"nothing", "race"}
  BY SendFinds
<1>4. /\ dt[d].sn_offset \in Int /\ pkt.ext \in Int
      /\ \A i \in 1 .. n : sent[d][i].pkt.ext \in Int /\ sent[d][i].num \in SN
                           /\ sent[d][i].num \in Int
  <2>1. \A i \in 1 .. n : sent[d][i] \in Sent
    BY <1>1, NumberTypes
  <2>2. SN \subseteq Int
    BY WidthFacts DEF SN
  <2>3. \A e \in Sent : e.pkt.ext \in Int /\ e.num \in SN
    BY DEF Sent, Packets
  <2>4. dt[d].sn_offset \in Int /\ pkt.ext \in Int
    BY <1>2, NumberTypes DEF Packets
  <2> QED
    BY <2>1, <2>2, <2>3, <2>4
<1>5. ASSUME NEW i \in 1 .. n, NEW j \in 1 .. n PROVE GapOf(d, i, j)'
  <2>1. GapOf(d, i, j) /\ sent'[d][i] = sent[d][i] /\ sent'[d][j] = sent[d][j]
    BY <1>1
  <2>2. \A k \in i .. j : sent'[d][k] = sent[d][k]
    BY <1>1
  <2>3. \A k \in i + 1 .. j : sent'[d][k] = sent[d][k]
    BY <1>1
  <2> DEFINE p == sent'[d][i]
             q == sent'[d][j]
  <2> SUFFICES ASSUME i < j,
                      \A k \in i .. j : sent'[d][k].pkt.head <=> k \in {i, j},
                      \A k \in i + 1 .. j : sent'[d][k].since # "race"
               PROVE  /\ (\A k \in i + 1 .. j : sent'[d][k].since # "pause") =>
                            Minus(q.num, p.num) = Minus(q.pkt.ext, p.pkt.ext)
                      /\ p.num # 0 =>
                            \A k \in i + 1 .. j :
                                /\ sent'[d][k].since = "pause"
                                /\ \A l \in i + 1 .. j :
                                      sent'[d][l].since = "pause" => l <= k
                                => Minus(q.num, p.num + 1)
                                      = Minus(q.pkt.ext, sent'[d][k].pkt.ext)
    BY DEF GapOf
  <2>4. /\ \A k \in i .. j : sent[d][k].pkt.head <=> k \in {i, j}
        /\ \A k \in i + 1 .. j : sent[d][k].since # "race"
    BY <2>2, <2>3
  <2>5. /\ (\A k \in i + 1 .. j : sent[d][k].since # "pause") =>
              Minus(q.num, p.num) = Minus(q.pkt.ext, p.pkt.ext)
        /\ p.num # 0 =>
              \A k \in i + 1 .. j :
                  /\ sent[d][k].since = "pause"
                  /\ \A l \in i + 1 .. j : sent[d][l].since = "pause" => l <= k
                  => Minus(q.num, p.num + 1) = Minus(q.pkt.ext, sent[d][k].pkt.ext)
    <3>1. p = sent[d][i] /\ q = sent[d][j]
      BY <2>1
    <3> HIDE DEF p, q
    <3> QED
      BY <2>1, <2>4, <3>1 DEF GapOf
  <2> HIDE DEF p, q
  <2> QED
    BY <2>3, <2>5
<1>6. ASSUME NEW i \in 1 .. n PROVE GapOf(d, i, n + 1)'
  <2> DEFINE p == sent[d][i]
             offset == dt[d].sn_offset
             number == NewSN(d)
             e == sent'[d][n + 1]
             f == sent'[d][i]
  <2>0. f = p /\ e.num = number /\ e.pkt.ext = pkt.ext
    BY <1>1
  <2> SUFFICES ASSUME \A k \in i .. n + 1 : sent'[d][k].pkt.head <=> k \in {i, n + 1},
                      \A k \in i + 1 .. n + 1 : sent'[d][k].since # "race"
               PROVE  /\ (\A k \in i + 1 .. n + 1 : sent'[d][k].since # "pause") =>
                            Minus(e.num, f.num) = Minus(e.pkt.ext, f.pkt.ext)
                      /\ f.num # 0 =>
                            \A k \in i + 1 .. n + 1 :
                                /\ sent'[d][k].since = "pause"
                                /\ \A l \in i + 1 .. n + 1 :
                                      sent'[d][l].since = "pause" => l <= k
                                => Minus(e.num, f.num + 1)
                                      = Minus(e.pkt.ext, sent'[d][k].pkt.ext)
    BY DEF GapOf
  <2> HIDE DEF p, offset, number, e, f
  <2>0a. /\ f.num = p.num /\ Minus(e.num, f.num) = Minus(number, p.num)
         /\ Minus(e.pkt.ext, f.pkt.ext) = Minus(pkt.ext, p.pkt.ext)
         /\ Minus(e.num, f.num + 1) = Minus(number, p.num + 1)
         /\ \A x : Minus(e.pkt.ext, x) = Minus(pkt.ext, x)
    BY <2>0
  <2> USE DEF p, offset, number
  <2>1. /\ \A k \in i + 1 .. n : sent[d][k] = sent'[d][k] /\ k \in i + 1 .. n + 1
        /\ n + 1 \in i + 1 .. n + 1
        /\ \A k \in 1 .. n : k > i => k \in i + 1 .. n
        /\ \A k \in i + 1 .. n + 1 : k = n + 1 \/ k \in i + 1 .. n
    BY <1>1
  <2>2. LastHead(d, i) /\ NoneAfter(d, i, "race")
    <3>1. \A k \in 1 .. n : k >= i => k \in i .. n + 1 /\ k # n + 1
      BY <1>1
    <3>2. ASSUME NEW k \in 1 .. n, k >= i PROVE sent[d][k].pkt.head <=> k = i
      BY <1>1, <3>1, <3>2
    <3>3. ASSUME NEW k \in 1 .. n, k > i PROVE sent[d][k].since # "race"
      BY <2>1, <3>3
    <3> QED
      BY <1>1, <3>2, <3>3 DEF LastHead, NoneAfter
  <2>3. OffsetOf(d, i)
    BY <1>1, <2>2 DEF OffsetInv
  <2>4. before # "race"
    BY <1>1, <2>1
  <2>5. p.num \in SN /\ p.num \in Int /\ p.pkt.ext \in Int /\ p.num + 1 \in Int
        /\ (p.num + 1) - 0 = p.num + 1 /\ p.num - 0 = p.num
    BY <1>4
  <2>6. ASSUME \A k \in i + 1 .. n + 1 : sent'[d][k].since # "pause"
        PROVE  Minus(number, p.num) = Minus(pkt.ext, p.pkt.ext)
    <3>1. ~Resyncing(d) /\ NoneAfter(d, i, "pause")
      BY <1>1, <1>2, <1>3, <2>1, <2>4, <2>6 DEF NoneAfter
    <3>2. Minus(p.pkt.ext, offset) = Minus(p.num, 0)
      BY <2>2, <2>3, <2>5, <3>1, MinusOfNumber DEF OffsetOf
    <3>3. Minus(Minus(pkt.ext, offset), p.num - 0) = Minus(pkt.ext, p.pkt.ext)
      <4> HIDE DEF p, offset
      <4> QED
        BY <1>4, <2>5, <3>2, MinusSameOffset DEF offset
    <3> QED
      BY <1>2, <2>5, <3>3
  <2>7. ASSUME p.num # 0, NEW k \in i + 1 .. n + 1, sent'[d][k].since = "pause",
               \A l \in i + 1 .. n + 1 : sent'[d][l].since = "pause" => l <= k
        PROVE  Minus(number, p.num + 1) = Minus(pkt.ext, sent'[d][k].pkt.ext)
    <3>1. ASSUME NEW ext \in Int, Minus(ext, offset) = Minus(p.num + 1, 0)
          PROVE  Minus(number, p.num + 1) = Minus(pkt.ext, ext)
      <4>1. Minus(Minus(pkt.ext, offset), (p.num + 1) - 0) = Minus(pkt.ext, ext)
        <5> HIDE DEF p, offset
        <5> QED
          BY <1>4, <2>5, <3>1, MinusSameOffset DEF offset
      <4> QED
        BY <1>2, <2>5, <4>1
    <3>2. CASE k = n + 1
      <4>1. Resyncing(d)
        BY <1>1, <1>2, <1>3, <2>7, <3>2
      <4> QED
        BY <1>1, <1>4, <2>3, <2>7, <3>1, <3>2, <4>1 DEF OffsetOf
    <3>3. CASE k \in i + 1 .. n
      <4>1. k \in 1 .. n /\ k > i /\ k < n + 1
        BY <1>1, <3>3
      <4>2. before # "pause" /\ ~Resyncing(d)
        <5>1. ~(n + 1 <= k)
          BY <1>1, <4>1
        <5> QED
          BY <1>1, <1>2, <1>3, <2>1, <2>4, <2>7, <5>1
      <4>3. LastPause(d, i, k)
        <5>1. ASSUME NEW l \in 1 .. n, l > k PROVE sent[d][l].since # "pause"
          <6>1. l > i /\ ~(l <= k)
            BY <4>1, <5>1
          <6> QED
            BY <2>1, <2>7, <6>1
        <5>2. sent[d][k].since = "pause"
          BY <2>1, <2>7, <3>3
        <5> QED
          BY <1>1, <4>1, <5>1, <5>2 DEF LastPause, NoneAfter
      <4>4. Minus(sent[d][k].pkt.ext, offset) = Minus(p.num + 1, 0)
        BY <1>1, <2>2, <2>3, <2>7, <4>1, <4>2, <4>3 DEF OffsetOf
      <4>5. sent[d][k].pkt.ext \in Int /\ sent'[d][k] = sent[d][k]
        BY <1>1, <1>4, <4>1
      <4> QED
        BY <3>1, <4>4, <4>5
    <3> QED
      BY <2>1, <3>2, <3>3
  <2> HIDE DEF p, offset, number
  <2> QED
    BY <2>0a, <2>6, <2>7
<1>7. ASSUME NEW i \in 1 .. n + 1, NEW j \in 1 .. n + 1, ~(i < j) PROVE GapOf(d, i, j)'
  BY <1>7 DEF GapOf
<1>8. \A i, j \in 1 .. n + 1 : ~(i < j) \/ (i \in 1 .. n /\ (j \in 1 .. n \/ j = n + 1))
  OBVIOUS
<1> QED
  BY <1>1, <1>5, <1>6, <1>7, <1>8

LEMMA SendOffset ==
    ASSUME TypeInv, TaskInv, SyncInv, OffsetInv, Send, NEW d \in Subscribers, d = Head(todo),
           NEW h \in DOMAIN sent'[d], LastHead(d, h)'
    PROVE  OffsetOf(d, h)'
<1>1. PICK n \in Nat :
         /\ n = Len(sent[d]) /\ DOMAIN sent[d] = 1 .. n /\ DOMAIN sent'[d] = 1 .. n + 1
         /\ \A i \in 1 .. n : sent'[d][i] = sent[d][i]
         /\ sent'[d][n + 1].pkt = pkt /\ sent'[d][n + 1].num = NewSN(d)
         /\ sent'[d][n + 1].since = before
  BY SentGrows
<1>2. /\ NewSN(d) = Minus(pkt.ext, dt[d].sn_offset)
      /\ (Resyncing(d) <=> at = "sync") /\ ~Resyncing(d)'
  BY WriteFacts DEF Send, ReadyToSend, Writing, Resyncing, NextDownTrack
<1>3. /\ at = "sync" => before \in {"pause", "race"}
      /\ at # "sync" => before \in {"nothing", "race"}
  BY SendFinds
<1>4. /\ dt'[d].sn_offset = dt[d].sn_offset
      /\ dt'[d].last_sn = IF pkt.head THEN NewSN(d) ELSE dt[d].last_sn
  BY SendFacts
<1>5. \A i \in 1 .. n + 1 : i >= h => (sent'[d][i].pkt.head <=> i = h)
  BY <1>1 DEF LastHead
<1>6. n + 1 \in 1 .. n + 1 /\ h \in 1 .. n + 1 /\ n + 1 >= h
  BY <1>1
<1>7. CASE pkt.head
  <2>1. h = n + 1
    BY <1>1, <1>5, <1>6, <1>7
  <2>2. NoneAfter(d, h, "race")' /\ NoneAfter(d, h, "pause")' /\ \A k : ~LastPause(d, h, k)'
    BY <1>1, <2>1 DEF NoneAfter, LastPause
  <2> QED
    BY <1>1, <1>2, <1>4, <1>7, <2>1, <2>2 DEF OffsetOf
<1>8. CASE ~pkt.head
  <2>1. h \in 1 .. n
    BY <1>1, <1>5, <1>6, <1>8
  <2>2. LastHead(d, h) /\ OffsetOf(d, h)
    <3>1. LastHead(d, h)
      BY <1>1, <1>5, <2>1 DEF LastHead
    <3> QED
      BY <1>1, <2>1, <3>1 DEF OffsetInv
  <2>3. /\ sent'[d][h] = sent[d][h] /\ n + 1 > h
        /\ \A what : NoneAfter(d, h, what)' <=> (NoneAfter(d, h, what) /\ before # what)
    <3>1. sent'[d][h] = sent[d][h] /\ n + 1 > h /\ n + 1 \in 1 .. n + 1
      BY <1>1, <2>1
    <3>2. \A i \in 1 .. n : i \in 1 .. n + 1
      OBVIOUS
    <3>3. \A i \in 1 .. n + 1 : i = n + 1 \/ i \in 1 .. n
      OBVIOUS
    <3>4. ASSUME NEW what
          PROVE  NoneAfter(d, h, what)' <=> (NoneAfter(d, h, what) /\ before # what)
      <4>1. NoneAfter(d, h, what)' <=> \A i \in 1 .. n + 1 : i > h => sent'[d][i].since # what
        BY <1>1 DEF NoneAfter
      <4>2. NoneAfter(d, h, what) <=> \A i \in 1 .. n : i > h => sent[d][i].since # what
        BY <1>1 DEF NoneAfter
      <4> QED
        BY <1>1, <3>1, <3>2, <3>3, <4>1, <4>2
    <3> QED
      BY <3>1, <3>4
  <2> SUFFICES ASSUME NoneAfter(d, h, "race")'
               PROVE  LET p == sent[d][h]
                      IN  /\ NoneAfter(d, h, "pause")' =>
                                Minus(p.pkt.ext, dt[d].sn_offset) = p.num
                          /\ p.num # 0 =>
                                \A k \in DOMAIN sent'[d] : LastPause(d, h, k)' =>
                                    Minus(sent'[d][k].pkt.ext, dt[d].sn_offset)
                                    = Minus(p.num + 1, 0)
    BY <1>2, <1>4, <1>8, <2>2, <2>3 DEF OffsetOf
  <2>4. NoneAfter(d, h, "race") /\ before # "race"
    BY <2>3
  <2>5. CASE at = "sync"
    <3>1. before = "pause" /\ Resyncing(d)
      BY <1>2, <1>3, <2>4, <2>5
    <3>2. ASSUME NEW k \in 1 .. n + 1, LastPause(d, h, k)' PROVE k = n + 1
      <4>1. ~(n + 1 > k)
        BY <1>1, <1>6, <3>1, <3>2 DEF LastPause, NoneAfter
      <4> QED
        BY <4>1
    <3> QED
      BY <1>1, <2>2, <2>3, <3>1, <3>2 DEF OffsetOf
  <2>6. CASE at # "sync"
    <3>1. before = "nothing" /\ ~Resyncing(d)
      BY <1>2, <1>3, <2>4, <2>6
    <3>2. ASSUME NEW k \in 1 .. n + 1, LastPause(d, h, k)'
          PROVE  LastPause(d, h, k) /\ k \in 1 .. n
      <4>1. k \in 1 .. n
        BY <1>1, <3>1, <3>2 DEF LastPause
      <4>2. \A i \in 1 .. n : i > k => sent'[d][i].since # "pause"
        BY <1>1, <3>2 DEF LastPause, NoneAfter
      <4>3. k > h /\ sent'[d][k].since = "pause"
        BY <3>2 DEF LastPause
      <4> QED
        BY <1>1, <4>1, <4>2, <4>3 DEF LastPause, NoneAfter
    <3>3. /\ NoneAfter(d, h, "pause") =>
                Minus(sent[d][h].pkt.ext, dt[d].sn_offset) = sent[d][h].num
          /\ sent[d][h].num # 0 =>
                \A k \in DOMAIN sent[d] : LastPause(d, h, k) =>
                    Minus(sent[d][k].pkt.ext, dt[d].sn_offset) = Minus(sent[d][h].num + 1, 0)
      BY <2>2, <2>4, <3>1 DEF OffsetOf
    <3>4. NoneAfter(d, h, "pause")' => NoneAfter(d, h, "pause")
      BY <2>3
    <3>5. ASSUME NEW k \in DOMAIN sent'[d], LastPause(d, h, k)'
          PROVE  k \in DOMAIN sent[d] /\ LastPause(d, h, k) /\ sent'[d][k] = sent[d][k]
      BY <1>1, <3>2, <3>5
    <3> QED
      BY <3>3, <3>4, <3>5
  <2> QED
    BY <2>5, <2>6
<1> QED
  BY <1>7, <1>8

LEMMA SetOffsetOffset ==
    ASSUME TypeInv, TaskInv, OffsetInv, SetOffset, NEW d \in Subscribers, d = Head(todo),
           NEW h \in DOMAIN sent'[d], LastHead(d, h)'
    PROVE  OffsetOf(d, h)'
<1>1. /\ todo # <<>> /\ pkt' = pkt /\ sent' = sent /\ at = "load" /\ Resyncing(d)'
  BY DEF SetOffset, Writing, Resyncing, history
<1>2. pkt \in Packets /\ dt[d] \in DownTracks
  BY <1>1, WriteFacts
<1>3. dt'[d].last_sn = dt[d].last_sn /\ dt'[d].sn_offset = OffsetAfterPause(d)
  BY <1>2, SetOffsetFacts DEF DownTracks
<1>4. LastHead(d, h) /\ OffsetOf(d, h)
  BY <1>1 DEF LastHead, OffsetInv
<1>5. dt[d].last_sn = sent[d][h].num
  BY <1>4 DEF OffsetOf
<1>6. ASSUME sent[d][h].num # 0
      PROVE  Minus(pkt.ext, OffsetAfterPause(d)) = Minus(sent[d][h].num + 1, 0)
  <2> DEFINE n == dt[d].last_sn
  <2>1. n \in Int /\ pkt.ext \in Int /\ n + 1 \in Int
    BY <1>2, NumberTypes DEF Packets
  <2>2. OffsetAfterPause(d) = Minus(Source(pkt), n + 1)
    BY <1>5, <1>6 DEF OffsetAfterPause
  <2>3. Minus(Source(pkt), n + 1) = Minus(pkt.ext, n + 1)
    BY <2>1, MinusOfSource DEF Source
  <2>4. Minus(pkt.ext, Minus(pkt.ext, n + 1)) = Minus(n + 1, 0)
    BY <2>1, MinusToFollow
  <2> QED
    BY <1>5, <2>2, <2>3, <2>4
<1> QED
  BY <1>1, <1>3, <1>5, <1>6 DEF OffsetOf

LEMMA OffsetInit == Init => OffsetInv /\ GapsAreLosses
BY DEF Init, OffsetInv, GapsAreLosses, HeadsInARow

LEMMA OffsetNext ==
    TypeInv /\ TaskInv /\ SyncInv /\ OffsetInv /\ GapsAreLosses /\ [Next]_vars
    => OffsetInv' /\ GapsAreLosses'
<1> SUFFICES ASSUME TypeInv, TaskInv, SyncInv, OffsetInv, GapsAreLosses, [Next]_vars
             PROVE  OffsetInv' /\ GapsAreLosses'
  OBVIOUS
<1>1. ASSUME UNCHANGED sent PROVE GapsAreLosses'
  BY <1>1 DEF GapsAreLosses, HeadsInARow
<1>2. ASSUME UNCHANGED sent, at # "sync", at' # "sync",
             \A d \in Subscribers : /\ dt'[d].sn_offset = dt[d].sn_offset
                                    /\ dt'[d].last_sn = dt[d].last_sn
      PROVE  OffsetInv' /\ GapsAreLosses'
  <2>1. \A d \in Subscribers : ~Resyncing(d) /\ ~Resyncing(d)'
    BY <1>2 DEF Resyncing
  <2>2. ASSUME NEW d \in Subscribers, NEW h \in DOMAIN sent'[d], LastHead(d, h)'
        PROVE  OffsetOf(d, h)'
    BY <1>2, <2>1, <2>2, OffsetStays DEF OffsetInv
  <2> QED
    BY <1>1, <1>2, <2>2 DEF OffsetInv
<1>3. ASSUME UNCHANGED <<sent, at, pkt>>, Head(todo') = Head(todo),
             \A d \in Subscribers : /\ dt'[d].sn_offset = dt[d].sn_offset
                                    /\ dt'[d].last_sn = dt[d].last_sn
      PROVE  OffsetInv' /\ GapsAreLosses'
  <2>1. \A d \in Subscribers : Resyncing(d)' <=> Resyncing(d)
    BY <1>3 DEF Resyncing
  <2>2. ASSUME NEW d \in Subscribers, NEW h \in DOMAIN sent'[d], LastHead(d, h)'
        PROVE  OffsetOf(d, h)'
    BY <1>3, <2>1, <2>2, OffsetStays DEF OffsetInv
  <2> QED
    BY <1>1, <1>3, <2>2 DEF OffsetInv
<1>4. CASE UNCHANGED vars
  BY <1>3, <1>4 DEF vars
<1>5. ASSUME NEW p \in Packets, Arrives(p) PROVE OffsetInv' /\ GapsAreLosses'
  <2>1. at = "check" /\ at' = "check" /\ UNCHANGED <<sent, dt>>
    BY <1>5 DEF Arrives, Read, TaskInv, TypeInv, FlatType
  <2> QED
    BY <1>2, <2>1
<1>6. CASE Check
  BY <1>2, <1>6 DEF Check, Writing, NextDownTrack
<1>7. CASE AskForKeyFrame
  BY <1>2, <1>7 DEF AskForKeyFrame, Writing, NextDownTrack
<1>8. CASE SetOffset
  <2>1. PICK d \in Subscribers : d = Head(todo)
    BY <1>8, WriteFacts DEF SetOffset, Writing
  <2>2. UNCHANGED <<sent, pkt, todo>> /\ at = "load" /\ at' = "sync"
    BY <1>8 DEF SetOffset, Writing, history
  <2>3. ASSUME NEW x \in Subscribers \ {d}, NEW h \in DOMAIN sent'[x], LastHead(x, h)'
        PROVE  OffsetOf(x, h)'
    <3>1. dt'[x] = dt[x] /\ sent'[x] = sent[x] /\ ~Resyncing(x) /\ ~Resyncing(x)'
      BY <1>8, <2>1, <2>2, SetOffsetFacts DEF Resyncing
    <3> QED
      BY <2>3, <3>1, OffsetStays DEF OffsetInv
  <2>4. \A h \in DOMAIN sent'[d] : LastHead(d, h)' => OffsetOf(d, h)'
    BY <1>8, <2>1, SetOffsetOffset
  <2> QED
    BY <1>1, <2>2, <2>3, <2>4 DEF OffsetInv
<1>9. CASE SetOffsetPanics \/ SendPanics
  BY <1>3, <1>9 DEF SetOffsetPanics, SendPanics, Panic, history
<1>10. CASE Send
  <2>1. PICK d \in Subscribers : d = Head(todo) /\ at' = "check"
    BY <1>10, WriteFacts DEF Send, ReadyToSend, Writing, NextDownTrack
  <2>2. \A x \in Subscribers \ {d} : dt'[x] = dt[x] /\ sent'[x] = sent[x]
    BY <1>10, <2>1, SendFacts
  <2>3. ASSUME NEW x \in Subscribers \ {d}, NEW h \in DOMAIN sent'[x], LastHead(x, h)'
        PROVE  OffsetOf(x, h)'
    <3>1. dt'[x] = dt[x] /\ sent'[x] = sent[x] /\ ~Resyncing(x) /\ ~Resyncing(x)'
      BY <2>1, <2>2 DEF Resyncing
    <3> QED
      BY <2>3, <3>1, OffsetStays DEF OffsetInv
  <2>4. \A h \in DOMAIN sent'[d] : LastHead(d, h)' => OffsetOf(d, h)'
    BY <1>10, <2>1, SendOffset
  <2>5. OffsetInv'
    BY <2>3, <2>4 DEF OffsetInv
  <2>6. ASSUME NEW x \in Subscribers
        PROVE  \A i, j \in DOMAIN sent'[x] : GapOf(x, i, j)'
    <3>1. \A i, j \in DOMAIN sent[x] : GapOf(x, i, j)
      BY GapsAre DEF NoOtherGaps
    <3>2. CASE x = d
      BY <1>10, <2>1, <3>1, <3>2, SendGaps
    <3>3. CASE x # d
      <4>1. sent'[x] = sent[x]
        BY <2>2, <3>3
      <4> QED
        BY <3>1, <4>1 DEF GapOf
    <3> QED
      BY <3>2, <3>3
  <2>7. NoOtherGaps'
    BY <2>6 DEF NoOtherGaps
  <2> QED
    BY <2>5, <2>7, GapsAreNext
<1>11. CASE DeleteDownTrack
  <2>1. at = "check" /\ at' = at /\ UNCHANGED sent
    BY <1>11 DEF DeleteDownTrack, TaskInv, TypeInv, FlatType, history
  <2> QED
    BY <1>2, <1>11, <2>1, DeleteFacts
<1>12. ASSUME NEW d \in Subscribers, SubscriberStep(d) PROVE OffsetInv' /\ GapsAreLosses'
  <2>1. UNCHANGED <<sent, pkt, at>> /\ Head(todo') = Head(todo)
    BY <1>12 DEF SubscriberStep, AddDownTrack, Bind, Mute, Unmute, Disconnect, history
  <2>2. \A x \in Subscribers : /\ dt'[x].sn_offset = dt[x].sn_offset
                               /\ dt'[x].last_sn = dt[x].last_sn
    <3>1. CASE AddDownTrack(d)
      BY <3>1 DEF AddDownTrack
    <3>2. ASSUME OthersStay(d)
          PROVE  \A x \in Subscribers : /\ dt'[x].sn_offset = dt[x].sn_offset
                                        /\ dt'[x].last_sn = dt[x].last_sn
      BY <3>2 DEF OthersStay
    <3> QED
      BY <1>12, <3>1, <3>2, BindFacts, MuteFacts, UnmuteFacts, DisconnectFacts DEF SubscriberStep
  <2> QED
    BY <1>3, <2>1, <2>2
<1> QED
  BY <1>4, <1>5, <1>6, <1>7, <1>8, <1>9, <1>10, <1>11, <1>12, NextCases

\* However a subscriber is muted and unmuted, and whatever is lost, late or repeated
\* on the way to the server, from one new packet to the next the numbers it gets
\* go on as the publisher's do, and after a pause right after the last one; but
\* for a mute that races a write and the number 0 (write_simple_rtp, sn_offset).
THEOREM GapsAreOnlyLosses == Spec => []GapsAreLosses
<1> DEFINE Inv == TypeInv /\ TaskInv /\ SyncInv /\ KeyFrameFirst /\ OffsetInv /\ GapsAreLosses
<1>1. Init => Inv
  BY TypeInit, SyncInit, OffsetInit
<1>2. Inv /\ [Next]_vars => Inv'
  BY TypeNext, SyncNext, OffsetNext
<1> QED
  BY <1>1, <1>2, PTL DEF Spec

-----------------------------------------------------------------------------
(* What the sequencer finds.                                               *)

\* The packet that the numbers of the sequencer go on from: the last head sent
\* to d, or the first packet while no head was.
Anchor(d, a) ==
    /\ a \in DOMAIN sent[d]
    /\ a = 1 \/ sent[d][a].pkt.head
    /\ \A i \in DOMAIN sent[d] : i > a => ~sent[d][i].pkt.head

\* The offset is that of a, or of a packet after a pause that followed a.
OffsetSince(d, a) ==
    \E r \in DOMAIN sent[d] :
        /\ r >= a
        /\ r = a \/ sent[d][r].num = Minus(sent[d][a].num + 1, 0)
        /\ dt[d].sn_offset = Minus(sent[d][r].pkt.ext, sent[d][r].num)

\* The offset has just been set for the packet in hand to follow the last head.
OffsetFollows(d) ==
    dt[d].last_sn # 0 /\ dt[d].sn_offset = Minus(pkt.ext, dt[d].last_sn + 1)

NumbersFrom(d, a) ==
    /\ dt[d].sequencer.init /\ dt[d].sequencer.head_sn = sent[d][a].num
    /\ dt[d].last_sn = IF sent[d][a].pkt.head THEN sent[d][a].num ELSE 0
    /\ OffsetSince(d, a) \/ (Resyncing(d) /\ OffsetFollows(d))

\* Behind the index of the ring, as far as their numbers differ, are the last heads.
SlotOf(d, a, i) ==
    (dt[d].sequencer.step - 1 - Minus(sent[d][a].num, sent[d][i].num)) % MaxTrack

EntryOf(d, i) == [src |-> sent[d][i].pkt.ext, num |-> sent[d][i].num]

RingFrom(d, a) ==
    \A i \in 1 .. a : sent[d][i].pkt.head /\ AmongTheLast(d, i) =>
        /\ SlotOf(d, a, i) \in DOMAIN dt[d].sequencer.seq
        /\ dt[d].sequencer.seq[SlotOf(d, a, i)] = EntryOf(d, i)

SequencerFrom(d, a) ==
    /\ Anchor(d, a)
    /\ NumbersFrom(d, a)
    /\ kind = "video" /\ InOrder(d) /\ NoLongGap(d) => RingFrom(d, a)

SequencerOf(d) ==
    /\ kind = "video" /\ ~NeverBound(d) => dt[d].sequencer.max = MaxTrack
    /\ sent[d] = <<>> => dt[d].last_sn = 0 /\ ~dt[d].sequencer.init
    /\ sent[d] # <<>> => \E a \in DOMAIN sent[d] : SequencerFrom(d, a)

SequencerInv == \A d \in Subscribers : SequencerOf(d)

\* The ring is so short that a packet after a pause is told from a late one.
RingIsShort == 2 * MaxTrack <= HalfSN + 1

\* The same place of a ring.
LEMMA SlotsSame ==
    ASSUME NEW x \in Int, NEW y \in Int, NEW q \in Int, x = y + MaxTrack * q
    PROVE  x % MaxTrack = y % MaxTrack
BY ForwardingAssumption, ModOfSum

LEMMA InsertWrites ==
    ASSUME NEW s \in Sequencers, NEW slot \in Slots, NEW src \in Nat, NEW num \in SN
    PROVE  LET t == Insert(s, slot, src, num)
           IN  /\ t.max = s.max /\ t.step = NextStep(s, slot)
               /\ DOMAIN t.seq = DOMAIN s.seq \cup {slot}
               /\ t.seq[slot] = [src |-> src, num |-> num]
               /\ \A i \in DOMAIN s.seq : i # slot => t.seq[i] = s.seq[i]
<1> DEFINE entry == [src |-> src, num |-> num]
           ring  == [i \in DOMAIN s.seq \cup {slot} |-> IF i = slot THEN entry ELSE s.seq[i]]
<1>1. Insert(s, slot, src, num) = [s EXCEPT !.seq = ring, !.step = NextStep(s, slot)]
  BY DEF Insert
<1>2. /\ DOMAIN ring = DOMAIN s.seq \cup {slot} /\ ring[slot] = entry
      /\ \A i \in DOMAIN s.seq : i # slot => ring[i] = s.seq[i]
  OBVIOUS
<1> HIDE DEF ring
<1> QED
  BY <1>1, <1>2 DEF Sequencers

\* The entry is in the slot, the index behind it, and the rest as it was.
WrittenAt(s, pushed, slot, entry) ==
    /\ (pushed.step - 1) % MaxTrack = slot
    /\ DOMAIN pushed.seq = DOMAIN s.seq \cup {slot}
    /\ pushed.seq[slot] = entry
    /\ \A i \in DOMAIN s.seq : i # slot => pushed.seq[i] = s.seq[i]

\* A head is written as many slots on as its number.
LEMMA PushHeadWrites ==
    ASSUME NEW s \in Sequencers, s.max = MaxTrack, NEW src \in Nat, NEW num \in SN,
           NEW k \in Nat \ {0}, s.init => k = Minus(num, s.head_sn), ~s.init => k = 1
    PROVE  WrittenAt(s, PushMeta(s, src, num, TRUE), (s.step + k - 1) % MaxTrack,
                     [src |-> src, num |-> num])
<1>0. PICK slot : slot = (s.step + k - 1) % MaxTrack
  OBVIOUS
<1> DEFINE s0 == Initialized(s, num)
<1>1. /\ s0 \in Sequencers /\ s0.max = MaxTrack /\ s0.step = s.step /\ s0.seq = s.seq
      /\ s0.head_sn = IF s.init THEN s.head_sn ELSE num
  <2>1. s0 \in Sequencers /\ s0.head_sn = IF s.init THEN s.head_sn ELSE num
    BY InitializedType
  <2>2. s0.max = MaxTrack /\ s0.step = s.step /\ s0.seq = s.seq
    BY DEF Initialized, Sequencers
  <2> QED
    BY <2>1, <2>2
<1> HIDE DEF s0
<1>2. s.step \in Slots /\ MaxTrack \in Nat \ {0}
  BY ForwardingAssumption DEF Sequencers
<1>3. slot \in Slots
  <2>1. PICK x \in Int : x = s.step + k - 1
    BY <1>2 DEF Slots
  <2> QED
    BY <1>0, <1>2, <2>1, ModFacts DEF Slots
<1>4. Minus(num, s0.head_sn) = IF s.init THEN k ELSE 0
  <2>1. num \in Int /\ num - num = 0 + MaxSN * 0 /\ 0 \in Int
    BY WidthFacts DEF SN
  <2>2. Minus(num, num) = 0
    BY <2>1, WidthFacts, MinusNear
  <2> QED
    BY <1>1, <2>2
<1>5. Skipped(s0, Minus(num, s0.head_sn) - 1) = slot
  <2>1. CASE k = 1
    <3>1. Skipped(s0, Minus(num, s0.head_sn) - 1) = s.step
      BY <1>1, <1>4, <2>1 DEF Skipped
    <3>2. s.step + k - 1 = s.step /\ s.step \in 0 .. MaxTrack - 1
      BY <1>2, <2>1 DEF Slots
    <3> QED
      BY <1>0, <1>2, <3>1, <3>2, ModSmall
  <2>2. CASE k # 1
    <3>1. Minus(num, s0.head_sn) = k /\ k - 1 > 0
      BY <1>4, <2>2
    <3>2. Skipped(s0, k - 1) = (s.step + (k - 1)) % MaxTrack
      BY <1>1, <1>2, <3>1 DEF Skipped
    <3>3. s.step + (k - 1) = s.step + k - 1
      BY <1>2 DEF Slots
    <3> QED
      BY <1>0, <3>1, <3>2, <3>3
  <2> QED
    BY <2>1, <2>2
<1> DEFINE t == Insert(s0, slot, src, num)
<1>6. /\ t.step = NextStep(s0, slot)
      /\ DOMAIN t.seq = DOMAIN s.seq \cup {slot}
      /\ t.seq[slot] = [src |-> src, num |-> num]
      /\ \A i \in DOMAIN s.seq : i # slot => t.seq[i] = s.seq[i]
  BY <1>1, <1>3, InsertWrites
<1>7. t \in Sequencers
  BY <1>1, <1>3, InsertType
<1>8. PushMeta(s, src, num, TRUE) = [t EXCEPT !.head_sn = num]
  BY <1>5 DEF PushMeta, PushHead, s0
<1> HIDE DEF t
<1>9. /\ PushMeta(s, src, num, TRUE).step = t.step
      /\ PushMeta(s, src, num, TRUE).seq = t.seq
  BY <1>7, <1>8 DEF Sequencers
<1>10. (NextStep(s0, slot) - 1) % MaxTrack = slot
  <2>1. slot \in 0 .. MaxTrack - 1
    BY <1>3 DEF Slots
  <2>2. CASE slot + 1 >= MaxTrack
    <3>1. PICK x \in Int, q \in Int : x = NextStep(s0, slot) - 1 /\ q = -1
      BY <1>1, <1>2, <2>2 DEF NextStep
    <3>2. x = slot + MaxTrack * q /\ slot \in Int
      BY <1>1, <1>2, <2>1, <2>2, <3>1 DEF NextStep
    <3>3. x % MaxTrack = slot % MaxTrack
      BY <3>2, SlotsSame
    <3> QED
      BY <1>2, <2>1, <3>1, <3>3, ModSmall
  <2>3. CASE ~(slot + 1 >= MaxTrack)
    <3>1. NextStep(s0, slot) - 1 = slot
      BY <1>1, <1>2, <2>1, <2>3 DEF NextStep
    <3> QED
      BY <1>2, <2>1, <3>1, ModSmall
  <2> QED
    BY <2>2, <2>3
<1> QED
  BY <1>0, <1>6, <1>9, <1>10 DEF WrittenAt

\* Indexes go round the ring.
Slot(x) == x % MaxTrack

\* An entry is as many slots behind as its number, and those of the last numbers
\* are not written over.
LEMMA SlotStays ==
    ASSUME NEW x \in Int, NEW y \in Int, NEW k \in Nat \ {0}, NEW back \in Nat,
           k + back < MaxTrack, Slot(y - 1) = Slot(x + k - 1)
    PROVE  /\ Slot(y - 1 - (k + back)) = Slot(x - 1 - back)
           /\ Slot(x - 1 - back) # Slot(x + k - 1)
<1> USE DEF Slot
<1> DEFINE slot == (x + k - 1) % MaxTrack
<1>1. MaxTrack \in Nat \ {0} /\ x + k - 1 \in Int /\ y - 1 \in Int /\ x - 1 - back \in Int
  BY ForwardingAssumption
<1>2. slot \in 0 .. MaxTrack - 1
  BY <1>1, ModFacts
<1>3. PICK q \in Int : x + k - 1 = slot + MaxTrack * q
  BY <1>1, ModFacts
<1>4. PICK r \in Int : y - 1 = slot + MaxTrack * r
  <2>1. PICK z \in Int : z = y - 1
    BY <1>1
  <2>2. \E r \in Int : z = (z % MaxTrack) + MaxTrack * r
    BY <1>1, ModFacts
  <2> QED
    BY <2>1, <2>2
<1> HIDE DEF slot
<1>5. (y - 1 - (k + back)) % MaxTrack = (x - 1 - back) % MaxTrack
  <2>0. PICK z \in Int, w \in Int : z = y - 1 - (k + back) /\ w = x - 1 - back
    OBVIOUS
  <2>1. PICK t \in Int : t = r - q
    OBVIOUS
  <2>2. MaxTrack * t = MaxTrack * r - MaxTrack * q
    BY <1>1, <2>1
  <2>3. MaxTrack * t \in Int /\ MaxTrack * r \in Int /\ MaxTrack * q \in Int
    BY <1>1
  <2>4. z = w + MaxTrack * t
    BY <1>2, <1>3, <1>4, <2>0, <2>2, <2>3
  <2>5. z % MaxTrack = w % MaxTrack
    BY <2>4, SlotsSame
  <2> QED
    BY <2>0, <2>5
<1>6. ASSUME (x - 1 - back) % MaxTrack = slot PROVE FALSE
  <2>1. PICK u \in Int : x - 1 - back = slot + MaxTrack * u
    BY <1>1, <1>6, ModFacts
  <2>2. PICK t \in Int : t = q - u
    OBVIOUS
  <2>3. MaxTrack * t = MaxTrack * q - MaxTrack * u
    BY <1>1, <2>2
  <2>4. MaxTrack * t \in Int /\ MaxTrack * u \in Int /\ MaxTrack * q \in Int
    BY <1>1
  <2>5. k + back = MaxTrack * t
    BY <1>2, <1>3, <2>1, <2>3, <2>4
  <2>6. t = 0
    BY <1>1, <2>4, <2>5, NoMultipleBetween
  <2> QED
    BY <1>1, <2>5, <2>6
<1> QED
  BY <1>5, <1>6 DEF slot

\* A number a little ahead of the newest is taken for one that is too late.
LEMMA PushLateIgnored ==
    ASSUME RingIsShort, NEW s \in Sequencers, s.init, s.max = MaxTrack,
           NEW src, NEW num \in SN, Minus(num, s.head_sn) \in 1 .. HalfSN
    PROVE  PushMeta(s, src, num, FALSE) = s
<1>1. s.step \in 0 .. MaxTrack - 1 /\ s.head_sn \in Int /\ num \in Int
  BY WidthFacts DEF Sequencers, Slots, SN
<1>2. PICK k \in 1 .. HalfSN : k = Minus(num, s.head_sn)
  OBVIOUS
<1>3. Minus(s.head_sn, num) = MaxSN - k
  BY <1>1, <1>2, MinusOpposite
<1>4. MaxSN = 2 * HalfSN /\ HalfSN \in Nat /\ MaxTrack \in Nat \ {0}
  BY HalfSNAssumption, ForwardingAssumption DEF MaxSN
<1>5. OutOfReach(s, num)
  <2>1. 2 * MaxTrack <= HalfSN + 1
    BY DEF RingIsShort
  <2>2. s.step - Minus(s.head_sn, num) = s.step - (2 * HalfSN - k)
    BY <1>3, <1>4
  <2> DEFINE step == s.step - (2 * HalfSN - k)
  <2>3. step < 0 /\ -step >= MaxTrack
    BY <1>1, <1>2, <1>4, <2>1
  <2> HIDE DEF step
  <2>4. OutOfReach(s, num) <=> step < 0 /\ -step >= s.max
    BY <2>2 DEF OutOfReach, step
  <2> QED
    BY <2>3, <2>4
<1> QED
  BY <1>5 DEF PushMeta, PushLate, Initialized

LEMMA PushKeepsMax ==
    ASSUME NEW s \in Sequencers, NEW src \in Nat, NEW num \in SN, NEW head \in BOOLEAN
    PROVE  PushMeta(s, src, num, head).max = s.max
<1> DEFINE s0 == Initialized(s, num)
<1>1. s0 \in Sequencers /\ s0.head_sn \in Int /\ num \in Int
  BY InitializedType, WidthFacts DEF Sequencers, SN
<1>2. s0.max = s.max /\ s0.step \in Slots
  BY <1>1 DEF Initialized, Sequencers
<1> HIDE DEF s0
<1>3. ASSUME NEW slot \in Slots
      PROVE  /\ Insert(s0, slot, src, num).max = s.max
             /\ Insert(s0, slot, src, num) \in Sequencers
  <2>1. Insert(s0, slot, src, num).max = s0.max
    BY <1>1 DEF Insert, Sequencers
  <2>2. Insert(s0, slot, src, num) \in Sequencers
    BY <1>1, InsertType
  <2> QED
    BY <1>2, <2>1, <2>2
<1>4. Skipped(s0, Minus(num, s0.head_sn) - 1) \in Slots
  <2>1. Minus(num, s0.head_sn) \in SN
    BY <1>1, MinusType
  <2>2. Minus(num, s0.head_sn) - 1 \in Int
    BY <2>1, WidthFacts DEF SN
  <2> QED
    BY <1>1, <2>2, SkippedType
<1>5. PushHead(s0, src, num).max = s.max
  BY <1>3, <1>4 DEF PushHead, Sequencers
<1>6. PushLate(s0, src, num).max = s.max
  BY <1>2, <1>3 DEF PushLate
<1> QED
  BY <1>5, <1>6 DEF PushMeta, s0

\* What is in its slot is found.
LEMMA FoundInItsSlot ==
    ASSUME NEW s \in Sequencers, s.max = MaxTrack, NEW src, NEW num \in SN,
           NEW slot, slot = (s.step - 1 - Minus(s.head_sn, num)) % MaxTrack,
           slot \in DOMAIN s.seq, s.seq[slot] = [src |-> src, num |-> num],
           Minus(s.head_sn, num) < MaxTrack - 1
    PROVE  GetSeqNoPairs(s, num) = {src}
<1>1. PICK back \in Int : back = Minus(s.head_sn, num) /\ back >= 0
  BY MinusType, WidthFacts DEF Sequencers, SN
<1>2. s.step \in 0 .. MaxTrack - 1 /\ MaxTrack \in Nat \ {0}
  BY ForwardingAssumption DEF Sequencers, Slots
<1>3. PICK x \in Int : x = s.step - back - 1 /\ x = s.step - 1 - back
  BY <1>1, <1>2
<1>4. SlotsRead(s, num) = {slot}
  <2>1. CASE x >= 0
    <3>1. x \in 0 .. MaxTrack - 1
      BY <1>1, <1>2, <1>3, <2>1
    <3>2. slot = x
      BY <1>1, <1>2, <1>3, <3>1, ModSmall
    <3> QED
      BY <1>1, <1>3, <2>1, <3>2 DEF SlotsRead
  <2>2. CASE x < 0
    <3>1. PICK w \in 0 .. MaxTrack - 1, q \in Int : w = x + MaxTrack /\ q = -1
      BY <1>1, <1>2, <1>3, <2>2
    <3>2. x = w + MaxTrack * q /\ w \in Int /\ -x < MaxTrack
      BY <1>1, <1>2, <1>3, <2>2, <3>1
    <3>3. x % MaxTrack = w % MaxTrack
      BY <3>2, SlotsSame
    <3>4. slot = w
      BY <1>1, <1>2, <1>3, <3>1, <3>3, ModSmall
    <3> QED
      BY <1>1, <1>3, <2>2, <3>1, <3>2, <3>4 DEF SlotsRead
  <2> QED
    BY <2>1, <2>2
<1>5. s.seq[slot].src = src /\ s.seq[slot].num = num
  OBVIOUS
<1> QED
  BY <1>4, <1>5 DEF GetSeqNoPairs

\* What neither sends to d nor changes its numbers keeps what is said of them.
LEMMA SequencerStays ==
    ASSUME NEW d \in Subscribers, SequencerOf(d), sent'[d] = sent[d], kind' = kind,
           dt'[d].sn_offset = dt[d].sn_offset, dt'[d].last_sn = dt[d].last_sn,
           dt'[d].sequencer = dt[d].sequencer, Resyncing(d)' <=> Resyncing(d),
           Resyncing(d) => pkt' = pkt, NeverBound(d) => NeverBound(d)'
    PROVE  SequencerOf(d)'
<1>1. ASSUME NEW a, SequencerFrom(d, a) PROVE SequencerFrom(d, a)'
  <2>1. Anchor(d, a)'
    BY <1>1 DEF SequencerFrom, Anchor
  <2>2. NumbersFrom(d, a)'
    BY <1>1 DEF SequencerFrom, NumbersFrom, OffsetSince, OffsetFollows
  <2>3. /\ InOrder(d)' = InOrder(d) /\ NoLongGap(d)' = NoLongGap(d)
        /\ \A i : AmongTheLast(d, i)' = AmongTheLast(d, i)
    BY DEF InOrder, NoLongGap, AmongTheLast
  <2>4. RingFrom(d, a)' <=> RingFrom(d, a)
    <3>1. \A i : SlotOf(d, a, i)' = SlotOf(d, a, i) /\ EntryOf(d, i)' = EntryOf(d, i)
      BY DEF SlotOf, EntryOf
    <3> QED
      BY <2>3, <3>1 DEF RingFrom
  <2> QED
    BY <1>1, <2>1, <2>2, <2>3, <2>4 DEF SequencerFrom
<1> QED
  BY <1>1 DEF SequencerOf

\* The types of what was sent to d and of the numbers of its track.
LEMMA SequencerTypes ==
    ASSUME TypeInv, NEW d \in Subscribers
    PROVE  /\ dt[d].sequencer \in Sequencers /\ dt[d].sn_offset \in SN /\ dt[d].last_sn \in SN
           /\ \A i \in DOMAIN sent[d] : /\ sent[d][i].pkt.ext \in Nat /\ sent[d][i].num \in SN
                                        /\ sent[d][i].pkt.head \in BOOLEAN
<1>1. dt[d] \in DownTracks /\ sent[d] \in Seq(Sent)
  BY DEF TypeInv, DtType, FlatType
<1>2. \A i \in DOMAIN sent[d] : sent[d][i] \in Sent
  BY <1>1
<1> QED
  BY <1>1, <1>2 DEF DownTracks, Sent, Packets

\* What was in order and without long gaps before.
LEMMA InOrderBefore ==
    ASSUME TypeInv, TaskInv, Send, NEW d \in Subscribers, d = Head(todo)
    PROVE  /\ InOrder(d)' => InOrder(d)
           /\ NoLongGap(d)' => NoLongGap(d)
           /\ \A i \in DOMAIN sent[d] : AmongTheLast(d, i)' => AmongTheLast(d, i)
<1>1. PICK n \in Nat :
         /\ n = Len(sent[d]) /\ DOMAIN sent[d] = 1 .. n /\ DOMAIN sent'[d] = 1 .. n + 1
         /\ \A i \in 1 .. n : sent'[d][i] = sent[d][i]
  BY SentGrows
<1>2. ASSUME InOrder(d)' PROVE InOrder(d)
  <2> SUFFICES ASSUME NEW i \in 1 .. n, NEW j \in 1 .. n, i < j
               PROVE  sent[d][i].pkt.ext < sent[d][j].pkt.ext
    BY <1>1 DEF InOrder
  <2>1. sent'[d][i] = sent[d][i] /\ sent'[d][j] = sent[d][j] /\ i \in 1 .. n + 1 /\ j \in 1 .. n + 1
    BY <1>1
  <2>2. sent'[d][i].pkt.ext < sent'[d][j].pkt.ext
    BY <1>1, <1>2, <2>1 DEF InOrder
  <2> QED
    BY <2>1, <2>2
<1>3. ASSUME NoLongGap(d)' PROVE NoLongGap(d)
  <2> SUFFICES ASSUME NEW i \in 1 .. n, NEW j \in 1 .. n, i < j,
                      \A k \in i + 1 .. j - 1 : ~sent[d][k].pkt.head,
                      Minus(sent[d][i].pkt.ext, sent[d][i].num)
                        = Minus(sent[d][j].pkt.ext, sent[d][j].num)
               PROVE  sent[d][j].pkt.ext - sent[d][i].pkt.ext < HalfSN
    BY <1>1 DEF NoLongGap
  <2>1. sent'[d][i] = sent[d][i] /\ sent'[d][j] = sent[d][j] /\ i \in 1 .. n + 1 /\ j \in 1 .. n + 1
    BY <1>1
  <2>2. ASSUME NEW k \in i + 1 .. j - 1 PROVE ~sent'[d][k].pkt.head
    <3>1. k \in 1 .. n
      OBVIOUS
    <3>2. sent'[d][k] = sent[d][k]
      BY <1>1, <3>1
    <3> QED
      BY <3>2
  <2> QED
    BY <1>1, <1>3, <2>1, <2>2 DEF NoLongGap
<1>4. ASSUME NEW i \in 1 .. n, AmongTheLast(d, i)' PROVE AmongTheLast(d, i)
  <2> SUFFICES ASSUME NEW j \in i .. n, NEW k \in i .. n, j <= k,
                      sent[d][j].pkt.head, sent[d][k].pkt.head
               PROVE  Minus(sent[d][k].num, sent[d][j].num) < MaxTrack - 1
    BY <1>1 DEF AmongTheLast
  <2>1. Len(sent'[d]) = n + 1
    <3>1. PICK e \in Sent : sent'[d] = Append(sent[d], e)
      BY SendFacts
    <3>2. sent[d] \in Seq(Sent)
      BY NumberTypes
    <3> QED
      BY <1>1, <3>1, <3>2, AppendFacts
  <2>2. sent'[d][j] = sent[d][j] /\ sent'[d][k] = sent[d][k] /\ j \in i .. n + 1 /\ k \in i .. n + 1
    BY <1>1
  <2> QED
    BY <1>4, <2>1, <2>2 DEF AmongTheLast
<1> QED
  BY <1>1, <1>2, <1>3, <1>4

\* How far the number of a packet sent is from the one the sequencer counts from.
LEMMA SendDistance ==
    ASSUME TypeInv, TaskInv, Send, NEW d \in Subscribers, d = Head(todo),
           NEW a \in DOMAIN sent[d], Anchor(d, a), NumbersFrom(d, a),
           InOrder(d)', NoLongGap(d)'
    PROVE  Minus(NewSN(d), sent[d][a].num) \in 1 .. HalfSN
<1>1. PICK n \in Nat :
         /\ n = Len(sent[d]) /\ DOMAIN sent[d] = 1 .. n /\ DOMAIN sent'[d] = 1 .. n + 1
         /\ \A i \in 1 .. n : sent'[d][i] = sent[d][i]
         /\ sent'[d][n + 1].pkt = pkt /\ sent'[d][n + 1].num = NewSN(d)
  BY SentGrows
<1>2. /\ todo # <<>> /\ pkt.ext \in Int /\ NewSN(d) \in SN
      /\ NewSN(d) = Minus(pkt.ext, dt[d].sn_offset)
  BY WriteFacts DEF Send, ReadyToSend, Writing, Packets
<1>3. dt[d].sn_offset \in SN /\ \A i \in 1 .. n : sent[d][i].pkt.ext \in Nat /\ sent[d][i].num \in SN
  BY <1>1, SequencerTypes
<1>4. SN \subseteq Int /\ HalfSN \in Nat \ {0} /\ MaxSN = 2 * HalfSN /\ 1 \in SN /\ 1 .. HalfSN - 1 \subseteq SN
  BY HalfSNAssumption DEF SN, MaxSN
<1>5. PICK num \in SN : num = sent[d][a].num
  BY <1>1, <1>3
<1>6. num \in Int /\ num + 1 \in Int /\ a \in 1 .. n
  BY <1>1, <1>4
<1>7. Minus(Minus(num + 1, 0), num) = 1
  BY <1>6, MinusOfNext
<1>8. CASE OffsetFollows(d)
  <2>1. dt[d].last_sn = num
    BY <1>5, <1>8 DEF NumbersFrom, OffsetFollows
  <2>2. NewSN(d) = Minus(num + 1, 0)
    BY <1>2, <1>6, <1>8, <2>1, MinusToFollow DEF OffsetFollows
  <2> QED
    BY <1>4, <1>5, <1>7, <2>2
<1>9. CASE OffsetSince(d, a)
  <2>1. PICK r \in 1 .. n :
           /\ r >= a
           /\ r = a \/ sent[d][r].num = Minus(num + 1, 0)
           /\ dt[d].sn_offset = Minus(sent[d][r].pkt.ext, sent[d][r].num)
    BY <1>1, <1>5, <1>9 DEF OffsetSince
  <2>2. PICK ext \in Nat, last \in SN : ext = sent[d][r].pkt.ext /\ last = sent[d][r].num
    BY <1>3
  <2>3. PICK o \in SN : o = dt[d].sn_offset /\ o = Minus(ext, last)
    BY <1>3, <2>1, <2>2
  <2>4. ext \in Int /\ last \in Int /\ o \in Int
    BY <1>4
  <2>5. Minus(pkt.ext, NewSN(d)) = o
    BY <1>2, <2>3, MinusBack
  <2>6. Minus(ext, o) = last
    <3>1. PICK q \in Int : ext - last = o + MaxSN * q
      BY <2>3, <2>4, MinusParts
    <3>2. ext - o = last + MaxSN * q
      <4>1. MaxSN * q \in Int
        BY WidthFacts
      <4> QED
        BY <2>4, <3>1, <4>1
    <3> QED
      BY <2>4, <3>2, MinusNear
  <2>7. Minus(NewSN(d), last) = Minus(pkt.ext, ext)
    <3>1. Minus(last, 0) = last /\ last - 0 = last
      BY <2>4, MinusOfNumber
    <3>2. Minus(Minus(pkt.ext, o), last - 0) = Minus(pkt.ext, ext)
      BY <1>2, <2>4, <2>6, <3>1, MinusSameOffset
    <3> QED
      BY <1>2, <2>3, <3>1, <3>2
  <2>8. pkt.ext - ext \in 1 .. HalfSN - 1
    <3>1. r < n + 1 /\ r \in 1 .. n + 1 /\ n + 1 \in 1 .. n + 1
      OBVIOUS
    <3>2. sent'[d][r].pkt.ext < sent'[d][n + 1].pkt.ext
      BY <1>1, <3>1 DEF InOrder
    <3>3. ASSUME NEW k \in r + 1 .. (n + 1) - 1 PROVE ~sent'[d][k].pkt.head
      <4>1. k \in 1 .. n /\ k > a
        BY <1>6, <2>1
      <4> QED
        BY <1>1, <4>1 DEF Anchor
    <3>4. sent'[d][n + 1].pkt.ext - sent'[d][r].pkt.ext < HalfSN
      <4>1. Minus(sent'[d][r].pkt.ext, sent'[d][r].num)
              = Minus(sent'[d][n + 1].pkt.ext, sent'[d][n + 1].num)
        BY <1>1, <2>2, <2>3, <2>5
      <4> QED
        BY <1>1, <3>1, <3>3, <4>1 DEF NoLongGap
    <3>5. sent'[d][n + 1].pkt.ext = pkt.ext /\ sent'[d][r].pkt.ext = ext
      BY <1>1, <2>2
    <3> QED
      BY <1>2, <1>4, <2>4, <3>2, <3>4, <3>5
  <2>9. PICK e \in 1 .. HalfSN - 1 : e = pkt.ext - ext
    BY <2>8
  <2>10. Minus(pkt.ext, ext) = e
    <3>1. e \in SN /\ pkt.ext - ext = e + MaxSN * 0
      BY <1>4, <2>9, WidthFacts
    <3> QED
      BY <1>2, <2>4, <3>1, MinusNear
  <2>11. CASE r = a
    BY <1>4, <1>5, <2>2, <2>7, <2>10, <2>11
  <2>12. CASE last = Minus(num + 1, 0)
    <3>1. Minus(last, num) = 1
      BY <1>7, <2>12
    <3>2. Minus(NewSN(d), last) + Minus(last, num) = e + 1 /\ e + 1 < MaxSN
      BY <1>4, <2>7, <2>10, <3>1
    <3>3. NewSN(d) \in Int
      BY <1>2, <1>4
    <3>4. Minus(NewSN(d), num) = e + 1
      BY <1>6, <2>4, <3>2, <3>3, MinusSum
    <3> QED
      BY <1>4, <1>5, <3>4
  <2> QED
    BY <2>1, <2>2, <2>11, <2>12
<1> QED
  BY <1>8, <1>9 DEF NumbersFrom

\* The numbers after a packet is sent go on from it when it is a head or the first.
LEMMA SendAnchorsAnew ==
    ASSUME TypeInv, TaskInv, Send, NEW d \in Subscribers, d = Head(todo), SequencerOf(d),
           NEW n \in Nat, n = Len(sent[d]), pkt.head \/ n = 0
    PROVE  Anchor(d, n + 1)' /\ NumbersFrom(d, n + 1)'
<1>1. /\ DOMAIN sent[d] = 1 .. n /\ DOMAIN sent'[d] = 1 .. n + 1
      /\ sent'[d][n + 1].pkt = pkt /\ sent'[d][n + 1].num = NewSN(d)
  BY SentGrows
<1>2. /\ todo # <<>> /\ pkt.ext \in Int /\ pkt.head \in BOOLEAN
      /\ NewSN(d) = Minus(pkt.ext, dt[d].sn_offset)
  BY WriteFacts DEF Send, ReadyToSend, Writing, Packets
<1>3. Anchor(d, n + 1)'
  BY <1>1 DEF Anchor
<1>4. n = 0 => dt[d].last_sn = 0 /\ ~dt[d].sequencer.init
  <2>1. n = 0 => sent[d] = <<>>
    BY NumberTypes, EmptySeq
  <2> QED
    BY <2>1 DEF SequencerOf
<1>5. /\ dt'[d].sequencer.init /\ dt'[d].sequencer.head_sn = NewSN(d)
      /\ dt'[d].last_sn = IF pkt.head THEN NewSN(d) ELSE 0
      /\ dt'[d].sn_offset = dt[d].sn_offset
  BY <1>2, <1>4, SendFacts
<1>6. OffsetSince(d, n + 1)'
  <2>1. dt[d].sn_offset = Minus(pkt.ext, NewSN(d))
    BY <1>2, SequencerTypes, MinusBack
  <2>2. n + 1 \in 1 .. n + 1 /\ n + 1 >= n + 1
    OBVIOUS
  <2> QED
    BY <1>1, <1>5, <2>1, <2>2 DEF OffsetSince
<1> QED
  BY <1>1, <1>3, <1>5, <1>6 DEF NumbersFrom

\* A late packet after others leaves them going on from where they did.
LEMMA SendKeepsAnchor ==
    ASSUME TypeInv, TaskInv, Send, NEW d \in Subscribers, d = Head(todo), ~pkt.head,
           NEW a \in DOMAIN sent[d], Anchor(d, a), NumbersFrom(d, a)
    PROVE  Anchor(d, a)' /\ NumbersFrom(d, a)'
<1>1. PICK n \in Nat :
         /\ DOMAIN sent[d] = 1 .. n /\ DOMAIN sent'[d] = 1 .. n + 1
         /\ \A i \in 1 .. n : sent'[d][i] = sent[d][i]
         /\ sent'[d][n + 1].pkt = pkt /\ sent'[d][n + 1].num = NewSN(d)
  BY SentGrows
<1>2. a \in 1 .. n /\ a \in 1 .. n + 1 /\ sent'[d][a] = sent[d][a] /\ n + 1 >= a
      /\ n + 1 \in 1 .. n + 1
  BY <1>1
<1>3. /\ todo # <<>> /\ pkt.ext \in Int
      /\ NewSN(d) = Minus(pkt.ext, dt[d].sn_offset)
  BY WriteFacts DEF Send, ReadyToSend, Writing, Packets
<1>4. Anchor(d, a)'
  <2>1. \A i \in 1 .. n + 1 : i = n + 1 \/ i \in 1 .. n
    OBVIOUS
  <2> QED
    BY <1>1, <1>2, <2>1 DEF Anchor
<1>5. /\ dt'[d].sequencer.init /\ dt'[d].sequencer.head_sn = dt[d].sequencer.head_sn
      /\ dt'[d].last_sn = dt[d].last_sn /\ dt'[d].sn_offset = dt[d].sn_offset
  BY SendFacts DEF NumbersFrom
<1>6. OffsetSince(d, a)'
  <2>1. CASE OffsetSince(d, a)
    <3>1. PICK r \in 1 .. n :
             /\ r >= a
             /\ r = a \/ sent[d][r].num = Minus(sent[d][a].num + 1, 0)
             /\ dt[d].sn_offset = Minus(sent[d][r].pkt.ext, sent[d][r].num)
      BY <1>1, <2>1 DEF OffsetSince
    <3>2. r \in DOMAIN sent'[d] /\ sent'[d][r] = sent[d][r]
      BY <1>1
    <3>3. /\ r = a \/ sent'[d][r].num = Minus(sent'[d][a].num + 1, 0)
          /\ dt'[d].sn_offset = Minus(sent'[d][r].pkt.ext, sent'[d][r].num)
      BY <1>2, <1>5, <3>1, <3>2
    <3> QED
      BY <3>1, <3>2, <3>3 DEF OffsetSince
  <2>2. CASE OffsetFollows(d)
    <3>1. dt[d].last_sn = sent[d][a].num /\ dt[d].last_sn \in Int
      <4>1. dt[d].last_sn \in SN
        BY SequencerTypes
      <4> QED
        BY <2>2, <4>1, WidthFacts DEF OffsetFollows, NumbersFrom, SN
    <3>2. NewSN(d) = Minus(sent[d][a].num + 1, 0)
      BY <1>3, <2>2, <3>1, MinusToFollow DEF OffsetFollows
    <3>3. dt[d].sn_offset = Minus(pkt.ext, NewSN(d))
      BY <1>3, SequencerTypes, MinusBack
    <3>4. /\ sent'[d][n + 1].num = Minus(sent'[d][a].num + 1, 0)
          /\ dt'[d].sn_offset = Minus(sent'[d][n + 1].pkt.ext, sent'[d][n + 1].num)
      BY <1>1, <1>2, <1>5, <3>2, <3>3
    <3>5. PICK r \in DOMAIN sent'[d] : r = n + 1
      BY <1>1, <1>2
    <3> QED
      BY <1>2, <3>4, <3>5 DEF OffsetSince
  <2> QED
    BY <2>1, <2>2 DEF NumbersFrom
<1> QED
  BY <1>2, <1>4, <1>5, <1>6 DEF NumbersFrom

\* A head goes in front of those whose slots it leaves alone.
LEMMA SendHeadRing ==
    ASSUME RingIsShort, TypeInv, TaskInv, Send, NEW d \in Subscribers, d = Head(todo),
           SequencerOf(d), NEW n \in Nat, n = Len(sent[d]), pkt.head,
           dt[d].sequencer.max = MaxTrack, kind = "video", InOrder(d)', NoLongGap(d)'
    PROVE  RingFrom(d, n + 1)'
<1> DEFINE s   == dt[d].sequencer
           t   == dt'[d].sequencer
           num == NewSN(d)
<1>1. /\ DOMAIN sent[d] = 1 .. n /\ DOMAIN sent'[d] = 1 .. n + 1
      /\ \A i \in 1 .. n : sent'[d][i] = sent[d][i]
      /\ sent'[d][n + 1].pkt = pkt /\ sent'[d][n + 1].num = num
  BY SentGrows
<1>2. /\ todo # <<>> /\ pkt.ext \in Nat /\ num \in SN /\ num \in Int
  BY WriteFacts, NumberTypes DEF Send, ReadyToSend, Writing, Packets
<1>3. s \in Sequencers /\ s.step \in Int /\ MaxTrack \in Nat \ {0}
  BY SequencerTypes, ForwardingAssumption DEF Sequencers, Slots
<1>4. t = PushMeta(s, pkt.ext, num, TRUE)
  BY SendFacts
<1>5. Minus(num, num) = 0
  <2>1. num - num = 0 + MaxSN * 0 /\ 0 \in SN
    BY <1>2, WidthFacts
  <2> QED
    BY <1>2, <2>1, MinusNear
<1> SUFFICES ASSUME NEW i \in 1 .. n + 1, sent'[d][i].pkt.head, AmongTheLast(d, i)'
             PROVE  /\ SlotOf(d, n + 1, i)' \in DOMAIN t.seq
                    /\ t.seq[SlotOf(d, n + 1, i)'] = EntryOf(d, i)'
  BY DEF RingFrom
<1>6. SlotOf(d, n + 1, i)' = (t.step - 1 - Minus(num, sent'[d][i].num)) % MaxTrack
  BY <1>1 DEF SlotOf
<1> HIDE DEF s, t, num
<1>7. t \in Sequencers /\ t.step \in Int
  <2>1. DtType'
    BY SendFacts
  <2> QED
    BY <2>1 DEF DtType, DownTracks, Sequencers, Slots, t
<1>8. CASE n = 0
  <2>1. i = 1 /\ n + 1 = 1
    BY <1>8
  <2>2. ~s.init
    <3>1. sent[d] = <<>>
      BY <1>8, NumberTypes, EmptySeq
    <3> QED
      BY <3>1 DEF SequencerOf, s
  <2>3. PICK slot : WrittenAt(s, t, slot, [src |-> pkt.ext, num |-> num])
    <3>1. PICK k \in Nat \ {0} : k = 1
      OBVIOUS
    <3>2. s.max = MaxTrack
      BY DEF s
    <3> QED
      BY <1>2, <1>3, <1>4, <2>2, <3>1, <3>2, PushHeadWrites
  <2>4. SlotOf(d, n + 1, i)' = slot
    <3>1. t.step - 1 - 0 = t.step - 1
      BY <1>7
    <3> QED
      BY <1>1, <1>5, <1>6, <2>1, <2>3, <3>1 DEF WrittenAt
  <2> QED
    BY <1>1, <2>1, <2>3, <2>4 DEF EntryOf, WrittenAt
<1>9. CASE n # 0
  <2>1. PICK a \in 1 .. n : SequencerFrom(d, a)
    <3>1. sent[d] # <<>>
      BY <1>1, <1>9
    <3> QED
      BY <1>1, <3>1 DEF SequencerOf
  <2>2. RingFrom(d, a)
    BY <2>1, InOrderBefore DEF SequencerFrom
  <2>3. PICK k \in 1 .. HalfSN : k = Minus(num, sent[d][a].num)
    BY <1>1, <2>1, SendDistance DEF SequencerFrom, num
  <2>4. s.init /\ s.head_sn = sent[d][a].num /\ k \in Nat \ {0} /\ s.max = MaxTrack
    BY <2>1, HalfSNAssumption DEF SequencerFrom, NumbersFrom, s
  <2>5. PICK slot : /\ slot = (s.step + k - 1) % MaxTrack
                    /\ WrittenAt(s, t, slot, [src |-> pkt.ext, num |-> num])
    BY <1>2, <1>3, <1>4, <2>3, <2>4, PushHeadWrites
  <2>6. CASE i = n + 1
    <3>1. SlotOf(d, n + 1, i)' = slot
      <4>1. t.step - 1 - 0 = t.step - 1
        BY <1>7
      <4>2. Minus(num, sent'[d][i].num) = 0
        BY <1>1, <1>5, <2>6
      <4>3. SlotOf(d, n + 1, i)' = (t.step - 1) % MaxTrack
        BY <1>6, <4>1, <4>2
      <4> QED
        BY <2>5, <4>3 DEF WrittenAt
    <3> QED
      BY <1>1, <2>5, <2>6, <3>1 DEF EntryOf, WrittenAt
  <2>7. CASE i \in 1 .. n
    <3>1. /\ sent'[d][i] = sent[d][i] /\ sent[d][i].pkt.head /\ AmongTheLast(d, i)
          /\ sent[d][i].num \in Int /\ sent[d][a].num \in Int
      <4>1. sent'[d][i] = sent[d][i] /\ sent[d][i].pkt.head
        BY <1>1, <2>7
      <4>2. AmongTheLast(d, i)
        BY <1>1, <2>7, InOrderBefore
      <4>3. sent[d][i].num \in SN /\ sent[d][a].num \in SN
        BY <1>1, <2>7, SequencerTypes
      <4> QED
        BY <4>1, <4>2, <4>3, WidthFacts DEF SN
    <3>2. i <= a /\ sent[d][a].pkt.head
      <4>1. Anchor(d, a)
        BY <2>1 DEF SequencerFrom
      <4>2. i <= a
        <5>1. ~(i > a)
          BY <1>1, <2>7, <3>1, <4>1 DEF Anchor
        <5> QED
          BY <2>7, <5>1
      <4> QED
        BY <2>7, <3>1, <4>1, <4>2 DEF Anchor
    <3>3. PICK back \in SN : back = Minus(sent[d][a].num, sent[d][i].num)
      BY <3>1, MinusType
    <3>4. i \in 1 .. a /\ a \in i .. n /\ i \in i .. n /\ a \in i .. n + 1 /\ i \in i .. n + 1
          /\ n + 1 \in i .. n + 1 /\ a <= n + 1
      BY <2>7, <3>2
    <3>5. back < MaxTrack - 1
      BY <3>1, <3>2, <3>3, <3>4 DEF AmongTheLast
    <3>6. Len(sent'[d]) = n + 1
      <4>1. PICK e \in Sent : sent'[d] = Append(sent[d], e)
        BY SendFacts
      <4>2. sent[d] \in Seq(Sent)
        BY NumberTypes
      <4> QED
        BY <4>1, <4>2, AppendFacts
    <3>7. k < MaxTrack - 1 /\ Minus(num, sent[d][i].num) < MaxTrack - 1
      <4>1. sent'[d][a] = sent[d][a] /\ i <= n + 1
        BY <1>1, <3>4
      <4> QED
        BY <1>1, <2>3, <3>1, <3>2, <3>4, <3>6, <4>1 DEF AmongTheLast
    <3>8. back \in Nat /\ k + back < MaxSN /\ k \in Nat
      <4>1. 2 * MaxTrack <= HalfSN + 1 /\ MaxSN = 2 * HalfSN /\ HalfSN \in Nat \ {0}
        BY HalfSNAssumption DEF MaxSN, RingIsShort
      <4> QED
        BY <1>3, <2>3, <3>3, <3>5, <3>7, <4>1, WidthFacts DEF SN
    <3>9. Minus(num, sent[d][i].num) = k + back
      BY <1>2, <2>3, <3>1, <3>3, <3>8, MinusSum
    <3>10. PICK old : old = (s.step - 1 - back) % MaxTrack
      OBVIOUS
    <3>11. /\ (t.step - 1 - (k + back)) % MaxTrack = old /\ old # slot
      <4>1. k + back < MaxTrack
        BY <1>3, <3>7, <3>8, <3>9
      <4>2. PICK x \in Int, y \in Int : x = s.step /\ y = t.step
        BY <1>3, <1>7
      <4>3. Slot(y - 1) = Slot(x + k - 1)
        BY <2>5, <4>2 DEF WrittenAt, Slot
      <4>4. /\ Slot(y - 1 - (k + back)) = Slot(x - 1 - back)
            /\ Slot(x - 1 - back) # Slot(x + k - 1)
        <5>1. k \in Nat \ {0} /\ back \in Nat /\ k + back < MaxTrack
          BY <2>4, <3>8, <4>1
        <5> QED
          BY <4>3, <5>1, SlotStays
      <4> QED
        BY <2>5, <3>10, <4>2, <4>4 DEF Slot
    <3>12. SlotOf(d, n + 1, i)' = old
      BY <1>6, <3>1, <3>9, <3>11
    <3>13. SlotOf(d, a, i) = old
      BY <3>3, <3>10 DEF SlotOf, s
    <3>14. old \in DOMAIN s.seq /\ s.seq[old] = EntryOf(d, i)
      BY <2>2, <3>1, <3>4, <3>13 DEF RingFrom, s
    <3>15. t.seq[old] = s.seq[old] /\ old \in DOMAIN t.seq
      BY <2>5, <3>11, <3>14 DEF WrittenAt
    <3> QED
      BY <3>1, <3>12, <3>14, <3>15 DEF EntryOf
  <2> QED
    BY <2>6, <2>7
<1> QED
  BY <1>8, <1>9

LEMMA SendSequencer ==
    ASSUME RingIsShort, TypeInv, TaskInv, SyncInv, Send, NEW d \in Subscribers,
           d = Head(todo), SequencerOf(d)
    PROVE  SequencerOf(d)'
<1>1. PICK n \in Nat :
         /\ n = Len(sent[d]) /\ DOMAIN sent[d] = 1 .. n /\ DOMAIN sent'[d] = 1 .. n + 1
         /\ \A i \in 1 .. n : sent'[d][i] = sent[d][i]
         /\ sent'[d][n + 1].pkt = pkt
  BY SentGrows
<1>2. /\ todo # <<>> /\ pkt \in Packets /\ kind' = kind /\ InWrite(d) /\ NewSN(d) \in SN
      /\ pkt.ext \in Nat /\ pkt.head \in BOOLEAN
  BY WriteFacts DEF Send, ReadyToSend, Writing, InWrite, Packets
<1>3. sent[d] = <<>> <=> n = 0
  BY <1>1, NumberTypes, EmptySeq
<1>4. sent'[d] # <<>>
  BY <1>1
<1>5. /\ dt[d].sequencer \in Sequencers
      /\ dt'[d].sequencer = PushMeta(dt[d].sequencer, pkt.ext, NewSN(d), pkt.head)
  BY SequencerTypes, SendFacts
<1>6. /\ kind = "video" => dt[d].sequencer.max = MaxTrack
      /\ dt'[d].sequencer.max = dt[d].sequencer.max
  BY <1>2, <1>5, PushKeepsMax DEF SequencerOf, SyncInv, SyncOf
<1>7. CASE pkt.head
  <2>1. Anchor(d, n + 1)' /\ NumbersFrom(d, n + 1)'
    BY <1>1, <1>7, SendAnchorsAnew
  <2>2. ASSUME kind = "video", InOrder(d)', NoLongGap(d)' PROVE RingFrom(d, n + 1)'
    BY <1>1, <1>6, <1>7, <2>2, SendHeadRing
  <2>3. SequencerFrom(d, n + 1)'
    BY <1>2, <2>1, <2>2 DEF SequencerFrom
  <2>4. n + 1 \in DOMAIN sent'[d]
    BY <1>1
  <2> QED
    BY <1>2, <1>4, <1>6, <2>3, <2>4 DEF SequencerOf
<1>8. CASE ~pkt.head /\ n = 0
  <2>1. Anchor(d, n + 1)' /\ NumbersFrom(d, n + 1)'
    BY <1>1, <1>8, SendAnchorsAnew
  <2>2. RingFrom(d, n + 1)'
    <3>1. \A i \in 1 .. n + 1 : ~sent'[d][i].pkt.head
      BY <1>1, <1>8
    <3> QED
      BY <3>1 DEF RingFrom
  <2>3. SequencerFrom(d, n + 1)'
    BY <2>1, <2>2 DEF SequencerFrom
  <2>4. n + 1 \in DOMAIN sent'[d]
    BY <1>1
  <2> QED
    BY <1>2, <1>4, <1>6, <2>3, <2>4 DEF SequencerOf
<1>9. CASE ~pkt.head /\ n # 0
  <2>1. PICK a \in 1 .. n : SequencerFrom(d, a)
    BY <1>1, <1>3, <1>9 DEF SequencerOf
  <2>2. Anchor(d, a) /\ NumbersFrom(d, a) /\ a \in DOMAIN sent[d] /\ a \in DOMAIN sent'[d]
    BY <1>1, <2>1 DEF SequencerFrom
  <2>3. Anchor(d, a)' /\ NumbersFrom(d, a)'
    BY <1>9, <2>2, SendKeepsAnchor
  <2>4. ASSUME kind = "video", InOrder(d)', NoLongGap(d)' PROVE RingFrom(d, a)'
    <3>1. RingFrom(d, a)
      BY <2>1, <2>4, InOrderBefore DEF SequencerFrom
    <3>2. Minus(NewSN(d), dt[d].sequencer.head_sn) \in 1 .. HalfSN /\ dt[d].sequencer.init
      <4>1. Minus(NewSN(d), sent[d][a].num) \in 1 .. HalfSN
        BY <2>2, <2>4, SendDistance
      <4> QED
        BY <2>2, <4>1 DEF NumbersFrom
    <3>3. pkt.head = FALSE
      BY <1>2, <1>9
    <3>4. dt'[d].sequencer = dt[d].sequencer
      <4>1. PushMeta(dt[d].sequencer, pkt.ext, NewSN(d), FALSE) = dt[d].sequencer
        BY <1>2, <1>5, <1>6, <2>4, <3>2, PushLateIgnored
      <4> QED
        BY <1>5, <3>3, <4>1
    <3>5. \A i \in 1 .. a : i \in 1 .. n /\ sent'[d][i] = sent[d][i]
      BY <1>1
    <3>6. \A i \in 1 .. a : AmongTheLast(d, i)' => AmongTheLast(d, i)
      BY <1>1, <3>5, InOrderBefore
    <3>7. a \in 1 .. a
      OBVIOUS
    <3>8. \A i \in 1 .. a : SlotOf(d, a, i)' = SlotOf(d, a, i) /\ EntryOf(d, i)' = EntryOf(d, i)
      BY <3>4, <3>5, <3>7 DEF SlotOf, EntryOf
    <3> QED
      BY <3>1, <3>4, <3>5, <3>6, <3>8 DEF RingFrom
  <2>5. SequencerFrom(d, a)'
    BY <1>2, <2>3, <2>4 DEF SequencerFrom
  <2> QED
    BY <1>2, <1>4, <1>6, <2>2, <2>5 DEF SequencerOf
<1> QED
  BY <1>7, <1>8, <1>9

LEMMA SetOffsetSequencer ==
    ASSUME TypeInv, TaskInv, SetOffset, NEW d \in Subscribers, d = Head(todo), SequencerOf(d)
    PROVE  SequencerOf(d)'
<1>1. /\ todo # <<>> /\ pkt' = pkt /\ sent' = sent /\ kind' = kind /\ at = "load"
      /\ Resyncing(d)' /\ ~Resyncing(d)
  BY DEF SetOffset, Writing, Resyncing, history
<1>2. pkt \in Packets /\ dt[d] \in DownTracks /\ pkt.ext \in Int
  BY <1>1, WriteFacts DEF Packets
<1>3. /\ dt'[d].last_sn = dt[d].last_sn /\ dt'[d].sn_offset = OffsetAfterPause(d)
      /\ dt'[d].sequencer = dt[d].sequencer /\ dt'[d].re_sync = dt[d].re_sync
  BY <1>2, SetOffsetFacts DEF DownTracks
<1>4. ASSUME NEW a, SequencerFrom(d, a) PROVE SequencerFrom(d, a)'
  <2>1. Anchor(d, a)'
    BY <1>1, <1>4 DEF SequencerFrom, Anchor
  <2>2. OffsetSince(d, a)
    BY <1>1, <1>4 DEF SequencerFrom, NumbersFrom
  <2>3. OffsetSince(d, a)' \/ OffsetFollows(d)'
    <3>1. CASE dt[d].last_sn = 0
      BY <1>1, <1>3, <2>2, <3>1 DEF OffsetAfterPause, OffsetSince
    <3>2. CASE dt[d].last_sn # 0
      <4>1. dt[d].last_sn + 1 \in Int
        BY NumberTypes
      <4>2. Minus(Source(pkt), dt[d].last_sn + 1) = Minus(pkt.ext, dt[d].last_sn + 1)
        BY <1>2, <4>1, MinusOfSource DEF Source
      <4> QED
        BY <1>1, <1>3, <3>2, <4>2 DEF OffsetAfterPause, OffsetFollows
    <3> QED
      BY <3>1, <3>2
  <2>4. NumbersFrom(d, a)'
    BY <1>1, <1>3, <1>4, <2>3 DEF SequencerFrom, NumbersFrom
  <2>5. /\ InOrder(d)' = InOrder(d) /\ NoLongGap(d)' = NoLongGap(d)
        /\ \A i : AmongTheLast(d, i)' = AmongTheLast(d, i)
    BY <1>1 DEF InOrder, NoLongGap, AmongTheLast
  <2>6. RingFrom(d, a)' <=> RingFrom(d, a)
    <3>1. \A i : SlotOf(d, a, i)' = SlotOf(d, a, i) /\ EntryOf(d, i)' = EntryOf(d, i)
      BY <1>1, <1>3 DEF SlotOf, EntryOf
    <3> QED
      BY <1>1, <1>3, <2>5, <3>1 DEF RingFrom
  <2> QED
    BY <1>1, <1>4, <2>1, <2>4, <2>5, <2>6 DEF SequencerFrom
<1> QED
  BY <1>1, <1>3, <1>4 DEF SequencerOf, NeverBound

LEMMA SequencerInit == Init => SequencerInv
BY DEF Init, SequencerInv, SequencerOf, NeverBound, NewSequencer

LEMMA SequencerNext ==
    ASSUME RingIsShort
    PROVE  TypeInv /\ TaskInv /\ SyncInv /\ SequencerInv /\ [Next]_vars => SequencerInv'
<1> SUFFICES ASSUME TypeInv, TaskInv, SyncInv, SequencerInv, [Next]_vars
             PROVE  SequencerInv'
  OBVIOUS
<1>1. \A d \in Subscribers : SequencerOf(d)
  BY DEF SequencerInv
<1>2. ASSUME UNCHANGED <<sent, kind>>, at # "sync", at' # "sync",
             \A d \in Subscribers : /\ dt'[d].sn_offset = dt[d].sn_offset
                                    /\ dt'[d].last_sn = dt[d].last_sn
                                    /\ dt'[d].sequencer = dt[d].sequencer
                                    /\ dt'[d].re_sync = dt[d].re_sync
      PROVE  SequencerInv'
  <2>1. ASSUME NEW d \in Subscribers PROVE SequencerOf(d)'
    <3>1. ~Resyncing(d) /\ ~Resyncing(d)' /\ (NeverBound(d) => NeverBound(d)')
      BY <1>2 DEF Resyncing, NeverBound
    <3> QED
      BY <1>1, <1>2, <3>1, SequencerStays
  <2> QED
    BY <2>1 DEF SequencerInv
<1>3. ASSUME UNCHANGED <<sent, kind, at, pkt, todo, dt>> PROVE SequencerInv'
  <2>1. ASSUME NEW d \in Subscribers PROVE SequencerOf(d)'
    <3>1. (Resyncing(d)' <=> Resyncing(d)) /\ (NeverBound(d) => NeverBound(d)')
      BY <1>3 DEF Resyncing, NeverBound
    <3> QED
      BY <1>1, <1>3, <3>1, SequencerStays
  <2> QED
    BY <2>1 DEF SequencerInv
<1>4. CASE UNCHANGED vars
  BY <1>3, <1>4 DEF vars
<1>5. ASSUME NEW p \in Packets, Arrives(p) PROVE SequencerInv'
  <2>1. at = "check" /\ at' = "check" /\ UNCHANGED <<sent, dt, kind>>
    BY <1>5 DEF Arrives, Read, TaskInv, TypeInv, FlatType
  <2> QED
    BY <1>2, <2>1
<1>6. CASE Check
  BY <1>2, <1>6 DEF Check, Writing, NextDownTrack
<1>7. CASE AskForKeyFrame
  BY <1>2, <1>7 DEF AskForKeyFrame, Writing, NextDownTrack
<1>8. CASE SetOffset
  <2>1. PICK d \in Subscribers : d = Head(todo)
    BY <1>8, WriteFacts DEF SetOffset, Writing
  <2>2. UNCHANGED <<sent, pkt, todo, kind>> /\ at = "load"
    BY <1>8 DEF SetOffset, Writing, history
  <2>3. ASSUME NEW x \in Subscribers \ {d} PROVE SequencerOf(x)'
    <3>1. dt'[x] = dt[x] /\ ~Resyncing(x) /\ ~Resyncing(x)' /\ (NeverBound(x) => NeverBound(x)')
      BY <1>8, <2>1, <2>2, SetOffsetFacts DEF Resyncing, NeverBound
    <3> QED
      BY <1>1, <2>2, <3>1, SequencerStays
  <2> QED
    BY <1>1, <1>8, <2>1, <2>3, SetOffsetSequencer DEF SequencerInv
<1>9. CASE SetOffsetPanics \/ SendPanics
  BY <1>3, <1>9 DEF SetOffsetPanics, SendPanics, Panic, history
<1>10. CASE Send
  <2>1. PICK d \in Subscribers : d = Head(todo) /\ at' = "check" /\ kind' = kind
    BY <1>10, WriteFacts DEF Send, ReadyToSend, Writing, NextDownTrack
  <2>2. ASSUME NEW x \in Subscribers \ {d} PROVE SequencerOf(x)'
    <3>1. dt'[x] = dt[x] /\ sent'[x] = sent[x]
      BY <1>10, <2>1, SendFacts
    <3>2. ~Resyncing(x) /\ ~Resyncing(x)' /\ (NeverBound(x) => NeverBound(x)')
      BY <2>1, <3>1 DEF Resyncing, NeverBound
    <3> QED
      BY <1>1, <2>1, <3>1, <3>2, SequencerStays
  <2> QED
    BY <1>1, <1>10, <2>1, <2>2, SendSequencer DEF SequencerInv
<1>11. CASE DeleteDownTrack
  <2>1. at = "check" /\ at' = at /\ UNCHANGED <<sent, kind>>
    BY <1>11 DEF DeleteDownTrack, TaskInv, TypeInv, FlatType, history
  <2> QED
    BY <1>2, <1>11, <2>1, DeleteFacts
<1>12. ASSUME NEW d \in Subscribers, SubscriberStep(d) PROVE SequencerInv'
  <2>1. UNCHANGED <<sent, pkt, at, kind>> /\ Head(todo') = Head(todo)
    BY <1>12 DEF SubscriberStep, AddDownTrack, Bind, Mute, Unmute, Disconnect, history
  <2>2. \A x \in Subscribers : Resyncing(x)' <=> Resyncing(x)
    BY <2>1 DEF Resyncing
  <2>3. CASE AddDownTrack(d)
    BY <1>3, <2>3 DEF AddDownTrack, history
  <2>4. ASSUME NEW x \in Subscribers, dt'[x] = dt[x] PROVE SequencerOf(x)'
    <3>1. NeverBound(x) => NeverBound(x)'
      BY <2>1, <2>4 DEF NeverBound
    <3> QED
      BY <1>1, <2>1, <2>2, <2>4, <3>1, SequencerStays
  <2>5. ASSUME OthersStay(d), SequencerOf(d)' PROVE SequencerInv'
    <3>1. \A x \in Subscribers \ {d} : SequencerOf(x)'
      BY <2>4, <2>5 DEF OthersStay
    <3> QED
      BY <2>5, <3>1 DEF SequencerInv
  <2>6. ASSUME OthersStay(d), dt'[d].sequencer = dt[d].sequencer,
               NeverBound(d) => NeverBound(d)'
        PROVE  SequencerOf(d)'
    BY <1>1, <2>1, <2>2, <2>6, SequencerStays DEF OthersStay
  <2>7. CASE Bind(d)
    <3>1. /\ OthersStay(d) /\ sent[d] = <<>> /\ dt[d].last_sn = 0 /\ dt'[d].last_sn = 0
      <4>1. OthersStay(d) /\ sent[d] = <<>>
        BY <2>7, BindFacts DEF Bind, NeverBound
      <4>2. dt[d].last_sn = 0
        BY <1>1, <4>1 DEF SequencerOf
      <4> QED
        BY <4>1, <4>2 DEF OthersStay
    <3>2. dt'[d].sequencer = IF kind = "video" THEN NewSequencer(MaxTrack) ELSE dt[d].sequencer
      <4>1. dt[d] \in DownTracks /\ dt \in [Subscribers -> DownTracks]
        BY DEF TypeInv, DtType
      <4> QED
        BY <2>7, <4>1 DEF Bind, DownTracks
    <3>3. ~dt'[d].sequencer.init /\ (kind = "video" => dt'[d].sequencer.max = MaxTrack)
      BY <1>1, <3>1, <3>2 DEF SequencerOf, NewSequencer
    <3>4. SequencerOf(d)'
      BY <2>1, <3>1, <3>3 DEF SequencerOf
    <3> QED
      BY <2>5, <3>1, <3>4
  <2>8. CASE Mute(d)
    <3>1. ~NeverBound(d)
      BY <2>8 DEF Mute, SyncInv, SyncOf
    <3> QED
      BY <2>5, <2>6, <2>8, <3>1, MuteFacts
  <2>9. CASE Unmute(d)
    <3>1. NeverBound(d) => NeverBound(d)'
      BY <2>1, <2>9, UnmuteFacts DEF NeverBound
    <3> QED
      BY <2>5, <2>6, <2>9, <3>1, UnmuteFacts
  <2>10. CASE Disconnect(d)
    <3>1. NeverBound(d) => NeverBound(d)'
      BY <2>1, <2>10, DisconnectFacts DEF NeverBound
    <3> QED
      BY <2>5, <2>6, <2>10, <3>1, DisconnectFacts
  <2> QED
    BY <1>12, <2>3, <2>7, <2>8, <2>9, <2>10 DEF SubscriberStep
<1> QED
  BY <1>4, <1>5, <1>6, <1>7, <1>8, <1>9, <1>10, <1>11, <1>12, NextCases

\* What the sequencer's ring holds is what it is asked for.
LEMMA RingIsRead ==
    ASSUME TypeInv, SyncInv, SequencerInv
    PROVE  SequencerFindsInOrder
<1> SUFFICES ASSUME kind = "video", NEW d \in Subscribers, InOrder(d), NoLongGap(d),
                    NEW i \in DOMAIN sent[d], sent[d][i].pkt.head, AmongTheLast(d, i)
             PROVE  GetSeqNoPairs(dt[d].sequencer, sent[d][i].num) = {sent[d][i].pkt.ext}
  BY DEF SequencerFindsInOrder, FindsLastHeads
<1>1. PICK n \in Nat : n = Len(sent[d]) /\ DOMAIN sent[d] = 1 .. n
  <2>1. sent[d] \in Seq(Sent)
    BY NumberTypes
  <2> QED
    BY <2>1, LenProperties
<1>2. sent[d] # <<>> /\ SequencerOf(d)
  BY DEF SequencerInv
<1>3. PICK a \in 1 .. n : SequencerFrom(d, a)
  BY <1>1, <1>2 DEF SequencerOf
<1>4. Anchor(d, a) /\ NumbersFrom(d, a) /\ RingFrom(d, a)
  BY <1>3 DEF SequencerFrom
<1>5. i \in 1 .. a /\ sent[d][a].pkt.head
  BY <1>1, <1>4 DEF Anchor
<1>6. dt[d].sequencer \in Sequencers /\ sent[d][i].num \in SN /\ sent[d][i].pkt.ext \in Nat
  BY SequencerTypes
<1>7. dt[d].sequencer.max = MaxTrack
  BY <1>2 DEF SequencerOf, NeverBound
<1>8. dt[d].sequencer.head_sn = sent[d][a].num
  BY <1>4 DEF NumbersFrom
<1>9. Minus(dt[d].sequencer.head_sn, sent[d][i].num) < MaxTrack - 1
  <2>1. a \in i .. n /\ i \in i .. n /\ i <= a
    BY <1>1, <1>5
  <2> QED
    BY <1>1, <1>5, <1>8, <2>1 DEF AmongTheLast
<1>10. PICK slot : slot = SlotOf(d, a, i)
  OBVIOUS
<1>11. /\ slot = (dt[d].sequencer.step - 1 - Minus(dt[d].sequencer.head_sn, sent[d][i].num))
                 % MaxTrack
       /\ slot \in DOMAIN dt[d].sequencer.seq
       /\ dt[d].sequencer.seq[slot] = [src |-> sent[d][i].pkt.ext, num |-> sent[d][i].num]
  BY <1>4, <1>5, <1>8, <1>10 DEF RingFrom, SlotOf, EntryOf
<1> QED
  BY <1>6, <1>7, <1>9, <1>11, FoundInItsSlot

\* However packets are lost, a video is muted and its numbers wrap, any number of times,
\* the sequencer finds under each of the last numbers the packet that was sent under it
\* (push, get_seq_no_pairs), where the packets came in order and over no gap of half
\* a cycle; the ring being so short that a packet after a pause is told from a late
\* one (max_packet_track is 500 of 65536).
THEOREM SequencerFinds == ASSUME RingIsShort PROVE Spec => []SequencerFindsInOrder
<1> DEFINE Inv == TypeInv /\ TaskInv /\ SyncInv /\ KeyFrameFirst /\ SequencerInv
<1>1. Init => Inv
  BY TypeInit, SyncInit, SequencerInit
<1>2. Inv /\ [Next]_vars => Inv'
  BY TypeNext, SyncNext, SequencerNext
<1>3. Inv => SequencerFindsInOrder
  BY RingIsRead
<1> QED
  BY <1>1, <1>2, <1>3, PTL DEF Spec

=============================================================================
