---------------------------- MODULE BufferProofs ----------------------------
(***************************************************************************)
(* What is proved of Buffer for every size of the sequence numbers, of the *)
(* ring and of the network's windows.                                      *)
(***************************************************************************)
EXTENDS Buffer, WellFoundedInduction, SequenceFacts

-----------------------------------------------------------------------------
(* Arithmetic of sequence numbers.                                         *)

LEMMA HalfFacts == HalfSN \in Nat /\ HalfSN > 0 /\ MaxSN \in Nat /\ MaxSN = HalfSN + HalfSN
BY HalfSNAssumption DEF MaxSN

LEMMA DistanceType ==
    ASSUME NEW new \in SN, NEW old \in SN
    PROVE  Distance(new, old) \in SN
BY HalfFacts DEF SN, Distance

LEMMA SameDistance == ASSUME NEW sn \in SN PROVE Distance(sn, sn) = 0
<1>1. PICK m \in Nat : m = MaxSN /\ m > 0
  BY HalfFacts
<1>2. sn \in Int /\ sn - sn = 0 /\ 0 % m = 0
  BY <1>1 DEF SN
<1> QED
  BY <1>1, <1>2 DEF Distance

LEMMA ExtType == ASSUME NEW p \in Packet PROVE Ext(p) \in Int /\ p.sn \in SN /\ p.roc \in Int
<1>1. p.roc \in Int /\ p.sn \in SN
  BY BufferAssumption DEF Packet
<1>2. p.sn \in Int /\ p.roc * MaxSN \in Int
  BY <1>1, HalfFacts DEF SN
<1> QED
  BY <1>1, <1>2 DEF Ext

\* Two rollover counters further apart than d put d cycles between packets.
LEMMA CyclesApart ==
    ASSUME NEW r \in Int, NEW k \in Int, NEW d \in {-1, 0, 1, 2}
    PROVE  /\ r >= k + d => r * MaxSN >= k * MaxSN + d * MaxSN
           /\ r <= k + d => r * MaxSN <= k * MaxSN + d * MaxSN
<1>1. PICK m \in Nat : m = MaxSN /\ m > 0
  BY HalfFacts
<1>2. ASSUME NEW x \in Int, NEW y \in Int, x >= y PROVE x * m >= y * m
  <2>1. x - y \in Nat
    BY <1>2
  <2>2. (x - y) * m >= 0
    BY <2>1, <1>1
  <2>3. (x - y) * m = x * m - y * m
    BY <1>1
  <2> QED
    BY <2>2, <2>3, <1>1
<1>3. (k + d) * m = k * m + d * m
  BY <1>1
<1>4. r >= k + d => r * m >= (k + d) * m
  BY <1>2
<1>5. r <= k + d => (k + d) * m >= r * m
  BY <1>2
<1> QED
  BY <1>1, <1>3, <1>4, <1>5

\* Where a packet stands that arrives within the window of the newest one, cyc
\* and max into the stream: as the top bit of the distance says.
LEMMA PlaceInTheWindow ==
    ASSUME NEW max \in SN, NEW cyc \in Int, NEW new \in Int, NEW p \in Packet,
           \E k \in Int : cyc = k * MaxSN,
           new = cyc + max,
           Ext(p) - new < HalfSN,
           new - Ext(p) <= HalfSN
    PROVE  /\ AtOrAhead(p.sn, max) /\ p.sn >= max =>
                  Ext(p) = cyc + p.sn /\ Ext(p) >= new
           /\ AtOrAhead(p.sn, max) /\ p.sn < max =>
                  Ext(p) = cyc + MaxSN + p.sn /\ Ext(p) > new
           /\ ~AtOrAhead(p.sn, max) =>
                  Ext(p) < new /\ (Ext(p) = cyc + p.sn \/ Ext(p) < cyc)
<1>1. PICK m \in Nat, h \in Nat : m = MaxSN /\ h = HalfSN /\ m = h + h /\ h > 0
  BY HalfFacts
<1>2. PICK s \in Int, r \in Int : s = p.sn /\ r = p.roc /\ 0 <= s /\ s < m
  BY ExtType, <1>1 DEF SN
<1>3. max \in Int /\ 0 <= max /\ max < m
  BY <1>1 DEF SN
<1>4. PICK k \in Int, K \in Int : K = k * m /\ K = cyc
  BY <1>1
<1>5. PICK R \in Int : R = r * m
  BY <1>1, <1>2
<1>6. Ext(p) = R + s /\ new = K + max
  BY <1>1, <1>2, <1>4, <1>5 DEF Ext
<1>7. \/ r <= k - 1 /\ R <= K - m
      \/ r = k /\ R = K
      \/ r = k + 1 /\ R = K + m
      \/ r >= k + 2 /\ R >= K + m + m
  <2>1. r <= k - 1 => R <= K - m
    BY CyclesApart, <1>1, <1>2, <1>4, <1>5
  <2>2. r = k => R = K
    BY <1>4, <1>5
  <2>3. r = k + 1 => R = K + m
    BY CyclesApart, <1>1, <1>2, <1>4, <1>5
  <2>4. r >= k + 2 => R >= K + m + m
    BY CyclesApart, <1>1, <1>2, <1>4, <1>5
  <2> QED
    BY <2>1, <2>2, <2>3, <2>4, <1>2
<1>8. /\ s >= max => Distance(p.sn, max) = s - max
      /\ s < max => Distance(p.sn, max) = m + s - max
  BY <1>1, <1>2, <1>3 DEF Distance
<1>9. AtOrAhead(p.sn, max) <=> IF s >= max THEN s - max < h ELSE m + s - max < h
  BY <1>1, <1>2, <1>3, <1>8 DEF AtOrAhead
<1>10. R + s - (K + max) < h /\ (K + max) - (R + s) <= h
  BY <1>1, <1>6
<1> QED
  <2>1. ASSUME AtOrAhead(p.sn, max), s >= max PROVE R = K
    BY <1>1, <1>2, <1>3, <1>7, <1>9, <1>10, <2>1
  <2>2. ASSUME AtOrAhead(p.sn, max), s < max PROVE R = K + m
    BY <1>1, <1>2, <1>3, <1>7, <1>9, <1>10, <2>2
  <2>3. ASSUME ~AtOrAhead(p.sn, max)
        PROVE  R + s < K + max /\ (R = K \/ R + s < K)
    BY <1>1, <1>2, <1>3, <1>7, <1>9, <1>10, <2>3
  <2>4. cyc = K /\ MaxSN = m /\ p.sn = s
    BY <1>1, <1>2, <1>4
  <2>5. AtOrAhead(p.sn, max) /\ s >= max => Ext(p) = K + s /\ Ext(p) >= new
    BY <1>2, <1>3, <1>4, <1>5, <1>6, <2>1
  <2>6. AtOrAhead(p.sn, max) /\ s < max => Ext(p) = K + m + s /\ Ext(p) > new
    BY <1>1, <1>2, <1>3, <1>4, <1>5, <1>6, <2>2
  <2>7. ~AtOrAhead(p.sn, max) => Ext(p) < new /\ (Ext(p) = K + s \/ Ext(p) < K)
    BY <1>1, <1>2, <1>3, <1>4, <1>5, <1>6, <2>3
  <2> QED
    BY <2>4, <2>5, <2>6, <2>7

-----------------------------------------------------------------------------
(* The extended sequence number of the newest packet.                      *)

TrackTypeOK ==
    /\ max_seq_no \in SN
    /\ cycles \in Nat
    /\ packet_count \in Nat
    /\ arrived \subseteq Packet
    /\ newest \in Int
    /\ \E k \in Nat : cycles = k * MaxSN

\* The first packet is the one that finds no packet counted; from then on the
\* two counters are the place of the newest.
TrackInv ==
    /\ TrackTypeOK
    /\ reader = "running" =>
          /\ packet_count = 0 => arrived = {} /\ cycles = 0
          /\ packet_count # 0 => arrived # {} /\ newest = cycles + max_seq_no

\* What every step that hands a packet to calc without a panic does to them.
LEMMA TrackStep ==
    ASSUME TrackInv, NEW p \in Packet, Arrive(p), Track(p)
    PROVE  /\ max_seq_no' \in SN /\ cycles' \in Nat
           /\ \E k \in Nat : cycles' = k * MaxSN
           /\ arrived' \subseteq Packet /\ arrived' # {}
           /\ newest' \in Int
           /\ newest' = cycles' + max_seq_no'
           /\ ~Behind(p.sn) => Ext(p) = newest'
           /\ Behind(p.sn) => /\ newest' = newest /\ Ext(p) < newest
                              /\ Ext(p) = cycles + p.sn \/ Ext(p) < cycles
<1>1. PICK k \in Nat : cycles = k * MaxSN
  BY DEF TrackInv, TrackTypeOK
<1>2. PICK m \in Nat : m = MaxSN
  BY HalfFacts
<1>3. p.sn \in SN /\ Ext(p) \in Int /\ p.roc \in Int /\ p.sn \in Int
  BY ExtType DEF SN
<1>4. max_seq_no \in SN /\ max_seq_no \in Int /\ cycles \in Nat /\ newest \in Int
  BY DEF TrackInv, TrackTypeOK, SN
<1>5. arrived' \subseteq Packet /\ arrived' # {}
  BY DEF TrackInv, TrackTypeOK, Arrive
<1>6. max_seq_no' \in SN
  BY <1>3, <1>4 DEF Track, MaxAfter
<1>7. cycles' = CyclesAfter(p.sn) /\ max_seq_no' = MaxAfter(p.sn)
  BY DEF Track
<1>8. newest' = IF arrived = {} \/ Ext(p) > newest THEN Ext(p) ELSE newest
  BY DEF Arrive
<1>9. (\E j \in Nat : cycles' = j * MaxSN) /\ cycles' \in Nat
  <2>1. k * m + m = (k + 1) * m /\ (k + 1) * m \in Nat /\ k + 1 \in Nat
    BY <1>2
  <2>2. cycles' = k * m \/ cycles' = (k + 1) * m
    BY <1>1, <1>2, <1>7, <2>1 DEF CyclesAfter
  <2> QED
    BY <1>1, <1>2, <1>4, <2>1, <2>2
<1>10. CASE packet_count = 0
  <2>1. arrived = {} /\ cycles = 0
    BY <1>10 DEF TrackInv, Arrive
  <2>2. cycles' = 0 /\ max_seq_no' = p.sn
    BY <1>10, <1>7, <2>1 DEF CyclesAfter, MaxAfter, Wraps, Ahead, Behind, IsFirst
  <2>3. p.roc = 0
    BY <2>1 DEF Arrive, InWindow
  <2>4. Ext(p) = p.sn
    BY <2>3, <1>2, <1>3 DEF Ext
  <2> QED
    BY <1>3, <1>5, <1>6, <1>8, <1>9, <1>10, <2>1, <2>2, <2>4 DEF Behind, IsFirst
<1>11. CASE packet_count # 0
  <2>1. arrived # {} /\ newest = cycles + max_seq_no
    BY <1>11 DEF TrackInv, Arrive
  <2>2. Ext(p) - newest < HalfSN /\ newest - Ext(p) <= HalfSN
    BY <2>1, <1>3, <1>4, HalfFacts, BufferAssumption DEF Arrive, InWindow
  <2>3. /\ AtOrAhead(p.sn, max_seq_no) /\ p.sn >= max_seq_no =>
              Ext(p) = cycles + p.sn /\ Ext(p) >= newest
        /\ AtOrAhead(p.sn, max_seq_no) /\ p.sn < max_seq_no =>
              Ext(p) = cycles + MaxSN + p.sn /\ Ext(p) > newest
        /\ ~AtOrAhead(p.sn, max_seq_no) =>
              Ext(p) < newest /\ (Ext(p) = cycles + p.sn \/ Ext(p) < cycles)
    <3>1. cycles \in Int /\ \E j \in Int : cycles = j * MaxSN
      BY <1>1, <1>4
    <3> QED
      BY <2>1, <2>2, <1>4, <3>1, PlaceInTheWindow
  <2>4. /\ newest' = cycles' + max_seq_no'
        /\ ~Behind(p.sn) => Ext(p) = newest'
        /\ Behind(p.sn) => /\ newest' = newest /\ Ext(p) < newest
                           /\ Ext(p) = cycles + p.sn \/ Ext(p) < cycles
    <3>1. CASE Ahead(p.sn) /\ p.sn >= max_seq_no
      BY <3>1, <1>1, <1>2, <1>3, <1>4, <1>7, <1>8, <2>1, <2>3
         DEF Ahead, Behind, Wraps, CyclesAfter, MaxAfter
    <3>2. CASE Wraps(p.sn)
      BY <3>2, <1>1, <1>2, <1>3, <1>4, <1>7, <1>8, <2>1, <2>3
         DEF Ahead, Behind, Wraps, CyclesAfter, MaxAfter
    <3>3. CASE Behind(p.sn)
      BY <3>3, <1>1, <1>2, <1>3, <1>4, <1>7, <1>8, <2>1, <2>3
         DEF Ahead, Behind, Wraps, CyclesAfter, MaxAfter
    <3> QED
      BY <1>3, <1>4, <1>11, <3>1, <3>2, <3>3 DEF Ahead, Behind, Wraps, IsFirst
  <2> QED
    BY <1>3, <1>4, <1>5, <1>6, <1>8, <1>9, <2>4
<1> QED
  BY <1>10, <1>11 DEF TrackInv, TrackTypeOK

\* The first packet is stored whatever it is: only a late one can be refused.
LEMMA FirstIsStored ==
    ASSUME NEW p \in Packet, Track(p), Stored(p).err
    PROVE  packet_count # 0
<1>1. p.sn # max_seq_no'
  BY DEF Stored, AddPacket
<1> QED
  BY <1>1 DEF Track, MaxAfter, Behind, IsFirst

\* Nor is it garbled.
LEMMA FirstIsParsed ==
    ASSUME TrackInv, NEW p \in Packet, Arrive(p), p \in Garbled
    PROVE  packet_count # 0
BY GarbledAssumption DEF TrackInv, Arrive, InWindow

LEMMA TrackInvInit == Init => TrackInv
<1> SUFFICES ASSUME Init PROVE TrackInv
  OBVIOUS
<1>1. 0 \in SN /\ 0 = 0 * MaxSN
  BY HalfFacts DEF SN
<1> QED
  BY <1>1 DEF Init, TrackInv, TrackTypeOK

LEMMA TrackInvNext == TrackInv /\ [Next]_vars => TrackInv'
<1> SUFFICES ASSUME TrackInv, [Next]_vars PROVE TrackInv'
  OBVIOUS
<1>1. ASSUME NEW p \in Packet, Calc(p) PROVE TrackInv'
  <2>1. packet_count' = packet_count + 1 /\ packet_count \in Nat
    BY <1>1 DEF Calc, Enqueue, TrackInv, TrackTypeOK
  <2> QED
    BY <1>1, <2>1, TrackStep DEF Calc, TrackInv, TrackTypeOK
<1>2. ASSUME NEW p \in Packet, CalcRejected(p) PROVE TrackInv'
  <2>1. packet_count' = packet_count /\ packet_count # 0
    BY <1>2, FirstIsStored DEF CalcRejected
  <2> QED
    BY <1>2, <2>1, TrackStep DEF CalcRejected, TrackInv, TrackTypeOK
<1>unparsed. ASSUME NEW p \in Packet, CalcUnparsed(p) PROVE TrackInv'
  <2>1. packet_count' = packet_count /\ packet_count # 0
    BY <1>unparsed, FirstIsParsed DEF CalcUnparsed
  <2> QED
    BY <1>unparsed, <2>1, TrackStep DEF CalcUnparsed, TrackInv, TrackTypeOK
<1>3. ASSUME NEW p \in Packet, CalcMalformed(p) PROVE TrackInv'
  <2>1. packet_count' = packet_count + 1 /\ packet_count \in Nat
    BY <1>3 DEF CalcMalformed, TrackInv, TrackTypeOK
  <2> QED
    BY <1>3, <2>1, TrackStep DEF CalcMalformed, TrackInv, TrackTypeOK
<1>4. ASSUME NEW p \in Packet, CalcPanics(p) PROVE TrackInv'
  <2>1. reader' = "panicked" /\ packet_count' = packet_count /\ Arrive(p)
    BY <1>4 DEF CalcPanics
  <2>2. p.sn \in SN /\ Ext(p) \in Int
    BY ExtType
  <2>3. arrived' \subseteq Packet /\ newest' \in Int
    BY <2>1, <2>2 DEF Arrive, TrackInv, TrackTypeOK
  <2>4. max_seq_no' \in SN
    BY <1>4, <2>2 DEF CalcPanics, MaxAfter, TrackInv, TrackTypeOK
  <2>5. cycles' \in Nat /\ \E k \in Nat : cycles' = k * MaxSN
    <3>1. PICK k \in Nat, m \in Nat : cycles = k * m /\ m = MaxSN
      BY HalfFacts DEF TrackInv, TrackTypeOK
    <3>2. k * m + m = (k + 1) * m /\ (k + 1) * m \in Nat /\ k + 1 \in Nat
      BY <3>1
    <3>3. \E j \in {k, k + 1} : cycles' = j * m
      BY <1>4, <3>1, <3>2 DEF CalcPanics, CyclesAfter
    <3>4. PICK j \in {k, k + 1} : cycles' = j * m
      BY <3>3
    <3>5. j \in Nat /\ j * m \in Nat
      BY <3>1, <3>4
    <3> QED
      BY <3>1, <3>4, <3>5
  <2> QED
    BY <2>1, <2>3, <2>4, <2>5 DEF TrackInv, TrackTypeOK
<1>5. ASSUME NEW p \in Packet, CalcPanicsAsking(p) PROVE TrackInv'
  <2>1. packet_count' = packet_count + 1 /\ packet_count \in Nat /\ reader' = "panicked"
    BY <1>5 DEF CalcPanicsAsking, Enqueue, TrackInv, TrackTypeOK
  <2> QED
    BY <1>5, <2>1, TrackStep DEF CalcPanicsAsking, TrackInv, TrackTypeOK
<1>6. CASE ReadExtended
  BY <1>6 DEF ReadExtended, TrackInv, TrackTypeOK
<1>7. CASE UNCHANGED vars
  BY <1>7 DEF vars, TrackInv, TrackTypeOK
<1> QED
  BY <1>1, <1>2, <1>3, <1>unparsed, <1>4, <1>5, <1>6, <1>7 DEF Next

LEMMA TrackInvariant == Spec => []TrackInv
BY TrackInvInit, TrackInvNext, PTL DEF Spec

\* For any loss, reordering and repetition within half a cycle, and any number
\* of wraps, cycles and max_seq_no are the place of the newest packet.
THEOREM ExtendedSNCorrect == Spec => []ExtendedSNIsRight
<1>1. TrackInv => ExtendedSNIsRight
  BY DEF TrackInv, ExtendedSNIsRight
<1> QED
  BY <1>1, TrackInvariant, PTL

-----------------------------------------------------------------------------
(* The queue of missing packets, in a build that checks overflow.          *)

\* Every entry was passed over and has not come; an entry counts the requests
\* made for its packet since the packet was passed over.
QueueTypeOK(nacks) ==
    /\ DOMAIN nacks \subseteq Nat
    /\ \A e \in DOMAIN nacks : nacks[e] \in 0 .. MaxNackTimes

CountsRequests(nacks, asked) ==
    \A e \in DOMAIN nacks :
        IF e \in DOMAIN asked THEN nacks[e] = asked[e] ELSE nacks[e] = 0

RequestsTypeOK(asked) ==
    /\ DOMAIN asked \subseteq Int
    /\ \A e \in DOMAIN asked : asked[e] \in 0 .. MaxNackTimes

QueueInv ==
    /\ QueueTypeOK(nacker)
    /\ RequestsTypeOK(requested)
    /\ reader = "running" =>
          /\ IF Nack THEN cycles = 0 ELSE DOMAIN nacker = {}
          /\ packet_count = 0 => DOMAIN nacker = {} /\ DOMAIN requested = {}
          /\ \A e \in DOMAIN nacker : e < newest /\ e \notin ExtArrived
          /\ 0 \notin DOMAIN nacker
          /\ \A e \in DOMAIN requested : e < newest
          /\ \A p \in arrived : Ext(p) <= newest
          /\ CountsRequests(nacker, requested)

LEMMA ModSmall == ASSUME NEW m \in Nat, NEW x \in 0 .. m - 1 PROVE x % m = x
OBVIOUS

\* Without a wrap the gap is what lies between the two sequence numbers.
LEMMA GapIsBetween ==
    ASSUME NEW sn \in SN, max_seq_no \in SN, sn >= max_seq_no, NEW msn \in Gap(sn)
    PROVE  msn \in SN /\ max_seq_no < msn /\ msn < sn
<1>1. PICK m \in Nat : m = MaxSN /\ m > 0
  BY HalfFacts
<1>2. sn \in 0 .. m - 1 /\ max_seq_no \in 0 .. m - 1
  BY <1>1 DEF SN
<1>3. Distance(sn, max_seq_no) = sn - max_seq_no
  BY <1>2 DEF Distance
<1>4. PICK i \in 1 .. sn - max_seq_no - 1 : msn = (sn - i) % m
  BY <1>1, <1>3 DEF Gap
<1>5. sn - i \in 0 .. m - 1
  BY <1>2
<1>6. msn = sn - i
  BY <1>1, <1>4, <1>5, ModSmall
<1> QED
  BY <1>1, <1>2, <1>5, <1>6 DEF SN

\* The queue once the arrival of p has been accounted for.
LEMMA QueueStep ==
    ASSUME OverflowChecks, TrackInv, QueueInv,
           NEW p \in Packet, Arrive(p), Track(p)
    PROVE  LET queue == NackerAfter(p.sn)
           IN  /\ QueueTypeOK(queue)
               /\ CountsRequests(queue, requested)
               /\ 0 \notin DOMAIN queue
               /\ \A e \in DOMAIN queue :
                      e < newest' /\ e \notin {Ext(q) : q \in arrived'}
               /\ \A e \in DOMAIN requested : e < newest'
               /\ \A q \in arrived' : Ext(q) <= newest'
               /\ Nack => cycles' = 0
<1> DEFINE queue == NackerAfter(p.sn)
<1>1. /\ reader = "running" /\ arrived' = arrived \cup {p}
      /\ newest' = IF arrived = {} \/ Ext(p) > newest THEN Ext(p) ELSE newest
  BY DEF Arrive
<1>2. /\ QueueTypeOK(nacker) /\ CountsRequests(nacker, requested)
      /\ DOMAIN requested \subseteq Int
      /\ \A e \in DOMAIN nacker : e < newest /\ e \notin ExtArrived
      /\ 0 \notin DOMAIN nacker
      /\ \A e \in DOMAIN requested : e < newest
      /\ \A q \in arrived : Ext(q) <= newest
      /\ IF Nack THEN cycles = 0 ELSE DOMAIN nacker = {}
      /\ packet_count = 0 => DOMAIN nacker = {} /\ DOMAIN requested = {}
  BY <1>1 DEF QueueInv, RequestsTypeOK
<1>3. /\ max_seq_no \in SN /\ newest \in Int /\ newest' \in Int /\ cycles \in Nat
      /\ p.sn \in SN /\ Ext(p) \in Int /\ arrived \subseteq Packet
      /\ \A q \in arrived : Ext(q) \in Int
  BY TrackStep, ExtType DEF TrackInv, TrackTypeOK
<1>4. /\ packet_count = 0 => arrived = {} /\ cycles = 0
      /\ packet_count # 0 => arrived # {} /\ newest = cycles + max_seq_no
  BY <1>1 DEF TrackInv
<1>5. /\ newest' = cycles' + max_seq_no'
      /\ ~Behind(p.sn) => Ext(p) = newest'
      /\ Behind(p.sn) => /\ newest' = newest /\ Ext(p) < newest
                         /\ Ext(p) = cycles + p.sn \/ Ext(p) < cycles
  BY TrackStep
<1>6. /\ cycles' = CyclesAfter(p.sn) /\ max_seq_no' = MaxAfter(p.sn)
      /\ ~TrackingPanics(p.sn)
  BY DEF Track
<1>7. arrived # {} => newest <= newest'
  BY <1>1, <1>3
<1>8. \A q \in arrived' : Ext(q) <= newest'
  BY <1>1, <1>2, <1>3, <1>7
<1>9. \A e \in DOMAIN requested : e < newest'
  BY <1>2, <1>3, <1>4, <1>7
<1>10. Nack => cycles' = 0
  BY <1>2, <1>6 DEF TrackingPanics, CyclesAfter
<1>11. CASE ~Nack \/ packet_count = 0
  <2>1. queue = nacker
    BY <1>11 DEF NackerAfter, Ahead, Behind, IsFirst
  <2>2. DOMAIN nacker = {}
    BY <1>2, <1>11
  <2> QED
    BY <1>2, <1>8, <1>9, <1>10, <2>1, <2>2 DEF QueueTypeOK, CountsRequests
<1>12. CASE Nack /\ Ahead(p.sn)
  <2> DEFINE gap == {ExtendedSN(CyclesAfter(p.sn), msn) : msn \in Gap(p.sn)}
  <2>1. queue = Push(nacker, gap) /\ cycles = 0 /\ arrived # {} /\ newest = max_seq_no
    <3>1. queue = Push(nacker, gap)
      <4>1. ~(Nack /\ Behind(p.sn))
        BY <1>12 DEF Ahead, Behind
      <4> HIDE DEF gap
      <4>2. NackerAfter(p.sn) = Push(nacker, gap)
        BY <1>12, <4>1 DEF NackerAfter, gap
      <4> QED
        BY <4>2
    <3>2. cycles = 0 /\ packet_count # 0
      BY <1>2, <1>12 DEF Ahead, IsFirst
    <3>3. newest = 0 + max_seq_no /\ arrived # {}
      BY <1>4, <3>2
    <3>4. newest = max_seq_no
      BY <1>3, <3>3 DEF SN
    <3> QED
      BY <3>1, <3>2, <3>3, <3>4
  <2>2. p.sn >= max_seq_no /\ max_seq_no' = p.sn /\ newest' = p.sn /\ Ext(p) = p.sn
    BY <1>3, <1>5, <1>6, <1>10, <1>12
       DEF TrackingPanics, Wraps, MaxAfter, Ahead, Behind, SN
  <2>3. ASSUME NEW e \in gap PROVE e \in Nat /\ newest < e /\ e < newest'
    <3>1. PICK msn \in Gap(p.sn) : e = ExtendedSN(CyclesAfter(p.sn), msn)
      OBVIOUS
    <3>2. msn \in SN /\ max_seq_no < msn /\ msn < p.sn
      BY <1>3, <2>2, GapIsBetween
    <3>3. ~FromLastCycle(msn)
      BY <1>6, <1>12, <2>1, HalfFacts DEF TrackingPanics
    <3>4. e = msn
      BY <1>6, <1>10, <1>12, <3>1, <3>2, <3>3 DEF ExtendedSN, SN
    <3> QED
      BY <2>1, <2>2, <3>2, <3>4 DEF SN
  <2>4. /\ DOMAIN queue = DOMAIN nacker \cup gap
        /\ \A e \in DOMAIN queue :
              queue[e] = IF e \in DOMAIN nacker THEN nacker[e] ELSE 0
    BY <2>1 DEF Push
  <2>5. ASSUME NEW e \in gap PROVE e \notin DOMAIN nacker /\ e \notin DOMAIN requested
    <3>1. e \in Int /\ newest \in Int /\ ~(e < newest)
      <4> HIDE DEF gap
      <4> QED
        BY <1>3, <2>3
    <3> QED
      BY <1>2, <3>1
  <2>6. QueueTypeOK(queue) /\ 0 \notin DOMAIN queue
    <3>1. 0 \notin gap
      BY <1>3, <2>1, <2>3 DEF SN
    <3> QED
      BY <1>2, <2>3, <2>4, <3>1, NackAssumption DEF QueueTypeOK
  <2>7. CountsRequests(queue, requested)
    BY <1>2, <2>4, <2>5 DEF CountsRequests
  <2>8. ASSUME NEW e \in DOMAIN queue
        PROVE  e < newest' /\ e \notin {Ext(q) : q \in arrived'}
    <3>1. CASE e \in DOMAIN nacker
      <4>1. e \in Int /\ e < newest /\ e \notin ExtArrived
        BY <1>2, <3>1 DEF QueueTypeOK
      <4>2. e < newest' /\ e # Ext(p)
        BY <1>3, <1>7, <2>1, <2>2, <4>1
      <4> QED
        BY <1>1, <4>1, <4>2 DEF ExtArrived
    <3>2. CASE e \in gap
      <4>1. e \in Nat /\ newest < e /\ e < newest'
        BY <2>3, <3>2
      <4>2. e # Ext(p)
        BY <2>2, <4>1
      <4>3. \A q \in arrived : e # Ext(q)
        BY <1>2, <1>3, <4>1
      <4> QED
        BY <1>1, <4>1, <4>2, <4>3
    <3> QED
      BY <2>4, <3>1, <3>2
  <2> QED
    BY <1>8, <1>9, <1>10, <2>6, <2>7, <2>8
<1>13. CASE Nack /\ Behind(p.sn)
  <2>1. queue = Remove(nacker, ExtendedSN(cycles, p.sn)) /\ cycles = 0
    BY <1>2, <1>13 DEF NackerAfter, Ahead, Behind
  <2>2. ~FromLastCycle(p.sn)
    BY <1>6, <1>13, <2>1, HalfFacts DEF TrackingPanics
  <2>3. ExtendedSN(cycles, p.sn) = p.sn
    BY <1>3, <2>1, <2>2 DEF ExtendedSN, SN
  <2>4. /\ DOMAIN queue = DOMAIN nacker \ {p.sn}
        /\ \A e \in DOMAIN queue : queue[e] = nacker[e]
    BY <2>1, <2>3 DEF Remove
  <2>5. Ext(p) = p.sn \/ Ext(p) < 0
    BY <1>3, <1>5, <1>13, <2>1 DEF SN
  <2>6. newest' = newest
    BY <1>5, <1>13
  <2>7. QueueTypeOK(queue) /\ CountsRequests(queue, requested) /\ 0 \notin DOMAIN queue
    BY <1>2, <2>4 DEF QueueTypeOK, CountsRequests
  <2>8. ASSUME NEW e \in DOMAIN queue
        PROVE  e < newest' /\ e \notin {Ext(q) : q \in arrived'}
    <3>1. e \in Nat /\ e < newest /\ e \notin ExtArrived /\ e # p.sn
      BY <1>2, <2>4 DEF QueueTypeOK
    <3>2. e # Ext(p)
      BY <2>5, <3>1
    <3> QED
      BY <1>1, <2>6, <3>1, <3>2 DEF ExtArrived
  <2> QED
    BY <1>8, <1>9, <1>10, <2>7, <2>8
<1> QED
  BY <1>11, <1>12, <1>13 DEF Ahead, Behind, IsFirst

\* What the requests of one call do to the queue and to the counts.
LEMMA AskAgainStep ==
    ASSUME NEW queue, QueueTypeOK(queue), CountsRequests(queue, requested),
           RequestsTypeOK(requested), Nack, AskAgain(queue)
    PROVE  /\ QueueTypeOK(nacker') /\ CountsRequests(nacker', requested')
           /\ RequestsTypeOK(requested')
           /\ DOMAIN nacker' \subseteq DOMAIN queue
           /\ DOMAIN requested' \subseteq DOMAIN requested \cup DOMAIN queue
<1> DEFINE due == Due(queue, ExtHead)
           asked == [e \in DOMAIN requested \cup due |->
                        (IF e \in DOMAIN requested THEN requested[e] ELSE 0)
                        + (IF e \in due THEN 1 ELSE 0)]
<1>1. nacker' = AfterPairs(queue, ExtHead) /\ requested' = asked
  BY DEF AskAgain
<1>2. due \subseteq DOMAIN queue \ Exhausted(queue) /\ DOMAIN queue \subseteq Nat
  BY DEF Due, QueueTypeOK
<1>3. \A e \in DOMAIN queue \ Exhausted(queue) : queue[e] \in 0 .. MaxNackTimes - 1
  BY NackAssumption DEF Exhausted, QueueTypeOK
<1>4. /\ DOMAIN nacker' = DOMAIN queue \ Exhausted(queue)
      /\ \A e \in DOMAIN nacker' :
            nacker'[e] = IF e \in due THEN queue[e] + 1 ELSE queue[e]
  BY <1>1 DEF AfterPairs
<1>5. QueueTypeOK(nacker')
  BY <1>2, <1>3, <1>4, NackAssumption DEF QueueTypeOK
<1>6. /\ DOMAIN requested' = DOMAIN requested \cup due
      /\ \A e \in DOMAIN requested' :
            requested'[e] = (IF e \in DOMAIN requested THEN requested[e] ELSE 0)
                            + (IF e \in due THEN 1 ELSE 0)
  BY <1>1
<1>7. ASSUME NEW e \in DOMAIN requested' PROVE requested'[e] \in 0 .. MaxNackTimes
  <2>1. CASE e \in due
    <3>1. queue[e] \in 0 .. MaxNackTimes - 1
      BY <1>2, <1>3, <2>1
    <3>2. requested'[e] = queue[e] + 1
      BY <1>2, <1>6, <2>1, <3>1 DEF CountsRequests
    <3> QED
      BY <3>1, <3>2, NackAssumption
  <2>2. CASE e \notin due
    <3>1. e \in DOMAIN requested /\ requested[e] \in 0 .. MaxNackTimes
      BY <1>6, <2>2 DEF RequestsTypeOK
    <3>2. requested'[e] = requested[e] + 0
      BY <1>6, <2>2, <3>1
    <3> QED
      BY <3>1, <3>2, NackAssumption
  <2> QED
    BY <2>1, <2>2
<1>8. RequestsTypeOK(requested')
  BY <1>2, <1>6, <1>7 DEF RequestsTypeOK
<1>9. ASSUME NEW e \in DOMAIN nacker'
      PROVE  IF e \in DOMAIN requested' THEN nacker'[e] = requested'[e] ELSE nacker'[e] = 0
  <2>1. /\ e \in DOMAIN queue /\ queue[e] \in 0 .. MaxNackTimes - 1
        /\ IF e \in DOMAIN requested THEN queue[e] = requested[e] ELSE queue[e] = 0
    BY <1>3, <1>4 DEF CountsRequests
  <2>2. CASE e \in due
    BY <1>4, <1>6, <2>1, <2>2
  <2>3. CASE e \notin due
    BY <1>4, <1>6, <2>1, <2>3, NackAssumption
  <2> QED
    BY <2>2, <2>3
<1> QED
  BY <1>2, <1>4, <1>5, <1>6, <1>8, <1>9 DEF CountsRequests

\* Without "nack" nothing is ever queued.
LEMMA NoQueueWithoutNack ==
    ASSUME NEW sn, ~Nack PROVE NackerAfter(sn) = nacker
BY DEF NackerAfter

LEMMA QueueInvInit == Init => QueueInv
<1> SUFFICES ASSUME Init PROVE QueueInv
  OBVIOUS
<1>1. DOMAIN nacker = {} /\ DOMAIN requested = {} /\ cycles = 0 /\ arrived = {}
  BY DEF Init, EmptyQueue
<1> QED
  BY <1>1 DEF QueueInv, QueueTypeOK, RequestsTypeOK, CountsRequests, ExtArrived

LEMMA QueueInvNext ==
    ASSUME OverflowChecks
    PROVE  TrackInv /\ QueueInv /\ [Next]_vars => QueueInv'
<1> SUFFICES ASSUME TrackInv, QueueInv, [Next]_vars PROVE QueueInv'
  OBVIOUS
<1>types. /\ QueueTypeOK(nacker) /\ RequestsTypeOK(requested)
          /\ packet_count \in Nat
  BY DEF QueueInv, TrackInv, TrackTypeOK
<1>1. ASSUME NEW p \in Packet, Calc(p) PROVE QueueInv'
  <2> DEFINE queue == NackerAfter(p.sn)
  <2>1. /\ Arrive(p) /\ Track(p) /\ Enqueue(p) /\ AskAgain(queue)
        /\ reader' = "running" /\ reader = "running"
    BY <1>1 DEF Calc, Arrive
  <2>2. packet_count' # 0
    BY <2>1, <1>types DEF Enqueue
  <2>3. /\ QueueTypeOK(queue) /\ CountsRequests(queue, requested)
        /\ 0 \notin DOMAIN queue
        /\ \A e \in DOMAIN queue :
              e < newest' /\ e \notin {Ext(q) : q \in arrived'}
        /\ \A e \in DOMAIN requested : e < newest'
        /\ \A q \in arrived' : Ext(q) <= newest'
        /\ Nack => cycles' = 0
    BY <2>1, QueueStep
  <2>4. CASE Nack
    <3>1. /\ QueueTypeOK(nacker') /\ CountsRequests(nacker', requested')
          /\ RequestsTypeOK(requested')
          /\ DOMAIN nacker' \subseteq DOMAIN queue
          /\ DOMAIN requested' \subseteq DOMAIN requested \cup DOMAIN queue
      <4> HIDE DEF queue
      <4> QED
        BY <2>1, <2>3, <2>4, <1>types, AskAgainStep
    <3>2. /\ \A e \in DOMAIN nacker' : e < newest' /\ e \notin ExtArrived'
          /\ 0 \notin DOMAIN nacker'
          /\ \A e \in DOMAIN requested' : e < newest'
      BY <2>3, <3>1 DEF ExtArrived
    <3> QED
      BY <2>2, <2>3, <2>4, <3>1, <3>2 DEF QueueInv
  <2>5. CASE ~Nack
    <3>1. nacker' = nacker /\ requested' = requested
      BY <2>1, <2>5 DEF AskAgain
    <3>2. DOMAIN nacker = {}
      BY <2>1, <2>5 DEF QueueInv
    <3>3. queue = nacker
      BY <2>5, NoQueueWithoutNack
    <3> QED
      BY <1>types, <2>2, <2>3, <2>5, <3>1, <3>2, <3>3
         DEF QueueInv, QueueTypeOK, RequestsTypeOK, CountsRequests, ExtArrived
  <2> QED
    BY <2>4, <2>5
<1>2. ASSUME NEW p \in Packet, Arrive(p), Track(p), UNCHANGED <<reader, requested>>,
             nacker' = NackerAfter(p.sn), packet_count' # 0
      PROVE  QueueInv'
  <2> DEFINE queue == NackerAfter(p.sn)
  <2>1. /\ QueueTypeOK(queue) /\ CountsRequests(queue, requested)
        /\ 0 \notin DOMAIN queue
        /\ \A e \in DOMAIN queue :
              e < newest' /\ e \notin {Ext(q) : q \in arrived'}
        /\ \A e \in DOMAIN requested : e < newest'
        /\ \A q \in arrived' : Ext(q) <= newest'
        /\ Nack => cycles' = 0
    BY <1>2, QueueStep
  <2>2. ~Nack => DOMAIN queue = {}
    BY <1>2, NoQueueWithoutNack DEF Arrive, QueueInv
  <2> QED
    BY <1>types, <1>2, <2>1, <2>2
       DEF QueueInv, QueueTypeOK, RequestsTypeOK, CountsRequests, ExtArrived
<1>3. ASSUME NEW p \in Packet, CalcRejected(p) PROVE QueueInv'
  <2>1. packet_count' # 0
    BY <1>3, FirstIsStored DEF CalcRejected
  <2> QED
    BY <1>2, <1>3, <2>1 DEF CalcRejected
<1>unparsed. ASSUME NEW p \in Packet, CalcUnparsed(p) PROVE QueueInv'
  <2>1. packet_count' # 0
    BY <1>unparsed, FirstIsParsed DEF CalcUnparsed
  <2> QED
    BY <1>2, <1>unparsed, <2>1 DEF CalcUnparsed
<1>4. ASSUME NEW p \in Packet, CalcMalformed(p) PROVE QueueInv'
  <2>1. packet_count' # 0
    BY <1>types, <1>4 DEF CalcMalformed
  <2> QED
    BY <1>2, <1>4, <2>1 DEF CalcMalformed
<1>5. ASSUME NEW p \in Packet, CalcPanics(p) PROVE QueueInv'
  BY <1>types, <1>5 DEF CalcPanics, QueueInv, QueueTypeOK, RequestsTypeOK
<1>6. ASSUME NEW p \in Packet, CalcPanicsAsking(p) PROVE QueueInv'
  <2>1. QueueTypeOK(nacker')
    BY <1>6, QueueStep DEF CalcPanicsAsking
  <2>2. reader' = "panicked" /\ requested' = requested
    BY <1>6 DEF CalcPanicsAsking
  <2> QED
    BY <1>types, <2>1, <2>2 DEF QueueInv, QueueTypeOK, RequestsTypeOK
<1>7. CASE ReadExtended
  BY <1>7 DEF ReadExtended, QueueInv, QueueTypeOK, RequestsTypeOK,
              CountsRequests, ExtArrived
<1>8. CASE UNCHANGED vars
  BY <1>8 DEF vars, QueueInv, QueueTypeOK, RequestsTypeOK,
              CountsRequests, ExtArrived
<1> QED
  BY <1>1, <1>3, <1>4, <1>unparsed, <1>5, <1>6, <1>7, <1>8 DEF Next

LEMMA QueueInvariant == ASSUME OverflowChecks PROVE Spec => []QueueInv
<1>1. TrackInv /\ QueueInv /\ [Next]_vars => QueueInv'
  BY QueueInvNext
<1> QED
  BY <1>1, QueueInvInit, TrackInvariant, PTL DEF Spec

\* In a build that checks overflow, whatever is lost, late or repeated: a
\* packet in the queue of missing packets was passed over and has not come.
THEOREM QueueHoldsOnlyTheMissing ==
    ASSUME OverflowChecks PROVE Spec => []QueueHoldsTheMissing
<1>1. QueueInv => QueueHoldsTheMissing
  BY DEF QueueInv, QueueHoldsTheMissing
<1> QED
  BY <1>1, QueueInvariant, PTL

\* In such a build no packet of the stream is asked for more than
\* MAX_NACK_TIMES times, over its whole life and not per entry of the queue.
THEOREM RequestsBounded ==
    ASSUME OverflowChecks PROVE Spec => []RequestsAreBounded
<1>1. QueueInv => RequestsAreBounded
  BY NackAssumption DEF QueueInv, RequestsTypeOK, RequestsAreBounded
<1> QED
  BY <1>1, QueueInvariant, PTL

-----------------------------------------------------------------------------
(* The type invariant, in every build.                                     *)

LEMMA SmallestOf ==
    ASSUME NEW T, T \subseteq Nat, T # {}
    PROVE  \E x \in T : \A y \in T : x <= y
<1> DEFINE Less == {ss \in Nat \X Nat : ss[1] < ss[2]}
<1>1. IsWellFoundedOn(Less, Nat)
  BY NatLessThanWellFounded DEF OpToRel
<1>2. PICK x \in T : \A y \in T : ~(<<y, x>> \in Less)
  <2> HIDE DEF Less
  <2> QED
    BY <1>1, WFMin
<1>3. ASSUME NEW y \in T PROVE x <= y
  <2>1. x \in Nat /\ y \in Nat /\ ~(y < x)
    BY <1>2
  <2> QED
    BY <2>1
<1> QED
  BY <1>2, <1>3

LEMMA LargestOf ==
    ASSUME NEW T, T \subseteq Nat, T # {}, NEW b \in Nat, \A x \in T : x <= b
    PROVE  \E x \in T : \A y \in T : y <= x
<1> DEFINE room == {b - x : x \in T}
<1>1. room \subseteq Nat /\ room # {}
  <2>1. ASSUME NEW x \in T PROVE b - x \in Nat
    <3>1. x \in Nat /\ x <= b
      OBVIOUS
    <3> QED
      BY <3>1
  <2> QED
    BY <2>1
<1>2. PICK r \in room : \A s \in room : r <= s
  <2> HIDE DEF room
  <2> QED
    BY <1>1, SmallestOf
<1>3. PICK x \in T : r = b - x
  BY <1>2
<1>4. ASSUME NEW y \in T PROVE y <= x
  <2>1. b - x <= b - y
    BY <1>2, <1>3
  <2> QED
    BY <2>1
<1> QED
  BY <1>4

\* The ring stays a ring: its indices never leave it.
Ring == [init : BOOLEAN, step : Slots, head_sn : SN,
         slots : [Slots -> Packet \cup {NoPacket}]]

LEMMA SkipType ==
    ASSUME NEW step \in Slots, NEW n \in Int PROVE Skip(step, n) \in Slots
<1>1. MaxSteps \in Nat /\ MaxSteps > 0
  BY MaxStepsAssumption, HalfFacts
<1>2. ASSUME NEW x \in Int PROVE x % MaxSteps \in 0 .. MaxSteps - 1
  BY <1>1
<1> QED
  BY <1>1, <1>2 DEF Skip, Slots

LEMMA InitialisedType ==
    ASSUME NEW b \in Ring, NEW p \in Packet PROVE Initialised(b, p.sn) \in Ring
<1>1. (p.sn - 1) % MaxSN \in SN
  <2>1. PICK m \in Nat : m = MaxSN /\ m > 0
    BY HalfFacts
  <2>2. ASSUME NEW x \in Int PROVE x % m \in 0 .. m - 1
    BY <2>1
  <2>3. p.sn - 1 \in Int
    BY ExtType DEF SN
  <2> QED
    BY <2>1, <2>2, <2>3 DEF SN
<1> QED
  BY <1>1 DEF Initialised, Ring

\* The packet is put in a slot of the ring, and the index moved past it.
LEMMA PushLatestType ==
    ASSUME NEW b \in Ring, NEW p \in Packet
    PROVE  LET at == Skip(b.step, Distance(p.sn, b.head_sn) - 1)
               r  == PushLatest(b, p)
           IN  /\ at \in Slots
               /\ r \in Ring
               /\ r.head_sn = p.sn
               /\ r.slots[at] = p
               /\ r.step = IF at + 1 > MaxSteps THEN 0 ELSE at + 1
<1> DEFINE at == Skip(b.step, Distance(p.sn, b.head_sn) - 1)
<1>1. p.sn \in SN
  BY ExtType
<1>2. at \in Slots
  <2>1. Distance(p.sn, b.head_sn) - 1 \in Int
    <3>1. b.head_sn \in SN
      BY DEF Ring
    <3>2. Distance(p.sn, b.head_sn) \in SN
      BY <1>1, <3>1, DistanceType
    <3> QED
      BY <3>2, HalfFacts DEF SN
  <2> QED
    BY <2>1, SkipType DEF Ring
<1>3. (IF at + 1 > MaxSteps THEN 0 ELSE at + 1) \in Slots
  BY <1>2, MaxStepsAssumption, HalfFacts DEF Slots
<1> DEFINE slots == [b.slots EXCEPT ![at] = p]
           step  == IF at + 1 > MaxSteps THEN 0 ELSE at + 1
<1>4. PushLatest(b, p) = [b EXCEPT !.head_sn = p.sn, !.slots = slots, !.step = step]
  BY DEF PushLatest
<1> HIDE DEF at
<1>5. slots \in [Slots -> Packet \cup {NoPacket}] /\ slots[at] = p
  BY <1>2 DEF Ring
<1> HIDE DEF slots, step
<1>6. /\ PushLatest(b, p) \in Ring
      /\ PushLatest(b, p).head_sn = p.sn
      /\ PushLatest(b, p).slots = slots
      /\ PushLatest(b, p).step = step
  BY <1>1, <1>3, <1>4, <1>5 DEF Ring, step
<1> QED
  BY <1>2, <1>5, <1>6 DEF at, step

LEMMA AddPacketType ==
    ASSUME NEW b \in Ring, NEW p \in Packet, NEW latest \in BOOLEAN
    PROVE  AddPacket(b, p, latest).ring \in Ring
<1> DEFINE b0 == Initialised(b, p.sn)
<1>1. b0 \in Ring
  BY InitialisedType
<1> HIDE DEF b0
<1>2. PushLatest(b0, p) \in Ring
  BY <1>1, PushLatestType
<1>3. SetLate(b0, p) \in Ring
  BY <1>1 DEF SetLate, Ring
<1> QED
  BY <1>1, <1>2, <1>3 DEF AddPacket, b0

\* A queue of naturals has a largest one: that is what key_frame_seq_number takes.
Bounded(nacks) == \E b \in Nat : \A e \in DOMAIN nacks : e <= b

LEMMA ExtendedSNType ==
    ASSUME NEW cyc \in Nat, NEW sn \in SN
    PROVE  ExtendedSN(cyc, sn) \in 0 .. cyc + Cycles32 * MaxSN + MaxSN
<1>1. PICK m \in Nat, all \in Nat : m = MaxSN /\ all = Cycles32 * m /\ all > 0
  <2>1. Cycles32 * MaxSN \in Nat /\ Cycles32 * MaxSN > 0
    BY HalfFacts, BufferAssumption
  <2> QED
    BY <2>1, HalfFacts
<1>2. ASSUME NEW x \in Int PROVE x % all \in 0 .. all - 1
  BY <1>1
<1>3. sn \in 0 .. m - 1 /\ cyc - m \in Int
  BY <1>1 DEF SN
<1>4. (cyc - m) % all \in 0 .. all - 1
  BY <1>2, <1>3
<1>5. ExtendedSN(cyc, sn) \in {((cyc - m) % all) + sn, cyc + sn}
  BY <1>1 DEF ExtendedSN
<1> QED
  BY <1>1, <1>3, <1>4, <1>5

LEMMA NackerAfterType ==
    ASSUME QueueTypeOK(nacker), Bounded(nacker), TrackTypeOK, NEW p \in Packet
    PROVE  QueueTypeOK(NackerAfter(p.sn)) /\ Bounded(NackerAfter(p.sn))
<1> DEFINE cyc == CyclesAfter(p.sn)
           gap == {ExtendedSN(cyc, msn) : msn \in Gap(p.sn)}
<1>1. PICK b \in Nat : \A e \in DOMAIN nacker : e <= b
  BY DEF Bounded
<1>2. cyc \in Nat /\ Gap(p.sn) \subseteq SN
  <2>1. PICK m \in Nat : m = MaxSN /\ m > 0
    BY HalfFacts
  <2>2. ASSUME NEW x \in Int PROVE x % m \in 0 .. m - 1
    BY <2>1
  <2>3. p.sn \in SN /\ max_seq_no \in SN /\ cycles \in Nat
    BY ExtType DEF TrackTypeOK
  <2>4. Distance(p.sn, max_seq_no) - 1 \in Int
    BY <2>3, DistanceType DEF SN
  <2>5. ASSUME NEW i \in 1 .. Distance(p.sn, max_seq_no) - 1
        PROVE  (p.sn - i) % m \in 0 .. m - 1
    BY <2>2, <2>3, <2>4 DEF SN
  <2> QED
    BY <2>1, <2>3, <2>5 DEF Gap, SN, CyclesAfter
<1>3. PICK most \in Nat : most = cyc + Cycles32 * MaxSN + MaxSN
  BY <1>2, HalfFacts, BufferAssumption
<1>4. \A e \in gap : e \in 0 .. most
  <2> HIDE DEF cyc
  <2> QED
    BY <1>2, <1>3, ExtendedSNType
<1> HIDE DEF gap
<1>5. CASE Nack /\ Ahead(p.sn)
  <2>1. ~(Nack /\ Behind(p.sn))
    BY <1>5 DEF Ahead, Behind
  <2>2. NackerAfter(p.sn) = Push(nacker, gap)
    BY <1>5, <2>1 DEF NackerAfter, gap
  <2>3. /\ DOMAIN NackerAfter(p.sn) = DOMAIN nacker \cup gap
        /\ \A e \in DOMAIN NackerAfter(p.sn) :
              NackerAfter(p.sn)[e] = IF e \in DOMAIN nacker THEN nacker[e] ELSE 0
    BY <2>2 DEF Push
  <2>4. b + most \in Nat /\ DOMAIN nacker \subseteq Nat
    BY DEF QueueTypeOK
  <2>5. \A e \in DOMAIN NackerAfter(p.sn) : e <= b + most
    BY <1>1, <1>4, <2>3, <2>4
  <2>6. QueueTypeOK(NackerAfter(p.sn))
    BY <1>4, <2>3, NackAssumption DEF QueueTypeOK
  <2> QED
    BY <2>4, <2>5, <2>6 DEF Bounded
<1>6. CASE Nack /\ Behind(p.sn)
  <2>1. ~(Nack /\ Ahead(p.sn))
    BY <1>6 DEF Ahead, Behind
  <2>2. NackerAfter(p.sn) = Remove(nacker, ExtendedSN(cycles, p.sn))
    BY <1>6, <2>1 DEF NackerAfter
  <2>3. /\ DOMAIN NackerAfter(p.sn) \subseteq DOMAIN nacker
        /\ \A e \in DOMAIN NackerAfter(p.sn) : NackerAfter(p.sn)[e] = nacker[e]
    BY <2>2 DEF Remove
  <2> QED
    BY <1>1, <2>3 DEF QueueTypeOK, Bounded
<1>7. CASE ~(Nack /\ Ahead(p.sn)) /\ ~(Nack /\ Behind(p.sn))
  BY <1>7 DEF NackerAfter
<1> QED
  BY <1>5, <1>6, <1>7

LEMMA AskAgainType ==
    ASSUME NEW queue, QueueTypeOK(queue), Bounded(queue),
           key_frame_seq_number \in Nat, Nack, AskAgain(queue)
    PROVE  QueueTypeOK(nacker') /\ Bounded(nacker') /\ key_frame_seq_number' \in Nat
<1>1. /\ nacker' = AfterPairs(queue, ExtHead)
      /\ key_frame_seq_number' = NextKeyFrameSN(queue, key_frame_seq_number)
  BY DEF AskAgain
<1>2. \A e \in DOMAIN queue \ Exhausted(queue) : queue[e] \in 0 .. MaxNackTimes - 1
  BY NackAssumption DEF Exhausted, QueueTypeOK
<1>3. /\ DOMAIN nacker' = DOMAIN queue \ Exhausted(queue)
      /\ \A e \in DOMAIN nacker' : nacker'[e] \in {queue[e], queue[e] + 1}
  BY <1>1 DEF AfterPairs
<1>4. QueueTypeOK(nacker')
  BY <1>2, <1>3, NackAssumption DEF QueueTypeOK
<1>5. Bounded(nacker')
  BY <1>3 DEF Bounded
<1>6. key_frame_seq_number' \in Nat
  <2> DEFINE given == KeyFrameFor(queue, key_frame_seq_number)
  <2>1. PICK b \in Nat : \A e \in DOMAIN queue : e <= b
    BY DEF Bounded
  <2>2. given \subseteq Nat /\ \A e \in given : e <= b
    BY <2>1 DEF KeyFrameFor, Exhausted, QueueTypeOK
  <2>3. CASE given = {}
    BY <1>1, <2>3 DEF NextKeyFrameSN, AskKeyFrame
  <2>4. CASE given # {}
    <3> HIDE DEF given
    <3>1. \E sn \in given : \A other \in given : other <= sn
      BY <2>2, <2>4, LargestOf
    <3>2. key_frame_seq_number' = CHOOSE sn \in given : \A other \in given : other <= sn
      BY <1>1, <2>4 DEF NextKeyFrameSN, AskKeyFrame, given
    <3>3. key_frame_seq_number' \in given
      BY <3>1, <3>2
    <3> QED
      BY <2>2, <3>3
  <2> QED
    BY <2>3, <2>4
<1> QED
  BY <1>4, <1>5, <1>6

LEMMA StoredType ==
    ASSUME bucket \in Ring, NEW p \in Packet PROVE Stored(p).ring \in Ring
BY AddPacketType DEF Stored

TypeInv == TypeOK /\ Bounded(nacker)

LEMMA TypeInvInit == Init => TypeInv
<1> SUFFICES ASSUME Init PROVE TypeInv
  OBVIOUS
<1>1. 0 \in SN /\ 0 \in Slots
  BY HalfFacts, MaxStepsAssumption DEF SN, Slots
<1>2. bucket \in Ring
  BY <1>1 DEF Init, NewBucket, Ring
<1>3. DOMAIN nacker = {}
  BY DEF Init, EmptyQueue
<1> QED
  BY <1>1, <1>2, <1>3 DEF Init, TypeInv, TypeOK, Bounded, Ring

LEMMA TypeInvNext == TrackInv /\ TrackInv' /\ TypeInv /\ [Next]_vars => TypeInv'
<1> SUFFICES ASSUME TrackInv, TrackInv', TypeInv, [Next]_vars PROVE TypeInv'
  OBVIOUS
<1>1. /\ QueueTypeOK(nacker) /\ Bounded(nacker) /\ key_frame_seq_number \in Nat
      /\ bucket \in Ring /\ reader \in {"running", "panicked"}
      /\ TrackTypeOK /\ TrackTypeOK'
  BY DEF TypeInv, TypeOK, QueueTypeOK, Ring, TrackInv
<1>2. /\ reader' \in {"running", "panicked"} /\ bucket' \in Ring
      /\ QueueTypeOK(nacker') /\ Bounded(nacker') /\ key_frame_seq_number' \in Nat
      => TypeInv'
  BY <1>1 DEF TypeInv, TypeOK, QueueTypeOK, Ring, TrackTypeOK
<1>3. ASSUME NEW p \in Packet
      PROVE  /\ Stored(p).ring \in Ring
             /\ QueueTypeOK(NackerAfter(p.sn)) /\ Bounded(NackerAfter(p.sn))
  BY <1>1, StoredType, NackerAfterType
<1>4. ASSUME NEW p \in Packet, Calc(p) PROVE TypeInv'
  <2> DEFINE queue == NackerAfter(p.sn)
  <2>1. /\ bucket' \in Ring /\ reader' = reader /\ AskAgain(queue)
        /\ QueueTypeOK(queue) /\ Bounded(queue)
    BY <1>3, <1>4 DEF Calc, Enqueue
  <2>2. CASE Nack
    <3> HIDE DEF queue
    <3>1. QueueTypeOK(nacker') /\ Bounded(nacker') /\ key_frame_seq_number' \in Nat
      BY <1>1, <2>1, <2>2, AskAgainType
    <3> QED
      BY <1>1, <1>2, <2>1, <3>1
  <2>3. CASE ~Nack
    <3>1. UNCHANGED <<nacker, key_frame_seq_number>>
      BY <2>1, <2>3 DEF AskAgain
    <3> QED
      BY <1>1, <1>2, <2>1, <3>1
  <2> QED
    BY <2>2, <2>3
<1>5. ASSUME NEW p \in Packet, CalcRejected(p) PROVE TypeInv'
  BY <1>1, <1>2, <1>3, <1>5 DEF CalcRejected
<1>unparsed. ASSUME NEW p \in Packet, CalcUnparsed(p) PROVE TypeInv'
  BY <1>1, <1>2, <1>3, <1>unparsed DEF CalcUnparsed
<1>6. ASSUME NEW p \in Packet, CalcMalformed(p) PROVE TypeInv'
  BY <1>1, <1>2, <1>3, <1>6 DEF CalcMalformed
<1>7. ASSUME NEW p \in Packet, CalcPanics(p) PROVE TypeInv'
  BY <1>1, <1>2, <1>7 DEF CalcPanics, Bounded, QueueTypeOK
<1>8. ASSUME NEW p \in Packet, CalcPanicsAsking(p) PROVE TypeInv'
  BY <1>1, <1>2, <1>3, <1>8 DEF CalcPanicsAsking, Enqueue
<1>9. CASE ReadExtended
  BY <1>1, <1>2, <1>9 DEF ReadExtended, Bounded, QueueTypeOK
<1>10. CASE UNCHANGED vars
  BY <1>1, <1>2, <1>10 DEF vars, Bounded, QueueTypeOK
<1> QED
  BY <1>4, <1>5, <1>6, <1>unparsed, <1>7, <1>8, <1>9, <1>10 DEF Next

LEMMA TypeInvariant == Spec => []TypeInv
BY TypeInvInit, TypeInvNext, TrackInvariant, PTL DEF Spec

\* In every build, the indices of the ring stay in it, no entry of the queue
\* counts past MAX_NACK_TIMES and no counter leaves its type.
THEOREM TypeCorrect == Spec => []TypeOK
<1>1. TypeInv => TypeOK
  BY DEF TypeInv
<1> QED
  BY <1>1, TypeInvariant, PTL

\* A key frame is asked for only when a packet was asked for MAX_NACK_TIMES times and has
\* not come: an entry is given up on when its count, which is that of the packet, is full.
THEOREM KeyFrameWhenGivenUp ==
    ASSUME OverflowChecks PROVE Spec => KeyFrameIsJustified
<1>1. ASSUME TrackInv, QueueInv, [Next]_vars, feedback' # feedback, NEW e \in feedback'.pli
      PROVE  /\ e \in DOMAIN requested
             /\ requested[e] = MaxNackTimes
             /\ e \notin {Ext(p) : p \in arrived'}
  <2>1. PICK p \in Packet : Calc(p)
    BY <1>1 DEF Next, vars, CalcRejected, CalcUnparsed, CalcMalformed, CalcPanics, CalcPanicsAsking,
                ReadExtended
  <2> DEFINE queue == NackerAfter(p.sn)
  <2>2. Arrive(p) /\ Track(p) /\ AskAgain(queue)
    BY <2>1 DEF Calc
  <2>3. feedback'.pli = KeyFrameFor(queue, key_frame_seq_number)
    BY <1>1, <2>2 DEF AskAgain
  <2>4. /\ QueueTypeOK(queue) /\ CountsRequests(queue, requested)
        /\ \A x \in DOMAIN queue : x \notin {Ext(q) : q \in arrived'}
    BY <1>1, <2>2, QueueStep
  <2> HIDE DEF queue
  <2>5. e \in DOMAIN queue /\ queue[e] = MaxNackTimes /\ queue[e] # 0
    BY <1>1, <2>3, <2>4, NackAssumption DEF KeyFrameFor, Exhausted, QueueTypeOK
  <2> QED
    BY <2>4, <2>5 DEF CountsRequests
<1>2. TrackInv /\ QueueInv /\ [Next]_vars =>
        [feedback' # feedback =>
            \A e \in feedback'.pli : /\ e \in DOMAIN requested
                                     /\ requested[e] = MaxNackTimes
                                     /\ e \notin {Ext(p) : p \in arrived'}]_vars
  BY <1>1
<1> QED
  BY <1>2, TrackInvariant, QueueInvariant, PTL DEF Spec, KeyFrameIsJustified

-----------------------------------------------------------------------------
(* What is queued for the forwarding task.                                 *)

Queued == [pkt : Packet, head : BOOLEAN]

\* No head in the queue is newer than the newest packet, so that the next one comes
\* behind them all.
HeadsInv ==
    /\ ext_packets \in Seq(Queued)
    /\ HeadsAreInOrder
    /\ arrived = {} => ext_packets = <<>>
    /\ reader = "running" =>
          \A i \in DOMAIN ext_packets :
              ext_packets[i].head => Ext(ext_packets[i].pkt) <= newest

\* What is flagged head is the newest packet, or the newest once more.
LEMMA HeadIsNewest ==
    ASSUME TrackInv, NEW p \in Packet, Arrive(p), Track(p)
    PROVE  /\ newest \in Int /\ newest' \in Int /\ Ext(p) \in Int
           /\ p.sn = max_seq_no' => Ext(p) = newest'
           /\ arrived # {} => newest <= newest'
<1>1. newest \in Int /\ max_seq_no \in SN
  BY DEF TrackInv, TrackTypeOK
<1>2. /\ newest' \in Int
      /\ ~Behind(p.sn) => Ext(p) = newest'
  BY TrackStep
<1>3. Ext(p) \in Int /\ p.sn \in SN
  BY ExtType
<1>4. ASSUME p.sn = max_seq_no', Behind(p.sn) PROVE FALSE
  <2>1. p.sn = max_seq_no /\ ~AtOrAhead(p.sn, max_seq_no)
    BY <1>4 DEF Track, MaxAfter, Behind
  <2> QED
    BY <1>3, <2>1, SameDistance, HalfFacts DEF AtOrAhead
<1>5. arrived # {} => newest <= newest'
  BY <1>1, <1>3 DEF Arrive
<1> QED
  BY <1>1, <1>2, <1>3, <1>4, <1>5

LEMMA HeadsInvNext == TrackInv /\ HeadsInv /\ [Next]_vars => HeadsInv'
<1> SUFFICES ASSUME TrackInv, HeadsInv, [Next]_vars PROVE HeadsInv'
  OBVIOUS
<1>1. /\ ext_packets \in Seq(Queued) /\ HeadsAreInOrder
      /\ DOMAIN ext_packets = 1 .. Len(ext_packets) /\ Len(ext_packets) \in Nat
      /\ \A i \in DOMAIN ext_packets : ext_packets[i] \in Queued
  BY LenProperties, ElementOfSeq DEF HeadsInv
<1>2. \A q \in Queued : q.pkt \in Packet /\ Ext(q.pkt) \in Int
  BY ExtType DEF Queued
<1>3. ASSUME NEW p \in Packet, Arrive(p), Track(p)
      PROVE  /\ newest' \in Int
             /\ arrived' # {}
             /\ p.sn = max_seq_no' => Ext(p) = newest'
             /\ \A i \in DOMAIN ext_packets :
                   ext_packets[i].head => Ext(ext_packets[i].pkt) <= newest'
  <2>1. reader = "running" /\ arrived' # {}
    BY <1>3 DEF Arrive
  <2>2. CASE arrived = {}
    BY <1>3, <2>1, <2>2, HeadIsNewest, EmptySeq DEF HeadsInv
  <2>3. CASE arrived # {}
    <3>1. /\ newest \in Int /\ newest' \in Int /\ newest <= newest'
          /\ p.sn = max_seq_no' => Ext(p) = newest'
      BY <1>3, <2>3, HeadIsNewest
    <3>2. ASSUME NEW i \in DOMAIN ext_packets, ext_packets[i].head
          PROVE  Ext(ext_packets[i].pkt) <= newest'
      <4>1. Ext(ext_packets[i].pkt) \in Int /\ Ext(ext_packets[i].pkt) <= newest
        BY <1>1, <1>2, <2>1, <3>2 DEF HeadsInv
      <4> QED
        BY <3>1, <4>1
    <3> QED
      BY <2>1, <3>1, <3>2
  <2> QED
    BY <2>2, <2>3
<1>4. ASSUME NEW p \in Packet, Arrive(p), Track(p), Enqueue(p) PROVE HeadsInv'
  <2> DEFINE entry == [pkt |-> p, head |-> p.sn = max_seq_no']
  <2>1. /\ entry \in Queued /\ entry.pkt = p
        /\ entry.head => Ext(p) = newest'
    BY <1>3, <1>4 DEF Queued
  <2>2. ext_packets' = Append(ext_packets, entry)
    BY <1>4 DEF Enqueue
  <2> HIDE DEF entry
  <2>3. PICK n \in Nat : n = Len(ext_packets)
    BY <1>1
  <2>4. /\ ext_packets' \in Seq(Queued)
        /\ DOMAIN ext_packets = 1 .. n /\ DOMAIN ext_packets' = 1 .. n + 1
        /\ \A i \in 1 .. n : ext_packets'[i] = ext_packets[i]
        /\ ext_packets'[n + 1] = entry
    BY <1>1, <2>1, <2>2, <2>3, AppendFacts
  <2>5. \A i \in DOMAIN ext_packets' :
            ext_packets'[i].head => Ext(ext_packets'[i].pkt) <= newest'
    BY <1>3, <1>4, <2>1, <2>4
  <2>6. ASSUME NEW i \in 1 .. n + 1, NEW j \in 1 .. n + 1, i < j,
               ext_packets'[i].head, ext_packets'[j].head
        PROVE  Ext(ext_packets'[i].pkt) <= Ext(ext_packets'[j].pkt)
    <3>1. CASE j = n + 1
      BY <1>3, <1>4, <2>1, <2>4, <2>5, <2>6, <3>1
    <3>2. CASE j # n + 1
      BY <1>1, <2>4, <2>6, <3>2 DEF HeadsAreInOrder
    <3> QED
      BY <3>1, <3>2
  <2> QED
    BY <1>3, <1>4, <2>4, <2>5, <2>6 DEF HeadsInv, HeadsAreInOrder
<1>5. ASSUME NEW p \in Packet, Arrive(p), Track(p), UNCHANGED ext_packets PROVE HeadsInv'
  BY <1>3, <1>5 DEF HeadsInv, HeadsAreInOrder
<1>6. ASSUME NEW p \in Packet, CalcPanics(p) PROVE HeadsInv'
  BY <1>6 DEF CalcPanics, Arrive, HeadsInv, HeadsAreInOrder
<1>7. CASE ReadExtended
  BY <1>1, <1>7, TailFacts DEF ReadExtended, HeadsInv, HeadsAreInOrder
<1>8. CASE UNCHANGED vars
  BY <1>8 DEF vars, HeadsInv, HeadsAreInOrder
<1> QED
  BY <1>4, <1>5, <1>6, <1>7, <1>8 
     DEF Next, Calc, CalcRejected, CalcUnparsed, CalcMalformed, CalcPanicsAsking

LEMMA HeadsInvariant == Spec => []HeadsInv
<1>1. Init => HeadsInv
  BY EmptySeq DEF Init, HeadsInv, HeadsAreInOrder
<1> QED
  BY <1>1, HeadsInvNext, TrackInvariant, PTL DEF Spec

\* The packets flagged head are queued for the forwarding task in the order of the stream:
\* only the newest is flagged, and the extended number that says which it is is right.
THEOREM HeadsInOrder == Spec => []HeadsAreInOrder
<1>1. HeadsInv => HeadsAreInOrder
  BY DEF HeadsInv
<1> QED
  BY <1>1, HeadsInvariant, PTL

-----------------------------------------------------------------------------
(* What add_packet puts in the ring.                                       *)

\* The slot of a number no further behind the head than the ring is long.
LEMMA SlotType ==
    ASSUME NEW b \in Ring, NEW sn \in SN, Distance(b.head_sn, sn) <= MaxSteps
    PROVE  /\ SlotOf(b, sn) \in Slots
           /\ Distance(b.head_sn, sn) <= b.step + MaxSteps
<1>1. /\ b.step \in Slots /\ b.head_sn \in SN
      /\ Distance(b.head_sn, sn) \in SN
  BY DistanceType DEF Ring
<1>2. PICK m \in Nat, d \in Nat, s \in Nat :
          m = MaxSteps /\ d = Distance(b.head_sn, sn) /\ s = b.step /\ s <= m /\ d <= m
  BY <1>1, MaxStepsAssumption, HalfFacts DEF Slots, SN
<1> QED
  BY <1>2 DEF SlotOf, Slots

\* A packet that add_packet takes is found under its number.
LEMMA AddedIsFound ==
    ASSUME NEW b \in Ring, NEW p \in Packet, NEW latest \in BOOLEAN,
           ~AddPacket(b, p, latest).err
    PROVE  Get(AddPacket(b, p, latest).ring, p.sn) = {p}
<1> DEFINE b0 == Initialised(b, p.sn)
           at == Skip(b0.step, Distance(p.sn, b0.head_sn) - 1)
<1>1. p.sn \in SN /\ SlotSN(p) = p.sn
  BY ExtType, NoPacketAssumption DEF SlotSN
<1>2. b0 \in Ring
  BY InitialisedType
<1> HIDE DEF b0
<1>3. ASSUME NEW r \in Ring, Distance(r.head_sn, p.sn) <= r.step + MaxSteps,
             SlotOf(r, p.sn) \in Slots, r.slots[SlotOf(r, p.sn)] = p
      PROVE  Get(r, p.sn) = {p}
  BY <1>1, <1>3 DEF Get
<1>4. CASE latest
  <2> DEFINE r == PushLatest(b0, p)
  <2>1. /\ at \in Slots /\ r \in Ring /\ r.head_sn = p.sn /\ r.slots[at] = p
        /\ r.step = IF at + 1 > MaxSteps THEN 0 ELSE at + 1
    BY <1>1, <1>2, PushLatestType
  <2>2. Distance(p.sn, p.sn) = 0
    BY <1>1, SameDistance
  <2>3. SlotOf(r, p.sn) = at
    <3>1. PICK m \in Nat, a \in Nat : m = MaxSteps /\ a = at /\ a <= m
      BY <2>1, MaxStepsAssumption, HalfFacts DEF Slots
    <3> HIDE DEF r, at
    <3> QED
      BY <2>1, <2>2, <3>1 DEF SlotOf
  <2>4. Distance(r.head_sn, p.sn) <= r.step + MaxSteps
    BY <2>1, <2>2, MaxStepsAssumption, HalfFacts DEF Slots, Ring
  <2> HIDE DEF r
  <2>5. Get(r, p.sn) = {p}
    BY <1>3, <2>1, <2>3, <2>4
  <2> QED
    BY <1>4, <2>5 DEF AddPacket, r, b0
<1>5. CASE ~latest
  <2> DEFINE r == SetLate(b0, p)
  <2>1. ~TooOld(b0, p.sn) /\ AddPacket(b, p, latest).ring = r
    BY <1>5 DEF AddPacket, b0, Rejected
  <2>2. Distance(b0.head_sn, p.sn) <= MaxSteps
    <3>1. b0.head_sn \in SN
      BY <1>2 DEF Ring
    <3>2. Distance(b0.head_sn, p.sn) \in SN
      BY <1>1, <3>1, DistanceType
    <3> QED
      BY <2>1, <3>2, MaxStepsAssumption, HalfFacts DEF TooOld, SN
  <2>3. SlotOf(b0, p.sn) \in Slots /\ Distance(b0.head_sn, p.sn) <= b0.step + MaxSteps
    BY <1>1, <1>2, <2>2, SlotType
  <2>4. /\ r \in Ring /\ r.head_sn = b0.head_sn /\ r.step = b0.step
        /\ r.slots[SlotOf(b0, p.sn)] = p
    BY <1>2, <2>3 DEF SetLate, Ring
  <2> HIDE DEF r
  <2>5. SlotOf(r, p.sn) = SlotOf(b0, p.sn)
    BY <2>4 DEF SlotOf
  <2> QED
    BY <1>3, <2>1, <2>3, <2>4, <2>5
<1> QED
  BY <1>4, <1>5

\* A packet queued for the forwarding task can be read back from the bucket, in every
\* build and however often the numbers wrap.
THEOREM ForwardedStored == Spec => ForwardedIsStored
<1>1. ASSUME HeadsInv, bucket \in Ring, [Next]_vars, NEW p \in Packet, Forwards(p)
      PROVE  Get(bucket', p.sn) = {p}
  <2>1. /\ ext_packets \in Seq(Queued)
        /\ Len(ext_packets) \in Nat /\ Len(ext_packets') > Len(ext_packets)
    BY <1>1, LenProperties DEF HeadsInv, Forwards
  <2>2. PICK q \in Packet : Calc(q) \/ CalcPanicsAsking(q)
    <3>1. ext_packets' # ext_packets
      BY <2>1
    <3>2. ~ReadExtended
      BY <2>1, TailFacts DEF ReadExtended
    <3> QED
      BY <1>1, <3>1, <3>2 DEF Next, vars, CalcRejected, CalcUnparsed, CalcMalformed, CalcPanics
  <2>3. Track(q) /\ Enqueue(q)
    BY <2>2 DEF Calc, CalcPanicsAsking
  <2> DEFINE entry == [pkt |-> q, head |-> q.sn = max_seq_no']
  <2>4. entry \in Queued /\ entry.pkt = q
    BY DEF Queued
  <2>5. ext_packets' = Append(ext_packets, entry)
    BY <2>3 DEF Enqueue
  <2> HIDE DEF entry
  <2>6. p = q
    BY <1>1, <2>1, <2>4, <2>5, AppendFacts DEF Forwards
  <2> QED
    BY <1>1, <2>3, <2>6, AddedIsFound DEF Enqueue, Stored
<1>2. HeadsInv /\ bucket \in Ring /\ [Next]_vars =>
        [\A p \in Packet : Forwards(p) => Get(bucket', p.sn) = {p}]_vars
  BY <1>1
<1>3. TypeInv => bucket \in Ring
  BY DEF TypeInv, TypeOK, Ring
<1> QED
  BY <1>2, <1>3, HeadsInvariant, TypeInvariant, PTL DEF Spec, ForwardedIsStored
-----------------------------------------------------------------------------
(* The NackPairs, in a build that checks overflow.                         *)

NackPairs == [packet_id : SN, lost_packets : SUBSET (0 .. BlpBits - 1)]
Packings  == [np : NackPairs, pairs : Seq(NackPairs), panic : BOOLEAN]

\* The numbers that one pair names.
NamedBy(np) ==
    {np.packet_id} \cup {(np.packet_id + bit + 1) % MaxSN : bit \in np.lost_packets}

NothingPacked == [np |-> NoPair, pairs |-> <<>>, panic |-> FALSE]

\* The pairs of a packing, the one begun with them, name the numbers due below n.
PackInv(acc, due, n) ==
    IF acc.np.packet_id = 0
    THEN acc.pairs = <<>> /\ \A e \in due : ~(e < n)
    ELSE /\ acc.np.packet_id < n
         /\ Named(acc.pairs) \cup NamedBy(acc.np) = {e \in due : e < n}

LEMMA NamedAppend ==
    ASSUME NEW pairs \in Seq(NackPairs), NEW np \in NackPairs
    PROVE  Named(Append(pairs, np)) = Named(pairs) \cup NamedBy(np)
<1> DEFINE more == Append(pairs, np)
<1>1. PICK n \in Nat : n = Len(pairs)
  BY LenProperties
<1>2. /\ DOMAIN pairs = 1 .. n /\ DOMAIN more = 1 .. n + 1
      /\ \A i \in 1 .. n : more[i] = pairs[i]
      /\ more[n + 1] = np
  BY <1>1, AppendFacts
<1> HIDE DEF more
<1>3. Named(pairs) = UNION {NamedBy(pairs[i]) : i \in 1 .. n}
  BY <1>2 DEF Named, NamedBy
<1>4. Named(more) = UNION {NamedBy(more[i]) : i \in 1 .. n + 1}
  BY <1>2 DEF Named, NamedBy
<1>5. 1 .. n + 1 = (1 .. n) \cup {n + 1}
  OBVIOUS
<1>6. UNION {NamedBy(more[i]) : i \in 1 .. n + 1}
        = (UNION {NamedBy(more[i]) : i \in 1 .. n}) \cup NamedBy(more[n + 1])
  <2>1. \A i \in 1 .. n + 1 : i \in 1 .. n \/ i = n + 1
    OBVIOUS
  <2>2. \A i \in 1 .. n : i \in 1 .. n + 1
    OBVIOUS
  <2>3. n + 1 \in 1 .. n + 1
    OBVIOUS
  <2>4. ASSUME NEW x \in UNION {NamedBy(more[i]) : i \in 1 .. n + 1}
        PROVE  x \in (UNION {NamedBy(more[i]) : i \in 1 .. n}) \cup NamedBy(more[n + 1])
    <3>1. PICK i \in 1 .. n + 1 : x \in NamedBy(more[i])
      OBVIOUS
    <3> QED
      BY <2>1, <3>1
  <2>5. ASSUME NEW x \in (UNION {NamedBy(more[i]) : i \in 1 .. n}) \cup NamedBy(more[n + 1])
        PROVE  x \in UNION {NamedBy(more[i]) : i \in 1 .. n + 1}
    <3>1. CASE x \in NamedBy(more[n + 1])
      BY <2>3, <3>1
    <3>2. CASE x \in UNION {NamedBy(more[i]) : i \in 1 .. n}
      <4>1. PICK i \in 1 .. n : x \in NamedBy(more[i])
        BY <3>2
      <4> QED
        BY <2>2, <4>1
    <3> QED
      BY <3>1, <3>2
  <2> QED
    BY <2>4, <2>5
<1>7. {NamedBy(more[i]) : i \in 1 .. n} = {NamedBy(pairs[i]) : i \in 1 .. n}
  BY <1>2
<1> QED
  BY <1>2, <1>3, <1>4, <1>6, <1>7 DEF more

LEMMA BlpFacts == BlpBits \in Nat \ {0} /\ BlpBits < MaxSN /\ OverflowChecks \in BOOLEAN
BY NackAssumption, HalfFacts

\* The types of the parts, and what an EXCEPT of one of them makes.
LEMMA PackingTypes ==
    /\ NoPair \in NackPairs /\ NothingPacked \in Packings
    /\ \A acc \in Packings :
          /\ acc.np \in NackPairs /\ acc.np.packet_id \in SN
          /\ acc.pairs \in Seq(NackPairs) /\ acc.panic \in BOOLEAN
          /\ [acc EXCEPT !.panic = TRUE] \in Packings
<1>1. 0 \in SN
  BY HalfFacts DEF SN
<1>2. NoPair \in NackPairs
  BY <1>1 DEF NoPair, NackPairs
<1>3. <<>> \in Seq(NackPairs)
  BY EmptySeq
<1> QED
  BY <1>2, <1>3 DEF Packings, NothingPacked, NackPairs

\* What two of the EXCEPTs of PackOne make of a packing.
LEMMA PackingExcept ==
    ASSUME NEW acc \in Packings, NEW bits
    PROVE  /\ [acc EXCEPT !.panic = TRUE].panic = TRUE
           /\ [acc EXCEPT !.np.lost_packets = bits]
                = [np    |-> [packet_id |-> acc.np.packet_id, lost_packets |-> bits],
                   pairs |-> acc.pairs,
                   panic |-> acc.panic]
<1>1. PICK n \in NackPairs, pairs \in Seq(NackPairs), panic \in BOOLEAN :
         acc = [np |-> n, pairs |-> pairs, panic |-> panic]
  BY DEF Packings
<1>2. PICK id, lost : n = [packet_id |-> id, lost_packets |-> lost]
  BY DEF NackPairs
<1>3. [acc EXCEPT !.panic = TRUE].panic = TRUE
  BY <1>1
<1>5. [n EXCEPT !.lost_packets = bits] = [packet_id |-> id, lost_packets |-> bits]
  BY <1>2
<1>6. /\ [acc EXCEPT !.np.lost_packets = bits]
           = [acc EXCEPT !.np = [n EXCEPT !.lost_packets = bits]]
      /\ acc.np = n /\ n.packet_id = id
  BY <1>1, <1>2
<1>7. [acc EXCEPT !.np.lost_packets = bits]
        = [np |-> [packet_id |-> id, lost_packets |-> bits],
           pairs |-> acc.pairs, panic |-> acc.panic]
  BY <1>1, <1>5, <1>6
<1> QED
  BY <1>3, <1>6, <1>7

\* One number more, whether it is the first, begins a pair or joins one.
LEMMA PackOneCases ==
    ASSUME NEW acc \in Packings, NEW e \in Nat, ~PackOne(acc, e).panic,
           NEW sn, sn = e % MaxSN, NEW np, np = acc.np,
           NEW shift, shift = sn - np.packet_id - 1
    PROVE  /\ ~acc.panic
           /\ np.packet_id # 0 /\ OverflowChecks => np.packet_id + BlpBits < MaxSN
           /\ IF np.packet_id = 0 \/ sn > LastNamed(np)
              THEN PackOne(acc, e)
                     = [np    |-> [packet_id |-> sn, lost_packets |-> {}],
                        pairs |-> IF np.packet_id # 0 THEN Append(acc.pairs, np)
                                  ELSE acc.pairs,
                        panic |-> FALSE]
              ELSE /\ OverflowChecks => ~(shift < 0)
                   /\ PackOne(acc, e)
                        = [np    |-> [packet_id    |-> np.packet_id,
                                      lost_packets |-> np.lost_packets \cup
                                                       {(shift % MaxSN) % BlpBits}],
                           pairs |-> acc.pairs,
                           panic |-> FALSE]
<1> DEFINE begun == np.packet_id # 0
           far   == sn > LastNamed(np)
           bits  == np.lost_packets \cup {(shift % MaxSN) % BlpBits}
           ends  == np.packet_id + BlpBits >= MaxSN
           below == shift < 0
           new   == [packet_id |-> sn, lost_packets |-> {}]
           more  == IF begun THEN Append(acc.pairs, np) ELSE acc.pairs
           first == [acc EXCEPT !.pairs = more, !.np = new]
           joins == [acc EXCEPT !.np.lost_packets = bits]
           dies  == [acc EXCEPT !.panic = TRUE]
<1>1. PackOne(acc, e) =
        IF acc.panic THEN acc
        ELSE IF begun /\ OverflowChecks /\ ends THEN dies
        ELSE IF ~begun \/ far THEN first
        ELSE IF OverflowChecks /\ below THEN dies ELSE joins
  BY DEF PackOne
<1>2. np \in NackPairs /\ acc.panic \in BOOLEAN
  BY DEF Packings
<1>3. /\ dies.panic = TRUE
      /\ first = [np |-> new, pairs |-> more, panic |-> acc.panic]
      /\ joins = [np    |-> [packet_id |-> np.packet_id, lost_packets |-> bits],
                  pairs |-> acc.pairs,
                  panic |-> acc.panic]
  <2>1. joins = [acc EXCEPT !.np.lost_packets = bits] /\ acc.np.packet_id = np.packet_id
    BY DEF joins
  <2>2. first = [acc EXCEPT !.pairs = more, !.np = new]
    BY DEF first
  <2> HIDE DEF new, more, bits, first, joins
  <2>3. joins = [np    |-> [packet_id |-> np.packet_id, lost_packets |-> bits],
                 pairs |-> acc.pairs, panic |-> acc.panic]
    BY <2>1, PackingExcept
  <2>4. first = [np |-> new, pairs |-> more, panic |-> acc.panic]
    <3>1. DOMAIN acc = {"np", "pairs", "panic"}
      BY DEF Packings
    <3>2. first = [x \in {"np", "pairs", "panic"} |->
                      IF x = "np" THEN new ELSE IF x = "pairs" THEN more ELSE acc[x]]
      BY <2>2, <3>1
    <3> QED
      BY <3>1, <3>2
  <2> QED
    BY <2>3, <2>4, PackingExcept
<1>7. ends <=> ~(np.packet_id + BlpBits < MaxSN)
  BY <1>2, BlpFacts, HalfFacts DEF NackPairs, SN
<1>8. OverflowChecks \in BOOLEAN /\ acc.panic \in BOOLEAN
  BY <1>2, BlpFacts
<1> HIDE DEF begun, far, ends, below, first, joins, dies
<1>9. ~acc.panic /\ ~(begun /\ OverflowChecks /\ ends)
  <2>1. acc.panic => PackOne(acc, e) = acc
    BY <1>1, <1>8
  <2>2. ~acc.panic
    BY <2>1
  <2>3. begun /\ OverflowChecks /\ ends => PackOne(acc, e) = dies
    BY <1>1, <1>8, <2>2
  <2> QED
    BY <1>3, <2>2, <2>3
<1>10. begun /\ ~far => ~(OverflowChecks /\ below)
  BY <1>1, <1>3, <1>9
<1>11. PackOne(acc, e) = IF ~begun \/ far THEN first ELSE joins
  BY <1>1, <1>9, <1>10
<1>12. acc.panic = FALSE
  BY <1>8, <1>9
<1>13. CASE ~begun \/ far
  BY <1>3, <1>7, <1>9, <1>11, <1>12, <1>13 DEF begun, far
<1>14. CASE begun /\ ~far
  BY <1>3, <1>7, <1>9, <1>10, <1>11, <1>12, <1>14 DEF begun, far, below
<1> QED
  BY <1>13, <1>14

LEMMA PackOneType ==
    ASSUME NEW acc \in Packings, NEW e \in Nat PROVE PackOne(acc, e) \in Packings
<1> DEFINE np == acc.np
           sn == e % MaxSN
           shift == sn - np.packet_id - 1
           bit == (shift % MaxSN) % BlpBits
<1>1. np \in NackPairs /\ acc.pairs \in Seq(NackPairs)
  BY DEF Packings
<1>2. sn \in SN /\ sn \in Int /\ np.packet_id \in Int
  BY <1>1, HalfFacts DEF SN, NackPairs
<1>3. bit \in 0 .. BlpBits - 1
  <2>1. shift % MaxSN \in Nat
    BY <1>2, HalfFacts
  <2> QED
    BY <2>1, BlpFacts
<1>4. CASE PackOne(acc, e).panic
  <2>1. \/ PackOne(acc, e) = acc
        \/ PackOne(acc, e) = [acc EXCEPT !.panic = TRUE]
        \/ PackOne(acc, e) = [acc EXCEPT !.pairs = IF np.packet_id # 0 THEN Append(@, np)
                                                   ELSE @,
                                         !.np = [packet_id |-> sn, lost_packets |-> {}]]
        \/ PackOne(acc, e) = [acc EXCEPT !.np.lost_packets = @ \cup {bit}]
    BY DEF PackOne
  <2>2. Append(acc.pairs, np) \in Seq(NackPairs)
    BY <1>1, AppendFacts
  <2>3. [packet_id |-> sn, lost_packets |-> {}] \in NackPairs
    BY <1>2 DEF NackPairs
  <2>4. [np EXCEPT !.lost_packets = @ \cup {bit}] \in NackPairs
    BY <1>1, <1>3 DEF NackPairs
  <2> HIDE DEF bit, sn
  <2>5. [acc EXCEPT !.panic = TRUE] \in Packings
    BY PackingTypes
  <2>6. ASSUME NEW more \in Seq(NackPairs), NEW new \in NackPairs
        PROVE  [acc EXCEPT !.pairs = more, !.np = new] \in Packings
    BY DEF Packings
  <2>7. [acc EXCEPT !.np.lost_packets = @ \cup {bit}] \in Packings
    <3>1. [acc EXCEPT !.np.lost_packets = @ \cup {bit}]
            = [acc EXCEPT !.np = [np EXCEPT !.lost_packets = @ \cup {bit}]]
      BY DEF Packings
    <3>2. \A new \in NackPairs : [acc EXCEPT !.np = new] \in Packings
      BY DEF Packings
    <3> QED
      BY <2>4, <3>1, <3>2
  <2>8. CASE PackOne(acc, e) = [acc EXCEPT !.pairs = IF np.packet_id # 0 THEN Append(@, np)
                                                     ELSE @,
                                           !.np = [packet_id |-> sn, lost_packets |-> {}]]
    <3>1. (IF np.packet_id # 0 THEN Append(acc.pairs, np) ELSE acc.pairs) \in Seq(NackPairs)
      BY <1>1, <2>2
    <3> QED
      BY <2>3, <2>6, <2>8, <3>1
  <2> QED
    BY <2>1, <2>5, <2>7, <2>8
<1>5. CASE ~PackOne(acc, e).panic
  <2>1. \/ PackOne(acc, e) = [np    |-> [packet_id |-> sn, lost_packets |-> {}],
                              pairs |-> IF np.packet_id # 0 THEN Append(acc.pairs, np)
                                        ELSE acc.pairs,
                              panic |-> FALSE]
        \/ PackOne(acc, e) = [np    |-> [packet_id    |-> np.packet_id,
                                         lost_packets |-> np.lost_packets \cup {bit}],
                              pairs |-> acc.pairs,
                              panic |-> FALSE]
    BY <1>5, PackOneCases
  <2>2. Append(acc.pairs, np) \in Seq(NackPairs)
    BY <1>1, AppendFacts
  <2>3. [packet_id |-> sn, lost_packets |-> {}] \in NackPairs
    BY <1>2 DEF NackPairs
  <2>4. [packet_id |-> np.packet_id, lost_packets |-> np.lost_packets \cup {bit}]
            \in NackPairs
    BY <1>1, <1>3 DEF NackPairs
  <2> HIDE DEF bit, sn
  <2>5. (IF np.packet_id # 0 THEN Append(acc.pairs, np) ELSE acc.pairs) \in Seq(NackPairs)
    BY <1>1, <2>2
  <2>6. \A new \in NackPairs, pairs \in Seq(NackPairs) :
            [np |-> new, pairs |-> pairs, panic |-> FALSE] \in Packings
    BY DEF Packings
  <2> QED
    BY <1>1, <2>1, <2>3, <2>4, <2>5, <2>6
<1> QED
  BY <1>4, <1>5

\* A number due joins the pair begun, or the next.
LEMMA PackOneKeeps ==
    ASSUME OverflowChecks, NEW acc \in Packings, NEW due \in SUBSET (1 .. MaxSN - 1),
           NEW n \in due, PackInv(acc, due, n), ~PackOne(acc, n).panic
    PROVE  PackInv(PackOne(acc, n), due, n + 1)
<1> DEFINE np == acc.np
           shift == n - np.packet_id - 1
           next == PackOne(acc, n)
           below == {e \in due : e < n}
           upto == {e \in due : e < n + 1}
<1>1. n \in 1 .. MaxSN - 1 /\ n % MaxSN = n /\ MaxSN \in Nat
  <2>1. n \in 0 .. MaxSN - 1 /\ n # 0
    BY HalfFacts
  <2> QED
    BY <2>1, HalfFacts, ModSmall
<1>2. np \in NackPairs /\ np.packet_id \in 0 .. MaxSN - 1 /\ acc.pairs \in Seq(NackPairs)
  BY DEF Packings, NackPairs, SN
<1>3. /\ np.packet_id # 0 => np.packet_id + BlpBits < MaxSN
      /\ IF np.packet_id = 0 \/ n > LastNamed(np)
         THEN next = [np    |-> [packet_id |-> n, lost_packets |-> {}],
                      pairs |-> IF np.packet_id # 0 THEN Append(acc.pairs, np)
                                ELSE acc.pairs,
                      panic |-> FALSE]
         ELSE /\ ~(shift < 0)
              /\ next = [np    |-> [packet_id    |-> np.packet_id,
                                    lost_packets |-> np.lost_packets \cup
                                                     {(shift % MaxSN) % BlpBits}],
                         pairs |-> acc.pairs,
                         panic |-> FALSE]
  <2>1. n \in Nat
    BY <1>1
  <2> QED
    BY <1>1, <2>1, PackOneCases
<1>4. upto = below \cup {n}
  <2>1. \A e \in due : e < n + 1 <=> e < n \/ e = n
    <3>1. ASSUME NEW e \in due PROVE e < n + 1 <=> e < n \/ e = n
      <4>1. e \in Int /\ n \in Int
        BY <1>1
      <4> QED
        BY <4>1
    <3> QED
      BY <3>1
  <2> QED
    BY <2>1
<1> HIDE DEF next, below, upto
<1>5. PackInv(next, due, n + 1)
        <=> IF next.np.packet_id = 0
            THEN next.pairs = <<>> /\ \A e \in due : ~(e < n + 1)
            ELSE /\ next.np.packet_id < n + 1
                 /\ Named(next.pairs) \cup NamedBy(next.np) = upto
  BY DEF PackInv, upto
<1>6. ASSUME np.packet_id = 0 PROVE PackInv(next, due, n + 1)
  <2>1. acc.pairs = <<>> /\ below = {}
    BY <1>6 DEF PackInv, below
  <2>2. next.np = [packet_id |-> n, lost_packets |-> {}] /\ next.pairs = <<>>
    BY <1>3, <1>6, <2>1
  <2>3. Named(<<>>) = {}
    BY EmptySeq DEF Named
  <2>4. next.np.packet_id = n /\ NamedBy(next.np) = {n}
    BY <2>2 DEF NamedBy
  <2>5. next.np.packet_id # 0 /\ next.np.packet_id < n + 1
    BY <1>1, <2>4
  <2> QED
    BY <1>4, <1>5, <2>1, <2>2, <2>3, <2>4, <2>5
<1>7. ASSUME np.packet_id # 0, n > LastNamed(np) PROVE PackInv(next, due, n + 1)
  <2>1. Named(acc.pairs) \cup NamedBy(np) = below
    BY <1>7 DEF PackInv, below
  <2>2. next.np = [packet_id |-> n, lost_packets |-> {}]
        /\ next.pairs = Append(acc.pairs, np)
    BY <1>3, <1>7
  <2>3. Named(next.pairs) = below
    BY <1>2, <2>1, <2>2, NamedAppend
  <2>4. next.np.packet_id = n /\ NamedBy(next.np) = {n}
    BY <2>2 DEF NamedBy
  <2>5. next.np.packet_id # 0 /\ next.np.packet_id < n + 1
    BY <1>1, <2>4
  <2> QED
    BY <1>4, <1>5, <2>3, <2>4, <2>5
<1>8. ASSUME np.packet_id # 0, ~(n > LastNamed(np)) PROVE PackInv(next, due, n + 1)
  <2>1. Named(acc.pairs) \cup NamedBy(np) = below /\ np.packet_id < n
    BY <1>8 DEF PackInv, below
  <2>2. LastNamed(np) = np.packet_id + BlpBits
    <3>1. np.packet_id + BlpBits \in 0 .. MaxSN - 1
      BY <1>1, <1>2, <1>3, <1>8, BlpFacts
    <3> QED
      BY <1>1, <3>1, ModSmall DEF LastNamed
  <2>3. shift \in 0 .. BlpBits - 1
    BY <1>1, <1>2, <1>8, <2>1, <2>2, BlpFacts
  <2>4. (shift % MaxSN) % BlpBits = shift
    <3>1. shift \in 0 .. MaxSN - 1 /\ BlpBits \in Nat
      BY <1>1, <2>3, BlpFacts
    <3>2. shift % MaxSN = shift
      BY <1>1, <3>1, ModSmall
    <3> QED
      BY <2>3, <3>1, <3>2, ModSmall
  <2>5. /\ next.np = [packet_id    |-> np.packet_id,
                      lost_packets |-> np.lost_packets \cup {shift}]
        /\ next.pairs = acc.pairs
    <3> HIDE DEF shift
    <3>1. ~(np.packet_id = 0 \/ n > LastNamed(np))
      BY <1>8
    <3>2. next = [np    |-> [packet_id    |-> np.packet_id,
                             lost_packets |-> np.lost_packets \cup
                                              {(shift % MaxSN) % BlpBits}],
                  pairs |-> acc.pairs,
                  panic |-> FALSE]
      BY <1>3, <3>1
    <3> QED
      BY <2>4, <3>2
  <2>6. NamedBy(next.np) = NamedBy(np) \cup {(np.packet_id + shift + 1) % MaxSN}
    BY <2>5 DEF NamedBy
  <2>7. np.packet_id + shift + 1 = n
    BY <1>1, <1>2
  <2>8. next.np.packet_id = np.packet_id /\ np.packet_id < n + 1
    BY <1>1, <1>2, <2>1, <2>5
  <2>9. NamedBy(next.np) = NamedBy(np) \cup {n}
    BY <1>1, <2>6, <2>7
  <2> QED
    BY <1>4, <1>5, <1>8, <2>1, <2>5, <2>8, <2>9
<1> QED
  BY <1>6, <1>7, <1>8 DEF next

\* What the loop has made of the queue at n.
PackStep(acc, due, n) == IF n - 1 \in due THEN PackOne(acc, n - 1) ELSE acc

LEMMA PackingIs ==
    ASSUME NEW due, NEW head \in Nat
    PROVE  /\ Packing(due, head)[0] = NothingPacked
           /\ \A n \in 1 .. head :
                 Packing(due, head)[n] = PackStep(Packing(due, head)[n - 1], due, n)
<1> DEFINE step == [n \in 1 .. head |-> [acc \in Packings |-> PackStep(acc, due, n)]]
           N    == 0 .. head
<1>1. NothingPacked \in Packings
  BY PackingTypes
<1>2. \A n \in 1 .. head, acc \in Packings : PackStep(acc, due, n) \in Packings
  BY PackOneType DEF PackStep
<1>3. step \in [1 .. head -> [Packings -> Packings]]
  BY <1>2
<1>4. PICK f \in [N -> Packings] : Follows(f, head, NothingPacked, step)
  <2> HIDE DEF step
  <2> QED
    BY <1>1, <1>3, RecursionExists
<1>5. f = [n \in N |-> IF n = 0 THEN NothingPacked ELSE PackStep(f[n - 1], due, n)]
  <2>1. ASSUME NEW n \in N, n # 0 PROVE f[n] = PackStep(f[n - 1], due, n)
    <3>1. n \in 1 .. head /\ n - 1 \in N
      BY <2>1
    <3>2. f[n] = step[n][f[n - 1]] /\ f[n - 1] \in Packings
      BY <1>4, <3>1 DEF Follows
    <3> QED
      BY <3>1, <3>2
  <2>2. f[0] = NothingPacked
    BY <1>4 DEF Follows
  <2> HIDE DEF step
  <2> QED
    BY <2>1, <2>2
<1> DEFINE c == Packing(due, head)
<1>6. c = [n \in N |-> IF n = 0 THEN NothingPacked ELSE PackStep(c[n - 1], due, n)]
  BY <1>5 DEF Packing, NothingPacked, PackStep
<1> HIDE DEF step, c
<1>7. \A n \in 1 .. head : n \in N /\ n # 0
  OBVIOUS
<1>8. c[0] = NothingPacked /\ \A n \in 1 .. head : c[n] = PackStep(c[n - 1], due, n)
  BY <1>6, <1>7
<1> QED
  BY <1>8 DEF c

\* The pairs name the numbers due, whatever these are, if nothing overflows.
LEMMA PairsAre ==
    ASSUME OverflowChecks, NEW due \in SUBSET (1 .. MaxSN - 1), NEW head \in Nat,
           \A e \in due : e < head, ~Packed(due, head).panic
    PROVE  Named(Pairs(due, head)) = due
<1> DEFINE c == Packing(due, head)
           S == {n \in Nat : n <= head /\ ~c[n].panic =>
                                c[n] \in Packings /\ PackInv(c[n], due, n)}
<1>1. /\ c[0] = NothingPacked
      /\ \A n \in 1 .. head : c[n] = PackStep(c[n - 1], due, n)
  BY PackingIs
<1>2. ~c[head].panic
  BY DEF Packed
<1>types. \A e \in due : e \in Nat \ {0}
  BY HalfFacts
<1> HIDE DEF c
<1>3. 0 \in S
  <2>1. NothingPacked.np.packet_id = 0 /\ NothingPacked.pairs = <<>>
    BY DEF NothingPacked, NoPair
  <2>2. PackInv(NothingPacked, due, 0)
    BY <1>types, <2>1 DEF PackInv
  <2> QED
    BY <1>1, <2>2, PackingTypes
<1>all. \A n \in Nat : n + 1 <= head => c[n] \in Packings
  <2> DEFINE T == {n \in Nat : n <= head => c[n] \in Packings}
  <2>1. 0 \in T
    BY <1>1, PackingTypes
  <2>2. ASSUME NEW n \in Nat, n \in T PROVE n + 1 \in T
    <3>1. ASSUME n + 1 <= head PROVE c[n + 1] \in Packings
      <4>1. n + 1 \in 1 .. head /\ n + 1 - 1 = n /\ c[n] \in Packings
        BY <2>2, <3>1
      <4>2. c[n + 1] = PackStep(c[n], due, n + 1)
        BY <1>1, <4>1
      <4> QED
        BY <4>1, <4>2, PackOneType DEF PackStep
    <3> QED
      BY <3>1
  <2> HIDE DEF T
  <2>3. Nat \subseteq T
    BY <2>1, <2>2, NatSetInduction
  <2> QED
    BY <2>3 DEF T
<1>4. ASSUME NEW n \in Nat, n \in S PROVE n + 1 \in S
  <2> SUFFICES ASSUME n + 1 <= head, ~c[n + 1].panic
               PROVE  c[n + 1] \in Packings /\ PackInv(c[n + 1], due, n + 1)
    OBVIOUS
  <2>1. n + 1 \in 1 .. head /\ n + 1 - 1 = n /\ n <= head
    OBVIOUS
  <2>2. c[n + 1] = PackStep(c[n], due, n + 1) /\ c[n] \in Packings
    BY <1>1, <1>all, <2>1
  <2>3. CASE n \in due
    <3>1. c[n + 1] = PackOne(c[n], n)
      BY <2>1, <2>2, <2>3 DEF PackStep
    <3>2. ~c[n].panic
      BY <2>2, <3>1, PackOneCases
    <3>3. PackInv(c[n], due, n)
      BY <1>4, <2>1, <3>2
    <3> HIDE DEF S
    <3> QED
      BY <2>2, <2>3, <3>1, <3>3, PackOneKeeps, PackOneType
  <2>4. CASE n \notin due
    <3>1. c[n + 1] = c[n]
      BY <2>1, <2>2, <2>4 DEF PackStep
    <3>2. PackInv(c[n], due, n)
      BY <1>4, <2>1, <3>1
    <3>3. \A e \in due : e < n + 1 <=> e < n
      <4>1. ASSUME NEW e \in due PROVE e < n + 1 <=> e < n
        <5>1. e \in Nat /\ e # n
          BY <1>types, <2>4
        <5> QED
          BY <5>1
      <4> QED
        BY <4>1
    <3>4. c[n].np.packet_id \in Int
      BY <2>2 DEF Packings, NackPairs, SN
    <3>5. c[n].np.packet_id < n => c[n].np.packet_id < n + 1
      BY <3>4
    <3> HIDE DEF S
    <3>6. PackInv(c[n], due, n + 1)
      BY <3>2, <3>3, <3>5 DEF PackInv
    <3> QED
      BY <2>2, <3>1, <3>6
  <2> QED
    BY <2>3, <2>4
<1> HIDE DEF S
<1>5. head \in S
  BY <1>3, <1>4, NatSetInduction
<1>6. c[head] \in Packings /\ PackInv(c[head], due, head)
  BY <1>2, <1>5 DEF S
<1> DEFINE acc == c[head]
<1>7. Pairs(due, head) = IF acc.np.packet_id = 0 THEN acc.pairs ELSE Append(acc.pairs, acc.np)
  BY DEF Pairs, Packed, c
<1>8. acc.np \in NackPairs /\ acc.pairs \in Seq(NackPairs)
  BY <1>6 DEF Packings
<1> HIDE DEF acc
<1>9. PackInv(acc, due, head)
  BY <1>6 DEF acc
<1>10. {e \in due : e < head} = due
  OBVIOUS
<1>11. CASE acc.np.packet_id = 0
  <2>1. due = {}
    BY <1>9, <1>11 DEF PackInv
  <2>2. Named(<<>>) = {}
    BY EmptySeq DEF Named
  <2> QED
    BY <1>7, <1>9, <1>11, <2>1, <2>2 DEF PackInv
<1>12. CASE acc.np.packet_id # 0
  BY <1>7, <1>8, <1>9, <1>10, <1>12, NamedAppend DEF PackInv
<1> QED
  BY <1>11, <1>12

\* The requests of one call.
LEMMA PairsNext ==
    ASSUME OverflowChecks
    PROVE  TrackInv /\ TrackInv' /\ QueueInv /\ PairsNameTheDue /\ [Next]_vars
              => PairsNameTheDue'
<1> SUFFICES ASSUME TrackInv, TrackInv', QueueInv, PairsNameTheDue, [Next]_vars
             PROVE  PairsNameTheDue'
  OBVIOUS
<1>1. ASSUME NEW p \in Packet, Calc(p), Nack PROVE PairsNameTheDue'
  <2> DEFINE queue == NackerAfter(p.sn)
             due   == Due(queue, ExtHead)
  <2>1. /\ Arrive(p) /\ Track(p) /\ AskAgain(queue)
        /\ ~PairsPanic(queue, ExtHead)
    BY <1>1 DEF Calc
  <2>2. /\ QueueTypeOK(queue) /\ 0 \notin DOMAIN queue
        /\ cycles' = 0
    BY <1>1, <2>1, QueueStep
  <2>3. max_seq_no' \in SN /\ ExtHead \in 0 .. MaxSN - 1
    BY <2>2, HalfFacts DEF TrackInv, TrackTypeOK, SN, ExtHead
  <2>4. feedback'.due = due /\ feedback'.pairs = Pairs(due, ExtHead)
    BY <1>1, <2>1 DEF AskAgain
  <2> HIDE DEF queue
  <2>5. \A e \in due : e \in Nat \ {0} /\ e < ExtHead - 2
    BY <2>2 DEF Due, QueueTypeOK
  <2>6. ~Packed(due, ExtHead).panic
    BY <2>1 DEF PairsPanic
  <2> HIDE DEF due
  <2>7. PICK head \in 0 .. MaxSN - 1 : head = ExtHead
    BY <2>3
  <2>8. \A e \in due : e \in 1 .. MaxSN - 1 /\ e < head
    <3>1. ASSUME NEW e \in due PROVE e \in 1 .. MaxSN - 1 /\ e < head
      <4>1. e \in Nat \ {0} /\ e < head - 2
        BY <2>5, <2>7
      <4> QED
        BY <4>1, HalfFacts
    <3> QED
      BY <3>1
  <2>9. Named(Pairs(due, head)) = due
    <3>1. due \in SUBSET (1 .. MaxSN - 1) /\ head \in Nat
      BY <2>8, HalfFacts
    <3> QED
      BY <2>6, <2>7, <2>8, <3>1, PairsAre
  <2>10. \A e \in due : e % MaxSN = e
    <3>1. \A e \in due : e \in 0 .. MaxSN - 1
      BY <2>8, HalfFacts
    <3> QED
      BY <3>1, ModSmall, HalfFacts
  <2>11. {e % MaxSN : e \in due} = due
    BY <2>10
  <2> QED
    BY <2>4, <2>7, <2>9, <2>11 DEF PairsNameTheDue
<1>2. ASSUME feedback' = feedback PROVE PairsNameTheDue'
  BY <1>2 DEF PairsNameTheDue
<1>3. ASSUME NEW p \in Packet, Calc(p), ~Nack PROVE PairsNameTheDue'
  BY <1>2, <1>3 DEF Calc, AskAgain
<1>4. ASSUME NEW p \in Packet,
             \/ CalcRejected(p) \/ CalcUnparsed(p) \/ CalcMalformed(p)
             \/ CalcPanics(p) \/ CalcPanicsAsking(p)
      PROVE  PairsNameTheDue'
  BY <1>2, <1>4 DEF CalcRejected, CalcUnparsed, CalcMalformed, CalcPanics, CalcPanicsAsking
<1>5. CASE ReadExtended
  BY <1>2, <1>5 DEF ReadExtended
<1>6. CASE UNCHANGED vars
  BY <1>2, <1>6 DEF vars
<1> QED
  BY <1>1, <1>3, <1>4, <1>5, <1>6 DEF Next

\* In a build that checks overflow, for any length of the bitmap: the NackPairs of each
\* feedback name the packets then due, every one of them and no other (pairs).
THEOREM PairsNameAllDue ==
    ASSUME OverflowChecks PROVE Spec => []PairsNameTheDue
<1>1. Init => PairsNameTheDue
  <2>1. Named(<<>>) = {}
    BY EmptySeq DEF Named
  <2> QED
    BY <2>1 DEF Init, PairsNameTheDue
<1>2. TrackInv /\ TrackInv' /\ QueueInv /\ PairsNameTheDue /\ [Next]_vars => PairsNameTheDue'
  BY PairsNext
<1> QED
  BY <1>1, <1>2, TrackInvariant, QueueInvariant, PTL DEF Spec

=============================================================================
