----------------------------- MODULE TwccProofs -----------------------------
(***************************************************************************)
(* Proofs about Twcc: for any number of packets and reports, any size of   *)
(* the type, the marks and the chunks.                                     *)
(***************************************************************************)
EXTENDS Twcc, SequenceFacts, FiniteSetTheorems

-----------------------------------------------------------------------------
(* The cycles of the numbers.                                              *)

LEMMA Widths ==
    /\ Cycle \in Nat \ {0} /\ LowMark \in Nat \ {0} /\ HighMark \in Nat
    /\ LowMark < HighMark /\ HighMark < Cycle
    /\ MaxLead \in Nat /\ MaxLag \in Nat /\ MaxPending \in Nat
BY TwccAssumption

LEMMA CycleOf ==
    ASSUME NEW x \in Int
    PROVE  /\ x \div Cycle \in Int /\ x % Cycle \in 0 .. Cycle - 1
           /\ x = Cycle * (x \div Cycle) + (x % Cycle)
<1>1. PICK c \in Nat \ {0} : c = Cycle
  BY Widths
<1>2. x \div c \in Int /\ x % c \in 0 .. c - 1 /\ x = c * (x \div c) + (x % c)
  OBVIOUS
<1> QED
  BY <1>1, <1>2

\* A product between two multiples that are next to each other but one.
LEMMA NextMultiples ==
    ASSUME NEW c \in Nat \ {0}, NEW d \in Int, -2 * c < c * d, c * d < 2 * c
    PROVE  d \in {-1, 0, 1}
<1>1. d < 2
  <2> SUFFICES ASSUME d >= 2 PROVE FALSE
    OBVIOUS
  <2>1. PICK k \in Nat : d = 2 + k
    <3>1. d - 2 \in Nat /\ d = 2 + (d - 2)
      OBVIOUS
    <3> QED
      BY <3>1
  <2>2. c * d = 2 * c + c * k /\ c * k >= 0
    BY <2>1
  <2> QED
    BY <2>2
<1>2. d > -2
  <2> SUFFICES ASSUME d <= -2 PROVE FALSE
    OBVIOUS
  <2>1. PICK k \in Nat : d = -2 - k
    <3>1. -2 - d \in Nat /\ d = -2 - (-2 - d)
      OBVIOUS
    <3> QED
      BY <3>1
  <2>2. c * d = -2 * c - c * k /\ c * k >= 0
    BY <2>1
  <2> QED
    BY <2>2
<1> QED
  BY <1>1, <1>2

\* A packet less than a cycle from the last is in the cycle of that or next to it.
LEMMA CycleStep ==
    ASSUME NEW x \in Int, NEW y \in Int, y - x \in -MaxLag .. MaxLead + MaxLag
    PROVE  /\ (y \div Cycle) - (x \div Cycle) \in {-1, 0, 1}
           /\ (y % Cycle) - (x % Cycle)
                = (y - x) - Cycle * ((y \div Cycle) - (x \div Cycle))
<1>a. /\ x \div Cycle \in Int /\ x % Cycle \in 0 .. Cycle - 1
      /\ y \div Cycle \in Int /\ y % Cycle \in 0 .. Cycle - 1
      /\ x = Cycle * (x \div Cycle) + (x % Cycle)
      /\ y = Cycle * (y \div Cycle) + (y % Cycle)
  BY CycleOf
<1>b. PICK c, qx, qy, rx, ry :
          /\ c = Cycle
          /\ qx = x \div Cycle /\ rx = x % Cycle
          /\ qy = y \div Cycle /\ ry = y % Cycle
  OBVIOUS
<1>1. /\ c \in Nat \ {0} /\ c = Cycle /\ rx \in 0 .. c - 1 /\ ry \in 0 .. c - 1
      /\ qx \in Int /\ qx = x \div Cycle /\ rx = x % Cycle /\ x = c * qx + rx
      /\ qy \in Int /\ qy = y \div Cycle /\ ry = y % Cycle /\ y = c * qy + ry
  BY <1>a, <1>b, Widths
<1>2. c * (qy - qx) = c * qy - c * qx
  BY <1>1
<1>3. PICK py \in Int, px \in Int : py = c * qy /\ px = c * qx
  BY <1>1
<1>4. c * (qy - qx) = (y - x) - (ry - rx)
  BY <1>1, <1>2, <1>3
<1>5. -c < y - x /\ y - x < c
  BY <1>1, Widths, WindowAssumption
<1>6. -2 * c < c * (qy - qx) /\ c * (qy - qx) < 2 * c
  BY <1>1, <1>4, <1>5
<1>7. qy - qx \in {-1, 0, 1}
  BY <1>1, <1>6, NextMultiples
<1>8. ry - rx = (y - x) - c * (qy - qx)
  BY <1>1, <1>4, <1>7
<1> QED
  BY <1>1, <1>7, <1>8

\* push counts a cycle where the stream goes on to the next, and only there.
LEMMA CountedIs ==
    ASSUME NEW x \in Int, NEW y \in Int, y - x \in -MaxLag .. MaxLead + MaxLag,
           last_sn = x % Cycle
    PROVE  Counted(y % Cycle) = IF y \div Cycle = (x \div Cycle) + 1
                                THEN cycles + Cycle ELSE cycles
<1> DEFINE d == (y \div Cycle) - (x \div Cycle)
<1>a. PICK c, low, high, lead, lag, rx, ry, e :
          /\ c = Cycle /\ low = LowMark /\ high = HighMark /\ lead = MaxLead /\ lag = MaxLag
          /\ rx = x % Cycle /\ ry = y % Cycle /\ e = y - x
  OBVIOUS
<1>1. /\ c \in Nat \ {0} /\ {low, high, lead, lag} \subseteq Nat /\ e \in Int
      /\ c = Cycle /\ low = LowMark /\ high = HighMark /\ lead = MaxLead /\ lag = MaxLag
      /\ rx = x % Cycle /\ ry = y % Cycle /\ e = y - x
  BY <1>a, Widths
<1>2. rx \in 0 .. c - 1 /\ ry \in 0 .. c - 1
  BY <1>1, CycleOf
<1>3. /\ low < high /\ high < c /\ e \in -lag .. lead + lag
      /\ lead + lag <= low /\ lead + lag < c - high /\ lag <= high - low
  BY <1>1, Widths, WindowAssumption
<1>4. d \in {-1, 0, 1} /\ ry - rx = e - c * d
  BY <1>1, CycleStep
<1>5. d \in Int /\ (y \div Cycle = (x \div Cycle) + 1 <=> d = 1)
  BY CycleOf
<1> HIDE DEF d
<1>6. CASE d = 1
  <2>1. ry - rx = e - c
    BY <1>1, <1>4, <1>6
  <2>2. ry < low /\ rx > high
    BY <1>1, <1>2, <1>3, <2>1
  <2> QED
    BY <1>1, <1>5, <1>6, <2>2 DEF Counted
<1>7. CASE d = 0
  <2>1. ry - rx = e
    BY <1>1, <1>4, <1>7
  <2>2. ~(ry < low /\ rx > high)
    BY <1>1, <1>2, <1>3, <2>1
  <2> QED
    BY <1>1, <1>5, <1>7, <2>2 DEF Counted
<1>8. CASE d = -1
  <2>1. ry - rx = e + c
    BY <1>1, <1>4, <1>8
  <2>2. ~(ry < low /\ rx > high)
    BY <1>1, <1>2, <1>3, <2>1
  <2> QED
    BY <1>1, <1>5, <1>8, <2>2 DEF Counted
<1> QED
  BY <1>4, <1>6, <1>7, <1>8

-----------------------------------------------------------------------------
(* The inductive invariant of push.                                        *)

\* The last packet is in the window behind the newest, and its number is the last.
CycleInv ==
    /\ cycles \in Nat /\ last \in Int /\ newest \in Int /\ straddles \in Nat
    /\ pushes \in Nat
    /\ pushes = 0 => last = First /\ newest = First /\ last_sn = 0
                     /\ cycles = 0 /\ straddles = 0
    /\ pushes # 0 => last_sn = last % Cycle
    /\ newest - MaxLag <= last /\ last <= newest
    /\ CyclesAreOffByTheStraddles

LEMMA CycleInit == Init => CycleInv
<1> SUFFICES ASSUME Init PROVE CycleInv
  OBVIOUS
<1>1. First \in 0 .. Cycle - 1 /\ Cycle \in Nat \ {0} /\ MaxLag \in Nat
  BY TwccAssumption
<1>2. First \div Cycle = 0
  <2>a. /\ First \div Cycle \in Int /\ First % Cycle \in 0 .. Cycle - 1
        /\ First = Cycle * (First \div Cycle) + (First % Cycle)
    BY <1>1, CycleOf
  <2>b. PICK c, q, r : c = Cycle /\ q = First \div Cycle /\ r = First % Cycle
    OBVIOUS
  <2>1. /\ c \in Nat \ {0} /\ c = Cycle /\ q \in Int /\ q = First \div Cycle
        /\ r \in 0 .. c - 1 /\ First = c * q + r
    BY <1>1, <2>a, <2>b
  <2>2. -2 * c < c * q /\ c * q < c
    BY <1>1, <2>1
  <2>3. q \in {-1, 0, 1}
    BY <2>1, <2>2, NextMultiples
  <2>4. c * q > -c
    BY <1>1, <2>1
  <2> QED
    BY <2>1, <2>2, <2>3, <2>4
<1> QED
  BY <1>1, <1>2 DEF Init, CycleInv, CyclesAreOffByTheStraddles

\* The step of the first packet, which has the number of the place it begins at.
LEMMA CycleNext == CycleInv /\ [Next]_vars => CycleInv'
<1> SUFFICES ASSUME CycleInv, [Next]_vars PROVE CycleInv'
  OBVIOUS
<1>1. ASSUME NEW place \in Window, NEW time \in Times, Push(place, time)
      PROVE  CycleInv'
  <2>1. place \in Int /\ place - last \in -MaxLag .. MaxLead + MaxLag
    BY Widths, TwccAssumption DEF Window, CycleInv
  <2>2. /\ last' = place /\ newest' = Larger(newest, place) /\ pushes' = pushes + 1
        /\ last_sn' = place % Cycle /\ cycles' = Counted(place % Cycle)
        /\ straddles' = straddles
                            + (IF place \div Cycle < last \div Cycle THEN 1 ELSE 0)
    BY <1>1 DEF Push
  <2>3. /\ newest' \in Int /\ newest' - MaxLag <= last' /\ last' <= newest'
    BY <2>1, <2>2, Widths DEF CycleInv, Larger, Window
  <2>4. straddles' \in Nat /\ pushes' \in Nat \ {0}
    BY <2>2 DEF CycleInv
  <2>5. cycles' = IF place \div Cycle = (last \div Cycle) + 1 THEN cycles + Cycle ELSE cycles
    <3>1. CASE pushes # 0
      BY <2>1, <2>2, <3>1, CountedIs DEF CycleInv
    <3>2. CASE pushes = 0
      <4>1. place = last /\ last_sn = 0 /\ place \div Cycle \in Int
        BY <2>1, <3>2, CycleOf DEF Window, CycleInv
      <4> QED
        BY <2>2, <4>1, Widths DEF Counted
    <3> QED
      BY <3>1, <3>2
  <2>6. cycles' = ((place \div Cycle) + straddles') * Cycle
    <3>1. PICK c \in Nat \ {0}, q \in Int, p \in Int, s \in Nat :
              /\ c = Cycle /\ q = last \div Cycle /\ p = place \div Cycle
              /\ s = straddles
      BY <2>1, Widths, CycleOf DEF CycleInv
    <3>2. p - q \in {-1, 0, 1}
      BY <2>1, <3>1, CycleStep DEF CycleInv
    <3>3. cycles = (q + s) * c
      BY <3>1 DEF CycleInv, CyclesAreOffByTheStraddles
    <3>4. straddles' = s + (IF p < q THEN 1 ELSE 0)
          /\ cycles' = IF p = q + 1 THEN cycles + c ELSE cycles
      BY <2>2, <2>5, <3>1
    <3>5. CASE p = q + 1
      <4>1. straddles' = s /\ cycles' = (q + s) * c + c
        BY <3>3, <3>4, <3>5
      <4>2. (q + s) * c + c = (p + s) * c
        BY <3>5
      <4> QED
        BY <3>1, <4>1, <4>2
    <3>6. CASE p = q
      BY <3>1, <3>3, <3>4, <3>6
    <3>7. CASE p = q - 1
      BY <3>1, <3>3, <3>4, <3>7
    <3> QED
      BY <3>2, <3>5, <3>6, <3>7
  <2>7. cycles' \in Nat
    BY <2>5, Widths DEF CycleInv
  <2> QED
    BY <2>1, <2>2, <2>3, <2>4, <2>6, <2>7 DEF CycleInv, CyclesAreOffByTheStraddles
<1>2. CASE Build \/ BuildPanics
  <2>1. UNCHANGED <<cycles, last_sn, history>>
    BY <1>2 DEF Build, BuildPanics, Collect
  <2> QED
    BY <2>1 DEF history, CycleInv, CyclesAreOffByTheStraddles
<1>3. CASE UNCHANGED vars
  BY <1>3 DEF vars, history, CycleInv, CyclesAreOffByTheStraddles
<1> QED
  BY <1>1, <1>2, <1>3 DEF Next

\* For any losses and delays within the window, and any number of cycles, what push
\* counts is the cycles of the stream and one more for each packet that came behind one
\* of the next cycle.
THEOREM CyclesCounted == Spec => []CyclesAreOffByTheStraddles
<1>1. CycleInv => CyclesAreOffByTheStraddles
  BY DEF CycleInv
<1> QED
  BY <1>1, CycleInit, CycleNext, PTL DEF Spec

-----------------------------------------------------------------------------
(* What build_transport_cc_packet collects.                                *)

Accs == [last : Nat, pkts : Seq(Infos)]

LEMMA InfosOf ==
    ASSUME NEW s \in Seq(Infos)
    PROVE  /\ DOMAIN s = 1 .. Len(s) /\ Len(s) \in Nat
           /\ s # <<>> => Len(s) \in Nat \ {0} /\ 1 \in DOMAIN s
           /\ \A i \in DOMAIN s : s[i] \in Infos /\ s[i].ext_tsn \in Nat
<1>1. DOMAIN s = 1 .. Len(s) /\ Len(s) \in Nat /\ (s # <<>> => Len(s) # 0)
  BY EmptySeq, LenProperties
<1>2. \A i \in DOMAIN s : s[i] \in Infos
  BY <1>1, ElementOfSeq
<1>3. \A info \in Infos : info.ext_tsn \in Nat
  BY DEF Infos
<1> QED
  BY <1>1, <1>2, <1>3

LEMMA MissingIs ==
    ASSUME NEW from \in Nat, NEW to \in Nat
    PROVE  /\ Missing(from, to) \in Seq(Infos)
           /\ Larger(0, to - from - 1) \in Nat
           /\ Len(Missing(from, to)) = Larger(0, to - from - 1)
           /\ \A i \in 1 .. Larger(0, to - from - 1) :
                 Missing(from, to)[i] = [ext_tsn |-> from + i, timestamp |-> 0]
<1> DEFINE n == Larger(0, to - from - 1)
<1>1. n \in Nat
  BY DEF Larger
<1> HIDE DEF n
<1>2. \A i \in 1 .. n : [ext_tsn |-> from + i, timestamp |-> 0] \in Infos
  BY <1>1 DEF Infos
<1>3. [i \in 1 .. n |-> [ext_tsn |-> from + i, timestamp |-> 0]] \in Seq(Infos)
  BY <1>1, <1>2
<1>4. Len([i \in 1 .. n |-> [ext_tsn |-> from + i, timestamp |-> 0]]) = n
  BY <1>1
<1> QED
  BY <1>1, <1>3, <1>4 DEF Missing, n

LEMMA AddType ==
    ASSUME NEW acc \in Accs, NEW info \in Infos
    PROVE  Add(acc, info) \in Accs
<1>1. acc.last \in Nat /\ acc.pkts \in Seq(Infos) /\ info.ext_tsn \in Nat
  BY DEF Accs, Infos
<1>2. Missing(acc.last, info.ext_tsn) \in Seq(Infos)
  BY <1>1, MissingIs
<1>3. acc.pkts \o Missing(acc.last, info.ext_tsn) \in Seq(Infos) /\ <<info>> \in Seq(Infos)
  BY <1>1, <1>2, ConcatProperties
<1>4. ASSUME NEW s \in Seq(Infos) PROVE s \o <<info>> \in Seq(Infos)
  BY <1>3, ConcatProperties
<1> QED
  BY <1>1, <1>3, <1>4 DEF Add, Accs

LEMMA CollectingIs ==
    ASSUME NEW sorted \in Seq(Infos), last_ext_sn \in Nat
    PROVE  /\ Collecting(sorted) \in [0 .. Len(sorted) -> Accs]
           /\ Collecting(sorted)[0] = [last |-> last_ext_sn, pkts |-> <<>>]
           /\ \A n \in 1 .. Len(sorted) :
                 Collecting(sorted)[n] = Add(Collecting(sorted)[n - 1], sorted[n])
<1> DEFINE base == [last |-> last_ext_sn, pkts |-> <<>>]
           step == [n \in 1 .. Len(sorted) |-> [acc \in Accs |-> Add(acc, sorted[n])]]
           N    == 0 .. Len(sorted)
<1>1. base \in Accs /\ Len(sorted) \in Nat
  BY EmptySeq DEF Accs
<1>2. \A n \in 1 .. Len(sorted) : sorted[n] \in Infos
  BY ElementOfSeq
<1>3. step \in [1 .. Len(sorted) -> [Accs -> Accs]]
  BY <1>2, AddType
<1>4. PICK f \in [N -> Accs] : Follows(f, Len(sorted), base, step)
  <2> HIDE DEF base, step
  <2> QED
    BY <1>1, <1>3, RecursionExists
<1>5. f = [n \in N |-> IF n = 0 THEN base ELSE Add(f[n - 1], sorted[n])]
  <2>1. ASSUME NEW n \in N, n # 0 PROVE f[n] = Add(f[n - 1], sorted[n])
    <3>1. n \in 1 .. Len(sorted) /\ n - 1 \in N
      BY <1>1, <2>1
    <3>2. f[n] = step[n][f[n - 1]] /\ f[n - 1] \in Accs
      BY <1>4, <3>1 DEF Follows
    <3> QED
      BY <3>1, <3>2
  <2>2. f[0] = base
    BY <1>4 DEF Follows
  <2> HIDE DEF base, step
  <2> QED
    BY <2>1, <2>2
<1> DEFINE c == Collecting(sorted)
<1>6. c = [n \in N |-> IF n = 0 THEN base ELSE Add(c[n - 1], sorted[n])]
  BY <1>5 DEF Collecting
<1> HIDE DEF base, step, c
<1>7. /\ c[0] = base
      /\ \A n \in 1 .. Len(sorted) : c[n] = Add(c[n - 1], sorted[n])
  <2>1. \A n \in 1 .. Len(sorted) : n \in N /\ n # 0
    BY <1>1
  <2> QED
    BY <1>1, <1>6, <2>1
<1>8. c \in [N -> Accs]
  <2> DEFINE S == {n \in Nat : n \in N => c[n] \in Accs}
  <2>1. 0 \in S
    BY <1>1, <1>7
  <2>2. ASSUME NEW n \in Nat, n \in S PROVE n + 1 \in S
    <3> SUFFICES ASSUME n + 1 \in N PROVE c[n + 1] \in Accs
      OBVIOUS
    <3>1. n + 1 \in 1 .. Len(sorted) /\ n \in N /\ (n + 1) - 1 = n
      BY <1>1
    <3>2. c[n] \in Accs /\ sorted[n + 1] \in Infos
      BY <1>2, <2>2, <3>1
    <3> QED
      BY <1>7, <3>1, <3>2, AddType
  <2>3. Nat \subseteq S
    <3> HIDE DEF S
    <3> QED
      BY <2>1, <2>2, NatSetInduction
  <2> QED
    BY <1>1, <1>6, <2>3
<1> QED
  BY <1>7, <1>8 DEF base, c

\* How many numbers did not come between the last report and the newest.
MissingBefore(to) == IF last_ext_sn = 0 THEN 0 ELSE Larger(0, to - last_ext_sn - 1)

\* Of the first n packets, newest first, the report has the newest and what has its
\* number, behind the numbers that did not come.
Gathered(s, n, acc) ==
    LET m == MissingBefore(s[1].ext_tsn) IN
    /\ n >= 1 /\ acc.last = s[1].ext_tsn /\ acc.last >= last_ext_sn
    /\ \E k \in 1 .. n :
          /\ Len(acc.pkts) = m + k
          /\ \A i \in 1 .. m :
                acc.pkts[i] = [ext_tsn |-> last_ext_sn + i, timestamp |-> 0]
          /\ \A i \in 1 .. k : acc.pkts[m + i] = s[i] /\ s[i].ext_tsn = acc.last
          /\ \A i \in k + 1 .. n : s[i].ext_tsn < acc.last

\* ... or nothing, when they were all behind the last report.
GatheredNone(s, n, acc) ==
    /\ acc = [last |-> last_ext_sn, pkts |-> <<>>]
    /\ \A i \in 1 .. n : s[i].ext_tsn < last_ext_sn

NewestFirst(s) == \A i, j \in DOMAIN s : i < j => s[i].ext_tsn >= s[j].ext_tsn

LEMMA GatherFirst ==
    ASSUME last_ext_sn \in Nat, NEW s \in Seq(Infos), NEW acc,
           s # <<>>, s[1].ext_tsn >= last_ext_sn,
           acc = [last |-> last_ext_sn, pkts |-> <<>>]
    PROVE  Gathered(s, 1, Add(acc, s[1]))
<1> DEFINE to == s[1].ext_tsn
           m  == MissingBefore(to)
           gap == IF last_ext_sn = 0 THEN <<>> ELSE <<>> \o Missing(last_ext_sn, to)
<1>1. s[1] \in Infos /\ to \in Nat
  BY InfosOf
<1>2. /\ gap \in Seq(Infos) /\ m \in Nat /\ Len(gap) = m
      /\ \A i \in 1 .. m : gap[i] = [ext_tsn |-> last_ext_sn + i, timestamp |-> 0]
  <2>1. CASE last_ext_sn = 0
    BY <2>1, EmptySeq DEF MissingBefore
  <2>2. CASE last_ext_sn # 0
    <3>1. <<>> \o Missing(last_ext_sn, to) = Missing(last_ext_sn, to)
      BY <1>1, MissingIs, ConcatEmptySeq
    <3>2. gap = Missing(last_ext_sn, to) /\ m = Larger(0, to - last_ext_sn - 1)
      BY <2>2, <3>1 DEF MissingBefore
    <3> HIDE DEF gap, m, to
    <3> QED
      BY <1>1, <3>2, MissingIs
  <2> QED
    BY <2>1, <2>2
<1>3. Add(acc, s[1]) = [last |-> to, pkts |-> gap \o <<s[1]>>]
  BY <1>1 DEF Add
<1> HIDE DEF gap
<1>4. gap \o <<s[1]>> = Append(gap, s[1])
  BY <1>1, <1>2, AppendIsConcat
<1>5. /\ Len(gap \o <<s[1]>>) = m + 1
      /\ \A i \in 1 .. m : (gap \o <<s[1]>>)[i] = gap[i]
      /\ (gap \o <<s[1]>>)[m + 1] = s[1]
  BY <1>1, <1>2, <1>4, AppendFacts
<1> HIDE DEF m
<1>6. /\ 1 \in 1 .. 1 /\ \A i \in 1 .. 1 : i = 1
      /\ \A i \in 1 + 1 .. 1 : FALSE
  OBVIOUS
<1>7. s[1].ext_tsn >= last_ext_sn /\ to = s[1].ext_tsn
  OBVIOUS
<1> DEFINE list == gap \o <<s[1]>>
<1> HIDE DEF to, list
<1>8. /\ Len(list) = m + 1
      /\ \A i \in 1 .. m : list[i] = [ext_tsn |-> last_ext_sn + i, timestamp |-> 0]
      /\ \A i \in 1 .. 1 : list[m + i] = s[i] /\ s[i].ext_tsn = to
  BY <1>2, <1>5, <1>6, <1>7 DEF list
<1>9. Add(acc, s[1]) = [last |-> to, pkts |-> list]
  BY <1>3 DEF list
<1> QED
  BY <1>6, <1>7, <1>8, <1>9 DEF Gathered, m

LEMMA GatherNext ==
    ASSUME last_ext_sn \in Nat, NEW s \in Seq(Infos), NewestFirst(s),
           NEW n \in Nat \ {0}, n + 1 <= Len(s), NEW acc \in Accs, Gathered(s, n, acc)
    PROVE  Gathered(s, n + 1, Add(acc, s[n + 1]))
<1> DEFINE info == s[n + 1]
           m == MissingBefore(s[1].ext_tsn)
<1>1. /\ DOMAIN s = 1 .. Len(s) /\ Len(s) \in Nat /\ n + 1 \in DOMAIN s /\ 1 \in DOMAIN s
      /\ \A i \in DOMAIN s : s[i] \in Infos /\ s[i].ext_tsn \in Nat
  <2>1. s # <<>>
    BY EmptySeq
  <2> QED
    BY <2>1, InfosOf
<1>2. acc.last = s[1].ext_tsn /\ acc.last \in Nat /\ acc.pkts \in Seq(Infos) /\ m \in Nat
  BY <1>1 DEF Gathered, Accs, MissingBefore, Larger
<1>3. PICK k \in 1 .. n :
          /\ Len(acc.pkts) = m + k
          /\ \A i \in 1 .. m :
                acc.pkts[i] = [ext_tsn |-> last_ext_sn + i, timestamp |-> 0]
          /\ \A i \in 1 .. k : acc.pkts[m + i] = s[i] /\ s[i].ext_tsn = acc.last
          /\ \A i \in k + 1 .. n : s[i].ext_tsn < acc.last
  BY DEF Gathered
<1>4. info.ext_tsn <= acc.last /\ info \in Infos /\ info.ext_tsn \in Nat
  BY <1>1, <1>2 DEF NewestFirst
<1>5. CASE info.ext_tsn < acc.last
  <2>1. Add(acc, info) = acc
    BY <1>5 DEF Add
  <2>2. k \in 1 .. n + 1 /\ \A i \in k + 1 .. n + 1 : s[i].ext_tsn < acc.last
    BY <1>3, <1>5
  <2>3. Add(acc, s[n + 1]) = acc /\ acc.last >= last_ext_sn /\ n + 1 >= 1
    BY <2>1 DEF Gathered
  <2>4. m = MissingBefore(s[1].ext_tsn) /\ acc.last = s[1].ext_tsn
    BY <1>2
  <2> HIDE DEF m, info
  <2>5. Gathered(s, n + 1, acc)
    BY <1>3, <2>2, <2>3, <2>4 DEF Gathered
  <2> QED
    BY <2>3, <2>5
<1>6. CASE info.ext_tsn = acc.last
  <2>1. k = n
    <3> SUFFICES ASSUME k + 1 <= n PROVE FALSE
      OBVIOUS
    <3>1. s[k + 1].ext_tsn < acc.last /\ k + 1 \in DOMAIN s /\ k + 1 < n + 1
      BY <1>1, <1>3
    <3>2. s[k + 1].ext_tsn >= info.ext_tsn
      BY <1>1, <3>1 DEF NewestFirst
    <3>3. PICK x, y : x = s[k + 1].ext_tsn /\ y = acc.last
      OBVIOUS
    <3>4. x < y /\ x >= y /\ y \in Nat
      BY <1>1, <1>2, <1>6, <3>1, <3>2, <3>3
    <3>5. x \in Nat
      BY <1>1, <3>1, <3>3, InfosOf
    <3> QED
      BY <3>4, <3>5
  <2>2. Add(acc, info) = [last |-> acc.last, pkts |-> Append(acc.pkts, info)]
    <3>1. Missing(acc.last, acc.last) = <<>>
      <4>1. Larger(0, acc.last - acc.last - 1) = 0
        BY <1>2 DEF Larger
      <4>2. Missing(acc.last, acc.last) \in Seq(Infos) /\ Len(Missing(acc.last, acc.last)) = 0
        BY <1>2, <4>1, MissingIs
      <4> QED
        BY <4>2, EmptySeq
    <3>2. acc.pkts \o <<>> = acc.pkts /\ acc.pkts \o <<info>> = Append(acc.pkts, info)
      BY <1>2, <1>4, ConcatEmptySeq, AppendIsConcat
    <3>3. ~(info.ext_tsn < acc.last)
      BY <1>2, <1>6
    <3> HIDE DEF info, m
    <3> QED
      BY <1>6, <3>1, <3>2, <3>3 DEF Add
  <2>3. /\ Len(Append(acc.pkts, info)) = m + k + 1
        /\ \A i \in 1 .. m + k : Append(acc.pkts, info)[i] = acc.pkts[i]
        /\ Append(acc.pkts, info)[m + k + 1] = info
    BY <1>2, <1>3, <1>4, AppendFacts
  <2> DEFINE next == Append(acc.pkts, info)
  <2> HIDE DEF next, m
  <2>4. /\ n + 1 \in 1 .. n + 1 /\ Len(next) = m + (n + 1)
        /\ \A i \in 1 .. m : next[i] = [ext_tsn |-> last_ext_sn + i, timestamp |-> 0]
        /\ \A i \in (n + 1) + 1 .. n + 1 : s[i].ext_tsn < acc.last
    <3>1. \A i \in 1 .. m : i \in 1 .. m + k
      BY <1>2
    <3> QED
      BY <1>2, <1>3, <2>1, <2>3, <3>1 DEF next
  <2>5. ASSUME NEW i \in 1 .. n + 1 PROVE next[m + i] = s[i] /\ s[i].ext_tsn = acc.last
    <3>1. CASE i = n + 1
      BY <1>2, <1>6, <2>1, <2>3, <3>1 DEF next
    <3>2. CASE i # n + 1
      <4>1. i \in 1 .. k /\ m + i \in 1 .. m + k
        BY <1>2, <2>1, <3>2
      <4> QED
        BY <1>3, <2>3, <4>1 DEF next
    <3> QED
      BY <3>1, <3>2
  <2>6. Add(acc, s[n + 1]) = [last |-> acc.last, pkts |-> next]
    BY <2>2 DEF next
  <2>7. acc.last >= last_ext_sn /\ n + 1 >= 1
    BY DEF Gathered
  <2> DEFINE after == Add(acc, s[n + 1])
  <2>8. after.last = acc.last /\ after.pkts = next
    BY <2>6
  <2> HIDE DEF after
  <2>9. Gathered(s, n + 1, after)
    BY <1>2, <2>4, <2>5, <2>7, <2>8 DEF Gathered, m
  <2> QED
    BY <2>9 DEF after
<1> QED
  BY <1>2, <1>4, <1>5, <1>6

LEMMA CollectedIs ==
    ASSUME last_ext_sn \in Nat, NEW s \in Seq(Infos), NewestFirst(s), s # <<>>
    PROVE  /\ Collected(s) \in Accs
           /\ \/ GatheredNone(s, Len(s), Collected(s))
              \/ Gathered(s, Len(s), Collected(s))
<1> DEFINE c == Collecting(s)
           S == {n \in Nat : n <= Len(s) => GatheredNone(s, n, c[n]) \/ Gathered(s, n, c[n])}
<1>1. /\ DOMAIN s = 1 .. Len(s) /\ Len(s) \in Nat \ {0}
      /\ \A i \in DOMAIN s : s[i] \in Infos /\ s[i].ext_tsn \in Nat
  BY InfosOf
<1>2. /\ c \in [0 .. Len(s) -> Accs]
      /\ c[0] = [last |-> last_ext_sn, pkts |-> <<>>]
      /\ \A n \in 1 .. Len(s) : c[n] = Add(c[n - 1], s[n])
  BY CollectingIs
<1> HIDE DEF c
<1>3. 0 \in S
  BY <1>2 DEF GatheredNone
<1>4. ASSUME NEW n \in Nat, n \in S PROVE n + 1 \in S
  <2> SUFFICES ASSUME n + 1 <= Len(s)
               PROVE  GatheredNone(s, n + 1, c[n + 1]) \/ Gathered(s, n + 1, c[n + 1])
    OBVIOUS
  <2>1. /\ n + 1 \in 1 .. Len(s) /\ (n + 1) - 1 = n /\ n \in 0 .. Len(s)
        /\ c[n + 1] = Add(c[n], s[n + 1]) /\ c[n] \in Accs
    BY <1>1, <1>2
  <2>2. CASE Gathered(s, n, c[n])
    <3>1. n \in Nat \ {0}
      BY <2>2 DEF Gathered
    <3> QED
      BY <2>1, <2>2, <3>1, GatherNext
  <2>3. CASE GatheredNone(s, n, c[n]) /\ s[n + 1].ext_tsn < last_ext_sn
    <3>1. Add(c[n], s[n + 1]) = c[n]
      BY <2>3 DEF GatheredNone, Add
    <3>2. \A i \in 1 .. n + 1 : s[i].ext_tsn < last_ext_sn
      BY <2>3 DEF GatheredNone
    <3> QED
      BY <2>1, <2>3, <3>1, <3>2 DEF GatheredNone
  <2>4. CASE GatheredNone(s, n, c[n]) /\ ~(s[n + 1].ext_tsn < last_ext_sn)
    <3>1. n = 0
      <4> SUFFICES ASSUME n >= 1 PROVE FALSE
        OBVIOUS
      <4>1. s[1].ext_tsn < last_ext_sn /\ 1 \in DOMAIN s /\ n + 1 \in DOMAIN s /\ 1 < n + 1
        BY <1>1, <2>1, <2>4 DEF GatheredNone
      <4>2. s[1].ext_tsn >= s[n + 1].ext_tsn
        BY <4>1 DEF NewestFirst
      <4> QED
        BY <1>1, <2>4, <4>1, <4>2
    <3>2. s[1].ext_tsn >= last_ext_sn
      BY <1>1, <2>4, <3>1
    <3> QED
      BY <2>1, <2>4, <3>1, <3>2, GatherFirst DEF GatheredNone
  <2> QED
    BY <1>4, <2>1, <2>2, <2>3, <2>4
<1>5. Len(s) \in S
  <2> HIDE DEF S
  <2> QED
    BY <1>1, <1>3, <1>4, NatSetInduction
<1> QED
  BY <1>1, <1>2, <1>5 DEF Collected, c

-----------------------------------------------------------------------------
(* What sort_by gives it, and the statuses of what it collects.            *)

Distinct(s) == \A i, j \in DOMAIN s : i # j => s[i].ext_tsn # s[j].ext_tsn

LEMMA SortingIs ==
    ASSUME ext_info \in Seq(Infos), NEW s \in Sortings
    PROVE  /\ s \in Seq(Infos) /\ Len(s) = Len(ext_info) /\ NewestFirst(s)
           /\ \A i \in DOMAIN s : \E j \in DOMAIN ext_info : s[i] = ext_info[j]
           /\ \A j \in DOMAIN ext_info : \E i \in DOMAIN s : s[i] = ext_info[j]
           /\ Distinct(ext_info) => Distinct(s)
<1> DEFINE D == DOMAIN ext_info
<1>1. PICK o \in Bijection(D, D) :
          /\ s = [i \in D |-> ext_info[o[i]]]
          /\ \A i, j \in D : i < j => Before(o[i], o[j])
  BY DEF Sortings
<1>2. /\ D = 1 .. Len(ext_info) /\ Len(ext_info) \in Nat
      /\ \A i \in D : ext_info[i] \in Infos /\ ext_info[i].ext_tsn \in Nat
  BY InfosOf
<1>3. /\ o \in [D -> D]
      /\ \A i, j \in D : o[i] = o[j] => i = j
      /\ \A j \in D : \E i \in D : o[i] = j
  BY <1>1 DEF Bijection, Injection, Surjection, IsInjective
<1> HIDE DEF D
<1>4. s \in Seq(Infos) /\ Len(s) = Len(ext_info) /\ DOMAIN s = D
  <2>1. \A i \in D : ext_info[o[i]] \in Infos
    BY <1>2, <1>3
  <2> QED
    BY <1>1, <1>2, <2>1
<1>5. \A i \in D : s[i] = ext_info[o[i]] /\ o[i] \in D
  BY <1>1, <1>3
<1>6. NewestFirst(s)
  <2> SUFFICES ASSUME NEW i \in D, NEW j \in D, i < j PROVE s[i].ext_tsn >= s[j].ext_tsn
    BY <1>4 DEF NewestFirst
  <2>1. Before(o[i], o[j])
    BY <1>1
  <2>2. o[i] \in D /\ o[j] \in D
    BY <1>5
  <2>3. ext_info[o[i]].ext_tsn \in Nat /\ ext_info[o[j]].ext_tsn \in Nat
    BY <1>2, <2>2
  <2>4. ext_info[o[i]].ext_tsn >= ext_info[o[j]].ext_tsn
    BY <2>1, <2>3 DEF Before
  <2> QED
    BY <1>5, <2>4
<1>7. Distinct(ext_info) => Distinct(s)
  <2> SUFFICES ASSUME Distinct(ext_info), NEW i \in D, NEW j \in D, i # j
               PROVE  s[i].ext_tsn # s[j].ext_tsn
    BY <1>4 DEF Distinct
  <2>1. o[i] \in D /\ o[j] \in D /\ o[i] # o[j]
    BY <1>3
  <2>2. ext_info[o[i]].ext_tsn # ext_info[o[j]].ext_tsn
    BY <2>1 DEF Distinct, D
  <2> QED
    BY <1>5, <2>2
<1> QED
  BY <1>3, <1>4, <1>5, <1>6, <1>7 DEF D

\* The newest of what was noted comes first.
LEMMA NewestIsFirst ==
    ASSUME ext_info \in Seq(Infos), ext_info # <<>>, NEW s \in Sortings
    PROVE  /\ s # <<>> /\ 1 \in DOMAIN s
           /\ \A j \in DOMAIN ext_info : ext_info[j].ext_tsn <= s[1].ext_tsn
<1>1. /\ s \in Seq(Infos) /\ Len(s) = Len(ext_info) /\ NewestFirst(s)
      /\ \A j \in DOMAIN ext_info : \E i \in DOMAIN s : s[i] = ext_info[j]
  BY SortingIs
<1>2. s # <<>>
  BY <1>1, EmptySeq
<1>3. /\ DOMAIN s = 1 .. Len(s) /\ Len(s) \in Nat \ {0} /\ 1 \in DOMAIN s
      /\ \A i \in DOMAIN s : s[i].ext_tsn \in Nat
  BY <1>1, <1>2, InfosOf
<1>4. \A i \in DOMAIN s : s[i].ext_tsn <= s[1].ext_tsn
  <2> SUFFICES ASSUME NEW i \in DOMAIN s PROVE s[i].ext_tsn <= s[1].ext_tsn
    OBVIOUS
  <2>1. CASE i = 1
    BY <1>3, <2>1
  <2>2. CASE i # 1
    <3>1. 1 < i
      BY <1>3, <2>2
    <3> QED
      BY <1>1, <1>3, <3>1 DEF NewestFirst
  <2> QED
    BY <2>1, <2>2
<1> QED
  BY <1>1, <1>2, <1>3, <1>4

Symbols == {NotReceived, SmallDelta, LargeDelta}

StatusAccs == [received : BOOLEAN, time : Nat, statuses : Seq(Symbols)]

LEMMA AddStatusIs ==
    ASSUME NEW acc \in StatusAccs, NEW pkt \in Infos
    PROVE  /\ AddStatus(acc, pkt) \in StatusAccs
           /\ Len(AddStatus(acc, pkt).statuses) = Len(acc.statuses) + 1
           /\ \A i \in 1 .. Len(acc.statuses) :
                 AddStatus(acc, pkt).statuses[i] = acc.statuses[i]
           /\ AddStatus(acc, pkt).statuses[Len(acc.statuses) + 1] = NotReceived
                <=> pkt.timestamp = 0
<1>1. pkt.timestamp \in Nat
  <2>1. PICK t \in Times \cup {0} : t = pkt.timestamp
    BY DEF Infos
  <2>2. Times \subseteq Nat
    BY TwccAssumption
  <2>3. t \in Nat
    <3>1. CASE t \in Times
      BY <2>2, <3>1
    <3>2. CASE t = 0
      BY <3>2
    <3> QED
      BY <3>1, <3>2
  <2> QED
    BY <2>1, <2>3
<1>2. acc.statuses \in Seq(Symbols)
  BY DEF StatusAccs
<1>3. PICK status \in Symbols :
          /\ status = NotReceived <=> pkt.timestamp = 0
          /\ AddStatus(acc, pkt) \in StatusAccs
          /\ AddStatus(acc, pkt).statuses = Append(acc.statuses, status)
  <2>1. CASE pkt.timestamp = 0
    <3>1. Append(acc.statuses, NotReceived) \in Seq(Symbols)
      BY <1>2, AppendProperties DEF Symbols
    <3>2. AddStatus(acc, pkt) = [acc EXCEPT !.statuses = Append(acc.statuses, NotReceived)]
      BY <2>1 DEF AddStatus
    <3> QED
      BY <2>1, <3>1, <3>2 DEF StatusAccs, Symbols
  <2>2. ASSUME NEW status \in {SmallDelta, LargeDelta},
               AddStatus(acc, pkt) = [received |-> TRUE, time |-> pkt.timestamp,
                                      statuses |-> Append(acc.statuses, status)],
               pkt.timestamp # 0
        PROVE  /\ status \in Symbols /\ status # NotReceived
               /\ AddStatus(acc, pkt) \in StatusAccs
               /\ AddStatus(acc, pkt).statuses = Append(acc.statuses, status)
    <3>1. status \in Symbols /\ status # NotReceived
      BY DEF Symbols, NotReceived, SmallDelta, LargeDelta
    <3>2. Append(acc.statuses, status) \in Seq(Symbols)
      BY <1>2, <3>1, AppendProperties
    <3> QED
      BY <1>1, <2>2, <3>1, <3>2 DEF StatusAccs
  <2>3. CASE pkt.timestamp # 0
    <3>1. \E status \in {SmallDelta, LargeDelta} :
              AddStatus(acc, pkt) = [received |-> TRUE, time |-> pkt.timestamp,
                                     statuses |-> Append(acc.statuses, status)]
      BY <2>3 DEF AddStatus
    <3> QED
      BY <2>2, <2>3, <3>1
  <2> QED
    BY <2>1, <2>3
<1> QED
  BY <1>2, <1>3, AppendFacts

LEMMA StatusesToIs ==
    ASSUME NEW pkts \in Seq(Infos)
    PROVE  /\ StatusesTo(pkts) \in [0 .. Len(pkts) -> StatusAccs]
           /\ StatusesTo(pkts)[0] = [received |-> FALSE, time |-> 0, statuses |-> <<>>]
           /\ \A n \in 1 .. Len(pkts) :
                 StatusesTo(pkts)[n] = AddStatus(StatusesTo(pkts)[n - 1], pkts[n])
<1> DEFINE base == [received |-> FALSE, time |-> 0, statuses |-> <<>>]
           step == [n \in 1 .. Len(pkts) |-> [acc \in StatusAccs |-> AddStatus(acc, pkts[n])]]
           N    == 0 .. Len(pkts)
<1>1. base \in StatusAccs /\ Len(pkts) \in Nat
  BY EmptySeq DEF StatusAccs
<1>2. \A n \in 1 .. Len(pkts) : pkts[n] \in Infos
  BY ElementOfSeq
<1>3. step \in [1 .. Len(pkts) -> [StatusAccs -> StatusAccs]]
  BY <1>2, AddStatusIs
<1>4. PICK f \in [N -> StatusAccs] : Follows(f, Len(pkts), base, step)
  <2> HIDE DEF base, step
  <2> QED
    BY <1>1, <1>3, RecursionExists
<1>5. f = [n \in N |-> IF n = 0 THEN base ELSE AddStatus(f[n - 1], pkts[n])]
  <2>1. ASSUME NEW n \in N, n # 0 PROVE f[n] = AddStatus(f[n - 1], pkts[n])
    <3>1. n \in 1 .. Len(pkts) /\ n - 1 \in N
      BY <1>1, <2>1
    <3>2. f[n] = step[n][f[n - 1]] /\ f[n - 1] \in StatusAccs
      BY <1>4, <3>1 DEF Follows
    <3> QED
      BY <3>1, <3>2
  <2>2. f[0] = base
    BY <1>4 DEF Follows
  <2> HIDE DEF base, step
  <2> QED
    BY <2>1, <2>2
<1> DEFINE c == StatusesTo(pkts)
<1>6. c = [n \in N |-> IF n = 0 THEN base ELSE AddStatus(c[n - 1], pkts[n])]
  BY <1>5 DEF StatusesTo
<1> HIDE DEF base, step, c
<1>7. /\ c[0] = base
      /\ \A n \in 1 .. Len(pkts) : c[n] = AddStatus(c[n - 1], pkts[n])
  <2>1. \A n \in 1 .. Len(pkts) : n \in N /\ n # 0
    BY <1>1
  <2> QED
    BY <1>1, <1>6, <2>1
<1>8. c \in [N -> StatusAccs]
  <2> DEFINE S == {n \in Nat : n \in N => c[n] \in StatusAccs}
  <2>1. 0 \in S
    BY <1>1, <1>7
  <2>2. ASSUME NEW n \in Nat, n \in S PROVE n + 1 \in S
    <3> SUFFICES ASSUME n + 1 \in N PROVE c[n + 1] \in StatusAccs
      OBVIOUS
    <3>1. n + 1 \in 1 .. Len(pkts) /\ n \in N /\ (n + 1) - 1 = n
      BY <1>1
    <3>2. c[n] \in StatusAccs /\ pkts[n + 1] \in Infos
      BY <1>2, <2>2, <3>1
    <3>3. AddStatus(c[n], pkts[n + 1]) \in StatusAccs
      BY <3>2, AddStatusIs
    <3>4. c[n + 1] = AddStatus(c[n], pkts[n + 1])
      BY <1>7, <3>1
    <3> QED
      BY <3>3, <3>4
  <2>3. Nat \subseteq S
    <3> HIDE DEF S
    <3> QED
      BY <2>1, <2>2, NatSetInduction
  <2>4. \A n \in N : n \in S
    BY <1>1, <2>3
  <2>5. \A n \in N : c[n] \in StatusAccs
    BY <2>4
  <2> HIDE DEF N, S
  <2> QED
    BY <1>6, <2>5
<1> QED
  BY <1>7, <1>8 DEF base, c

\* Each packet has a status, and only one that did not come that of a lost one.
LEMMA StatusesAre ==
    ASSUME NEW pkts \in Seq(Infos)
    PROVE  /\ Statuses(pkts) \in Seq(Symbols) /\ Len(Statuses(pkts)) = Len(pkts)
           /\ \A i \in 1 .. Len(pkts) :
                 Statuses(pkts)[i] = NotReceived <=> pkts[i].timestamp = 0
<1> DEFINE c == StatusesTo(pkts)
           Say(n) == /\ Len(c[n].statuses) = n
                     /\ \A i \in 1 .. n :
                           c[n].statuses[i] = NotReceived <=> pkts[i].timestamp = 0
           S == {n \in Nat : n <= Len(pkts) => Say(n)}
<1>1. /\ c \in [0 .. Len(pkts) -> StatusAccs]
      /\ c[0].statuses = <<>>
      /\ \A n \in 1 .. Len(pkts) : c[n] = AddStatus(c[n - 1], pkts[n])
  BY StatusesToIs
<1>2. Len(pkts) \in Nat /\ \A i \in 1 .. Len(pkts) : pkts[i] \in Infos
  BY ElementOfSeq
<1> HIDE DEF c
<1>3. 0 \in S
  BY <1>1, EmptySeq
<1>4. ASSUME NEW n \in Nat, n \in S PROVE n + 1 \in S
  <2> SUFFICES ASSUME n + 1 <= Len(pkts) PROVE Say(n + 1)
    OBVIOUS
  <2>1. /\ n + 1 \in 1 .. Len(pkts) /\ (n + 1) - 1 = n /\ n \in 0 .. Len(pkts)
        /\ c[n + 1] = AddStatus(c[n], pkts[n + 1]) /\ c[n] \in StatusAccs
        /\ pkts[n + 1] \in Infos
    BY <1>1, <1>2
  <2>2. Say(n)
    BY <1>4, <2>1
  <2> DEFINE next == c[n + 1].statuses
  <2>3. /\ Len(next) = n + 1
        /\ \A i \in 1 .. n : next[i] = c[n].statuses[i]
        /\ next[n + 1] = NotReceived <=> pkts[n + 1].timestamp = 0
    <3>1. c[n].statuses \in Seq(Symbols) /\ Len(c[n].statuses) = n
      BY <2>1, <2>2 DEF StatusAccs
    <3>2. /\ Len(AddStatus(c[n], pkts[n + 1]).statuses) = Len(c[n].statuses) + 1
          /\ \A i \in 1 .. Len(c[n].statuses) :
                AddStatus(c[n], pkts[n + 1]).statuses[i] = c[n].statuses[i]
          /\ AddStatus(c[n], pkts[n + 1]).statuses[Len(c[n].statuses) + 1] = NotReceived
               <=> pkts[n + 1].timestamp = 0
      BY <2>1, AddStatusIs
    <3> HIDE DEF Say
    <3> QED
      BY <2>1, <3>1, <3>2
  <2> HIDE DEF next
  <2>4. \A i \in 1 .. n + 1 : i = n + 1 \/ i \in 1 .. n
    OBVIOUS
  <2>5. \A i \in 1 .. n + 1 : next[i] = NotReceived <=> pkts[i].timestamp = 0
    BY <2>2, <2>3, <2>4
  <2> QED
    BY <2>3, <2>5 DEF next
<1>5. Len(pkts) \in S
  <2> HIDE DEF S
  <2> QED
    BY <1>2, <1>3, <1>4, NatSetInduction
<1>6. Statuses(pkts) = c[Len(pkts)].statuses /\ c[Len(pkts)] \in StatusAccs
  BY <1>1, <1>2 DEF Statuses, c
<1> QED
  BY <1>2, <1>5, <1>6 DEF StatusAccs

-----------------------------------------------------------------------------
(* What the chunks of a report say.                                        *)

LEMMA ReadIs ==
    ASSUME NEW chunk \in ChunkSet
    PROVE  Read(chunk) \in Seq(Nat)
<1>1. CASE chunk \in [kind : {"run"}, symbol : Nat, length : Nat]
  <2>1. chunk.kind = "run" /\ chunk.symbol \in Nat /\ chunk.length \in Nat
    BY <1>1
  <2> QED
    BY <2>1 DEF Read
<1>2. CASE chunk \in [kind : {"symbols"}, symbols : Seq(Nat)]
  <2>1. chunk.kind = "symbols" /\ chunk.symbols \in Seq(Nat) /\ "symbols" # "run"
    BY <1>2
  <2> QED
    BY <2>1 DEF Read
<1> QED
  BY <1>1, <1>2 DEF ChunkSet

LEMMA ReadToIs ==
    ASSUME NEW chunks \in Seq(ChunkSet)
    PROVE  /\ ReadTo(chunks) \in [0 .. Len(chunks) -> Seq(Nat)]
           /\ ReadTo(chunks)[0] = <<>>
           /\ \A n \in 1 .. Len(chunks) :
                 ReadTo(chunks)[n] = ReadTo(chunks)[n - 1] \o Read(chunks[n])
<1> DEFINE step == [n \in 1 .. Len(chunks) |-> [s \in Seq(Nat) |-> s \o Read(chunks[n])]]
           N    == 0 .. Len(chunks)
<1>1. <<>> \in Seq(Nat) /\ Len(chunks) \in Nat
  BY EmptySeq
<1>2. \A n \in 1 .. Len(chunks) : Read(chunks[n]) \in Seq(Nat)
  BY ElementOfSeq, ReadIs
<1>3. step \in [1 .. Len(chunks) -> [Seq(Nat) -> Seq(Nat)]]
  BY <1>2, ConcatProperties
<1>4. PICK f \in [N -> Seq(Nat)] : Follows(f, Len(chunks), <<>>, step)
  <2> HIDE DEF step
  <2> QED
    BY <1>1, <1>3, RecursionExists
<1>5. f = [n \in N |-> IF n = 0 THEN <<>> ELSE f[n - 1] \o Read(chunks[n])]
  <2>1. ASSUME NEW n \in N, n # 0 PROVE f[n] = f[n - 1] \o Read(chunks[n])
    <3>1. n \in 1 .. Len(chunks) /\ n - 1 \in N
      BY <1>1, <2>1
    <3>2. f[n] = step[n][f[n - 1]] /\ f[n - 1] \in Seq(Nat)
      BY <1>4, <3>1 DEF Follows
    <3> QED
      BY <3>1, <3>2
  <2>2. f[0] = <<>>
    BY <1>4 DEF Follows
  <2> HIDE DEF step
  <2> QED
    BY <2>1, <2>2
<1> DEFINE c == ReadTo(chunks)
<1>6. c = [n \in N |-> IF n = 0 THEN <<>> ELSE c[n - 1] \o Read(chunks[n])]
  BY <1>5 DEF ReadTo
<1> HIDE DEF step, c
<1>7. /\ c[0] = <<>>
      /\ \A n \in 1 .. Len(chunks) : c[n] = c[n - 1] \o Read(chunks[n])
  <2>1. 0 \in N /\ \A n \in 1 .. Len(chunks) : n \in N /\ n # 0
    BY <1>1
  <2> DEFINE after(n) == c[n - 1] \o Read(chunks[n])
  <2>2. c = [n \in N |-> IF n = 0 THEN <<>> ELSE after(n)]
    BY <1>6
  <2> HIDE DEF after, N
  <2>3. c[0] = <<>> /\ \A n \in 1 .. Len(chunks) : c[n] = after(n)
    BY <2>1, <2>2
  <2> QED
    BY <2>3 DEF after
<1>8. c \in [N -> Seq(Nat)]
  <2> DEFINE S == {n \in Nat : n \in N => c[n] \in Seq(Nat)}
  <2>1. 0 \in S
    BY <1>1, <1>7
  <2>2. ASSUME NEW n \in Nat, n \in S PROVE n + 1 \in S
    <3> SUFFICES ASSUME n + 1 \in N PROVE c[n + 1] \in Seq(Nat)
      OBVIOUS
    <3>1. n + 1 \in 1 .. Len(chunks) /\ n \in N /\ (n + 1) - 1 = n
      BY <1>1
    <3>2. c[n] \in Seq(Nat) /\ Read(chunks[n + 1]) \in Seq(Nat)
      BY <1>2, <2>2, <3>1
    <3>3. c[n] \o Read(chunks[n + 1]) \in Seq(Nat)
      BY <3>2, ConcatProperties
    <3>4. c[n + 1] = c[n] \o Read(chunks[n + 1])
      BY <1>7, <3>1
    <3> QED
      BY <3>3, <3>4
  <2>3. Nat \subseteq S
    <3> HIDE DEF S
    <3> QED
      BY <2>1, <2>2, NatSetInduction
  <2>4. \A n \in N : n \in S
    BY <1>1, <2>3
  <2>5. \A n \in N : c[n] \in Seq(Nat)
    BY <2>4
  <2> HIDE DEF N, S
  <2> QED
    BY <1>6, <2>5
<1> QED
  BY <1>7, <1>8 DEF c

LEMMA AllReadIs ==
    ASSUME NEW chunks \in Seq(ChunkSet)
    PROVE  AllRead(chunks) \in Seq(Nat) /\ Len(AllRead(chunks)) \in Nat
<1>1. Len(chunks) \in 0 .. Len(chunks)
  BY LenProperties
<1> QED
  BY <1>1, ReadToIs, LenProperties DEF AllRead

LEMMA NothingRead == AllRead(<<>>) = <<>>
<1>1. <<>> \in Seq(ChunkSet) /\ Len(<<>>) = 0
  BY EmptySeq
<1> QED
  BY <1>1, ReadToIs DEF AllRead

\* A chunk more says what it says after what the others do.
LEMMA AppendedIsRead ==
    ASSUME NEW chunks \in Seq(ChunkSet), NEW chunk \in ChunkSet
    PROVE  AllRead(Append(chunks, chunk)) = AllRead(chunks) \o Read(chunk)
<1> DEFINE more == Append(chunks, chunk)
           a == ReadTo(chunks)
           b == ReadTo(more)
           S == {n \in Nat : n <= Len(chunks) => a[n] = b[n]}
<1>1. /\ more \in Seq(ChunkSet) /\ Len(chunks) \in Nat /\ Len(more) = Len(chunks) + 1
      /\ \A i \in 1 .. Len(chunks) : more[i] = chunks[i]
      /\ more[Len(chunks) + 1] = chunk
  BY AppendFacts
<1>2. /\ a[0] = <<>> /\ b[0] = <<>>
      /\ \A n \in 1 .. Len(chunks) : a[n] = a[n - 1] \o Read(chunks[n])
      /\ \A n \in 1 .. Len(more) : b[n] = b[n - 1] \o Read(more[n])
  BY <1>1, ReadToIs
<1> HIDE DEF more, a, b
<1>3. 0 \in S
  BY <1>2
<1>4. ASSUME NEW n \in Nat, n \in S PROVE n + 1 \in S
  <2> SUFFICES ASSUME n + 1 <= Len(chunks) PROVE a[n + 1] = b[n + 1]
    OBVIOUS
  <2>1. /\ n + 1 \in 1 .. Len(chunks) /\ n + 1 \in 1 .. Len(more) /\ (n + 1) - 1 = n
        /\ a[n] = b[n]
    BY <1>1, <1>4
  <2> QED
    BY <1>1, <1>2, <2>1
<1>5. Len(chunks) \in S
  <2> HIDE DEF S
  <2> QED
    BY <1>1, <1>3, <1>4, NatSetInduction
<1>6. Len(more) \in 1 .. Len(more) /\ Len(more) - 1 = Len(chunks)
  BY <1>1
<1>7. b[Len(more)] = a[Len(chunks)] \o Read(chunk)
  <2>1. b[Len(more)] = b[Len(more) - 1] \o Read(more[Len(more)])
    BY <1>2, <1>6
  <2>2. more[Len(more)] = chunk /\ b[Len(more) - 1] = a[Len(chunks)]
    BY <1>1, <1>5, <1>6
  <2> QED
    BY <2>1, <2>2
<1> QED
  BY <1>7 DEF AllRead, a, b, more

LEMMA Sizes ==
    /\ OneBit \in Nat \ {0} /\ TwoBit \in Nat \ {0} /\ OneBit = TwoBit + TwoBit
    /\ RunField \in Nat \ {0}
<1>1. PICK b, r : b = OneBit /\ r = RunField
  OBVIOUS
<1>2. b \in Nat \ {0} /\ b % 2 = 0 /\ r \in Nat \ {0}
  BY <1>1, TwccAssumption
<1>3. b \div 2 \in Nat \ {0} /\ b = (b \div 2) + (b \div 2)
  BY <1>2
<1> QED
  BY <1>1, <1>2, <1>3 DEF TwoBit

\* A run no longer than its field says its symbol; any other, some symbol.
LEMMA RunIs ==
    ASSUME NEW symbol \in 0 .. 3, NEW length \in Nat
    PROVE  /\ RunLengthChunk(symbol, length) \in ChunkSet
           /\ length < RunField => Read(RunLengthChunk(symbol, length))
                                     = [i \in 1 .. length |-> symbol]
<1>1. PICK r, over, rest :
          r = RunField /\ over = (length \div RunField) % 8 /\ rest = length % RunField
  OBVIOUS
<1>2. /\ r \in Nat \ {0} /\ r = RunField
      /\ over = (length \div r) % 8 /\ rest = length % r
  BY <1>1, Sizes
<1>3. over \in Nat /\ rest \in Nat
  BY <1>2
<1> DEFINE said == EitherBit(symbol, over, 1) + EitherBit(symbol, over, 2)
                        + EitherBit(symbol, over, 4)
<1>4. said \in Nat
  <2>1. \A w \in {1, 2, 4} : EitherBit(symbol, over, w) \in {0, w}
    BY DEF EitherBit
  <2> QED
    BY <2>1
<1>5. RunLengthChunk(symbol, length) = [kind |-> "run", symbol |-> said, length |-> rest]
  BY <1>1 DEF RunLengthChunk
<1>6. length < RunField => said = symbol /\ rest = length
  <2> SUFFICES ASSUME length < r PROVE said = symbol /\ rest = length
    BY <1>2
  <2>1. length \div r = 0 /\ length % r = length
    BY <1>2
  <2>2. over = 0 /\ rest = length
    BY <1>2, <2>1
  <2>3. said = symbol
    <3>1. CASE symbol = 0
      BY <2>2, <3>1 DEF EitherBit
    <3>2. CASE symbol = 1
      BY <2>2, <3>2 DEF EitherBit
    <3>3. CASE symbol = 2
      BY <2>2, <3>3 DEF EitherBit
    <3>4. CASE symbol = 3
      BY <2>2, <3>4 DEF EitherBit
    <3> QED
      BY <3>1, <3>2, <3>3, <3>4
  <2> QED
    BY <2>2, <2>3
<1> HIDE DEF said
<1>7. RunLengthChunk(symbol, length) \in ChunkSet
  BY <1>3, <1>4, <1>5 DEF ChunkSet
<1>8. ASSUME length < RunField
      PROVE  Read(RunLengthChunk(symbol, length)) = [i \in 1 .. length |-> symbol]
  BY <1>5, <1>6, <1>8 DEF Read
<1> QED
  BY <1>7, <1>8

\* How many symbols of a size a chunk has.
Places(size) == IF size = 1 THEN OneBit ELSE TwoBit

\* A chunk of symbols says those it has the bits for.
LEMMA SymbolsAre ==
    ASSUME NEW size \in {1, 2}, NEW list \in Seq(Symbols)
    PROVE  /\ SymbolChunk(size, list) \in ChunkSet
           /\ Places(size) \in Nat
           /\ Len(Read(SymbolChunk(size, list))) = Places(size)
           /\ (size = 1 => \A i \in DOMAIN list : list[i] # LargeDelta) =>
                 \A i \in 1 .. Places(size) :
                    i \in DOMAIN list => Read(SymbolChunk(size, list))[i] = list[i]
<1> DEFINE symbol(i) == IF i \in DOMAIN list THEN list[i] % 2^size ELSE 0
           symbols == [i \in 1 .. Places(size) |-> symbol(i)]
<1>1. Places(size) \in Nat
  BY Sizes DEF Places
<1>2. \A i \in DOMAIN list : list[i] \in Symbols
  <2>1. DOMAIN list = 1 .. Len(list)
    BY LenProperties
  <2> QED
    BY <2>1, ElementOfSeq
<1>3. PICK w \in {2, 4} : w = 2^size /\ (size = 1 => w = 2) /\ (size = 2 => w = 4)
  <2>1. 2^1 = 2 /\ 2^2 = 4
    OBVIOUS
  <2> QED
    BY <2>1
<1>4. \A x \in Symbols : (x % w) \in Nat /\ ((w = 2 => x # LargeDelta) => (x % w) = x)
  BY DEF Symbols, NotReceived, SmallDelta, LargeDelta
<1>5. \A i \in 1 .. Places(size) : symbol(i) \in Nat
  BY <1>2, <1>3, <1>4
<1>6. symbols \in Seq(Nat) /\ Len(symbols) = Places(size)
      /\ \A i \in 1 .. Places(size) : symbols[i] = symbol(i)
  <2> HIDE DEF symbol
  <2> QED
    BY <1>1, <1>5
<1>7. SymbolChunk(size, list) = [kind |-> "symbols", symbols |-> symbols]
  BY DEF SymbolChunk, Places
<1>8. ASSUME size = 1 => \A i \in DOMAIN list : list[i] # LargeDelta,
             NEW i \in 1 .. Places(size), i \in DOMAIN list
      PROVE  symbol(i) = list[i]
  BY <1>2, <1>3, <1>4, <1>8
<1> HIDE DEF symbols, symbol
<1>9. /\ SymbolChunk(size, list) \in ChunkSet
      /\ Read(SymbolChunk(size, list)) = symbols
  BY <1>6, <1>7 DEF ChunkSet, Read
<1> QED
  BY <1>1, <1>6, <1>8, <1>9

-----------------------------------------------------------------------------
(* How the chunks are packed.                                              *)

PackAccs ==
    [list : Seq(Symbols), chunks : Seq(ChunkSet), same : BOOLEAN, last : 0 .. 3,
     max : Symbols]

LEMMA MaxIs ==
    ASSUME NEW S, S \subseteq Symbols, S # {}
    PROVE  Max(S) \in S /\ \A x \in S : x <= Max(S)
<1>1. \E x \in S : \A y \in S : x >= y
  <2>1. CASE 2 \in S
    BY <2>1 DEF Symbols, NotReceived, SmallDelta, LargeDelta
  <2>2. CASE 2 \notin S /\ 1 \in S
    BY <2>2 DEF Symbols, NotReceived, SmallDelta, LargeDelta
  <2>3. CASE 2 \notin S /\ 1 \notin S
    <3>1. \A y \in S : y = 0
      BY <2>3 DEF Symbols, NotReceived, SmallDelta, LargeDelta
    <3>2. PICK x \in S : TRUE
      OBVIOUS
    <3> QED
      BY <3>1, <3>2
  <2> QED
    BY <2>1, <2>2, <2>3
<1> QED
  BY <1>1 DEF Max, Symbols, NotReceived, SmallDelta, LargeDelta

LEMMA ListIs ==
    ASSUME NEW list \in Seq(Symbols)
    PROVE  /\ Len(list) \in Nat /\ DOMAIN list = 1 .. Len(list)
           /\ \A i \in 1 .. Len(list) : list[i] \in Symbols
           /\ list = <<>> <=> Len(list) = 0
BY EmptySeq, LenProperties, ElementOfSeq

AllSame(list) == \A i, j \in DOMAIN list : list[i] = list[j]
LastOf(list)  == IF list = <<>> THEN NoStatus ELSE list[Len(list)]

LEMMA PendingIs ==
    ASSUME NEW list \in Seq(Symbols), NEW chunks \in Seq(ChunkSet)
    PROVE  /\ Pending(list, chunks) \in PackAccs
           /\ Pending(list, chunks).list = list /\ Pending(list, chunks).chunks = chunks
           /\ Pending(list, chunks).same = AllSame(list)
           /\ Pending(list, chunks).last = LastOf(list)
           /\ \A i \in 1 .. Len(list) : list[i] <= Pending(list, chunks).max
<1>1. /\ Len(list) \in Nat /\ DOMAIN list = 1 .. Len(list)
      /\ \A i \in 1 .. Len(list) : list[i] \in Symbols
      /\ list = <<>> <=> Len(list) = 0
  BY ListIs
<1> DEFINE S == Range(list) \cup {NotReceived}
<1>2. S \subseteq Symbols /\ S # {} /\ \A i \in 1 .. Len(list) : list[i] \in S
  BY <1>1 DEF Range, Symbols
<1> HIDE DEF S
<1>3. Max(S) \in Symbols /\ \A i \in 1 .. Len(list) : list[i] <= Max(S)
  BY <1>2, MaxIs
<1>4. LastOf(list) \in 0 .. 3
  <2>1. list # <<>> => list[Len(list)] \in Symbols
    BY <1>1
  <2> QED
    BY <2>1 DEF LastOf, Symbols, NotReceived, SmallDelta, LargeDelta, NoStatus
<1>5. AllSame(list) \in BOOLEAN
  BY DEF AllSame
<1>6. Pending(list, chunks) = [list |-> list, chunks |-> chunks, same |-> AllSame(list),
                               last |-> LastOf(list), max |-> Max(S)]
  BY DEF Pending, Last, AllSame, LastOf, S
<1>7. /\ Pending(list, chunks) \in PackAccs
      /\ Pending(list, chunks).list = list /\ Pending(list, chunks).chunks = chunks
      /\ Pending(list, chunks).same = AllSame(list)
      /\ Pending(list, chunks).last = LastOf(list)
      /\ Pending(list, chunks).max = Max(S)
  BY <1>3, <1>4, <1>5, <1>6 DEF PackAccs
<1> QED
  BY <1>3, <1>7

LEMMA EndRunIs ==
    ASSUME NEW acc \in PackAccs, NEW status \in Symbols
    PROVE  /\ EndRun(acc, status) \in PackAccs
           /\ \/ /\ ~acc.same \/ status = acc.last \/ acc.last = NoStatus
                 /\ EndRun(acc, status) = acc
              \/ /\ acc.same /\ status # acc.last /\ acc.last # NoStatus
                 /\ Len(acc.list) > TwoBit
                 /\ EndRun(acc, status).chunks
                      = Append(acc.chunks, RunLengthChunk(acc.last, Len(acc.list)))
                 /\ EndRun(acc, status).list = <<>>
                 /\ EndRun(acc, status).same
              \/ /\ acc.same /\ status # acc.last /\ acc.last # NoStatus
                 /\ Len(acc.list) <= TwoBit
                 /\ EndRun(acc, status).chunks = acc.chunks
                 /\ EndRun(acc, status).list = acc.list
                 /\ EndRun(acc, status).max = acc.max
                 /\ ~EndRun(acc, status).same
<1>1. /\ acc.list \in Seq(Symbols) /\ acc.chunks \in Seq(ChunkSet) /\ acc.same \in BOOLEAN
      /\ acc.last \in 0 .. 3 /\ acc.max \in Symbols /\ Len(acc.list) \in Nat
  BY LenProperties DEF PackAccs
<1> DEFINE run == RunLengthChunk(acc.last, Len(acc.list))
<1>2. Append(acc.chunks, run) \in Seq(ChunkSet)
  BY <1>1, RunIs, AppendProperties
<1>3. <<>> \in Seq(Symbols) /\ NotReceived \in Symbols
  BY EmptySeq DEF Symbols
<1> HIDE DEF run
<1> DEFINE written == [acc EXCEPT !.chunks = Append(acc.chunks, run),
                                  !.list = <<>>, !.max = NotReceived]
           mixed == [acc EXCEPT !.same = FALSE]
<1>4. written \in PackAccs /\ mixed \in PackAccs
  BY <1>1, <1>2, <1>3 DEF PackAccs
<1>5. /\ written.chunks = Append(acc.chunks, run) /\ written.list = <<>>
      /\ written.same = acc.same
      /\ mixed.chunks = acc.chunks /\ mixed.list = acc.list /\ mixed.max = acc.max
      /\ ~mixed.same
  BY DEF PackAccs
<1>6. EndRun(acc, status)
        = IF ~acc.same \/ status = acc.last \/ acc.last = NoStatus THEN acc
          ELSE IF Len(acc.list) > TwoBit THEN written ELSE mixed
  BY DEF EndRun, run
<1> HIDE DEF written, mixed
<1>7. TwoBit \in Nat
  BY Sizes
<1> QED
  BY <1>1, <1>4, <1>5, <1>6, <1>7 DEF run

LEMMA ListedIs ==
    ASSUME NEW acc \in PackAccs, NEW status \in Symbols
    PROVE  /\ Listed(acc, status) \in PackAccs
           /\ Listed(acc, status).list = Append(acc.list, status)
           /\ Listed(acc, status).chunks = acc.chunks
           /\ Listed(acc, status).same = acc.same
           /\ Listed(acc, status).last = status
           /\ Listed(acc, status).max = Larger(acc.max, status)
<1>1. Append(acc.list, status) \in Seq(Symbols)
  BY AppendProperties DEF PackAccs
<1>2. Larger(acc.max, status) \in Symbols /\ status \in 0 .. 3
  BY DEF PackAccs, Larger, Symbols, NotReceived, SmallDelta, LargeDelta
<1> DEFINE list == Append(acc.list, status)
           max == Larger(acc.max, status)
<1>3. Listed(acc, status) = [acc EXCEPT !.list = list, !.last = status, !.max = max]
  BY DEF Listed
<1> HIDE DEF list, max
<1>4. list \in Seq(Symbols) /\ max \in Symbols
  BY <1>1, <1>2 DEF list, max
<1>5. /\ Listed(acc, status) \in PackAccs
      /\ Listed(acc, status).list = list /\ Listed(acc, status).chunks = acc.chunks
      /\ Listed(acc, status).same = acc.same /\ Listed(acc, status).last = status
      /\ Listed(acc, status).max = max
  BY <1>2, <1>3, <1>4 DEF PackAccs
<1> QED
  BY <1>5 DEF list, max

\* The chunks say the first of the statuses st, and the list is the next, up to the n-th.
SaysSoFar(chunks, list, st, n) ==
    LET r == Len(AllRead(chunks)) IN
    /\ r + Len(list) = n
    /\ \A i \in 1 .. r : AllRead(chunks)[i] = st[i]
    /\ \A i \in 1 .. Len(list) : list[i] = st[r + i]

\* Writing the first k of the list.
LEMMA SaysMore ==
    ASSUME NEW chunks \in Seq(ChunkSet), NEW chunk \in ChunkSet,
           NEW list \in Seq(Symbols), NEW rest \in Seq(Symbols), NEW st, NEW n \in Nat,
           NEW k \in 0 .. Len(list),
           SaysSoFar(chunks, list, st, n),
           Len(Read(chunk)) = k, \A i \in 1 .. k : Read(chunk)[i] = list[i],
           Len(rest) = Len(list) - k,
           \A i \in 1 .. Len(rest) : rest[i] = list[k + i]
    PROVE  SaysSoFar(Append(chunks, chunk), rest, st, n)
<1> DEFINE a == AllRead(chunks)
           b == AllRead(Append(chunks, chunk))
           x == Read(chunk)
<1>1. /\ a \in Seq(Nat) /\ x \in Seq(Nat) /\ Len(a) \in Nat /\ Len(list) \in Nat
      /\ Len(rest) \in Nat
  BY AllReadIs, ReadIs, LenProperties
<1>2. b = a \o x
  BY AppendedIsRead
<1>3. /\ Len(a \o x) = Len(a) + Len(x)
      /\ \A i \in 1 .. Len(a) + Len(x) :
            (a \o x)[i] = IF i <= Len(a) THEN a[i] ELSE x[i - Len(a)]
  BY <1>1, ConcatProperties
<1> HIDE DEF a, b, x
<1>4. /\ Len(b) = Len(a) + k
      /\ \A i \in 1 .. Len(a) + k : b[i] = IF i <= Len(a) THEN a[i] ELSE x[i - Len(a)]
  BY <1>2, <1>3 DEF x
<1>5. /\ Len(a) + Len(list) = n
      /\ \A i \in 1 .. Len(a) : a[i] = st[i]
      /\ \A i \in 1 .. Len(list) : list[i] = st[Len(a) + i]
  BY DEF SaysSoFar, a
<1>6. \A i \in 1 .. k : x[i] = list[i] /\ i \in 1 .. Len(list)
  BY <1>1 DEF x
<1>7. Len(b) + Len(rest) = n
  <2>1. PICK lb, lr, ll, la : lb = Len(b) /\ lr = Len(rest) /\ ll = Len(list) /\ la = Len(a)
    OBVIOUS
  <2>2. la \in Nat /\ ll \in Nat /\ lr = ll - k /\ k \in Int /\ lb = la + k /\ la + ll = n
    BY <1>1, <1>4, <1>5, <2>1
  <2>3. lb + lr = n
    BY <2>2
  <2> QED
    BY <2>1, <2>3
<1>8. ASSUME NEW i \in 1 .. Len(b) PROVE b[i] = st[i]
  <2>1. CASE i <= Len(a)
    <3>1. i \in 1 .. Len(a) /\ i \in 1 .. Len(a) + k
      BY <1>1, <1>4, <2>1
    <3> QED
      BY <1>4, <1>5, <2>1, <3>1
  <2>2. CASE i > Len(a)
    <3>1. i - Len(a) \in 1 .. k /\ i \in 1 .. Len(a) + k /\ Len(a) + (i - Len(a)) = i
      BY <1>1, <1>4, <2>2
    <3>2. b[i] = x[i - Len(a)]
      BY <1>1, <1>4, <2>2, <3>1
    <3> QED
      BY <1>5, <1>6, <3>1, <3>2
  <2> QED
    BY <1>1, <2>1, <2>2
<1>9. ASSUME NEW i \in 1 .. Len(rest) PROVE rest[i] = st[Len(b) + i]
  <2>1. k + i \in 1 .. Len(list) /\ Len(b) + i = Len(a) + (k + i)
    BY <1>1, <1>4
  <2> QED
    BY <1>5, <2>1
<1> QED
  BY <1>7, <1>8, <1>9 DEF SaysSoFar, b

\* What is true of the list between two statuses.
Kept(acc) ==
    /\ \A i \in 1 .. Len(acc.list) : acc.list[i] <= acc.max
    /\ Len(acc.list) = 0 => acc.last = NoStatus
    /\ Len(acc.list) # 0 => acc.last = acc.list[Len(acc.list)]
    /\ acc.same => \A i \in 1 .. Len(acc.list) : acc.list[i] = acc.last
    /\ ~acc.same => /\ Len(acc.list) # 0 /\ Len(acc.list) < OneBit
                    /\ acc.max = LargeDelta => Len(acc.list) <= TwoBit

PackInv(acc, st, n) ==
    acc \in PackAccs /\ SaysSoFar(acc.chunks, acc.list, st, n) /\ Kept(acc)

\* ... and when a run that the status ends is written or mixed with what follows.
LEMMA EndRunKeeps ==
    ASSUME NEW acc, NEW st, NEW n \in Nat, n < RunField, PackInv(acc, st, n),
           NEW status \in Symbols
    PROVE  LET ended == EndRun(acc, status) IN
           /\ ended \in PackAccs
           /\ SaysSoFar(ended.chunks, ended.list, st, n)
           /\ \A i \in 1 .. Len(ended.list) : ended.list[i] <= ended.max
           /\ ended.same => \A i \in 1 .. Len(ended.list) : ended.list[i] = status
           /\ ~ended.same => /\ Len(ended.list) < OneBit
                             /\ ended.max = LargeDelta => Len(ended.list) <= TwoBit
<1> DEFINE ended == EndRun(acc, status)
<1>1. /\ acc \in PackAccs /\ acc.list \in Seq(Symbols) /\ acc.chunks \in Seq(ChunkSet)
      /\ acc.last \in 0 .. 3 /\ acc.same \in BOOLEAN
  BY DEF PackInv, PackAccs
<1>2. /\ Len(acc.list) \in Nat /\ DOMAIN acc.list = 1 .. Len(acc.list)
      /\ \A i \in 1 .. Len(acc.list) : acc.list[i] \in Symbols
  BY <1>1, ListIs
<1>3. /\ SaysSoFar(acc.chunks, acc.list, st, n) /\ Kept(acc)
  BY DEF PackInv
<1>4. TwoBit \in Nat \ {0} /\ OneBit = TwoBit + TwoBit
  BY Sizes
<1>5. ended \in PackAccs
  BY <1>1, EndRunIs
<1>6. CASE (~acc.same \/ status = acc.last \/ acc.last = NoStatus) /\ ended = acc
  <2>1. acc.same => \A i \in 1 .. Len(acc.list) : acc.list[i] = status
    <3>1. CASE Len(acc.list) = 0
      BY <3>1
    <3>2. CASE Len(acc.list) # 0
      <4>1. acc.last = acc.list[Len(acc.list)] /\ Len(acc.list) \in 1 .. Len(acc.list)
        BY <1>2, <1>3, <3>2 DEF Kept
      <4>2. acc.last # NoStatus
        BY <1>2, <4>1 DEF Symbols, NotReceived, SmallDelta, LargeDelta, NoStatus
      <4> QED
        BY <1>3, <1>6, <4>2 DEF Kept
    <3> QED
      BY <3>1, <3>2
  <2> HIDE DEF ended
  <2> QED
    BY <1>1, <1>3, <1>6, <2>1 DEF Kept, ended
<1>7. CASE /\ acc.same /\ Len(acc.list) > TwoBit
           /\ ended.chunks = Append(acc.chunks, RunLengthChunk(acc.last, Len(acc.list)))
           /\ ended.list = <<>> /\ ended.same
  <2> DEFINE chunk == RunLengthChunk(acc.last, Len(acc.list))
  <2>1. Len(acc.list) < RunField
    <3>1. Len(AllRead(acc.chunks)) \in Nat /\ Len(AllRead(acc.chunks)) + Len(acc.list) = n
      BY <1>1, <1>3, AllReadIs DEF SaysSoFar
    <3>2. PICK r, l, f : r = Len(AllRead(acc.chunks)) /\ l = Len(acc.list) /\ f = RunField
      OBVIOUS
    <3>3. r \in Nat /\ l \in Nat /\ f \in Nat /\ r + l = n /\ n < f
      BY <1>2, <3>1, <3>2, Sizes
    <3>4. l < f
      BY <3>3
    <3> QED
      BY <3>2, <3>4
  <2>2. /\ chunk \in ChunkSet
        /\ Read(chunk) = [i \in 1 .. Len(acc.list) |-> acc.last]
    BY <1>1, <1>2, <2>1, RunIs
  <2>3. Len(Read(chunk)) = Len(acc.list)
        /\ \A i \in 1 .. Len(acc.list) : Read(chunk)[i] = acc.list[i]
    <3>1. \A i \in 1 .. Len(acc.list) : acc.list[i] = acc.last
      BY <1>3, <1>7 DEF Kept
    <3> HIDE DEF chunk
    <3> QED
      BY <1>2, <2>2, <3>1
  <2>4. <<>> \in Seq(Symbols) /\ Len(<<>>) = 0 /\ \A i \in 1 .. 0 : FALSE
    BY EmptySeq
  <2> DEFINE empty == <<>>
  <2>5. /\ empty \in Seq(Symbols) /\ Len(empty) = Len(acc.list) - Len(acc.list)
        /\ \A i \in 1 .. Len(empty) : empty[i] = acc.list[Len(acc.list) + i]
    BY <1>2, <2>4
  <2> HIDE DEF chunk, empty
  <2>6. Len(acc.list) \in 0 .. Len(acc.list)
    BY <1>2
  <2>7. SaysSoFar(Append(acc.chunks, chunk), empty, st, n)
    BY <1>1, <1>3, <2>2, <2>3, <2>5, <2>6, SaysMore
  <2>8. SaysSoFar(ended.chunks, ended.list, st, n)
    BY <1>7, <2>7 DEF chunk, empty
  <2> HIDE DEF ended
  <2> QED
    BY <1>5, <1>7, <2>4, <2>8 DEF ended
<1>8. CASE /\ Len(acc.list) <= TwoBit
           /\ ended.chunks = acc.chunks /\ ended.list = acc.list /\ ended.max = acc.max
           /\ ~ended.same
  <2>1. Len(acc.list) < OneBit
    BY <1>2, <1>4, <1>8
  <2> HIDE DEF ended
  <2>2. SaysSoFar(ended.chunks, ended.list, st, n)
    BY <1>3, <1>8
  <2> QED
    BY <1>3, <1>5, <1>8, <2>1, <2>2 DEF Kept, ended
<1> HIDE DEF ended
<1>9. \/ (~acc.same \/ status = acc.last \/ acc.last = NoStatus) /\ ended = acc
      \/ /\ acc.same /\ Len(acc.list) > TwoBit
         /\ ended.chunks = Append(acc.chunks, RunLengthChunk(acc.last, Len(acc.list)))
         /\ ended.list = <<>> /\ ended.same
      \/ /\ Len(acc.list) <= TwoBit
         /\ ended.chunks = acc.chunks /\ ended.list = acc.list /\ ended.max = acc.max
         /\ ~ended.same
  BY <1>1, EndRunIs DEF ended
<1> QED
  BY <1>6, <1>7, <1>8, <1>9 DEF ended

\* What Pack makes of the list with the status: written as a chunk of symbols, or kept.
PackCases(next, result) ==
    \/ /\ ~next.same /\ next.max = LargeDelta /\ Len(next.list) >= TwoBit
       /\ result = Pending(SubSeq(next.list, TwoBit + 1, Len(next.list)),
                           Append(next.chunks, SymbolChunk(2, next.list)))
    \/ /\ ~next.same /\ ~(next.max = LargeDelta /\ Len(next.list) >= TwoBit)
       /\ Len(next.list) >= OneBit
       /\ result = Pending(<<>>, Append(next.chunks, SymbolChunk(1, next.list)))
    \/ /\ ~next.same => /\ ~(next.max = LargeDelta /\ Len(next.list) >= TwoBit)
                        /\ ~(Len(next.list) >= OneBit)
       /\ result = next

LEMMA PackIs ==
    ASSUME NEW acc \in PackAccs, NEW status \in Symbols
    PROVE  LET next == Listed(EndRun(acc, status), status) IN
           /\ next \in PackAccs
           /\ Pack(acc, status) \in PackAccs
           /\ PackCases(next, Pack(acc, status))
<1> DEFINE next == Listed(EndRun(acc, status), status)
           result == Pack(acc, status)
           rest == SubSeq(next.list, TwoBit + 1, Len(next.list))
<1>1. next \in PackAccs
  BY EndRunIs, ListedIs
<1>2. PackCases(next, result)
  <2> DEFINE two == Pending(rest, Append(next.chunks, SymbolChunk(2, next.list)))
             one == Pending(<<>>, Append(next.chunks, SymbolChunk(1, next.list)))
  <2>1. result = IF ~next.same /\ next.max = LargeDelta /\ Len(next.list) >= TwoBit
                 THEN two
                 ELSE IF ~next.same /\ Len(next.list) >= OneBit THEN one ELSE next
    BY DEF Pack
  <2>2. PackCases(next, result)
        <=> \/ /\ ~next.same /\ next.max = LargeDelta /\ Len(next.list) >= TwoBit
               /\ result = two
            \/ /\ ~next.same /\ ~(next.max = LargeDelta /\ Len(next.list) >= TwoBit)
               /\ Len(next.list) >= OneBit
               /\ result = one
            \/ /\ ~next.same => /\ ~(next.max = LargeDelta /\ Len(next.list) >= TwoBit)
                                /\ ~(Len(next.list) >= OneBit)
               /\ result = next
    BY DEF PackCases
  <2> HIDE DEF two, one, next, result
  <2> QED
    BY <2>1, <2>2
<1> HIDE DEF next, result
<1>3. next.list \in Seq(Symbols) /\ next.chunks \in Seq(ChunkSet)
  BY <1>1 DEF PackAccs
<1>4. /\ Append(next.chunks, SymbolChunk(1, next.list)) \in Seq(ChunkSet)
      /\ Append(next.chunks, SymbolChunk(2, next.list)) \in Seq(ChunkSet)
  BY <1>3, SymbolsAre, AppendProperties
<1>5. rest \in Seq(Symbols) /\ <<>> \in Seq(Symbols)
  <2>1. Len(next.list) \in Nat /\ \A i \in 1 .. Len(next.list) : next.list[i] \in Symbols
    BY <1>3, ListIs
  <2>2. \A i \in TwoBit + 1 .. Len(next.list) : next.list[i] \in Symbols
    BY <2>1, Sizes
  <2> QED
    BY <1>3, <2>1, <2>2, Sizes, EmptySeq, SubSeqProperties
<1>6. /\ Pending(rest, Append(next.chunks, SymbolChunk(2, next.list))) \in PackAccs
      /\ Pending(<<>>, Append(next.chunks, SymbolChunk(1, next.list))) \in PackAccs
  BY <1>4, <1>5, PendingIs
<1>7. result \in PackAccs
  BY <1>1, <1>2, <1>6 DEF PackCases
<1> QED
  BY <1>1, <1>2, <1>7 DEF next, result

\* A status more is said, or in the list, while there are fewer than a run can say.
LEMMA PackKeeps ==
    ASSUME NEW acc, NEW st, NEW n \in Nat, n < RunField, PackInv(acc, st, n),
           st[n + 1] \in Symbols
    PROVE  PackInv(Pack(acc, st[n + 1]), st, n + 1)
<1> DEFINE status == st[n + 1]
           ended  == EndRun(acc, status)
           next   == Listed(ended, status)
           result == Pack(acc, status)
           size0  == Len(ended.list)
<1>1. /\ ended \in PackAccs
      /\ SaysSoFar(ended.chunks, ended.list, st, n)
      /\ \A i \in 1 .. Len(ended.list) : ended.list[i] <= ended.max
      /\ ended.same => \A i \in 1 .. Len(ended.list) : ended.list[i] = status
      /\ ~ended.same => /\ Len(ended.list) < OneBit
                        /\ ended.max = LargeDelta => Len(ended.list) <= TwoBit
  BY EndRunKeeps
<1>2. acc \in PackAccs /\ status \in Symbols
  BY DEF PackInv
<1>3. next \in PackAccs /\ result \in PackAccs /\ PackCases(next, result)
  BY <1>2, PackIs
<1> HIDE DEF ended
<1>4. /\ next.list = Append(ended.list, status) /\ next.chunks = ended.chunks
      /\ next.same = ended.same /\ next.last = status
      /\ next.max = Larger(ended.max, status)
  BY <1>1, <1>2, ListedIs
<1>5. /\ ended.list \in Seq(Symbols) /\ ended.chunks \in Seq(ChunkSet)
      /\ ended.max \in Symbols /\ size0 \in Nat
      /\ DOMAIN ended.list = 1 .. size0
      /\ \A i \in 1 .. size0 : ended.list[i] \in Symbols
  <2>1. ended.list \in Seq(Symbols) /\ ended.chunks \in Seq(ChunkSet) /\ ended.max \in Symbols
    BY <1>1 DEF PackAccs
  <2> QED
    BY <2>1, ListIs
<1> HIDE DEF next, result, status, size0
<1>6. /\ next.list \in Seq(Symbols) /\ Len(next.list) = size0 + 1
      /\ \A i \in 1 .. size0 : next.list[i] = ended.list[i]
      /\ next.list[size0 + 1] = status
  BY <1>2, <1>4, <1>5, AppendFacts DEF size0
<1>7. \A i \in 1 .. size0 + 1 : i = size0 + 1 \/ i \in 1 .. size0
  BY <1>5
<1>8. SaysSoFar(next.chunks, next.list, st, n + 1)
  <2>1. PICK r, R : r = Len(AllRead(ended.chunks)) /\ R = AllRead(ended.chunks)
    OBVIOUS
  <2>2. /\ r \in Nat /\ r + size0 = n /\ \A i \in 1 .. r : R[i] = st[i]
        /\ \A i \in 1 .. size0 : ended.list[i] = st[r + i]
    BY <1>1, <1>5, <2>1, AllReadIs DEF SaysSoFar, size0
  <2>3. r + (size0 + 1) = n + 1
    BY <1>5, <2>2
  <2>4. \A i \in 1 .. size0 + 1 : next.list[i] = st[r + i]
    BY <1>6, <1>7, <2>2, <2>3 DEF status
  <2> QED
    BY <1>4, <1>6, <2>1, <2>2, <2>3, <2>4 DEF SaysSoFar
<1>9. /\ next.max \in Symbols
      /\ \A i \in 1 .. size0 + 1 : next.list[i] \in Symbols /\ next.list[i] <= next.max
  <2>1. /\ ended.max \in 0 .. 2 /\ status \in 0 .. 2
        /\ \A i \in 1 .. size0 : ended.list[i] \in 0 .. 2
    BY <1>2, <1>5 DEF Symbols, NotReceived, SmallDelta, LargeDelta
  <2>2. next.max \in 0 .. 2 /\ ended.max <= next.max /\ status <= next.max
    BY <1>4, <2>1 DEF Larger
  <2>3. \A i \in 1 .. size0 : ended.list[i] <= ended.max
    BY <1>1 DEF size0
  <2>4. ASSUME NEW i \in 1 .. size0 + 1 PROVE next.list[i] \in 0 .. 2 /\ next.list[i] <= next.max
    <3>1. CASE i = size0 + 1
      BY <1>6, <2>1, <2>2, <3>1
    <3>2. CASE i # size0 + 1
      BY <1>6, <1>7, <2>1, <2>2, <2>3, <3>2
    <3> QED
      BY <3>1, <3>2
  <2>5. Symbols = 0 .. 2
    BY DEF Symbols, NotReceived, SmallDelta, LargeDelta
  <2> QED
    BY <2>2, <2>4, <2>5
<1>10. TwoBit \in Nat \ {0} /\ OneBit = TwoBit + TwoBit
  BY Sizes
<1>11. CASE /\ ~next.same /\ next.max = LargeDelta /\ Len(next.list) >= TwoBit
            /\ result = Pending(SubSeq(next.list, TwoBit + 1, Len(next.list)),
                                Append(next.chunks, SymbolChunk(2, next.list)))
  <2> DEFINE rest  == SubSeq(next.list, TwoBit + 1, Len(next.list))
             chunk == SymbolChunk(2, next.list)
             size  == Len(next.list)
  <2>1. size \in Nat /\ size = size0 + 1 /\ TwoBit <= size /\ size <= OneBit
    BY <1>1, <1>4, <1>5, <1>6, <1>10, <1>11 DEF size0
  <2>2. /\ rest \in Seq(Symbols) /\ Len(rest) = size - TwoBit
        /\ \A i \in 1 .. size - TwoBit : rest[i] = next.list[TwoBit + i]
    <3>1. \A i \in TwoBit + 1 .. size : next.list[i] \in Symbols
      BY <1>9, <1>10, <2>1
    <3>2. /\ rest \in Seq(Symbols)
          /\ Len(rest) = IF TwoBit + 1 <= size THEN size - (TwoBit + 1) + 1 ELSE 0
          /\ \A i \in 1 .. size - (TwoBit + 1) + 1 : rest[i] = next.list[TwoBit + 1 + i - 1]
      BY <1>6, <1>10, <2>1, <3>1, SubSeqProperties
    <3> HIDE DEF rest
    <3>3. Len(rest) = size - TwoBit /\ size - (TwoBit + 1) + 1 = size - TwoBit
      BY <1>10, <2>1, <3>2
    <3>4. \A i \in 1 .. size - TwoBit : TwoBit + 1 + i - 1 = TwoBit + i
      BY <1>10
    <3> QED
      BY <3>2, <3>3, <3>4
  <2>3. /\ chunk \in ChunkSet /\ Len(Read(chunk)) = TwoBit
        /\ \A i \in 1 .. TwoBit : Read(chunk)[i] = next.list[i]
    <3>1. /\ chunk \in ChunkSet /\ Len(Read(chunk)) = Places(2)
          /\ \A i \in 1 .. Places(2) : i \in DOMAIN next.list => Read(chunk)[i] = next.list[i]
      BY <1>6, SymbolsAre
    <3>2. Places(2) = TwoBit /\ DOMAIN next.list = 1 .. size
      BY <1>6, ListIs DEF Places
    <3>3. \A i \in 1 .. TwoBit : i \in 1 .. size
      BY <1>10, <2>1
    <3> QED
      BY <3>1, <3>2, <3>3
  <2> HIDE DEF rest, chunk
  <2>4. SaysSoFar(Append(next.chunks, chunk), rest, st, n + 1)
    <3>1. TwoBit \in 0 .. size /\ n + 1 \in Nat
      BY <1>10, <2>1
    <3>2. next.chunks \in Seq(ChunkSet)
      BY <1>4, <1>5
    <3> QED
      BY <1>6, <1>8, <2>2, <2>3, <3>1, <3>2, SaysMore
  <2>5. /\ result \in PackAccs
        /\ result.list = rest /\ result.chunks = Append(next.chunks, chunk)
        /\ result.same = AllSame(rest) /\ result.last = LastOf(rest)
        /\ \A i \in 1 .. Len(rest) : rest[i] <= result.max
    <3> DEFINE more == Append(next.chunks, chunk)
    <3>1. rest \in Seq(Symbols) /\ more \in Seq(ChunkSet)
      BY <1>4, <1>5, <2>2, <2>3, AppendProperties
    <3>2. result = Pending(rest, more)
      BY <1>11 DEF rest, chunk
    <3> HIDE DEF more
    <3> QED
      BY <3>1, <3>2, PendingIs DEF more
  <2>6. /\ DOMAIN rest = 1 .. Len(rest) /\ Len(rest) \in Nat
        /\ rest = <<>> <=> Len(rest) = 0
    BY <2>2, ListIs
  <2>7. Len(rest) <= TwoBit /\ TwoBit < OneBit
    BY <1>10, <2>1, <2>2
  <2>8. ASSUME result.same, NEW i \in 1 .. Len(rest) PROVE rest[i] = result.last
    <3>1. Len(rest) \in DOMAIN rest /\ i \in DOMAIN rest /\ rest # <<>>
      BY <2>6
    <3>2. rest[i] = rest[Len(rest)]
      BY <2>5, <2>8, <3>1 DEF AllSame
    <3> QED
      BY <2>5, <3>1, <3>2 DEF LastOf
  <2>9. ~result.same => Len(rest) # 0
    BY <2>5, <2>6 DEF AllSame
  <2>10. Kept(result)
    BY <2>5, <2>6, <2>7, <2>8, <2>9, <1>10 DEF Kept, LastOf
  <2> QED
    BY <2>4, <2>5, <2>10 DEF PackInv, result, status
<1>12. CASE /\ ~next.same /\ ~(next.max = LargeDelta /\ Len(next.list) >= TwoBit)
            /\ Len(next.list) >= OneBit
            /\ result = Pending(<<>>, Append(next.chunks, SymbolChunk(1, next.list)))
  <2> DEFINE empty == <<>>
             chunk == SymbolChunk(1, next.list)
             size  == Len(next.list)
  <2>1. size \in Nat /\ size = OneBit /\ next.max # LargeDelta
    <3>1. size0 < OneBit /\ size0 \in Nat /\ size = size0 + 1 /\ size >= OneBit
      BY <1>1, <1>4, <1>5, <1>6, <1>12 DEF size0
    <3>2. size = OneBit /\ size >= TwoBit
      BY <1>10, <3>1
    <3> QED
      BY <1>10, <1>12, <3>2
  <2>2. /\ empty \in Seq(Symbols) /\ Len(empty) = size - size
        /\ \A i \in 1 .. Len(empty) : empty[i] = next.list[size + i]
    <3>1. empty \in Seq(Symbols) /\ Len(empty) = 0
      BY EmptySeq
    <3> HIDE DEF empty
    <3> QED
      BY <2>1, <3>1
  <2>3. /\ chunk \in ChunkSet /\ Len(Read(chunk)) = size
        /\ \A i \in 1 .. size : Read(chunk)[i] = next.list[i]
    <3>1. DOMAIN next.list = 1 .. size /\ Places(1) = OneBit
      BY <1>6, ListIs DEF Places
    <3>2. \A i \in 1 .. size : next.list[i] # LargeDelta
      BY <1>6, <1>9, <2>1 DEF Symbols, NotReceived, SmallDelta, LargeDelta
    <3>3. /\ chunk \in ChunkSet /\ Len(Read(chunk)) = Places(1)
          /\ \A i \in 1 .. Places(1) : i \in DOMAIN next.list => Read(chunk)[i] = next.list[i]
      BY <1>6, <3>1, <3>2, SymbolsAre
    <3> QED
      BY <2>1, <3>1, <3>3
  <2> HIDE DEF empty, chunk
  <2>4. SaysSoFar(Append(next.chunks, chunk), empty, st, n + 1)
    <3>1. size \in 0 .. size /\ n + 1 \in Nat
      BY <2>1
    <3>2. next.chunks \in Seq(ChunkSet)
      BY <1>4, <1>5
    <3> QED
      BY <1>6, <1>8, <2>2, <2>3, <3>1, <3>2, SaysMore
  <2>5. /\ result \in PackAccs
        /\ result.list = empty /\ result.chunks = Append(next.chunks, chunk)
        /\ result.same = AllSame(empty) /\ result.last = LastOf(empty)
    <3> DEFINE more == Append(next.chunks, chunk)
    <3>1. empty \in Seq(Symbols) /\ more \in Seq(ChunkSet)
      BY <1>4, <1>5, <2>2, <2>3, AppendProperties
    <3>2. result = Pending(empty, more)
      BY <1>12 DEF empty, chunk
    <3> HIDE DEF more
    <3> QED
      BY <3>1, <3>2, PendingIs DEF more
  <2>6. Len(empty) = 0 /\ DOMAIN empty = 1 .. 0 /\ empty = <<>> /\ \A i \in 1 .. 0 : FALSE
    BY <2>1, <2>2, ListIs DEF empty
  <2>7. Kept(result)
    BY <2>5, <2>6 DEF Kept, AllSame, LastOf
  <2> QED
    BY <2>4, <2>5, <2>7 DEF PackInv, result, status
<1>13. CASE /\ ~next.same => /\ ~(next.max = LargeDelta /\ Len(next.list) >= TwoBit)
                             /\ ~(Len(next.list) >= OneBit)
            /\ result = next
  <2>1. \A i \in 1 .. Len(next.list) : next.list[i] <= next.max
    BY <1>6, <1>9
  <2>2. Len(next.list) # 0 /\ next.last = next.list[Len(next.list)]
    BY <1>4, <1>5, <1>6
  <2>3. next.same => \A i \in 1 .. Len(next.list) : next.list[i] = next.last
    BY <1>1, <1>4, <1>6, <1>7 DEF size0
  <2>4. ~next.same => /\ Len(next.list) < OneBit
                      /\ next.max = LargeDelta => Len(next.list) <= TwoBit
    BY <1>5, <1>6, <1>10, <1>13
  <2>5. Kept(next)
    BY <2>1, <2>2, <2>3, <2>4 DEF Kept
  <2> QED
    BY <1>3, <1>8, <1>13, <2>5 DEF PackInv, result, status
<1> QED
  BY <1>3, <1>11, <1>12, <1>13 DEF PackCases, result, status

LEMMA PackingIs ==
    ASSUME NEW statuses \in Seq(Symbols)
    PROVE  /\ Packing(statuses)[0] = Pending(<<>>, <<>>)
           /\ \A n \in 1 .. Len(statuses) :
                 Packing(statuses)[n] = Pack(Packing(statuses)[n - 1], statuses[n])
<1> DEFINE base == Pending(<<>>, <<>>)
           step == [n \in 1 .. Len(statuses) |-> [acc \in PackAccs |-> Pack(acc, statuses[n])]]
           N    == 0 .. Len(statuses)
<1>1. base \in PackAccs /\ Len(statuses) \in Nat
  BY EmptySeq, PendingIs, LenProperties
<1>2. \A n \in 1 .. Len(statuses) : statuses[n] \in Symbols
  BY ElementOfSeq
<1>3. step \in [1 .. Len(statuses) -> [PackAccs -> PackAccs]]
  BY <1>2, PackIs
<1> HIDE DEF base
<1>4. PICK f \in [N -> PackAccs] : Follows(f, Len(statuses), base, step)
  <2> HIDE DEF step
  <2> QED
    BY <1>1, <1>3, RecursionExists
<1>5. f = [n \in N |-> IF n = 0 THEN base ELSE Pack(f[n - 1], statuses[n])]
  <2>1. ASSUME NEW n \in N, n # 0 PROVE f[n] = Pack(f[n - 1], statuses[n])
    <3>1. n \in 1 .. Len(statuses) /\ n - 1 \in N
      BY <1>1, <2>1
    <3>2. f[n] = step[n][f[n - 1]] /\ f[n - 1] \in PackAccs
      BY <1>4, <3>1 DEF Follows
    <3> QED
      BY <3>1, <3>2
  <2>2. f[0] = base
    BY <1>4 DEF Follows
  <2> HIDE DEF step
  <2> QED
    BY <2>1, <2>2
<1> DEFINE c == Packing(statuses)
<1>6. c = [n \in N |-> IF n = 0 THEN base ELSE Pack(c[n - 1], statuses[n])]
  BY <1>5 DEF Packing, base
<1> HIDE DEF step, c
<1>7. \A n \in 1 .. Len(statuses) : n \in N /\ n # 0
  BY <1>1
<1>8. c[0] = base /\ \A n \in 1 .. Len(statuses) : c[n] = Pack(c[n - 1], statuses[n])
  BY <1>1, <1>6, <1>7
<1> QED
  BY <1>8 DEF base, c

\* All the statuses are said or in the list when they have been looked at.
LEMMA PackedIs ==
    ASSUME NEW statuses \in Seq(Symbols), Len(statuses) < RunField
    PROVE  PackInv(Packing(statuses)[Len(statuses)], statuses, Len(statuses))
<1> DEFINE c == Packing(statuses)
           S == {n \in Nat : n <= Len(statuses) => PackInv(c[n], statuses, n)}
<1>1. /\ c[0] = Pending(<<>>, <<>>) /\ Len(statuses) \in Nat
      /\ \A n \in 1 .. Len(statuses) : c[n] = Pack(c[n - 1], statuses[n])
      /\ \A n \in 1 .. Len(statuses) : statuses[n] \in Symbols
  BY PackingIs, LenProperties, ElementOfSeq
<1> HIDE DEF c
<1>2. 0 \in S
  <2> DEFINE acc == Pending(<<>>, <<>>)
  <2>0. <<>> \in Seq(Symbols) /\ <<>> \in Seq(ChunkSet) /\ Len(<<>>) = 0 /\ DOMAIN <<>> = 1 .. 0
        /\ \A i \in 1 .. 0 : FALSE
    BY EmptySeq, LenProperties
  <2>1. /\ acc \in PackAccs /\ acc.list = <<>> /\ acc.chunks = <<>>
        /\ acc.same = AllSame(<<>>) /\ acc.last = LastOf(<<>>)
    BY <2>0, PendingIs
  <2>2. acc.same /\ acc.last = NoStatus
    BY <2>0, <2>1 DEF AllSame, LastOf
  <2> HIDE DEF acc
  <2>3. SaysSoFar(acc.chunks, acc.list, statuses, 0)
    BY <2>0, <2>1, NothingRead DEF SaysSoFar
  <2>4. Kept(acc)
    BY <2>0, <2>1, <2>2 DEF Kept
  <2> QED
    BY <1>1, <2>1, <2>3, <2>4 DEF PackInv, acc
<1>3. ASSUME NEW n \in Nat, n \in S PROVE n + 1 \in S
  <2> SUFFICES ASSUME n + 1 <= Len(statuses) PROVE PackInv(c[n + 1], statuses, n + 1)
    OBVIOUS
  <2>1. /\ n + 1 \in 1 .. Len(statuses) /\ (n + 1) - 1 = n /\ n < RunField
        /\ c[n + 1] = Pack(c[n], statuses[n + 1]) /\ PackInv(c[n], statuses, n)
        /\ statuses[n + 1] \in Symbols
    <3>1. n + 1 \in 1 .. Len(statuses) /\ (n + 1) - 1 = n /\ n <= Len(statuses)
      BY <1>1
    <3>2. n < RunField
      BY <1>1, Sizes
    <3> QED
      BY <1>1, <1>3, <3>1, <3>2
  <2> QED
    BY <2>1, PackKeeps
<1>4. Len(statuses) \in S
  <2> HIDE DEF S
  <2> QED
    BY <1>1, <1>2, <1>3, NatSetInduction
<1> QED
  BY <1>1, <1>4 DEF c

\* What is left is said by one chunk more, its first symbols.
LEMMA RestSays ==
    ASSUME NEW acc \in PackAccs, Kept(acc), Len(acc.list) # 0, Len(acc.list) < RunField
    PROVE  \E chunk \in ChunkSet :
              /\ Rest(acc) = <<chunk>>
              /\ Len(Read(chunk)) \in Nat /\ Len(Read(chunk)) >= Len(acc.list)
              /\ \A i \in 1 .. Len(acc.list) : Read(chunk)[i] = acc.list[i]
<1>1. /\ acc.list \in Seq(Symbols) /\ acc.last \in 0 .. 3 /\ acc.max \in Symbols
      /\ Len(acc.list) \in Nat /\ DOMAIN acc.list = 1 .. Len(acc.list)
      /\ \A i \in 1 .. Len(acc.list) : acc.list[i] \in Symbols
      /\ acc.list # <<>>
  <2>1. acc.list \in Seq(Symbols) /\ acc.last \in 0 .. 3 /\ acc.max \in Symbols
    BY DEF PackAccs
  <2> QED
    BY <2>1, ListIs
<1>2. TwoBit \in Nat /\ OneBit \in Nat
  BY Sizes
<1>3. CASE acc.same
  <2> DEFINE chunk == RunLengthChunk(acc.last, Len(acc.list))
  <2>1. chunk \in ChunkSet /\ Read(chunk) = [i \in 1 .. Len(acc.list) |-> acc.last]
    BY <1>1, RunIs
  <2>2. Rest(acc) = <<chunk>>
    BY <1>1, <1>3 DEF Rest
  <2> HIDE DEF chunk
  <2>3. /\ Len(Read(chunk)) = Len(acc.list)
        /\ \A i \in 1 .. Len(acc.list) : Read(chunk)[i] = acc.last
    BY <1>1, <2>1
  <2> QED
    BY <1>1, <1>3, <2>1, <2>2, <2>3 DEF Kept
<1>4. CASE ~acc.same /\ acc.max = LargeDelta
  <2> DEFINE chunk == SymbolChunk(2, acc.list)
  <2>1. /\ chunk \in ChunkSet /\ Places(2) = TwoBit
        /\ Len(Read(chunk)) = Places(2)
        /\ \A i \in 1 .. Places(2) : i \in DOMAIN acc.list => Read(chunk)[i] = acc.list[i]
    BY <1>1, SymbolsAre DEF Places
  <2>2. Rest(acc) = <<chunk>>
    BY <1>1, <1>4 DEF Rest
  <2>3. Len(acc.list) <= TwoBit
    BY <1>4 DEF Kept
  <2> HIDE DEF chunk
  <2>4. \A i \in 1 .. Len(acc.list) : i \in 1 .. TwoBit
    BY <1>1, <1>2, <2>3
  <2> QED
    BY <1>1, <1>2, <2>1, <2>2, <2>3, <2>4
<1>5. CASE ~acc.same /\ acc.max # LargeDelta
  <2> DEFINE chunk == SymbolChunk(1, acc.list)
  <2>1. \A i \in DOMAIN acc.list : acc.list[i] # LargeDelta
    BY <1>1, <1>5 DEF Kept, Symbols, NotReceived, SmallDelta, LargeDelta
  <2>2. /\ chunk \in ChunkSet /\ Places(1) = OneBit
        /\ Len(Read(chunk)) = Places(1)
        /\ \A i \in 1 .. Places(1) : i \in DOMAIN acc.list => Read(chunk)[i] = acc.list[i]
    BY <1>1, <2>1, SymbolsAre DEF Places
  <2>3. Rest(acc) = <<chunk>>
    BY <1>1, <1>5 DEF Rest
  <2>4. Len(acc.list) < OneBit
    BY <1>5 DEF Kept
  <2> HIDE DEF chunk
  <2>5. (\A i \in 1 .. Len(acc.list) : i \in 1 .. OneBit) /\ Len(acc.list) <= OneBit
    BY <1>1, <1>2, <2>4
  <2> QED
    BY <1>1, <1>2, <2>2, <2>3, <2>5
<1> QED
  BY <1>3, <1>4, <1>5

LEMMA PrefixIs ==
    ASSUME NEW s \in Seq(Nat), NEW t \in Seq(Nat), Len(s) <= Len(t),
           \A i \in 1 .. Len(s) : t[i] = s[i]
    PROVE  IsPrefix(s, t)
<1>1. Len(s) \in Nat /\ Len(t) \in Nat /\ \A i \in 1 .. Len(s) : s[i] \in Nat
  BY LenProperties, ElementOfSeq
<1>2. \A i \in 1 .. Len(s) : t[i] \in Nat
  BY <1>1
<1> DEFINE a == SubSeq(s, 1, Len(s))
           b == SubSeq(t, 1, Len(s))
<1>3. /\ a \in Seq(Nat) /\ Len(a) = Len(s)
      /\ \A i \in 1 .. Len(s) : a[i] = s[i]
  <2>1. /\ a \in Seq(Nat) /\ Len(a) = IF 1 <= Len(s) THEN Len(s) - 1 + 1 ELSE 0
        /\ \A i \in 1 .. Len(s) - 1 + 1 : a[i] = s[1 + i - 1]
    BY <1>1, SubSeqProperties
  <2> HIDE DEF a
  <2> QED
    BY <1>1, <2>1
<1>4. /\ b \in Seq(Nat) /\ Len(b) = Len(s)
      /\ \A i \in 1 .. Len(s) : b[i] = t[i]
  <2>1. /\ b \in Seq(Nat) /\ Len(b) = IF 1 <= Len(s) THEN Len(s) - 1 + 1 ELSE 0
        /\ \A i \in 1 .. Len(s) - 1 + 1 : b[i] = t[1 + i - 1]
    BY <1>1, <1>2, SubSeqProperties
  <2> HIDE DEF b
  <2> QED
    BY <1>1, <2>1
<1> HIDE DEF a, b
<1>5. a = b
  BY <1>3, <1>4, SeqEqual
<1> QED
  BY <1>5 DEF IsPrefix, a, b

\* The packing of the chunks is right for any statuses fewer than a run can say, whatever
\* runs and mixed ones follow each other: what a receiver reads begins with them.
THEOREM ChunksAre ==
    ASSUME NEW statuses \in Seq(Symbols), Len(statuses) < RunField
    PROVE  IsPrefix(statuses, AllRead(Chunks(statuses)))
<1> DEFINE acc == Packing(statuses)[Len(statuses)]
           n == Len(statuses)
<1>1. PackInv(acc, statuses, n) /\ n \in Nat
  BY PackedIs, LenProperties
<1>2. Chunks(statuses) = acc.chunks \o Rest(acc)
  BY DEF Chunks
<1> HIDE DEF acc
<1>3. /\ acc \in PackAccs /\ acc.list \in Seq(Symbols) /\ acc.chunks \in Seq(ChunkSet)
      /\ Kept(acc) /\ SaysSoFar(acc.chunks, acc.list, statuses, n)
  BY <1>1 DEF PackInv, PackAccs
<1>4. PICK said, r, l : said = AllRead(acc.chunks) /\ r = Len(said) /\ l = Len(acc.list)
  OBVIOUS
<1>5. said \in Seq(Nat) /\ r \in Nat /\ l \in Nat
  BY <1>3, <1>4, AllReadIs, LenProperties
<1>6. /\ r + l = n /\ \A i \in 1 .. r : said[i] = statuses[i]
      /\ \A i \in 1 .. l : acc.list[i] = statuses[r + i]
  BY <1>3, <1>4 DEF SaysSoFar
<1>7. statuses \in Seq(Nat)
  <2>1. Symbols \subseteq Nat
    BY DEF Symbols, NotReceived, SmallDelta, LargeDelta
  <2>2. \A i \in 1 .. n : statuses[i] \in Symbols
    BY ElementOfSeq
  <2>3. statuses \in [1 .. n -> Symbols]
    BY LenProperties
  <2>4. statuses \in [1 .. n -> Nat]
    BY <2>1, <2>2, <2>3
  <2> QED
    BY <1>1, <2>4
<1>8. CASE l = 0
  <2>1. acc.list = <<>>
    BY <1>3, <1>4, <1>8, ListIs
  <2>2. acc.chunks \o <<>> = acc.chunks
    BY <1>3, ConcatEmptySeq
  <2>3. AllRead(Chunks(statuses)) = said
    BY <1>2, <1>4, <2>1, <2>2 DEF Rest
  <2>4. Len(said) = n /\ \A i \in 1 .. n : said[i] = statuses[i]
    BY <1>4, <1>5, <1>6, <1>8
  <2> QED
    BY <1>1, <1>5, <1>7, <2>3, <2>4, PrefixIs
<1>9. CASE l # 0
  <2>1. l < RunField
    <3>1. PICK f : f = RunField
      OBVIOUS
    <3>2. f \in Nat /\ n < f
      BY <3>1, Sizes
    <3> QED
      BY <1>1, <1>5, <1>6, <3>1, <3>2
  <2>2. PICK chunk \in ChunkSet :
            /\ Rest(acc) = <<chunk>>
            /\ Len(Read(chunk)) \in Nat /\ Len(Read(chunk)) >= l
            /\ \A i \in 1 .. l : Read(chunk)[i] = acc.list[i]
    BY <1>3, <1>4, <1>9, <2>1, RestSays
  <2>3. Chunks(statuses) = Append(acc.chunks, chunk)
    BY <1>2, <1>3, <2>2, AppendIsConcat
  <2>4. AllRead(Chunks(statuses)) = said \o Read(chunk)
    BY <1>3, <1>4, <2>3, AppendedIsRead
  <2> DEFINE all == said \o Read(chunk)
  <2>5. /\ all \in Seq(Nat) /\ Len(all) = r + Len(Read(chunk))
        /\ \A i \in 1 .. r + Len(Read(chunk)) :
              all[i] = IF i <= r THEN said[i] ELSE Read(chunk)[i - r]
    BY <1>4, <1>5, ReadIs, ConcatProperties
  <2> HIDE DEF all
  <2>6. n <= Len(all)
    BY <1>5, <1>6, <2>2, <2>5
  <2>7. ASSUME NEW i \in 1 .. n PROVE all[i] = statuses[i]
    <3>0. i \in 1 .. r + Len(Read(chunk))
      BY <1>1, <1>5, <1>6, <2>2
    <3>1. all[i] = IF i <= r THEN said[i] ELSE Read(chunk)[i - r]
      BY <2>5, <3>0
    <3>2. CASE i <= r
      BY <1>5, <1>6, <3>1, <3>2
    <3>3. CASE i > r
      <4>1. i - r \in 1 .. l /\ r + (i - r) = i
        BY <1>1, <1>5, <1>6, <3>3
      <4> QED
        BY <1>5, <1>6, <2>2, <3>1, <3>3, <4>1
    <3> QED
      BY <1>1, <1>5, <3>2, <3>3
  <2> QED
    BY <1>7, <2>4, <2>5, <2>6, <2>7, PrefixIs DEF all
<1> QED
  BY <1>8, <1>9

-----------------------------------------------------------------------------
(* What a report writes.                                                   *)

\* The chunks are chunks however long the runs are.
LEMMA PackingType ==
    ASSUME NEW statuses \in Seq(Symbols)
    PROVE  Packing(statuses)[Len(statuses)] \in PackAccs
<1> DEFINE c == Packing(statuses)
           S == {n \in Nat : n <= Len(statuses) => c[n] \in PackAccs}
<1>1. /\ c[0] = Pending(<<>>, <<>>) /\ Len(statuses) \in Nat
      /\ \A n \in 1 .. Len(statuses) : c[n] = Pack(c[n - 1], statuses[n])
      /\ \A n \in 1 .. Len(statuses) : statuses[n] \in Symbols
  BY PackingIs, LenProperties, ElementOfSeq
<1> HIDE DEF c
<1>2. 0 \in S
  <2>1. <<>> \in Seq(Symbols) /\ <<>> \in Seq(ChunkSet)
    BY EmptySeq
  <2> QED
    BY <1>1, <2>1, PendingIs
<1>3. ASSUME NEW n \in Nat, n \in S PROVE n + 1 \in S
  <2> SUFFICES ASSUME n + 1 <= Len(statuses) PROVE c[n + 1] \in PackAccs
    OBVIOUS
  <2>1. /\ n + 1 \in 1 .. Len(statuses) /\ (n + 1) - 1 = n /\ c[n] \in PackAccs
    BY <1>1, <1>3
  <2> QED
    BY <1>1, <2>1, PackIs
<1>4. Len(statuses) \in S
  <2> HIDE DEF S
  <2> QED
    BY <1>1, <1>2, <1>3, NatSetInduction
<1> QED
  BY <1>1, <1>4 DEF c

LEMMA ChunksType ==
    ASSUME NEW statuses \in Seq(Symbols)
    PROVE  Chunks(statuses) \in Seq(ChunkSet)
<1> DEFINE acc == Packing(statuses)[Len(statuses)]
<1>1. acc \in PackAccs /\ Chunks(statuses) = acc.chunks \o Rest(acc)
  BY PackingType DEF Chunks
<1> HIDE DEF acc
<1>2. /\ acc.list \in Seq(Symbols) /\ acc.chunks \in Seq(ChunkSet) /\ acc.last \in 0 .. 3
      /\ Len(acc.list) \in Nat
  BY <1>1, LenProperties DEF PackAccs
<1>3. /\ RunLengthChunk(acc.last, Len(acc.list)) \in ChunkSet
      /\ SymbolChunk(1, acc.list) \in ChunkSet /\ SymbolChunk(2, acc.list) \in ChunkSet
  BY <1>2, RunIs, SymbolsAre
<1>4. \A chunk \in ChunkSet : <<chunk>> \in Seq(ChunkSet)
  OBVIOUS
<1>5. Rest(acc) \in Seq(ChunkSet)
  <2>1. /\ <<>> \in Seq(ChunkSet) /\ <<RunLengthChunk(acc.last, Len(acc.list))>> \in Seq(ChunkSet)
        /\ <<SymbolChunk(1, acc.list)>> \in Seq(ChunkSet)
        /\ <<SymbolChunk(2, acc.list)>> \in Seq(ChunkSet)
    BY <1>3, <1>4, EmptySeq
  <2> QED
    BY <2>1 DEF Rest
<1> QED
  BY <1>1, <1>2, <1>5, ConcatProperties

\* A report of a packet that was received has its header.
LEMMA HeaderIs ==
    ASSUME NEW pkts \in Seq(Infos), pkt_ctn \in 0 .. CountSize - 1
    PROVE  /\ Header(pkts) \in Seq(Headers) /\ Len(Header(pkts)) \in {0, 1}
           /\ \A i \in 1 .. Len(pkts) : pkts[i].timestamp # 0 =>
                 /\ Len(Header(pkts)) = 1
                 /\ Header(pkts)[1].kind = "header"
                 /\ Header(pkts)[1].base = pkts[1].ext_tsn % Cycle
                 /\ Header(pkts)[1].count = Len(pkts) % Cycle
<1> DEFINE h == [kind |-> "header", base |-> pkts[1].ext_tsn % Cycle,
                 count |-> Len(pkts) % Cycle, nth |-> pkt_ctn]
<1>1. DOMAIN pkts = 1 .. Len(pkts) /\ Len(pkts) \in Nat
  BY InfosOf
<1>2. CASE \E i \in DOMAIN pkts : pkts[i].timestamp # 0
  <2>1. pkts[1].ext_tsn \in Int
    BY <1>1, <1>2, InfosOf
  <2>2. pkts[1].ext_tsn % Cycle \in 0 .. Cycle - 1 /\ Len(pkts) % Cycle \in 0 .. Cycle - 1
    <3>1. \A x \in Int : x % Cycle \in 0 .. Cycle - 1
      BY CycleOf
    <3>2. Len(pkts) \in Int
      BY <1>1
    <3> QED
      BY <2>1, <3>1, <3>2
  <2>3. h \in Headers
    BY <2>2 DEF Headers
  <2>4. h.kind = "header" /\ h.base = pkts[1].ext_tsn % Cycle /\ h.count = Len(pkts) % Cycle
    OBVIOUS
  <2>5. Header(pkts) = <<h>>
    BY <1>2 DEF Header
  <2> HIDE DEF h
  <2>6. <<h>> \in Seq(Headers) /\ Len(<<h>>) = 1 /\ <<h>>[1] = h
    BY <2>3
  <2> QED
    BY <2>4, <2>5, <2>6
<1>3. CASE ~\E i \in DOMAIN pkts : pkts[i].timestamp # 0
  <2>1. Header(pkts) = <<>>
    BY <1>3 DEF Header
  <2>2. <<>> \in Seq(Headers) /\ Len(<<>>) = 0
    BY EmptySeq
  <2> QED
    BY <1>1, <1>3, <2>1, <2>2
<1> QED
  BY <1>2, <1>3

LEMMA LenIs ==
    ASSUME NEW chunks, NEW n \in Nat, len \in Nat
    PROVE  LenAfter(chunks, n) \in Nat
<1> DEFINE I == {i \in 1 .. n : chunks[i].kind = "symbols"}
<1>1. IsFiniteSet(1 .. n)
  BY FS_Interval
<1>2. IsFiniteSet(I)
  BY <1>1, FS_Subset
<1>3. Cardinality(I) \in Nat
  BY <1>2, FS_CardinalityType
<1>4. LenAfter(chunks, n) = len + 2 * Cardinality(I)
  BY DEF LenAfter
<1> HIDE DEF I
<1> QED
  BY <1>3, <1>4

\* The remainder of what a counter came to.
LEMMA Wraps ==
    ASSUME NEW size \in Nat \ {0}, NEW x \in Nat
    PROVE  x % size \in 0 .. size - 1
OBVIOUS

LEMMA Counters ==
    /\ CountSize \in Nat \ {0} /\ LenSize \in Nat \ {0}
BY TwccAssumption

-----------------------------------------------------------------------------
(* What stands in the payload stays there.                                 *)

Written == Headers \cup ChunkSet

\* The chunks of a report are within the payload, behind its header if it has one.
Placed(p, r) ==
    /\ r.from \in Nat \ {0} /\ r.to \in Nat /\ r.from <= r.to + 1 /\ r.to <= Len(p)
    /\ Received(r.statuses) => r.from # 1

Says(p, r) ==
    /\ IsPrefix(r.statuses, AllRead(SubSeq(p, r.from, r.to)))
    /\ Received(r.statuses) =>
           /\ p[r.from - 1].kind = "header"
           /\ p[r.from - 1].base = r.pkts[1].ext_tsn % Cycle
           /\ p[r.from - 1].count = Len(r.statuses) % Cycle

LEMMA SaysStill ==
    ASSUME NEW p \in Seq(Written), NEW more \in Seq(Written), NEW r, Placed(p, r)
    PROVE  /\ Placed(p \o more, r)
           /\ Says(p, r) => Says(p \o more, r)
<1> DEFINE q == p \o more
<1>1. /\ q \in Seq(Written) /\ Len(q) = Len(p) + Len(more)
      /\ Len(p) \in Nat /\ Len(more) \in Nat
      /\ \A i \in 1 .. Len(p) + Len(more) : q[i] = IF i <= Len(p) THEN p[i] ELSE more[i - Len(p)]
  BY ConcatProperties, LenProperties
<1>2. /\ r.from \in Nat \ {0} /\ r.to \in Nat /\ r.from <= r.to + 1 /\ r.to <= Len(p)
      /\ Received(r.statuses) => r.from # 1
  BY DEF Placed
<1>3. SubSeq(q, r.from, r.to) = SubSeq(p, r.from, r.to)
  <2>1. CASE r.from = r.to + 1
    BY <1>2, <2>1, SubSeqEmpty
  <2>2. CASE r.from # r.to + 1
    <3>1. r.from \in 1 .. Len(p) /\ r.to \in 1 .. Len(p)
      BY <1>1, <1>2, <2>2
    <3> QED
      BY <3>1, SubSeqOfConcat1
  <2> QED
    BY <2>1, <2>2
<1>4. Received(r.statuses) => q[r.from - 1] = p[r.from - 1]
  <2> SUFFICES ASSUME Received(r.statuses) PROVE q[r.from - 1] = p[r.from - 1]
    OBVIOUS
  <2>1. r.from - 1 \in 1 .. Len(p) /\ r.from - 1 \in 1 .. Len(p) + Len(more)
    BY <1>1, <1>2
  <2> QED
    BY <1>1, <2>1
<1>5. r.to <= Len(q)
  BY <1>1, <1>2
<1> HIDE DEF q
<1>6. Placed(q, r)
  BY <1>2, <1>5 DEF Placed
<1>7. Says(p, r) => Says(q, r)
  BY <1>3, <1>4 DEF Says
<1> QED
  BY <1>6, <1>7 DEF q

\* What is written piece by piece is written as a whole.
LEMMA Joined ==
    ASSUME NEW p \in Seq(Written), NEW h \in Seq(Written), NEW c \in Seq(Written)
    PROVE  /\ p \o h \o c = p \o (h \o c) /\ h \o c \in Seq(Written) /\ p \o h \in Seq(Written)
           /\ p \o h \o c \in Seq(Written) /\ Len(p \o h \o c) = Len(p) + Len(h) + Len(c)
           /\ Len(p) \in Nat /\ Len(h) \in Nat /\ Len(c) \in Nat
<1>1. p \o h \o c = p \o (h \o c)
  BY ConcatAssociative
<1>2. p \o h \in Seq(Written) /\ h \o c \in Seq(Written) /\ Len(p \o h) = Len(p) + Len(h)
  BY ConcatProperties
<1>3. p \o h \o c \in Seq(Written) /\ Len(p \o h \o c) = Len(p \o h) + Len(c)
  BY <1>2, ConcatProperties
<1> QED
  BY <1>1, <1>2, <1>3, LenProperties

LEMMA JoinedToWritten ==
    \A p, h, c \in Seq(Written) : p \o h \o c = p \o (h \o c) /\ h \o c \in Seq(Written)
BY Joined

\* The end of a sequence is the last that was appended, behind the last of what was before.
LEMMA EndOf ==
    ASSUME NEW S, NEW s \in Seq(S), NEW t \in Seq(S)
    PROVE  /\ SubSeq(s \o t, Len(s) + 1, Len(s) + Len(t)) = t
           /\ s # <<>> => (s \o t)[Len(s)] = s[Len(s)]
<1>1. /\ Len(s) \in Nat /\ Len(t) \in Nat
      /\ \A i \in 1 .. Len(s) + Len(t) : (s \o t)[i] = IF i <= Len(s) THEN s[i] ELSE t[i - Len(s)]
  BY ConcatProperties, LenProperties
<1>2. CASE Len(t) = 0
  <2>1. t = <<>>
    BY <1>2, EmptySeq
  <2>2. Len(s) + 1 \in Int /\ Len(s) + Len(t) \in Int /\ Len(s) + Len(t) < Len(s) + 1
    BY <1>1, <1>2
  <2>3. SubSeq(s \o t, Len(s) + 1, Len(s) + Len(t)) = <<>>
    BY <2>2, SubSeqEmpty
  <2> QED
    BY <2>1, <2>3
<1>3. CASE Len(t) # 0
  <2>1. /\ Len(s) + 1 \in Len(s) + 1 .. Len(s) + Len(t)
        /\ Len(s) + Len(t) \in Len(s) + 1 .. Len(s) + Len(t)
        /\ (Len(s) + 1) - Len(s) = 1 /\ (Len(s) + Len(t)) - Len(s) = Len(t)
    BY <1>1, <1>3
  <2>2. \A m, n \in Len(s) + 1 .. Len(s) + Len(t) :
            SubSeq(s \o t, m, n) = SubSeq(t, m - Len(s), n - Len(s))
    BY SubSeqOfConcat2
  <2>3. SubSeq(s \o t, Len(s) + 1, Len(s) + Len(t)) = SubSeq(t, 1, Len(t))
    BY <2>1, <2>2
  <2> QED
    BY <2>3, SubSeqFull
<1>4. ASSUME s # <<>> PROVE (s \o t)[Len(s)] = s[Len(s)]
  <2>1. Len(s) \in 1 .. Len(s) + Len(t) /\ Len(s) <= Len(s)
    BY <1>1, <1>4, EmptySeq
  <2> QED
    BY <1>1, <2>1
<1> QED
  BY <1>1, <1>2, <1>3, <1>4

\* Where the header and the chunks of a new report are.
LEMMA WrittenAt ==
    ASSUME NEW p \in Seq(Written), NEW h \in Seq(Written), NEW c \in Seq(Written)
    PROVE  LET q      == p \o h \o c
               before == Len(p) + Len(h)
           IN  /\ q \in Seq(Written) /\ before \in Nat /\ Len(q) = before + Len(c)
               /\ SubSeq(q, before + 1, before + Len(c)) = c
               /\ Len(h) = 1 => q[before] = h[1]
<1>1. /\ p \o h \in Seq(Written) /\ Len(p \o h) = Len(p) + Len(h)
      /\ Len(p) \in Nat /\ Len(h) \in Nat /\ Len(c) \in Nat
  BY ConcatProperties, LenProperties
<1>2. /\ p \o h \o c \in Seq(Written) /\ Len(p \o h \o c) = Len(p) + Len(h) + Len(c)
  BY Joined
<1>3. /\ SubSeq(p \o h \o c, Len(p) + Len(h) + 1, Len(p) + Len(h) + Len(c)) = c
      /\ p \o h # <<>> => (p \o h \o c)[Len(p) + Len(h)] = (p \o h)[Len(p) + Len(h)]
  BY <1>1, EndOf
<1>4. ASSUME Len(h) = 1 PROVE (p \o h)[Len(p) + 1] = h[1] /\ p \o h # <<>>
  <2>1. \A i \in 1 .. Len(p) + Len(h) : (p \o h)[i] = IF i <= Len(p) THEN p[i] ELSE h[i - Len(p)]
    BY ConcatProperties
  <2>2. Len(p) + 1 \in 1 .. Len(p) + Len(h) /\ ~(Len(p) + 1 <= Len(p)) /\ (Len(p) + 1) - Len(p) = 1
    BY <1>1, <1>4
  <2>3. Len(p \o h) # 0
    BY <1>1, <1>4
  <2> QED
    BY <2>1, <2>2, <2>3, EmptySeq
<1> QED
  BY <1>1, <1>2, <1>3, <1>4

LEMMA WrittenAtAny ==
    \A p, h, c \in Seq(Written) :
        LET q      == p \o h \o c
            before == Len(p) + Len(h)
        IN  /\ q \in Seq(Written) /\ before \in Nat /\ Len(q) = before + Len(c)
            /\ SubSeq(q, before + 1, before + Len(c)) = c
            /\ Len(h) = 1 => q[before] = h[1]
BY WrittenAt

-----------------------------------------------------------------------------
(* The inductive invariant of both operations.                             *)

\* What was noted since the last report is what came, no further ahead of what was
\* reported than the packets noted can be.
Noted ==
    /\ \A i \in DOMAIN ext_info : /\ ext_info[i].ext_tsn \in arrived
                                  /\ ext_info[i].ext_tsn <= newest
    /\ ~repeated => Distinct(ext_info)
    /\ pushes # 0 => \/ newest <= last_ext_sn
                     \/ \E i \in DOMAIN ext_info : ext_info[i].ext_tsn = newest
    /\ last_ext_sn # 0 => newest - last_ext_sn <= MaxLead * Len(ext_info)

TwccInv ==
    /\ CycleInv
    /\ TypeOK
    /\ Len(ext_info) <= MaxPending
    /\ pushes = 0 => ext_info = <<>> /\ last_ext_sn = 0
    /\ straddles = 0 => Noted
    /\ \A i \in DOMAIN reports : Placed(payload, reports[i])
    /\ PayloadSaysTheReports
    /\ NoLossIsHidden

\* A multiple stays one.
LEMMA NextCycle ==
    ASSUME NEW x \in Nat, x % Cycle = 0
    PROVE  (x + Cycle) % Cycle = 0
<1> DEFINE y == x + Cycle
<1>a. x \in Int /\ y \in Int
  BY Widths
<1> HIDE DEF y
<1>b. PICK c, q, p, r : c = Cycle /\ q = x \div Cycle /\ p = y \div Cycle /\ r = y % Cycle
  OBVIOUS
<1>c. q \in Int /\ x = Cycle * q + (x % Cycle)
  BY <1>a, <1>b, CycleOf
<1>d. p \in Int /\ r \in 0 .. Cycle - 1 /\ y = Cycle * p + r
  BY <1>a, <1>b, CycleOf
<1>e. y = x + c /\ x % Cycle = 0
  BY <1>b DEF y
<1>1. /\ c \in Nat \ {0} /\ q \in Int /\ p \in Int /\ r \in 0 .. c - 1
      /\ x = c * q /\ x + c = c * p + r
  BY <1>b, <1>c, <1>d, <1>e, Widths
<1>2. c * (p - q - 1) = c * p - c * q - c
  BY <1>1
<1>3. PICK cp \in Int, cq \in Int : cp = c * p /\ cq = c * q
  BY <1>1
<1>4. c * (p - q - 1) = -r
  BY <1>1, <1>2, <1>3
<1>5. PICK d \in Int : d = p - q - 1
  BY <1>1
<1>6. c * d = -r /\ -2 * c < c * d /\ c * d < 2 * c
  BY <1>1, <1>4, <1>5
<1>7. d \in {-1, 0, 1}
  BY <1>1, <1>6, NextMultiples
<1>8. d = 0
  <2>1. d # 1
    <3> SUFFICES ASSUME d = 1 PROVE FALSE
      OBVIOUS
    <3>1. c * d = c
      BY <1>1
    <3> QED
      BY <1>1, <1>6, <3>1
  <2>2. d # -1
    <3> SUFFICES ASSUME d = -1 PROVE FALSE
      OBVIOUS
    <3>1. c * d = -c
      BY <1>1
    <3> QED
      BY <1>1, <1>6, <3>1
  <2> QED
    BY <1>7, <2>1, <2>2
<1>9. r = 0
  BY <1>1, <1>6, <1>8
<1> QED
  BY <1>b, <1>9 DEF y

LEMMA LeadIs ==
    /\ \A n \in Nat : MaxLead * n \in Nat /\ MaxLead * (n + 1) = MaxLead * n + MaxLead
    /\ \A n \in Nat : n <= MaxPending => n + MaxLead * n < RunField
<1>1. PICK lead, pending, run : lead = MaxLead /\ pending = MaxPending /\ run = RunField
  OBVIOUS
<1>2. lead \in Nat /\ pending \in Nat /\ run \in Nat /\ pending * (lead + 1) < run
  BY <1>1, Widths, Sizes, RunAssumption
<1>3. \A n \in Nat : lead * n \in Nat /\ lead * (n + 1) = lead * n + lead
  BY <1>2
<1>4. ASSUME NEW n \in Nat, n <= pending PROVE n + lead * n < run
  <2>1. PICK d \in Nat : pending = n + d
    <3>1. pending - n \in Nat /\ pending = n + (pending - n)
      BY <1>2, <1>4
    <3> QED
      BY <3>1
  <2>2. pending * (lead + 1) = n * (lead + 1) + d * (lead + 1)
    BY <1>2, <2>1
  <2>3. n * (lead + 1) = n + lead * n /\ d * (lead + 1) \in Nat
    BY <1>2, <2>1
  <2> QED
    BY <1>2, <2>2, <2>3
<1> QED
  BY <1>1, <1>3, <1>4

LEMMA TwccInit == Init => TwccInv
<1> SUFFICES ASSUME Init PROVE TwccInv
  OBVIOUS
<1>1. CycleInv
  BY CycleInit
<1>2. /\ <<>> \in Seq(Infos) /\ <<>> \in Seq(Symbols) /\ <<>> \in Seq(Nat)
      /\ Len(<<>>) = 0 /\ DOMAIN <<>> = 1 .. 0 /\ \A i \in 1 .. 0 : FALSE
  BY EmptySeq, LenProperties
<1>3. /\ ext_info = <<>> /\ last_ext_sn = 0 /\ cycles = 0 /\ last_sn = 0 /\ pushes = 0
      /\ build \in Builds /\ payload = <<>> /\ pkt_ctn = 0 /\ len = 0 /\ reports = <<>>
  BY DEF Init
<1>4. 0 % Cycle = 0 /\ 0 \in 0 .. Cycle - 1 /\ 0 <= MaxPending
  BY Widths
<1>5. TypeOK
  <2>1. <<>> \in Seq(Written) /\ <<>> \in Seq(Reports)
    BY EmptySeq
  <2> QED
    BY <1>2, <1>3, <1>4, <2>1, Counters DEF TypeOK, Written
<1>6. Noted
  BY <1>2, <1>3 DEF Noted, Distinct
<1>7. PayloadSaysTheReports /\ \A i \in DOMAIN reports : Placed(payload, reports[i])
  BY <1>2, <1>3 DEF PayloadSaysTheReports
<1>8. NoLossIsHidden
  BY <1>2, <1>3 DEF NoLossIsHidden
<1> QED
  BY <1>1, <1>2, <1>3, <1>4, <1>5, <1>6, <1>7, <1>8 DEF TwccInv

LEMMA PushKeeps ==
    ASSUME TwccInv, CycleInv', NEW place \in Window, NEW time \in Times, Push(place, time)
    PROVE  TwccInv'
<1> DEFINE sn == place % Cycle
           info == [ext_tsn |-> cycles' + sn, timestamp |-> time]
           noted == Len(ext_info)
<1>1. /\ CycleInv /\ TypeOK /\ noted <= MaxPending
      /\ pushes = 0 => ext_info = <<>> /\ last_ext_sn = 0
      /\ straddles = 0 => Noted
      /\ \A i \in DOMAIN reports : Placed(payload, reports[i])
      /\ PayloadSaysTheReports /\ NoLossIsHidden
  BY DEF TwccInv
<1>2. /\ noted < MaxPending /\ cycles' = Counted(sn)
      /\ ext_info' = Append(ext_info, info) /\ last_sn' = sn
      /\ straddles' = straddles + (IF place \div Cycle < last \div Cycle THEN 1 ELSE 0)
      /\ last' = place /\ newest' = Larger(newest, place)
      /\ repeated' = (repeated \/ place \in arrived)
      /\ arrived' = arrived \cup {place} /\ pushes' = pushes + 1
      /\ last_ext_sn' = last_ext_sn /\ build' = build /\ payload' = payload
      /\ pkt_ctn' = pkt_ctn /\ len' = len /\ reports' = reports
  BY DEF Push
<1>3. /\ cycles \in Nat /\ newest \in Int /\ straddles \in Nat /\ pushes \in Nat
      /\ pushes = 0 => newest = First
      /\ cycles' \in Nat /\ last_ext_sn \in Nat
      /\ CyclesAreOffByTheStraddles'
  BY <1>1 DEF CycleInv, TypeOK
<1>4. place \in Int /\ sn \in 0 .. Cycle - 1 /\ sn \in Nat
  <2>1. place \in Int
    BY <1>3, Widths, TwccAssumption DEF Window
  <2>2. sn \in 0 .. Cycle - 1
    BY <2>1, CycleOf
  <2> HIDE DEF sn
  <2> QED
    BY <2>1, <2>2, Widths
<1>5. info \in Infos
  BY <1>3, <1>4 DEF Infos
<1>6. /\ ext_info \in Seq(Infos) /\ noted \in Nat /\ DOMAIN ext_info = 1 .. noted
      /\ ext_info' \in Seq(Infos) /\ Len(ext_info') = noted + 1 /\ DOMAIN ext_info' = 1 .. noted + 1
      /\ \A i \in 1 .. noted : ext_info'[i] = ext_info[i]
      /\ ext_info'[noted + 1] = info
  <2>1. ext_info \in Seq(Infos)
    BY <1>1 DEF TypeOK
  <2> HIDE DEF info
  <2> QED
    BY <1>2, <1>5, <2>1, AppendFacts
<1>7. straddles' = 0 => straddles = 0 /\ info.ext_tsn = place
  <2> SUFFICES ASSUME straddles' = 0 PROVE straddles = 0 /\ cycles' + sn = place
    OBVIOUS
  <2>1. straddles = 0
    BY <1>2, <1>3
  <2>2. /\ place \div Cycle \in Int /\ sn \in Int
        /\ place = Cycle * (place \div Cycle) + sn
    BY <1>4, CycleOf
  <2>3. cycles' = ((place \div Cycle) + 0) * Cycle
    BY <1>2, <1>3 DEF CyclesAreOffByTheStraddles
  <2>4. PICK c, q : c = Cycle /\ q = place \div Cycle
    OBVIOUS
  <2>5. c \in Nat /\ q \in Int /\ place = c * q + sn /\ cycles' = (q + 0) * c
    BY <2>2, <2>3, <2>4, Widths
  <2>6. (q + 0) * c = c * q
    BY <2>5
  <2> HIDE DEF sn
  <2> QED
    BY <2>1, <2>2, <2>5, <2>6
<1> HIDE DEF sn, info, noted
<1>8. \A i \in 1 .. noted + 1 : i = noted + 1 \/ i \in 1 .. noted
  BY <1>6
<1>9. TypeOK'
  <2>1. cycles' % Cycle = 0
    BY <1>1, <1>2, <1>3, NextCycle DEF TypeOK, Counted
  <2> QED
    BY <1>1, <1>2, <1>3, <1>4, <1>6, <2>1 DEF TypeOK
<1>10. Len(ext_info') <= MaxPending /\ pushes' # 0
  BY <1>2, <1>3, <1>6, Widths
<1>11. ASSUME straddles' = 0 PROVE Noted'
  <2>1. Noted /\ info.ext_tsn = place
    BY <1>1, <1>7, <1>11
  <2>2. newest' \in Int /\ newest <= newest' /\ place <= newest'
        /\ (newest' = place \/ (newest' = newest /\ pushes # 0))
    BY <1>2, <1>3, <1>4 DEF Larger, Window
  <2>3. ASSUME NEW i \in 1 .. noted + 1
        PROVE  ext_info'[i].ext_tsn \in arrived' /\ ext_info'[i].ext_tsn <= newest'
    <3>1. CASE i = noted + 1
      BY <1>2, <1>6, <2>1, <2>2, <3>1
    <3>2. CASE i \in 1 .. noted
      <4>1. /\ ext_info'[i] = ext_info[i] /\ ext_info[i].ext_tsn \in arrived
            /\ ext_info[i].ext_tsn <= newest /\ ext_info[i].ext_tsn \in Nat
        BY <1>6, <2>1, <3>2, InfosOf DEF Noted
      <4> QED
        BY <1>2, <1>3, <2>2, <4>1
    <3> QED
      BY <1>8, <3>1, <3>2
  <2>4. ASSUME ~repeated' PROVE Distinct(ext_info)'
    <3>1. Distinct(ext_info) /\ place \notin arrived
      BY <1>2, <2>1, <2>4 DEF Noted
    <3>2. \A i \in 1 .. noted : ext_info[i].ext_tsn # place
      BY <1>6, <2>1, <3>1 DEF Noted
    <3> SUFFICES ASSUME NEW i \in 1 .. noted + 1, NEW j \in 1 .. noted + 1, i # j
                 PROVE  ext_info'[i].ext_tsn # ext_info'[j].ext_tsn
      BY <1>6 DEF Distinct
    <3>3. CASE i \in 1 .. noted /\ j \in 1 .. noted
      BY <1>6, <3>1, <3>3 DEF Distinct
    <3>4. CASE i \in 1 .. noted /\ j = noted + 1
      BY <1>6, <2>1, <3>2, <3>4
    <3>5. CASE i = noted + 1 /\ j \in 1 .. noted
      BY <1>6, <2>1, <3>2, <3>5
    <3> QED
      BY <1>8, <3>3, <3>4, <3>5
  <2>5. newest' <= last_ext_sn' \/ \E i \in DOMAIN ext_info' : ext_info'[i].ext_tsn = newest'
    <3>1. CASE newest' = place
      <4>1. noted + 1 \in 1 .. noted + 1
        BY <1>6
      <4> QED
        BY <1>6, <2>1, <3>1, <4>1
    <3>2. CASE newest' = newest /\ pushes # 0
      <4>1. CASE newest <= last_ext_sn
        BY <1>2, <3>2, <4>1
      <4>2. ASSUME NEW i \in DOMAIN ext_info, ext_info[i].ext_tsn = newest
            PROVE  i \in DOMAIN ext_info' /\ ext_info'[i].ext_tsn = newest'
        BY <1>6, <3>2, <4>2
      <4> QED
        BY <2>1, <3>2, <4>1, <4>2 DEF Noted
    <3> QED
      BY <2>2, <3>1, <3>2
  <2>6. ASSUME last_ext_sn' # 0 PROVE newest' - last_ext_sn' <= MaxLead * Len(ext_info')
    <3>1. last_ext_sn # 0 /\ pushes # 0 /\ newest - last_ext_sn <= MaxLead * noted
      BY <1>1, <1>2, <2>1, <2>6 DEF Noted, noted
    <3>2. newest' <= newest + MaxLead
      <4>1. place \in newest - MaxLag .. newest + MaxLead
        BY <3>1 DEF Window
      <4> QED
        BY <1>2, <1>3, <4>1, Widths DEF Larger
    <3>3. PICK p \in Nat : p = MaxLead * noted /\ MaxLead * (noted + 1) = p + MaxLead
      BY <1>6, LeadIs
    <3>4. newest' - last_ext_sn <= p + MaxLead
      BY <1>3, <2>2, <3>1, <3>2, <3>3, Widths
    <3> QED
      BY <1>2, <1>6, <3>3, <3>4
  <2> QED
    BY <1>6, <2>3, <2>4, <2>5, <2>6 DEF Noted
<1>12. /\ PayloadSaysTheReports' /\ NoLossIsHidden'
       /\ (\A i \in DOMAIN reports : Placed(payload, reports[i]))'
  <2>1. straddles' = 0 => straddles = 0
    BY <1>2, <1>3
  <2>2. arrived \subseteq arrived' /\ (~repeated' => ~repeated)
    BY <1>2
  <2> QED
    BY <1>1, <1>2, <2>1, <2>2 DEF PayloadSaysTheReports, NoLossIsHidden
<1> QED
  BY <1>9, <1>10, <1>11, <1>12 DEF TwccInv

\* The report goes up to the newest noted, and never back.
LEMMA CollectedLast ==
    ASSUME TwccInv, ext_info # <<>>, NEW s \in Sortings
    PROVE  /\ s \in Seq(Infos) /\ s # <<>> /\ Collected(s) \in Accs
           /\ \/ GatheredNone(s, Len(s), Collected(s)) \/ Gathered(s, Len(s), Collected(s))
           /\ Collected(s).last >= last_ext_sn
           /\ \A i \in DOMAIN ext_info : ext_info[i].ext_tsn <= Collected(s).last
<1> DEFINE c == Collected(s)
<1>1. ext_info \in Seq(Infos) /\ last_ext_sn \in Nat
  BY DEF TwccInv, TypeOK
<1>2. /\ s \in Seq(Infos) /\ NewestFirst(s) /\ s # <<>> /\ 1 \in DOMAIN s
      /\ \A i \in DOMAIN ext_info : ext_info[i].ext_tsn <= s[1].ext_tsn
  BY <1>1, SortingIs, NewestIsFirst
<1>3. c \in Accs /\ (GatheredNone(s, Len(s), c) \/ Gathered(s, Len(s), c))
  BY <1>1, <1>2, CollectedIs
<1> HIDE DEF c
<1>4. /\ \A i \in DOMAIN ext_info : ext_info[i].ext_tsn \in Nat
      /\ s[1].ext_tsn \in Nat /\ DOMAIN s = 1 .. Len(s)
  BY <1>1, <1>2, InfosOf
<1>5. CASE GatheredNone(s, Len(s), c)
  <2>1. c.last = last_ext_sn /\ s[1].ext_tsn < last_ext_sn
    BY <1>2, <1>4, <1>5 DEF GatheredNone
  <2>2. \A i \in DOMAIN ext_info : ext_info[i].ext_tsn <= c.last
    BY <1>1, <1>2, <1>4, <2>1
  <2> QED
    BY <1>1, <1>2, <1>3, <2>1, <2>2 DEF c
<1>6. CASE Gathered(s, Len(s), c)
  <2>1. c.last = s[1].ext_tsn /\ c.last >= last_ext_sn
    BY <1>6 DEF Gathered
  <2> QED
    BY <1>2, <1>3, <2>1 DEF c
<1> QED
  BY <1>3, <1>5, <1>6

\* A report of fewer numbers than a run can say, unless a cycle was miscounted.
LEMMA CollectedLen ==
    ASSUME TwccInv, straddles = 0, ext_info # <<>>, NEW s \in Sortings
    PROVE  Len(Collected(s).pkts) < RunField
<1> DEFINE c == Collected(s)
<1>1. /\ ext_info \in Seq(Infos) /\ last_ext_sn \in Nat /\ Noted
      /\ Len(ext_info) <= MaxPending /\ newest \in Int
  BY DEF TwccInv, TypeOK, CycleInv
<1>2. /\ s \in Seq(Infos) /\ s # <<>> /\ c \in Accs
      /\ \/ GatheredNone(s, Len(s), c) \/ Gathered(s, Len(s), c)
  BY CollectedLast
<1>3. /\ Len(s) = Len(ext_info) /\ Len(s) \in Nat \ {0}
      /\ \A i \in DOMAIN s : \E j \in DOMAIN ext_info : s[i] = ext_info[j]
      /\ 1 \in DOMAIN s /\ s[1].ext_tsn \in Nat
  BY <1>1, <1>2, SortingIs, InfosOf
<1> HIDE DEF c
<1>4. s[1].ext_tsn <= newest
  BY <1>1, <1>3 DEF Noted
<1>5. Len(s) + MaxLead * Len(s) < RunField /\ MaxLead * Len(s) \in Nat /\ RunField \in Nat \ {0}
  BY <1>1, <1>3, LeadIs, Sizes
<1>6. CASE GatheredNone(s, Len(s), c)
  <2>1. Len(c.pkts) = 0
    BY <1>6, EmptySeq DEF GatheredNone
  <2> QED
    BY <1>5, <2>1 DEF c
<1>7. CASE Gathered(s, Len(s), c)
  <2> DEFINE m == MissingBefore(s[1].ext_tsn)
  <2>1. PICK k \in 1 .. Len(s) : Len(c.pkts) = m + k
    BY <1>7 DEF Gathered
  <2>2. PICK p, n, r : p = MaxLead * Len(s) /\ n = Len(s) /\ r = RunField
    OBVIOUS
  <2>3. p \in Nat /\ n \in Nat /\ r \in Nat /\ n + p < r /\ k \in 1 .. n
    BY <1>3, <1>5, <2>2
  <2>4. m \in Nat /\ m <= p
    <3>1. CASE last_ext_sn = 0
      BY <2>3, <3>1 DEF MissingBefore
    <3>2. CASE last_ext_sn # 0
      <4>1. newest - last_ext_sn <= p
        BY <1>1, <1>3, <2>2, <3>2 DEF Noted
      <4>2. m = Larger(0, s[1].ext_tsn - last_ext_sn - 1)
        BY <3>2 DEF MissingBefore
      <4>3. PICK to, from, new : to = s[1].ext_tsn /\ from = last_ext_sn /\ new = newest
        OBVIOUS
      <4>4. /\ to \in Nat /\ from \in Nat /\ new \in Int /\ to <= new /\ new - from <= p
            /\ m = Larger(0, to - from - 1)
        BY <1>1, <1>3, <1>4, <4>1, <4>2, <4>3
      <4> HIDE DEF m
      <4> QED
        BY <2>3, <4>4 DEF Larger
    <3> QED
      BY <3>1, <3>2
  <2> HIDE DEF m
  <2>5. m + k < r
    BY <2>3, <2>4
  <2> QED
    BY <2>1, <2>2, <2>5 DEF c
<1> QED
  BY <1>2, <1>6, <1>7

\* What the packets of a report are: the numbers that did not come, in order, then the
\* newest, once for each time it came.
ReportIs(pkts, to, m, k) ==
    /\ Len(pkts) = m + k /\ k >= 1
    /\ \A i \in 1 .. m : pkts[i].ext_tsn = last_ext_sn + i /\ pkts[i].timestamp = 0
    /\ \A i \in m + 1 .. m + k : pkts[i].ext_tsn = to

LEMMA CollectedReport ==
    ASSUME TwccInv, ext_info # <<>>, NEW s \in Sortings,
           Gathered(s, Len(s), Collected(s))
    PROVE  \E k \in Nat :
              /\ ReportIs(Collected(s).pkts, Collected(s).last,
                          MissingBefore(Collected(s).last), k)
              /\ Distinct(ext_info) => k = 1
<1> DEFINE c == Collected(s)
           m == MissingBefore(c.last)
<1>1. /\ ext_info \in Seq(Infos) /\ last_ext_sn \in Nat
  BY DEF TwccInv, TypeOK
<1>2. s \in Seq(Infos) /\ s # <<>> /\ c \in Accs
  BY CollectedLast
<1>3. /\ Len(s) \in Nat \ {0} /\ DOMAIN s = 1 .. Len(s)
      /\ Distinct(ext_info) => Distinct(s)
  BY <1>1, <1>2, SortingIs, InfosOf
<1>4. Gathered(s, Len(s), c)
  OBVIOUS
<1> HIDE DEF c
<1>5. c.last = s[1].ext_tsn /\ c.last \in Nat /\ m \in Nat /\ m = MissingBefore(s[1].ext_tsn)
  <2>1. c.last = s[1].ext_tsn
    BY <1>4 DEF Gathered
  <2>2. c.last \in Nat
    BY <1>2 DEF Accs
  <2>3. m \in Nat
    BY <1>1, <2>2 DEF MissingBefore, Larger
  <2> HIDE DEF m
  <2> QED
    BY <2>1, <2>2, <2>3 DEF m
<1> HIDE DEF m
<1>6. PICK k \in 1 .. Len(s) :
          /\ Len(c.pkts) = m + k
          /\ \A i \in 1 .. m : c.pkts[i] = [ext_tsn |-> last_ext_sn + i, timestamp |-> 0]
          /\ \A i \in 1 .. k : c.pkts[m + i] = s[i] /\ s[i].ext_tsn = c.last
  <2>1. \E k \in 1 .. Len(s) :
          /\ Len(c.pkts) = MissingBefore(s[1].ext_tsn) + k
          /\ \A i \in 1 .. MissingBefore(s[1].ext_tsn) :
                c.pkts[i] = [ext_tsn |-> last_ext_sn + i, timestamp |-> 0]
          /\ \A i \in 1 .. k : /\ c.pkts[MissingBefore(s[1].ext_tsn) + i] = s[i]
                               /\ s[i].ext_tsn = c.last
    BY <1>4 DEF Gathered
  <2> QED
    BY <1>5, <2>1
<1>7. ASSUME NEW i \in m + 1 .. m + k PROVE c.pkts[i].ext_tsn = c.last
  <2>1. i - m \in 1 .. k /\ m + (i - m) = i
    BY <1>5
  <2> QED
    BY <1>6, <2>1
<1>8. ASSUME NEW i \in 1 .. m
      PROVE  c.pkts[i].ext_tsn = last_ext_sn + i /\ c.pkts[i].timestamp = 0
  <2>1. c.pkts[i] = [ext_tsn |-> last_ext_sn + i, timestamp |-> 0]
    BY <1>6
  <2> QED
    BY <2>1
<1>9. Distinct(ext_info) => k = 1
  <2> SUFFICES ASSUME Distinct(s), k >= 2 PROVE FALSE
    BY <1>3
  <2>1. 1 \in DOMAIN s /\ 2 \in DOMAIN s /\ 1 \in 1 .. k /\ 2 \in 1 .. k
    BY <1>3
  <2>2. s[1].ext_tsn = s[2].ext_tsn
    BY <1>6, <2>1
  <2> QED
    BY <2>1, <2>2 DEF Distinct
<1>10. k \in Nat /\ k >= 1
  BY <1>3
<1> QED
  BY <1>6, <1>7, <1>8, <1>9, <1>10 DEF ReportIs, c, m

\* Which of them have a status other than that of a lost one.
LEMMA CollectedArrived ==
    ASSUME TwccInv, straddles = 0, ~repeated, ext_info # <<>>, NEW s \in Sortings,
           NEW i \in 1 .. Len(Collected(s).pkts), Collected(s).pkts[i].timestamp # 0
    PROVE  Collected(s).pkts[1].ext_tsn + i - 1 \in arrived
<1> DEFINE c == Collected(s)
<1>1. /\ ext_info \in Seq(Infos) /\ last_ext_sn \in Nat /\ Noted
      /\ Distinct(ext_info)
  BY DEF TwccInv, TypeOK, Noted
<1>2. /\ c \in Accs /\ c.last >= last_ext_sn
      /\ GatheredNone(s, Len(s), c) \/ Gathered(s, Len(s), c)
  BY CollectedLast
<1>3. c.pkts \in Seq(Infos) /\ c.last \in Nat /\ Len(c.pkts) \in Nat
  BY <1>2, LenProperties DEF Accs
<1>4. Gathered(s, Len(s), c)
  <2>1. c.pkts # <<>>
    BY <1>3, EmptySeq
  <2> QED
    BY <1>2, <2>1 DEF GatheredNone
<1> DEFINE m == MissingBefore(c.last)
<1>5. ReportIs(c.pkts, c.last, m, 1)
  BY <1>1, <1>4, CollectedReport
<1>6. i \in 1 .. Len(c.pkts) /\ c.pkts[i].timestamp # 0
  OBVIOUS
<1>7. c.last \in arrived
  <2>1. PICK j \in DOMAIN ext_info : s[1] = ext_info[j]
    BY <1>1, SortingIs, NewestIsFirst
  <2>2. c.last = s[1].ext_tsn
    BY <1>4 DEF Gathered
  <2> QED
    BY <1>1, <2>1, <2>2 DEF Noted
<1> HIDE DEF c
<1>8. m \in Nat
  BY <1>1, <1>3 DEF MissingBefore, Larger
<1> HIDE DEF m
<1>9. i = m + 1
  <2>1. i \in 1 .. m + 1
    BY <1>5, <1>6 DEF ReportIs
  <2>2. i \notin 1 .. m
    BY <1>5, <1>6 DEF ReportIs
  <2> QED
    BY <1>8, <2>1, <2>2
<1>10. c.pkts[1].ext_tsn + i - 1 = c.last
  <2>1. CASE m = 0
    <3>1. 1 \in m + 1 .. m + 1
      BY <2>1
    <3>2. c.pkts[1].ext_tsn = c.last
      BY <1>5, <3>1 DEF ReportIs
    <3> QED
      BY <1>3, <1>9, <2>1, <3>2
  <2>2. CASE m # 0
    <3>1. m = c.last - last_ext_sn - 1
      BY <1>1, <1>3, <2>2 DEF m, MissingBefore, Larger
    <3>2. c.pkts[1].ext_tsn = last_ext_sn + 1
      <4>1. 1 \in 1 .. m
        BY <1>8, <2>2
      <4> QED
        BY <1>5, <4>1 DEF ReportIs
    <3>3. PICK p, l : p = c.pkts[1].ext_tsn /\ l = c.last
      OBVIOUS
    <3>4. p = last_ext_sn + 1 /\ l \in Nat /\ m = l - last_ext_sn - 1
      BY <1>3, <3>1, <3>2, <3>3
    <3>5. p + i - 1 = l
      BY <1>1, <1>8, <1>9, <3>4
    <3> QED
      BY <3>3, <3>5
  <2> QED
    BY <2>1, <2>2
<1> QED
  BY <1>7, <1>10 DEF c

\* Each number after the newest reported, up to the newest noted.
LEMMA CollectedFollows ==
    ASSUME TwccInv, ext_info # <<>>, NEW s \in Sortings, last_ext_sn # 0,
           NEW i \in DOMAIN ext_info, ext_info[i].ext_tsn > last_ext_sn
    PROVE  LET pkts == Collected(s).pkts IN
           /\ pkts[1].ext_tsn = last_ext_sn + 1
           /\ \A j \in 1 .. Len(pkts) - 1 : pkts[j + 1].ext_tsn - pkts[j].ext_tsn \in {0, 1}
<1> DEFINE c == Collected(s)
           m == MissingBefore(c.last)
<1>1. /\ ext_info \in Seq(Infos) /\ last_ext_sn \in Nat /\ ext_info[i].ext_tsn \in Nat
  BY InfosOf DEF TwccInv, TypeOK
<1>2. /\ c \in Accs /\ ext_info[i].ext_tsn <= c.last
      /\ GatheredNone(s, Len(s), c) \/ Gathered(s, Len(s), c)
  BY CollectedLast
<1>3. c.last \in Nat /\ c.last > last_ext_sn
  BY <1>1, <1>2 DEF Accs
<1>4. Gathered(s, Len(s), c)
  BY <1>1, <1>2, <1>3 DEF GatheredNone
<1>5. PICK k \in Nat : ReportIs(c.pkts, c.last, m, k)
  BY <1>4, CollectedReport
<1> HIDE DEF c
<1>6. m = c.last - last_ext_sn - 1 /\ m \in Nat
  BY <1>1, <1>3 DEF MissingBefore, Larger
<1> HIDE DEF m
<1> DEFINE at(j) == c.pkts[j].ext_tsn
<1>7. PICK from, size, n : from = last_ext_sn /\ size = Len(c.pkts) /\ n = m
  OBVIOUS
<1>8. n \in Nat /\ from \in Nat /\ size = n + k /\ k >= 1
  BY <1>1, <1>5, <1>6, <1>7 DEF ReportIs
<1>9. /\ \A j \in 1 .. n : at(j) = from + j
      /\ \A j \in n + 1 .. n + k : at(j) = from + n + 1
  <2>1. /\ Len(c.pkts) = m + k /\ k >= 1
        /\ \A j \in 1 .. m : at(j) = last_ext_sn + j
        /\ \A j \in m + 1 .. m + k : at(j) = c.last
    BY <1>5 DEF ReportIs
  <2>2. c.last = last_ext_sn + m + 1
    <3>1. PICK to, base, gap : to = c.last /\ base = last_ext_sn /\ gap = m
      OBVIOUS
    <3>2. to \in Nat /\ base \in Nat /\ gap = to - base - 1
      BY <1>1, <1>3, <1>6, <3>1
    <3>3. to = base + gap + 1
      BY <3>2
    <3> QED
      BY <3>1, <3>3
  <2> HIDE DEF at
  <2> QED
    BY <1>7, <2>1, <2>2
<1> HIDE DEF at
<1>10. at(1) = from + 1
  <2>1. CASE n = 0
    <3>1. 1 \in n + 1 .. n + k
      BY <1>8, <2>1
    <3> QED
      BY <1>8, <1>9, <2>1, <3>1
  <2>2. CASE n # 0
    <3>1. 1 \in 1 .. n
      BY <1>8, <2>2
    <3> QED
      BY <1>9, <3>1
  <2> QED
    BY <2>1, <2>2
<1>11. ASSUME NEW j \in 1 .. size - 1 PROVE at(j + 1) - at(j) \in {0, 1}
  <2>1. j \in 1 .. n + k - 1
    BY <1>8
  <2>2. CASE j + 1 <= n
    <3>1. j \in 1 .. n /\ j + 1 \in 1 .. n
      BY <1>8, <2>1, <2>2
    <3>2. at(j) = from + j /\ at(j + 1) = from + (j + 1)
      BY <1>9, <3>1
    <3> QED
      BY <1>8, <2>1, <3>2
  <2>3. CASE j = n
    <3>1. j \in 1 .. n /\ j + 1 \in n + 1 .. n + k
      BY <1>8, <2>1, <2>3
    <3>2. at(j) = from + j /\ at(j + 1) = from + n + 1
      BY <1>9, <3>1
    <3> QED
      BY <1>8, <2>3, <3>2
  <2>4. CASE j > n
    <3>1. j \in n + 1 .. n + k /\ j + 1 \in n + 1 .. n + k
      BY <1>8, <2>1, <2>4
    <3>2. at(j) = from + n + 1 /\ at(j + 1) = from + n + 1
      BY <1>9, <3>1
    <3> QED
      BY <1>8, <3>2
  <2> QED
    BY <1>8, <2>1, <2>2, <2>3, <2>4
<1> QED
  BY <1>7, <1>10, <1>11 DEF at, c

\* What taking the packets off does, whatever is written of them.
LEMMA CollectKeeps ==
    ASSUME TwccInv, NEW s \in Sortings, Collect(s)
    PROVE  /\ Collected(s).pkts \in Seq(Infos)
           /\ ext_info # <<>> /\ ext_info' = <<>> /\ last_ext_sn' = Collected(s).last
           /\ last_ext_sn' \in Nat /\ pushes' # 0
           /\ ext_info' \in Seq(Infos) /\ Len(ext_info') <= MaxPending
           /\ UNCHANGED <<build, cycles, last_sn, straddles, arrived, repeated>>
           /\ straddles' = 0 => Noted'
<1> DEFINE c == Collected(s)
<1>1. /\ ext_info # <<>> /\ ext_info' = <<>> /\ last_ext_sn' = c.last
      /\ UNCHANGED <<build, cycles, last_sn, last, newest, straddles, arrived, pushes, repeated>>
  BY DEF Collect, history
<1>2. /\ c \in Accs /\ c.last >= last_ext_sn
      /\ \A i \in DOMAIN ext_info : ext_info[i].ext_tsn <= c.last
  BY <1>1, CollectedLast
<1> HIDE DEF c
<1>3. c.pkts \in Seq(Infos) /\ c.last \in Nat
  BY <1>2 DEF Accs
<1>4. <<>> \in Seq(Infos) /\ Len(<<>>) = 0 /\ DOMAIN <<>> = 1 .. 0 /\ \A i \in 1 .. 0 : FALSE
  BY EmptySeq, LenProperties
<1>5. last_ext_sn \in Nat /\ newest \in Int /\ pushes # 0
  BY <1>1 DEF TwccInv, CycleInv, TypeOK
<1>6. Len(ext_info') <= MaxPending
  BY <1>1, <1>4, Widths
<1>7. ASSUME straddles' = 0 PROVE Noted'
  <2>1. newest <= last_ext_sn'
    <3>1. newest <= last_ext_sn \/ \E i \in DOMAIN ext_info : ext_info[i].ext_tsn = newest
      BY <1>1, <1>5, <1>7 DEF TwccInv, Noted
    <3>2. CASE newest <= last_ext_sn
      BY <1>1, <1>2, <1>3, <1>5, <3>2
    <3>3. CASE \E i \in DOMAIN ext_info : ext_info[i].ext_tsn = newest
      BY <1>1, <1>2, <3>3
    <3> QED
      BY <3>1, <3>2, <3>3
  <2>2. MaxLead * 0 = 0
    BY Widths
  <2>3. newest' - last_ext_sn' <= MaxLead * Len(ext_info')
    BY <1>1, <1>3, <1>4, <1>5, <2>1, <2>2
  <2>4. newest' <= last_ext_sn'
    BY <1>1, <2>1
  <2>5. Distinct(ext_info)'
    BY <1>1, <1>4 DEF Distinct
  <2> QED
    BY <1>1, <1>4, <2>3, <2>4, <2>5 DEF Noted
<1> QED
  BY <1>1, <1>3, <1>4, <1>5, <1>6, <1>7 DEF c

\* What a report is made of, and what becomes of the length.
LEMMA StatusesTypes ==
    ASSUME TwccInv, NEW pkts \in Seq(Infos)
    PROVE  LET statuses == Statuses(pkts)
               chunks   == Chunks(statuses)
           IN  /\ statuses \in Seq(Symbols) /\ Len(statuses) = Len(pkts)
               /\ chunks \in Seq(Written) /\ Len(chunks) \in Nat /\ DOMAIN chunks = 1 .. Len(chunks)
               /\ Header(pkts) \in Seq(Written) /\ Len(Header(pkts)) \in {0, 1}
               /\ CountAfter(pkts) \in Nat
               /\ \A n \in Nat : LenAfter(chunks, n) \in Nat
<1>1. pkt_ctn \in 0 .. CountSize - 1 /\ pkt_ctn \in Nat /\ len \in Nat
  BY Counters DEF TwccInv, TypeOK
<1>2. Statuses(pkts) \in Seq(Symbols) /\ Len(Statuses(pkts)) = Len(pkts)
  BY StatusesAre
<1>3. /\ Chunks(Statuses(pkts)) \in Seq(ChunkSet)
      /\ Header(pkts) \in Seq(Headers) /\ Len(Header(pkts)) \in {0, 1}
  BY <1>1, <1>2, ChunksType, HeaderIs
<1>4. Headers \subseteq Written /\ ChunkSet \subseteq Written
  BY DEF Written
<1>5. ASSUME NEW A, A \subseteq Written, NEW s \in Seq(A) PROVE s \in Seq(Written)
  BY <1>5
<1>6. CountAfter(pkts) \in Nat
  BY <1>1, <1>3 DEF CountAfter
<1>7. /\ Len(Chunks(Statuses(pkts))) \in Nat
      /\ DOMAIN Chunks(Statuses(pkts)) = 1 .. Len(Chunks(Statuses(pkts)))
  BY <1>3, LenProperties
<1> QED
  BY <1>1, <1>2, <1>3, <1>4, <1>5, <1>6, <1>7, LenIs

LEMMA BuildKeeps ==
    ASSUME TwccInv, CycleInv', Build
    PROVE  TwccInv'
<1>1. PICK s \in Sortings :
          /\ Collect(s)
          /\ payload' = payload \o Header(Collected(s).pkts)
                            \o Chunks(Statuses(Collected(s).pkts))
          /\ pkt_ctn' = CountAfter(Collected(s).pkts) % CountSize
          /\ len' = LenAfter(Chunks(Statuses(Collected(s).pkts)),
                             Len(Chunks(Statuses(Collected(s).pkts)))) % LenSize
          /\ reports' = Append(reports,
                 [pkts |-> Collected(s).pkts, statuses |-> Statuses(Collected(s).pkts),
                  from |-> Len(payload) + Len(Header(Collected(s).pkts)) + 1,
                  to   |-> Len(payload) + Len(Header(Collected(s).pkts))
                               + Len(Chunks(Statuses(Collected(s).pkts)))])
  BY DEF Build
<1> DEFINE pkts     == Collected(s).pkts
           statuses == Statuses(pkts)
           chunks   == Chunks(statuses)
           header   == Header(pkts)
           before   == Len(payload) + Len(header)
           r        == [pkts |-> pkts, statuses |-> statuses,
                        from |-> before + 1, to |-> before + Len(chunks)]
<1>2. /\ pkts \in Seq(Infos)
      /\ ext_info # <<>> /\ ext_info' \in Seq(Infos) /\ last_ext_sn' \in Nat /\ pushes' # 0
      /\ Len(ext_info') <= MaxPending
      /\ UNCHANGED <<build, cycles, last_sn, straddles, arrived, repeated>>
      /\ straddles' = 0 => Noted'
  BY <1>1, CollectKeeps
<1>3. /\ statuses \in Seq(Symbols) /\ Len(statuses) = Len(pkts)
      /\ chunks \in Seq(Written) /\ Len(chunks) \in Nat
      /\ header \in Seq(Written) /\ Len(header) \in {0, 1}
      /\ CountAfter(pkts) \in Nat /\ LenAfter(chunks, Len(chunks)) \in Nat
  BY <1>2, StatusesTypes
<1>4. /\ Len(pkts) \in Nat /\ DOMAIN statuses = 1 .. Len(pkts)
      /\ \A i \in 1 .. Len(pkts) : statuses[i] = NotReceived <=> pkts[i].timestamp = 0
  BY <1>2, <1>3, StatusesAre, LenProperties
<1>5. TypeOK /\ PayloadSaysTheReports /\ NoLossIsHidden
      /\ \A i \in DOMAIN reports : Placed(payload, reports[i])
  BY DEF TwccInv
<1>6. /\ payload \in Seq(Written) /\ reports \in Seq(Reports)
      /\ pkt_ctn \in 0 .. CountSize - 1
      /\ \A i \in DOMAIN reports : Len(reports[i].statuses) = Len(reports[i].pkts)
  BY <1>5 DEF TypeOK, Written
<1>7. straddles = 0 => IsPrefix(statuses, AllRead(chunks))
  <2> SUFFICES ASSUME straddles = 0 PROVE IsPrefix(statuses, AllRead(chunks))
    OBVIOUS
  <2>1. Len(statuses) < RunField
    BY <1>2, <1>3, CollectedLen
  <2> HIDE DEF statuses
  <2> QED
    BY <1>3, <2>1, ChunksAre
<1>8. Received(statuses) =>
          /\ Len(header) = 1 /\ header[1].kind = "header"
          /\ header[1].base = pkts[1].ext_tsn % Cycle
          /\ header[1].count = Len(statuses) % Cycle
  <2> SUFFICES ASSUME Received(statuses)
               PROVE  /\ Len(header) = 1 /\ header[1].kind = "header"
                      /\ header[1].base = pkts[1].ext_tsn % Cycle
                      /\ header[1].count = Len(pkts) % Cycle
    BY <1>3
  <2>1. PICK i \in 1 .. Len(pkts) : pkts[i].timestamp # 0
    BY <1>4 DEF Received
  <2> QED
    BY <1>2, <1>6, <2>1, HeaderIs
<1>9. ASSUME straddles = 0, ~repeated, NEW i \in 1 .. Len(pkts), pkts[i].timestamp # 0
      PROVE  pkts[1].ext_tsn + i - 1 \in arrived
  BY <1>2, <1>9, CollectedArrived
<1>10. /\ payload' = payload \o header \o chunks /\ reports' = Append(reports, r)
       /\ pkt_ctn' = CountAfter(pkts) % CountSize
       /\ len' = LenAfter(chunks, Len(chunks)) % LenSize
  BY <1>1
<1> HIDE DEF chunks, statuses, header, pkts
<1>11. /\ payload' \in Seq(Written) /\ before \in Nat /\ Len(payload') = before + Len(chunks)
       /\ SubSeq(payload', before + 1, before + Len(chunks)) = chunks
       /\ Len(header) = 1 => payload'[before] = header[1]
  <2> DEFINE q == payload \o header \o chunks
  <2>1. /\ q \in Seq(Written) /\ before \in Nat /\ Len(q) = before + Len(chunks)
        /\ SubSeq(q, before + 1, before + Len(chunks)) = chunks
        /\ Len(header) = 1 => q[before] = header[1]
    BY <1>3, <1>6, WrittenAtAny
  <2>2. payload' = q
    BY <1>10
  <2> HIDE DEF q, before
  <2> QED
    BY <2>1, <2>2
<1>12. payload' = payload \o (header \o chunks) /\ header \o chunks \in Seq(Written)
  <2>1. /\ payload \o header \o chunks = payload \o (header \o chunks)
        /\ header \o chunks \in Seq(Written)
    BY <1>3, <1>6, JoinedToWritten
  <2> QED
    BY <1>10, <2>1
<1>13. before >= Len(header) /\ before >= 0
  <2>1. Len(payload) \in Nat
    BY <1>6, LenProperties
  <2> QED
    BY <1>3, <2>1
<1> HIDE DEF before
<1>14. /\ r.pkts = pkts /\ r.statuses = statuses /\ r.from = before + 1
       /\ r.to = before + Len(chunks) /\ (before + 1) - 1 = before
  BY <1>11
<1>15. r \in Reports
  BY <1>2, <1>3, <1>11 DEF Reports, Symbols
<1> HIDE DEF r
<1>16. Placed(payload', r)
  BY <1>3, <1>8, <1>11, <1>13, <1>14 DEF Placed
<1>17. straddles = 0 => Says(payload', r)
  BY <1>7, <1>8, <1>11, <1>14 DEF Says
<1>18. /\ reports' \in Seq(Reports) /\ Len(reports) \in Nat
       /\ DOMAIN reports = 1 .. Len(reports) /\ DOMAIN reports' = 1 .. Len(reports) + 1
       /\ \A i \in DOMAIN reports : reports'[i] = reports[i]
       /\ reports'[Len(reports) + 1] = r
  BY <1>6, <1>10, <1>15, AppendFacts
<1>19. \A i \in DOMAIN reports' : i = Len(reports) + 1 \/ i \in DOMAIN reports
  BY <1>18
<1>20. TypeOK'
  <2>1. pkt_ctn' \in 0 .. CountSize - 1 /\ len' \in 0 .. LenSize - 1
    BY <1>3, <1>10, Counters, Wraps
  <2>2. \A i \in DOMAIN reports' : Len(reports'[i].statuses) = Len(reports'[i].pkts)
    BY <1>3, <1>6, <1>14, <1>18, <1>19
  <2> QED
    BY <1>2, <1>5, <1>11, <1>18, <2>1, <2>2 DEF TypeOK, Written
<1>21. \A i \in DOMAIN reports : /\ Placed(payload', reports[i])
                                 /\ Says(payload, reports[i]) => Says(payload', reports[i])
  BY <1>5, <1>6, <1>12, SaysStill
<1>22. (\A i \in DOMAIN reports : Placed(payload, reports[i]))'
  BY <1>16, <1>18, <1>19, <1>21
<1>23. PayloadSaysTheReports'
  <2> SUFFICES ASSUME straddles = 0, NEW i \in DOMAIN reports' PROVE Says(payload', reports'[i])
    BY <1>2 DEF PayloadSaysTheReports, Says
  <2>1. CASE i = Len(reports) + 1
    BY <1>17, <1>18, <2>1
  <2>2. CASE i \in DOMAIN reports
    <3>1. Says(payload, reports[i])
      BY <1>5, <2>2 DEF PayloadSaysTheReports, Says
    <3> QED
      BY <1>18, <1>21, <2>2, <3>1
  <2> QED
    BY <1>19, <2>1, <2>2
<1>24. NoLossIsHidden'
  <2> SUFFICES ASSUME straddles = 0, ~repeated, NEW i \in DOMAIN reports',
                      NEW j \in DOMAIN reports'[i].statuses,
                      reports'[i].statuses[j] # NotReceived
               PROVE  reports'[i].pkts[1].ext_tsn + j - 1 \in arrived
    BY <1>2 DEF NoLossIsHidden
  <2>1. CASE i = Len(reports) + 1
    <3>1. j \in 1 .. Len(pkts) /\ pkts[j].timestamp # 0
      BY <1>4, <1>14, <1>18, <2>1
    <3> QED
      BY <1>9, <1>14, <1>18, <2>1, <3>1
  <2>2. CASE i \in DOMAIN reports
    BY <1>5, <1>18, <2>2 DEF NoLossIsHidden
  <2> QED
    BY <1>19, <2>1, <2>2
<1> QED
  BY <1>2, <1>20, <1>22, <1>23, <1>24 DEF TwccInv

LEMMA BuildPanicsKeeps ==
    ASSUME TwccInv, CycleInv', BuildPanics
    PROVE  TwccInv'
<1>1. PICK s \in Sortings :
          /\ Collect(s) /\ UNCHANGED reports
          /\ \/ /\ payload' = payload \o Header(Collected(s).pkts)
                /\ UNCHANGED <<pkt_ctn, len>>
             \/ /\ CountFits(Collected(s).pkts)
                /\ \E n \in DOMAIN Chunks(Statuses(Collected(s).pkts)) :
                      /\ LenFits(Chunks(Statuses(Collected(s).pkts)), n - 1)
                      /\ payload' = payload \o Header(Collected(s).pkts)
                             \o SubSeq(Chunks(Statuses(Collected(s).pkts)), 1, n)
                      /\ pkt_ctn' = CountAfter(Collected(s).pkts)
                      /\ len' = LenAfter(Chunks(Statuses(Collected(s).pkts)), n - 1)
  BY DEF BuildPanics
<1> DEFINE pkts   == Collected(s).pkts
           chunks == Chunks(Statuses(pkts))
           header == Header(pkts)
<1>2. /\ pkts \in Seq(Infos)
      /\ ext_info' \in Seq(Infos) /\ last_ext_sn' \in Nat /\ pushes' # 0
      /\ Len(ext_info') <= MaxPending
      /\ UNCHANGED <<build, cycles, last_sn, straddles, arrived, repeated>>
      /\ straddles' = 0 => Noted'
  BY <1>1, CollectKeeps
<1>3. /\ chunks \in Seq(Written) /\ Len(chunks) \in Nat /\ DOMAIN chunks = 1 .. Len(chunks)
      /\ header \in Seq(Written)
      /\ CountAfter(pkts) \in Nat /\ \A n \in Nat : LenAfter(chunks, n) \in Nat
  BY <1>2, StatusesTypes
<1>4. build = "debug" /\ "debug" # "release" /\ reports' = reports
  BY <1>1 DEF BuildPanics
<1>5. /\ TypeOK /\ PayloadSaysTheReports /\ NoLossIsHidden
      /\ \A i \in DOMAIN reports : Placed(payload, reports[i])
  BY DEF TwccInv
<1>6. payload \in Seq(Written) /\ pkt_ctn \in 0 .. CountSize - 1 /\ len \in 0 .. LenSize - 1
  BY <1>5 DEF TypeOK, Written
<1>7. /\ \/ /\ payload' = payload \o header
            /\ UNCHANGED <<pkt_ctn, len>>
         \/ /\ CountFits(pkts)
            /\ \E n \in DOMAIN chunks :
                  /\ LenFits(chunks, n - 1)
                  /\ payload' = payload \o header \o SubSeq(chunks, 1, n)
                  /\ pkt_ctn' = CountAfter(pkts)
                  /\ len' = LenAfter(chunks, n - 1)
  BY <1>1
<1> HIDE DEF chunks, header, pkts
<1>8. /\ \E more \in Seq(Written) : payload' = payload \o more
      /\ pkt_ctn' \in 0 .. CountSize - 1 /\ len' \in 0 .. LenSize - 1
  <2>1. CASE payload' = payload \o header /\ UNCHANGED <<pkt_ctn, len>>
    BY <1>3, <1>6, <2>1
  <2>2. ASSUME CountFits(pkts), NEW n \in DOMAIN chunks, LenFits(chunks, n - 1),
               payload' = payload \o header \o SubSeq(chunks, 1, n),
               pkt_ctn' = CountAfter(pkts), len' = LenAfter(chunks, n - 1)
        PROVE  /\ \E more \in Seq(Written) : payload' = payload \o more
               /\ pkt_ctn' \in 0 .. CountSize - 1 /\ len' \in 0 .. LenSize - 1
    <3>1. n \in Nat /\ n - 1 \in Nat /\ n \in 1 .. Len(chunks)
      <4>1. n \in 1 .. Len(chunks) /\ Len(chunks) \in Nat
        BY <1>3
      <4> QED
        BY <4>1
    <3>2. SubSeq(chunks, 1, n) \in Seq(Written)
      <4>1. \A i \in 1 .. n : chunks[i] \in Written
        <5>1. chunks \in Seq(Written) /\ Len(chunks) \in Nat
          BY <1>3
        <5>2. \A i \in 1 .. Len(chunks) : chunks[i] \in Written
          BY <5>1, ElementOfSeq
        <5>3. 1 .. n \subseteq 1 .. Len(chunks)
          BY <3>1, <5>1
        <5> QED
          BY <5>2, <5>3
      <4> QED
        BY <3>1, <4>1, SubSeqProperties
    <3>3. /\ payload' = payload \o (header \o SubSeq(chunks, 1, n))
          /\ header \o SubSeq(chunks, 1, n) \in Seq(Written)
      <4> DEFINE piece == SubSeq(chunks, 1, n)
      <4>1. piece \in Seq(Written) /\ payload' = payload \o header \o piece
        BY <2>2, <3>2
      <4> HIDE DEF piece
      <4>2. payload \in Seq(Written) /\ header \in Seq(Written)
        BY <1>3, <1>6
      <4>3. /\ payload \o header \o piece = payload \o (header \o piece)
            /\ header \o piece \in Seq(Written)
        BY <4>1, <4>2, JoinedToWritten
      <4> QED
        BY <4>1, <4>3 DEF piece
    <3>4. pkt_ctn' < CountSize /\ pkt_ctn' \in Nat
      BY <1>3, <1>4, <2>2 DEF CountFits
    <3>5. len' < LenSize /\ len' \in Nat
      BY <1>3, <1>4, <2>2, <3>1 DEF LenFits
    <3>6. pkt_ctn' \in 0 .. CountSize - 1 /\ len' \in 0 .. LenSize - 1
      BY <3>4, <3>5, Counters
    <3> QED
      BY <3>3, <3>6
  <2> QED
    BY <1>7, <2>1, <2>2
<1>9. PICK more \in Seq(Written) : payload' = payload \o more
  BY <1>8
<1>10. \A i \in DOMAIN reports : /\ Placed(payload', reports[i])
                                 /\ Says(payload, reports[i]) => Says(payload', reports[i])
  BY <1>5, <1>6, <1>9, SaysStill
<1>11. TypeOK'
  <2>1. payload' \in Seq(Written)
    BY <1>6, <1>9, ConcatProperties
  <2> QED
    BY <1>2, <1>4, <1>5, <1>8, <2>1 DEF TypeOK, Written
<1>12. PayloadSaysTheReports'
  <2> SUFFICES ASSUME straddles = 0, NEW i \in DOMAIN reports PROVE Says(payload', reports[i])
    BY <1>2, <1>4 DEF PayloadSaysTheReports, Says
  <2>1. Says(payload, reports[i])
    BY <1>5 DEF PayloadSaysTheReports, Says
  <2> QED
    BY <1>10, <2>1
<1>13. NoLossIsHidden'
  BY <1>2, <1>4, <1>5 DEF NoLossIsHidden
<1> QED
  BY <1>2, <1>4, <1>10, <1>11, <1>12, <1>13 DEF TwccInv

LEMMA TwccNext == TwccInv /\ [Next]_vars => TwccInv'
<1> SUFFICES ASSUME TwccInv, [Next]_vars PROVE TwccInv'
  OBVIOUS
<1>1. CycleInv'
  BY CycleNext DEF TwccInv
<1>2. ASSUME NEW place \in Window, NEW time \in Times, Push(place, time) PROVE TwccInv'
  BY <1>1, <1>2, PushKeeps
<1>3. CASE Build
  BY <1>1, <1>3, BuildKeeps
<1>4. CASE BuildPanics
  BY <1>1, <1>4, BuildPanicsKeeps
<1>5. CASE UNCHANGED vars
  <2>1. /\ TypeOK' /\ Noted' = Noted /\ PayloadSaysTheReports' /\ NoLossIsHidden'
        /\ (\A i \in DOMAIN reports : Placed(payload, reports[i]))'
    BY <1>5 DEF vars, history, TwccInv, TypeOK, Noted, Distinct, PayloadSaysTheReports,
                NoLossIsHidden
  <2> QED
    BY <1>1, <1>5, <2>1 DEF vars, history, TwccInv
<1> QED
  BY <1>2, <1>3, <1>4, <1>5 DEF Next

LEMMA TwccAlways == Spec => []TwccInv
BY TwccInit, TwccNext, PTL DEF Spec

\* The state is well formed: what was noted and reported are packets, the payload is of
\* headers and chunks, the counters stay in their types, and each report has a status for
\* each of its packets.
THEOREM TypeCorrect == Spec => []TypeOK
<1>1. TwccInv => TypeOK
  BY DEF TwccInv
<1> QED
  BY <1>1, TwccAlways, PTL

\* However runs and mixed statuses follow each other, whatever the sizes of the chunks,
\* and however many reports or pieces of one are written before and after: what stands in
\* the payload of a report says the status of each of its packets, in order, behind a
\* header with its first number and how many they are, unless a cycle was miscounted:
\* reports that are made often enough are never longer than a run can say.
THEOREM PayloadSays == Spec => []PayloadSaysTheReports
<1>1. TwccInv => PayloadSaysTheReports
  BY DEF TwccInv
<1> QED
  BY <1>1, TwccAlways, PTL

\* No packet that did not arrive is reported received, while none came twice and no
\* cycle was miscounted.
THEOREM NoLossHidden == Spec => []NoLossIsHidden
<1>1. TwccInv => NoLossIsHidden
  BY DEF TwccInv
<1> QED
  BY <1>1, TwccAlways, PTL

\* Each report begins with the number after the newest collected before it, leaves none
\* out and goes up to the newest that was noted.
THEOREM ReportsFollow == Spec => ReportsLeaveNoHole
<1> DEFINE A == \A i \in DOMAIN ext_info :
                  reports' # reports /\ last_ext_sn # 0 /\ ext_info[i].ext_tsn > last_ext_sn =>
                    LET pkts == Last(reports').pkts IN
                    /\ pkts[1].ext_tsn = last_ext_sn + 1
                    /\ \A j \in 1 .. Len(pkts) - 1 :
                          pkts[j + 1].ext_tsn - pkts[j].ext_tsn \in {0, 1}
                    /\ last_ext_sn' >= ext_info[i].ext_tsn
<1>1. TwccInv /\ [Next]_vars => [A]_vars
  <2> SUFFICES ASSUME TwccInv, Next, reports' # reports PROVE A
    BY DEF vars
  <2>1. CASE Build
    <3> SUFFICES ASSUME NEW i \in DOMAIN ext_info, last_ext_sn # 0,
                        ext_info[i].ext_tsn > last_ext_sn
                 PROVE  LET pkts == Last(reports').pkts IN
                        /\ pkts[1].ext_tsn = last_ext_sn + 1
                        /\ \A j \in 1 .. Len(pkts) - 1 :
                              pkts[j + 1].ext_tsn - pkts[j].ext_tsn \in {0, 1}
                        /\ last_ext_sn' >= ext_info[i].ext_tsn
      OBVIOUS
    <3>1. PICK s \in Sortings :
              /\ Collect(s)
              /\ reports' = Append(reports,
                     [pkts |-> Collected(s).pkts, statuses |-> Statuses(Collected(s).pkts),
                      from |-> Len(payload) + Len(Header(Collected(s).pkts)) + 1,
                      to   |-> Len(payload) + Len(Header(Collected(s).pkts))
                                   + Len(Chunks(Statuses(Collected(s).pkts)))])
      BY <2>1 DEF Build
    <3>2. /\ ext_info # <<>> /\ last_ext_sn' = Collected(s).last
          /\ Last(reports').pkts = Collected(s).pkts
      <4>1. PICK r : r.pkts = Collected(s).pkts /\ reports' = Append(reports, r)
        BY <3>1
      <4>2. reports \in Seq(Reports)
        BY DEF TwccInv, TypeOK
      <4>3. /\ Len(Append(reports, r)) = Len(reports) + 1
            /\ Append(reports, r)[Len(reports) + 1] = r
        BY <4>2
      <4>4. Last(reports') = r
        BY <4>1, <4>3 DEF Last
      <4> QED
        BY <3>1, <4>1, <4>4 DEF Collect
    <3>3. /\ Collected(s).pkts[1].ext_tsn = last_ext_sn + 1
          /\ \A j \in 1 .. Len(Collected(s).pkts) - 1 :
                Collected(s).pkts[j + 1].ext_tsn - Collected(s).pkts[j].ext_tsn \in {0, 1}
      BY <3>2, CollectedFollows
    <3>4. last_ext_sn' \in Nat /\ ext_info[i].ext_tsn \in Nat
          /\ ext_info[i].ext_tsn <= last_ext_sn'
      <4>1. Collected(s) \in Accs /\ ext_info[i].ext_tsn <= Collected(s).last
        BY <3>2, CollectedLast
      <4>2. ext_info \in Seq(Infos)
        BY DEF TwccInv, TypeOK
      <4> QED
        BY <3>2, <4>1, <4>2, InfosOf DEF Accs
    <3> QED
      BY <3>2, <3>3, <3>4
  <2>2. CASE ~Build
    <3>1. reports' = reports
      BY <2>2 DEF Next, Push, BuildPanics
    <3> QED
      BY <3>1
  <2> QED
    BY <2>1, <2>2
<1>2. Spec => [][A]_vars
  BY <1>1, TwccAlways, PTL DEF Spec
<1> QED
  BY <1>2 DEF ReportsLeaveNoHole
=============================================================================
