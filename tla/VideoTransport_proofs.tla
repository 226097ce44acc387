------------------------ MODULE VideoTransport_proofs ------------------------
(***************************************************************************)
(* Proofs about the transport of one video stream, for every list of       *)
(* frames, slice size, cycle of the sequence numbers, and any loss,        *)
(* repetition and reordering the bounds allow.                             *)
(***************************************************************************)
EXTENDS VideoTransport, WellFoundedInduction, TLAPS

USE DEF sender, source, receiver, vars

-----------------------------------------------------------------------------
(* Arithmetic.                                                             *)

\* A set of numbers has a least one.
LEMMA Least == ASSUME NEW T \in SUBSET Nat, T # {} PROVE \E m \in T : \A k \in T : m <= k
<1>1. PICK R : IsWellFoundedOn(R, Nat) /\ \A y, x \in Nat : y < x => <<y, x>> \in R
  <2>1. \A y, x \in Nat : y < x => <<y, x>> \in OpToRel(<, Nat)
    BY DEF OpToRel
  <2> QED
    BY <2>1, NatLessThanWellFounded, Zenon
<1>2. IsWellFoundedOn(R, Nat) /\ T \subseteq Nat /\ T # {}
  BY <1>1
<1>3. \E x \in T : \A y \in T : ~(<<y, x>> \in R)
  BY ONLY <1>2, WFMin
<1>4. PICK x \in T : x \in Nat /\ \A y \in T : y \in Nat /\ ~(y < x)
  BY <1>1, <1>3
<1> QED
  BY <1>4

\* ... and a bounded one has a greatest, which Max names.
LEMMA Greatest ==
    ASSUME NEW n \in Nat, NEW S \in SUBSET (0 .. n), S # {}
    PROVE  Max(S) \in S /\ \A y \in S : y <= Max(S)
<1> DEFINE T == {n - x : x \in S}
<1>1. T \in SUBSET Nat /\ T # {}
  <2>1. \A x \in S : x \in Nat /\ n - x \in Nat
    OBVIOUS
  <2>2. PICK x \in S : TRUE
    OBVIOUS
  <2>3. n - x \in T
    OBVIOUS
  <2> QED
    BY <2>1, <2>3
<1>2. PICK m \in T : \A k \in T : m <= k
  BY <1>1, Least
<1>3. PICK x \in S : m = n - x
  OBVIOUS
<1>4. \A y \in S : x >= y
  <2> SUFFICES ASSUME NEW y \in S PROVE x >= y
    OBVIOUS
  <2>1. n - x <= n - y
    BY <1>2, <1>3
  <2>2. x \in Nat /\ y \in Nat
    OBVIOUS
  <2> HIDE DEF T
  <2> QED
    BY <2>1, <2>2
<1>5. Max(S) \in S /\ \A y \in S : Max(S) >= y
  BY <1>4 DEF Max
<1> QED
  BY <1>5

LEMMA Division ==
    ASSUME NEW a \in Nat, NEW m \in Nat \ {0}
    PROVE  /\ a \div m \in Nat /\ a % m \in Nat /\ a % m < m
           /\ a = (a \div m) * m + (a % m)
<1>1. a \div m \in Nat
  OBVIOUS
<1>2. a % m \in Nat /\ a % m < m
  OBVIOUS
<1>3. a = (a \div m) * m + (a % m)
  OBVIOUS
<1> QED
  BY <1>1, <1>2, <1>3

LEMMA Times ==
    ASSUME NEW a \in Nat, NEW b \in Nat, NEW m \in Nat
    PROVE  /\ a * m \in Nat /\ (a <= b => a * m <= b * m) /\ (a + 1) * m = a * m + m
           /\ 1 * m = m /\ 0 * m = 0 /\ (a # 0 => m <= a * m)
<1>1. a * m \in Nat
  OBVIOUS
<1>2. (a + 1) * m = a * m + m /\ 1 * m = m /\ 0 * m = 0
  OBVIOUS
<1>3. ASSUME a <= b PROVE a * m <= b * m
  <2>1. b - a \in Nat /\ (b - a) * m \in Nat
    BY <1>3
  <2>2. b * m = a * m + (b - a) * m
    OBVIOUS
  <2> QED
    BY <1>1, <2>1, <2>2
<1>4. ASSUME a # 0 PROVE m <= a * m
  <2>1. a - 1 \in Nat /\ (a - 1) * m \in Nat
    BY <1>4
  <2>2. a * m = (a - 1) * m + m
    OBVIOUS
  <2> QED
    BY <1>1, <2>1, <2>2
<1> QED
  BY <1>1, <1>2, <1>3, <1>4

-----------------------------------------------------------------------------
(* Slices.                                                                 *)

M == slice_data_max_size

LEMMA Sizes == M \in Nat \ {0} /\ FrameLen \in Seq(Nat \ {0}) /\ \A k \in Frames : FrameLen[k] \in Nat \ {0}
BY TransportBounds DEF M, Frames

\* The slices before the last one are full, and the last one is what is left.
LEMMA SliceCount ==
    ASSUME NEW len \in Nat \ {0}
    PROVE  /\ NumSlices(len) \in Nat \ {0} /\ (NumSlices(len) = 1 <=> len <= M)
           /\ (NumSlices(len) - 1) * M < len
<1> DEFINE q == len \div M
           r == len % M
<1>0. M \in Nat \ {0}
  BY Sizes
<1>1. q \in Nat /\ r \in Nat /\ r < M /\ len = q * M + r
  BY <1>0, Division
<1>2. NumSlices(len) = IF len > M THEN q + (IF r # 0 THEN 1 ELSE 0) ELSE 1
  BY DEF NumSlices, M
<1> HIDE DEF q, r
<1>3. CASE len <= M
  <2>1. NumSlices(len) = 1
    BY <1>0, <1>2, <1>3
  <2>2. (NumSlices(len) - 1) * M = 0
    BY <1>0, <2>1
  <2> QED
    BY <1>3, <2>1, <2>2
<1>4. CASE len > M
  <2>1. q # 0 /\ (q = 1 => r # 0)
    <3>1. q * M \in Nat /\ (q = 0 => q * M = 0) /\ (q = 1 => q * M = M)
      BY <1>0, <1>1
    <3> QED
      BY <1>0, <1>1, <1>4, <3>1
  <2>2. CASE r # 0
    <3>1. NumSlices(len) = q + 1 /\ NumSlices(len) - 1 = q
      BY <1>0, <1>1, <1>2, <1>4, <2>2
    <3>2. q * M \in Nat /\ q * M < len
      BY <1>0, <1>1, <2>2
    <3> QED
      BY <1>0, <1>1, <1>4, <2>1, <3>1, <3>2
  <2>3. CASE r = 0
    <3>1. NumSlices(len) = q /\ q - 1 \in Nat
      BY <1>0, <1>1, <1>2, <1>4, <2>1, <2>3
    <3>2. (q - 1) * M \in Nat /\ q * M = (q - 1) * M + M
      BY <1>0, <1>1, <3>1
    <3>3. (q - 1) * M < len
      BY <1>0, <1>1, <2>3, <3>2
    <3> QED
      BY <1>0, <1>1, <1>4, <2>1, <2>3, <3>1, <3>3
  <2> QED
    BY <1>1, <2>2, <2>3
<1> QED
  BY <1>0, <1>3, <1>4

\* The bytes of a slice follow those of the slices before it, and none is past the frame's end.
LEMMA SliceBytes ==
    ASSUME NEW k \in Frames, NEW s \in Nat, s < NumSlices(FrameLen[k])
    PROVE  /\ s * M \in Nat /\ (s # 0 => M <= s * M) /\ (s = 0 => s * M = 0)
           /\ Slice(k, s) \in Seq(Bytes)
           /\ Len(Slice(k, s)) = IF s = NumSlices(FrameLen[k]) - 1 THEN FrameLen[k] - s * M ELSE M
           /\ \A j \in 1 .. Len(Slice(k, s)) : Slice(k, s)[j] = <<k, s * M + j>>
<1> DEFINE L == FrameLen[k]
           N == NumSlices(L)
           n == IF s = N - 1 THEN L - s * M ELSE M
<1>0. M \in Nat \ {0} /\ L \in Nat \ {0}
  BY Sizes
<1>1. N \in Nat \ {0} /\ (N - 1) * M < L
  BY <1>0, SliceCount
<1>2. s * M \in Nat /\ (s # 0 => M <= s * M) /\ (s = 0 => s * M = 0)
  <2>1. s * M \in Nat
    BY <1>0
  <2>2. s # 0 => M <= s * M
    BY <1>0, Times
  <2>3. s = 0 => s * M = 0
    BY <1>0
  <2> QED
    BY <2>1, <2>2, <2>3
<1>3. n \in Nat /\ s * M + n <= L
  <2>1. CASE s = N - 1
    BY <1>0, <1>1, <1>2, <2>1
  <2>2. CASE s # N - 1
    <3>1. s + 1 \in Nat /\ N - 1 \in Nat /\ s + 1 <= N - 1
      BY <1>1, <2>2
    <3>2. (s + 1) * M <= (N - 1) * M /\ (N - 1) * M \in Nat
      <4> HIDE DEF N
      <4> QED
        BY <1>0, <3>1, Times
    <3>3. (s + 1) * M = s * M + M
      BY <1>0, Times
    <3> QED
      BY <1>0, <1>1, <1>2, <2>2, <3>2, <3>3
  <2> QED
    BY <2>1, <2>2
<1>4. Slice(k, s) = [i \in 1 .. n |-> <<k, s * M + i>>]
  BY DEF Slice, M
<1> HIDE DEF n
<1>5. \A i \in 1 .. n : <<k, s * M + i>> \in Bytes
  <2> SUFFICES ASSUME NEW i \in 1 .. n PROVE <<k, s * M + i>> \in Bytes
    OBVIOUS
  <2>1. s * M + i \in 1 .. FrameLen[k] /\ s * M + i \in Nat
    BY <1>0, <1>2, <1>3
  <2> QED
    BY <2>1 DEF Bytes
<1>6. Slice(k, s) \in Seq(Bytes) /\ Len(Slice(k, s)) = n
  BY <1>3, <1>4, <1>5
<1> QED
  BY <1>2, <1>4, <1>6 DEF n

\* What the FU header says of a slice.
LEMMA SliceFlag ==
    ASSUME NEW k \in Frames, NEW s \in Nat, s < NumSlices(FrameLen[k])
    PROVE  /\ Flag(FrameLen[k], s) \in Flags
           /\ Flag(FrameLen[k], s) \in {"none", "start"} <=> s = 0
           /\ Flag(FrameLen[k], s) \in {"none", "end"} <=> s = NumSlices(FrameLen[k]) - 1
<1> DEFINE L == FrameLen[k]
           N == NumSlices(L)
<1>1. N \in Nat \ {0} /\ (N = 1 <=> L <= M) /\ M \in Nat /\ L \in Nat
  BY Sizes, SliceCount
<1>2. CASE L <= M
  <2>1. Flag(L, s) = "none" /\ s = 0 /\ N = 1
    BY <1>1, <1>2 DEF Flag, M
  <2> QED
    BY <2>1 DEF Flags
<1>3. CASE L > M /\ s = 0
  <2>1. Flag(L, s) = "start" /\ N # 1
    BY <1>1, <1>3 DEF Flag, M
  <2> QED
    BY <1>1, <1>3, <2>1 DEF Flags
<1>4. CASE L > M /\ s # 0 /\ s = N - 1
  <2>1. Flag(L, s) = "end"
    BY <1>1, <1>4 DEF Flag, M
  <2> QED
    BY <1>1, <1>4, <2>1 DEF Flags
<1>5. CASE L > M /\ s # 0 /\ s # N - 1
  <2>1. Flag(L, s) = "middle"
    BY <1>1, <1>5 DEF Flag, M
  <2> QED
    BY <1>1, <1>5, <2>1 DEF Flags
<1> QED
  BY <1>1, <1>2, <1>3, <1>4, <1>5

-----------------------------------------------------------------------------
(* Sequences.                                                              *)

LEMMA Appending ==
    ASSUME NEW S, NEW q \in Seq(S), NEW e \in S
    PROVE  /\ Append(q, e) \in Seq(S) /\ Len(q) \in Nat /\ Len(Append(q, e)) = Len(q) + 1
           /\ DOMAIN q = 1 .. Len(q) /\ DOMAIN Append(q, e) = 1 .. Len(q) + 1
           /\ Append(q, e)[Len(q) + 1] = e /\ \A i \in 1 .. Len(q) : Append(q, e)[i] = q[i]
OBVIOUS

LEMMA Joining ==
    ASSUME NEW S, NEW q \in Seq(S), NEW r \in Seq(S)
    PROVE  /\ q \o r \in Seq(S) /\ Len(q) \in Nat /\ Len(r) \in Nat /\ Len(q \o r) = Len(q) + Len(r)
           /\ \A i \in 1 .. Len(q) : (q \o r)[i] = q[i]
           /\ \A i \in 1 .. Len(r) : (q \o r)[Len(q) + i] = r[i]
<1>1. q \o r \in Seq(S) /\ Len(q \o r) = Len(q) + Len(r)
  OBVIOUS
<1>2. ASSUME NEW i \in 1 .. Len(q) PROVE (q \o r)[i] = q[i]
  OBVIOUS
<1>3. ASSUME NEW i \in 1 .. Len(r) PROVE (q \o r)[Len(q) + i] = r[i]
  OBVIOUS
<1> QED
  BY <1>1, <1>2, <1>3

\* The beginning of a frame, given byte by byte.
Beginning(k, n) == [i \in 1 .. n |-> <<k, i>>]

LEMMA Bytewise ==
    ASSUME NEW q \in Seq(Bytes), NEW k \in Frames, NEW n \in Nat, Len(q) = n,
           \A i \in 1 .. n : q[i] = <<k, i>>
    PROVE  q = Beginning(k, n)
<1> SUFFICES q = [i \in 1 .. Len(q) |-> <<k, i>>]
  BY DEF Beginning
<1>1. q = [i \in 1 .. Len(q) |-> q[i]]
  OBVIOUS
<1>2. [i \in 1 .. Len(q) |-> q[i]] = [i \in 1 .. Len(q) |-> <<k, i>>]
  OBVIOUS
<1> QED
  BY <1>1, <1>2, Zenon

\* A packet is taken out of the network, and the others stay.
LEMMA Removing ==
    ASSUME NEW S, NEW q \in Seq(S), NEW i \in 1 .. Len(q)
    PROVE  RemoveAt(q, i) \in Seq(S)
BY DEF RemoveAt

\* A packet is put into the packet list, which gains nothing else.
LEMMA Inserting ==
    ASSUME NEW q \in Seq(Stored), NEW S \in SUBSET Stored, q \in Seq(S), NEW p \in S
    PROVE  Insert(q, p) \in Seq(S)
<1> DEFINE B == {0} \cup {i \in DOMAIN q : q[i].ext <= p.ext}
           at == Max(B)
<1>1. Len(q) \in Nat /\ B \in SUBSET (0 .. Len(q)) /\ B # {}
  OBVIOUS
<1>2. at \in 0 .. Len(q)
  <2> HIDE DEF B
  <2> QED
    BY <1>1, Greatest
<1>3. Insert(q, p) = IF at # 0 /\ q[at].ext = p.ext THEN q ELSE InsertAt(q, at + 1, p)
  BY DEF Insert
<1> HIDE DEF at
<1>4. InsertAt(q, at + 1, p) \in Seq(S)
  BY <1>2 DEF InsertAt
<1> QED
  BY <1>3, <1>4

-----------------------------------------------------------------------------
(* Types, and what is in a packet.                                         *)

\* A packet holds the slice it is a packet of, under the flag of that slice.
Genuine(p) ==
    p.flag = Flag(FrameLen[p.part[1]], p.part[2]) /\ p.payload = Slice(p.part[1], p.part[2])
OnTheWay == {p \in Packets : Genuine(p)}
Kept     == {p \in Stored : Genuine(p)}

\* Bytes in which the first byte of a frame is nowhere but in front.
Clean == {d \in Seq(Bytes) : \A j \in DOMAIN d : d[j][2] = 1 => j = 1}

Stats == [sentdata : BOOLEAN, probation : Nat, prevseqnr : Nat, numcycles : Nat, exthighseqnr : Nat]

DataInv ==
    /\ TypeOK
    /\ net \in Seq(OnTheWay) /\ packetlist \in Seq(Kept)
    /\ data \in Clean /\ decoded \in Seq(Clean)

\* How a 16-bit number is extended.
LEMMA ExtendedCases ==
    ASSUME stats \in Stats, NEW seq \in 0 .. SeqCycle - 1,
           NEW maxseq16, maxseq16 = stats.exthighseqnr % SeqCycle
    PROVE  LET now == Extended(seq)
               wraps == seq < maxseq16 /\ SeqCycle + seq - maxseq16 < maxseq16 - seq
           IN  /\ maxseq16 \in 0 .. SeqCycle - 1
               /\ now \in Stats /\ now.sentdata = stats.sentdata
               /\ now.numcycles = IF wraps THEN stats.numcycles + SeqCycle ELSE stats.numcycles
               /\ now.exthighseqnr = IF seq >= maxseq16 \/ wraps THEN now.numcycles + seq
                                     ELSE stats.exthighseqnr
<1>0. SeqCycle \in Nat \ {0} /\ seq \in Nat
  BY TransportBounds
<1>1. maxseq16 \in 0 .. SeqCycle - 1
  BY <1>0 DEF Stats
<1> DEFINE far == (SeqCycle + seq - maxseq16) % SeqCycle < (maxseq16 - seq) % SeqCycle
           wraps == seq < maxseq16 /\ SeqCycle + seq - maxseq16 < maxseq16 - seq
           cycles == stats.numcycles + IF seq < maxseq16 /\ far THEN SeqCycle ELSE 0
           high == IF seq >= maxseq16 \/ (seq < maxseq16 /\ far) THEN cycles + seq ELSE stats.exthighseqnr
<1>2. (seq < maxseq16 /\ far) <=> wraps
  <2> SUFFICES ASSUME seq < maxseq16 PROVE far <=> SeqCycle + seq - maxseq16 < maxseq16 - seq
    OBVIOUS
  <2>1. SeqCycle + seq - maxseq16 \in 0 .. SeqCycle - 1 /\ maxseq16 - seq \in 0 .. SeqCycle - 1
    BY <1>0, <1>1
  <2>2. \A x \in 0 .. SeqCycle - 1 : x % SeqCycle = x
    BY <1>0
  <2> QED
    BY <2>1, <2>2
<1>3. Extended(seq) = [stats EXCEPT !.numcycles = cycles, !.exthighseqnr = high]
  BY DEF Extended
<1>4. wraps \in BOOLEAN /\ stats.numcycles \in Nat /\ stats.exthighseqnr \in Nat
  BY DEF Stats
<1>5. cycles = IF wraps THEN stats.numcycles + SeqCycle ELSE stats.numcycles
  <2> HIDE DEF wraps, far
  <2> QED
    BY <1>0, <1>2, <1>4
<1>6. high = IF seq >= maxseq16 \/ wraps THEN cycles + seq ELSE stats.exthighseqnr
  BY <1>2
<1> HIDE DEF wraps, far, cycles, high
<1>7. cycles \in Nat
  BY <1>0, <1>4, <1>5
<1>8. high \in Nat
  BY <1>0, <1>4, <1>6, <1>7
<1>9. /\ Extended(seq) \in Stats /\ Extended(seq).sentdata = stats.sentdata
      /\ Extended(seq).numcycles = cycles /\ Extended(seq).exthighseqnr = high
  BY <1>3, <1>7, <1>8 DEF Stats
<1> QED
  BY <1>1, <1>5, <1>6, <1>9 DEF wraps

\* The packet with which a source is accepted.
LEMMA AcceptCases ==
    ASSUME stats \in Stats, NEW seq \in 0 .. SeqCycle - 1
    PROVE  LET now == Accept(seq)
           IN  /\ now \in Stats /\ now.sentdata
               /\ now.numcycles = IF seq = 0 THEN SeqCycle ELSE stats.numcycles
               /\ now.exthighseqnr = IF seq = 0 THEN SeqCycle ELSE seq
<1>0. SeqCycle \in Nat \ {0} /\ seq \in Nat
  BY TransportBounds
<1> QED
  BY <1>0 DEF Accept, Stats

\* A source on probation is accepted, or goes on with its numbers as they were.
LEMMA ProbationCases ==
    ASSUME stats \in Stats, NEW seq \in 0 .. SeqCycle - 1
    PROVE  \/ OnProbation(seq) = Accept(seq)
           \/ /\ OnProbation(seq) \in Stats /\ OnProbation(seq).sentdata = stats.sentdata
              /\ OnProbation(seq).numcycles = stats.numcycles
<1>0. SeqCycle \in Nat \ {0} /\ seq \in Nat
  BY TransportBounds
<1> DEFINE next == stats.probation # 0 /\ seq = (stats.prevseqnr + 1) % SeqCycle
           left == IF next THEN stats.probation - 1 ELSE RTP_PROBATIONCOUNT
<1>1. OnProbation(seq) = IF next /\ stats.probation = 1 THEN Accept(seq)
                         ELSE [stats EXCEPT !.prevseqnr = seq, !.probation = left]
  BY DEF OnProbation
<1>2. left \in Nat
  BY DEF Stats, RTP_PROBATIONCOUNT
<1> HIDE DEF next, left
<1>3. [stats EXCEPT !.prevseqnr = seq, !.probation = left] \in Stats
  BY <1>0, <1>2 DEF Stats
<1>4. [stats EXCEPT !.prevseqnr = seq, !.probation = left].sentdata = stats.sentdata
  BY DEF Stats
<1>5. [stats EXCEPT !.prevseqnr = seq, !.probation = left].numcycles = stats.numcycles
  BY DEF Stats
<1> QED
  BY <1>1, <1>3, <1>4, <1>5

\* A source that was accepted stays so, and what is kept of it are numbers.
LEMMA ProcessPacketType ==
    ASSUME stats \in Stats, validated \in BOOLEAN, NEW seq \in 0 .. SeqCycle - 1
    PROVE  ProcessPacket(seq) \in Stats /\ (stats.sentdata => ProcessPacket(seq).sentdata)
<1>1. Accept(seq) \in Stats
  BY AcceptCases
<1>2. Extended(seq) \in Stats /\ Extended(seq).sentdata = stats.sentdata
  BY ExtendedCases
<1>3. OnProbation(seq) \in Stats
  BY <1>1, ProbationCases
<1> QED
  BY <1>1, <1>2, <1>3 DEF ProcessPacket

\* A genuine packet's payload are bytes of its frame, and only the first slice has the first.
LEMMA GenuinePart ==
    ASSUME NEW p, p \in Kept \/ p \in OnTheWay
    PROVE  /\ p.part[1] \in Frames /\ p.part[2] \in Nat
           /\ p.part = <<p.part[1], p.part[2]>>
           /\ p.part[2] < NumSlices(FrameLen[p.part[1]])
           /\ p.flag = Flag(FrameLen[p.part[1]], p.part[2])
           /\ p.payload = Slice(p.part[1], p.part[2])
BY DEF Kept, OnTheWay, Genuine, Stored, Packets, Parts

LEMMA GenuineBytes ==
    ASSUME NEW p \in Kept
    PROVE  /\ p.payload \in Seq(Bytes)
           /\ p.flag \in {"none", "start"} => p.payload \in Clean
           /\ p.flag \notin {"none", "start"} => \A j \in DOMAIN p.payload : p.payload[j][2] # 1
<1> DEFINE k == p.part[1]
           s == p.part[2]
<1>1. /\ k \in Frames /\ s \in Nat /\ s < NumSlices(FrameLen[k])
      /\ p.flag = Flag(FrameLen[k], s) /\ p.payload = Slice(k, s)
  BY GenuinePart
<1> HIDE DEF k, s
<1>2. /\ s * M \in Nat /\ (s # 0 => M <= s * M) /\ (s = 0 => s * M = 0)
      /\ Slice(k, s) \in Seq(Bytes) /\ \A j \in 1 .. Len(Slice(k, s)) : Slice(k, s)[j] = <<k, s * M + j>>
  BY <1>1, SliceBytes
<1>3. p.flag \in {"none", "start"} <=> s = 0
  BY <1>1, SliceFlag
<1>4. \A j \in DOMAIN p.payload : j \in Nat \ {0} /\ p.payload[j][2] = s * M + j
  BY <1>1, <1>2
<1>5. M \in Nat \ {0}
  BY Sizes
<1>6. ASSUME s = 0 PROVE \A j \in DOMAIN p.payload : p.payload[j][2] = 1 => j = 1
  BY <1>2, <1>4, <1>6
<1>7. ASSUME s # 0 PROVE \A j \in DOMAIN p.payload : p.payload[j][2] # 1
  BY <1>2, <1>4, <1>5, <1>7
<1> QED
  BY <1>1, <1>2, <1>3, <1>6, <1>7 DEF Clean

\* The buffer after a packet.
LEMMA JoinedClean ==
    ASSUME NEW p \in Kept, data \in Clean
    PROVE  Joined(p) \in Clean
<1>1. CASE p.flag \in {"none", "start"}
  BY <1>1, GenuineBytes DEF Joined
<1>2. CASE p.flag \notin {"none", "start"}
  <2>1. Joined(p) = data \o p.payload /\ p.payload \in Seq(Bytes) /\ data \in Seq(Bytes)
    BY <1>2, GenuineBytes DEF Joined, Clean
  <2>2. \A j \in DOMAIN data : data[j][2] = 1 => j = 1
    BY DEF Clean
  <2>3. \A j \in DOMAIN p.payload : p.payload[j][2] # 1
    BY <1>2, GenuineBytes
  <2>4. ASSUME NEW j \in 1 .. Len(data) + Len(p.payload), (data \o p.payload)[j][2] = 1
        PROVE  j = 1
    BY <2>1, <2>2, <2>3, <2>4
  <2>5. data \o p.payload \in Seq(Bytes) /\ DOMAIN (data \o p.payload) = 1 .. Len(data) + Len(p.payload)
    BY <2>1
  <2>6. data \o p.payload \in Clean
    BY ONLY <2>4, <2>5 DEF Clean
  <2> QED
    BY <2>1, <2>6
<1> QED
  BY <1>1, <1>2

LEMMA DataInit == Init => DataInv
<1> SUFFICES ASSUME Init PROVE DataInv
  OBVIOUS
<1>1. Len(FrameLen) \in Nat /\ Frames = 1 .. Len(FrameLen)
  BY Sizes DEF Frames
<1>2. 1 \in Frames => 0 < NumSlices(FrameLen[1])
  <2>1. \A f \in Frames : NumSlices(FrameLen[f]) \in Nat \ {0}
    BY Sizes, SliceCount
  <2> QED
    BY <2>1
<1>3. TypeOK
  <2>1. /\ frame \in 1 .. Len(FrameLen) + 1 /\ slice \in Nat /\ sent \in Nat
        /\ frame \in Frames => slice < NumSlices(FrameLen[frame])
        /\ first \in FirstSeqs /\ losses \in Nat /\ repeats \in Nat
    BY <1>1, <1>2 DEF Init
  <2>2. stats \in Stats /\ stats.sentdata = FALSE /\ validated = FALSE
    BY DEF Init, Stats
  <2>3. \A S : <<>> \in Seq(S)
    OBVIOUS
  <2>4. /\ net \in Seq(Packets) /\ packetlist \in Seq(Stored)
        /\ early \in Seq(Nat) /\ received \in Seq([id : Nat, part : Parts])
        /\ data \in Seq(Bytes) /\ decoded \in Seq(Seq(Bytes))
    BY <2>3 DEF Init
  <2> QED
    BY <2>1, <2>2, <2>4, Zenon DEF TypeOK, Stats
<1>4. data \in Clean
  BY DEF Init, Clean
<1> QED
  BY <1>3, <1>4 DEF Init, DataInv

\* A packet that is sent is genuine, and the sender goes on with a slice that exists.
LEMMA DataSend ==
    ASSUME DataInv, SendPacket
    PROVE  DataInv'
<1> DEFINE p == [id |-> sent, part |-> <<frame, slice>>, seq |-> SeqNr(sent),
                 flag |-> Flag(FrameLen[frame], slice), payload |-> Slice(frame, slice)]
<1>1. /\ frame \in Frames /\ slice \in Nat /\ slice < NumSlices(FrameLen[frame])
      /\ sent \in Nat /\ first \in FirstSeqs
  BY DEF SendPacket, DataInv, TypeOK
<1>2. SeqNr(sent) \in 0 .. SeqCycle - 1
  BY <1>1, TransportBounds DEF SeqNr
<1>3. Flag(FrameLen[frame], slice) \in Flags /\ Slice(frame, slice) \in Seq(Bytes)
  BY <1>1, SliceFlag, SliceBytes
<1>4. <<frame, slice>> \in Parts
  BY <1>1 DEF Parts
<1>5. p \in OnTheWay /\ p \in Packets
  BY <1>1, <1>2, <1>3, <1>4 DEF OnTheWay, Packets, Genuine
<1>6. net' = Append(net, p)
  BY DEF SendPacket
<1> HIDE DEF p
<1>7. net' \in Seq(OnTheWay) /\ net' \in Seq(Packets)
  BY <1>5, <1>6 DEF DataInv, TypeOK
<1>8. /\ frame' \in 1 .. Len(FrameLen) + 1 /\ slice' \in Nat /\ sent' \in Nat
      /\ frame' \in Frames => slice' < NumSlices(FrameLen[frame'])
  <2>1. Len(FrameLen) \in Nat /\ Frames = 1 .. Len(FrameLen)
    BY Sizes DEF Frames
  <2>2. \A f \in Frames : NumSlices(FrameLen[f]) \in Nat \ {0}
    BY Sizes, SliceCount
  <2>3. sent' = sent + 1
    BY DEF SendPacket
  <2>4. CASE slice + 1 < NumSlices(FrameLen[frame])
    <3>1. slice' = slice + 1 /\ frame' = frame
      BY <2>4 DEF SendPacket
    <3> QED
      BY <1>1, <2>1, <2>3, <2>4, <3>1
  <2>5. CASE ~(slice + 1 < NumSlices(FrameLen[frame]))
    <3>1. slice' = 0 /\ frame' = frame + 1
      BY <2>5 DEF SendPacket
    <3> QED
      BY <1>1, <2>1, <2>2, <2>3, <3>1
  <2> QED
    BY <2>4, <2>5
<1>9. UNCHANGED <<first, source, receiver, losses, repeats>>
  BY DEF SendPacket
<1> QED
  BY <1>7, <1>8, <1>9 DEF DataInv, TypeOK

LEMMA DataNetwork ==
    ASSUME DataInv, Lose \/ Repeat
    PROVE  DataInv'
<1>1. CASE Lose
  <2>1. net # <<>> /\ net' = Tail(net) /\ losses' = losses + 1 /\ UNCHANGED <<sender, source, receiver, repeats>>
    BY <1>1 DEF Lose
  <2>2. net' \in Seq(OnTheWay) /\ net' \in Seq(Packets)
    BY <2>1 DEF DataInv, TypeOK
  <2> QED
    BY <2>1, <2>2 DEF DataInv, TypeOK
<1>2. CASE Repeat
  <2>1. net # <<>> /\ net' = Append(net, Head(net)) /\ repeats' = repeats + 1 /\ UNCHANGED <<sender, source, receiver, losses>>
    BY <1>2 DEF Repeat
  <2>2. net' \in Seq(OnTheWay) /\ net' \in Seq(Packets)
    BY <2>1 DEF DataInv, TypeOK
  <2> QED
    BY <2>1, <2>2 DEF DataInv, TypeOK
<1> QED
  BY <1>1, <1>2

\* What Poll does with the packet it takes, for use in the proofs below.
Taken(i, p, ext, list) ==
    /\ i \in DOMAIN net /\ (~Overtake => i = 1) /\ p = net[i]
    /\ ext = IF ProcessPacket(p.seq).sentdata /\ (stats.sentdata \/ p.seq = 0)
             THEN ProcessPacket(p.seq).numcycles + p.seq ELSE p.seq
    /\ list = IF ~validated' /\ Len(packetlist) = MaxProbationPackets THEN Tail(packetlist) ELSE packetlist
    /\ stats' = ProcessPacket(p.seq) /\ validated' = (validated \/ ProcessPacket(p.seq).sentdata)
    /\ packetlist' = Insert(list, [id |-> p.id, part |-> p.part, ext |-> ext,
                                   flag |-> p.flag, payload |-> p.payload])
    /\ early' = IF stats.sentdata THEN early ELSE Append(early, p.id)
    /\ net' = RemoveAt(net, i)
    /\ UNCHANGED <<sender, receiver, losses, repeats>>

LEMMA PollTakes ==
    ASSUME DataInv, Poll
    PROVE  \E i, p, ext, list : Taken(i, p, ext, list)
<1>1. PICK i \in (IF Overtake THEN DOMAIN net ELSE {1}) :
          LET p == net[i]
              now == ProcessPacket(p.seq)
              ext == IF now.sentdata /\ (stats.sentdata \/ p.seq = 0) THEN now.numcycles + p.seq
                     ELSE p.seq
              full == ~validated' /\ Len(packetlist) = MaxProbationPackets
          IN  /\ stats' = now /\ validated' = (validated \/ now.sentdata)
              /\ packetlist' = Insert(IF full THEN Tail(packetlist) ELSE packetlist,
                                      [id |-> p.id, part |-> p.part, ext |-> ext,
                                       flag |-> p.flag, payload |-> p.payload])
              /\ early' = IF stats.sentdata THEN early ELSE Append(early, p.id)
              /\ net' = RemoveAt(net, i)
  BY DEF Poll
<1>2. i \in DOMAIN net /\ (~Overtake => i = 1)
  BY <1>1 DEF Poll, DataInv, TypeOK
<1>3. UNCHANGED <<sender, receiver, losses, repeats>>
  BY DEF Poll
<1> DEFINE p == net[i]
           now == ProcessPacket(p.seq)
           ext == IF now.sentdata /\ (stats.sentdata \/ p.seq = 0) THEN now.numcycles + p.seq
                  ELSE p.seq
           list == IF ~validated' /\ Len(packetlist) = MaxProbationPackets THEN Tail(packetlist) ELSE packetlist
<1>4. Taken(i, p, ext, list)
  BY <1>1, <1>2, <1>3 DEF Taken
<1> QED
  BY <1>4

LEMMA DataPoll ==
    ASSUME DataInv, Poll
    PROVE  DataInv'
<1>1. PICK i, p, ext, list : Taken(i, p, ext, list)
  BY PollTakes
<1> DEFINE e == [id |-> p.id, part |-> p.part, ext |-> ext, flag |-> p.flag, payload |-> p.payload]
<1>2. p \in OnTheWay /\ p \in Packets
  BY <1>1 DEF Taken, DataInv, OnTheWay
<1>3. p.seq \in 0 .. SeqCycle - 1 /\ p.seq \in Nat
  BY <1>2, TransportBounds DEF Packets
<1>4. /\ ProcessPacket(p.seq) \in Stats
      /\ stats.sentdata => ProcessPacket(p.seq).sentdata
  BY <1>3, ProcessPacketType DEF DataInv, TypeOK, Stats
<1>5. ext \in Nat
  <2>1. ProcessPacket(p.seq).numcycles \in Nat
    BY <1>4 DEF Stats
  <2> QED
    BY <1>1, <1>3, <2>1 DEF Taken
<1>6. e \in Stored /\ Genuine(e)
  BY <1>2, <1>5 DEF OnTheWay, Packets, Stored, Genuine
<1>7. e \in Kept
  BY <1>6 DEF Kept
<1>8. packetlist' = Insert(list, e)
  BY <1>1 DEF Taken
<1> HIDE DEF e
<1>9. list \in Seq(Kept) /\ list \in Seq(Stored)
  <2>1. MaxProbationPackets \in Nat \ {0, 1}
    BY TransportBounds
  <2>2. packetlist \in Seq(Kept) /\ packetlist \in Seq(Stored)
    BY DEF DataInv, TypeOK
  <2>3. ASSUME Len(packetlist) = MaxProbationPackets PROVE Tail(packetlist) \in Seq(Kept) /\ Tail(packetlist) \in Seq(Stored)
    BY <2>1, <2>2, <2>3
  <2> QED
    BY <1>1, <2>2, <2>3 DEF Taken
<1>10. Kept \in SUBSET Stored /\ Stored \in SUBSET Stored
  BY DEF Kept
<1>11. packetlist' \in Seq(Kept) /\ packetlist' \in Seq(Stored)
  BY <1>6, <1>7, <1>8, <1>9, <1>10, Inserting
<1>12. net' \in Seq(OnTheWay) /\ net' \in Seq(Packets)
  BY <1>1, Removing DEF Taken, DataInv, TypeOK
<1>13. validated' \in BOOLEAN /\ (stats'.sentdata => validated')
  BY <1>1 DEF Taken
<1>14. early' \in Seq(Nat)
  <2>1. p.id \in Nat /\ early \in Seq(Nat)
    BY <1>2 DEF Packets, DataInv, TypeOK
  <2> QED
    BY <1>1, <2>1 DEF Taken
<1>15. stats' \in Stats /\ UNCHANGED <<sender, receiver, losses, repeats>>
  BY <1>1, <1>4 DEF Taken
<1> QED
  BY <1>11, <1>12, <1>13, <1>14, <1>15 DEF DataInv, TypeOK, Stats

LEMMA DataReceive ==
    ASSUME DataInv, ReceivePacket
    PROVE  DataInv'
<1> DEFINE p == Head(packetlist)
<1>1. p \in Kept /\ p \in Stored /\ packetlist # <<>>
  BY DEF ReceivePacket, DataInv, TypeOK
<1>2. /\ received' = Append(received, [id |-> p.id, part |-> p.part])
      /\ IF p.flag \in {"none", "end"}
         THEN decoded' = Append(decoded, Joined(p)) /\ data' = <<>>
         ELSE decoded' = decoded /\ data' = Joined(p)
      /\ packetlist' = Tail(packetlist)
      /\ UNCHANGED <<sender, net, stats, validated, early, losses, repeats>>
  BY DEF ReceivePacket
<1> HIDE DEF p
<1>3. [id |-> p.id, part |-> p.part] \in [id : Nat, part : Parts]
  BY <1>1 DEF Stored
<1>4. received' \in Seq([id : Nat, part : Parts])
  BY <1>2, <1>3 DEF DataInv, TypeOK
<1>5. packetlist' \in Seq(Kept) /\ packetlist' \in Seq(Stored)
  BY <1>1, <1>2 DEF DataInv, TypeOK
<1>6. Joined(p) \in Clean /\ <<>> \in Clean /\ Clean \subseteq Seq(Bytes)
  <2>1. Joined(p) \in Clean
    BY <1>1, JoinedClean DEF DataInv
  <2> QED
    BY <2>1 DEF Clean
<1>7. data' \in Clean /\ data' \in Seq(Bytes)
  BY <1>2, <1>6
<1>8. decoded' \in Seq(Clean) /\ decoded' \in Seq(Seq(Bytes))
  <2>1. decoded \in Seq(Clean) /\ decoded \in Seq(Seq(Bytes)) /\ Joined(p) \in Seq(Bytes)
    BY <1>6 DEF DataInv, TypeOK
  <2>2. decoded' = decoded \/ decoded' = Append(decoded, Joined(p))
    BY <1>2
  <2>3. Append(decoded, Joined(p)) \in Seq(Clean)
    BY <1>6, <2>1
  <2>4. Append(decoded, Joined(p)) \in Seq(Seq(Bytes))
    BY <2>1, Appending
  <2> QED
    BY <2>1, <2>2, <2>3, <2>4
<1> QED
  BY <1>2, <1>4, <1>5, <1>7, <1>8 DEF DataInv, TypeOK

LEMMA DataStep == DataInv /\ [Next]_vars => DataInv'
<1> SUFFICES ASSUME DataInv, [Next]_vars PROVE DataInv'
  OBVIOUS
<1>1. CASE ProcessSDESItem
  BY <1>1 DEF ProcessSDESItem, DataInv, TypeOK
<1>2. CASE UNCHANGED vars
  BY <1>2 DEF DataInv, TypeOK
<1> QED
  BY <1>1, <1>2, DataSend, DataNetwork, DataPoll, DataReceive DEF Next

LEMMA DataInvariance == Spec => []DataInv
<1>1. Init => DataInv
  BY DataInit
<1>2. DataInv /\ [Next]_vars => DataInv'
  BY DataStep
<1> QED
  BY <1>1, <1>2, PTL DEF Spec

\* SendPacketAfterSlice sends slices that exist and only bytes of the frame (memcpy reads
\* nothing behind it), and whatever is lost, repeated or overtaken, sReceiveVideoPacket's
\* buffer and what it gives to the decoder are made of such bytes.
THEOREM TypeCorrectness == Spec => []TypeOK
<1>1. DataInv => TypeOK
  BY DEF DataInv
<1> QED
  BY <1>1, DataInvariance, PTL

\* sReceiveVideoPacket never gives the decoder a unit in which the beginning of a frame
\* follows what a lost end slice left in the buffer.
THEOREM StartsClean == Spec => []StartsAtStart
<1>1. DataInv => StartsAtStart
  BY DEF DataInv, Clean, StartsAtStart
<1> QED
  BY <1>1, DataInvariance, PTL

-----------------------------------------------------------------------------
(* Reassembly.                                                             *)

\* The last s packets that were received are the first s slices of frame k.
LastSlices(k, s) ==
    Len(received) >= s /\ \A i \in 1 .. s : received[Len(received) - s + i].part = <<k, i - 1>>

\* As long as slices of one frame come one after the other, the buffer holds the frame's
\* beginning.
Partial ==
    \A k \in Frames : \A s \in 1 .. NumSlices(FrameLen[k]) - 1 :
        LastSlices(k, s) => data = Beginning(k, s * M)

LEMMA LastSlicesStep ==
    ASSUME received \in Seq([id : Nat, part : Parts]), NEW e \in [id : Nat, part : Parts],
           received' = Append(received, e),
           NEW k \in Frames, NEW s \in Nat \ {0}, LastSlices(k, s)'
    PROVE  e.part = <<k, s - 1>> /\ (s # 1 => LastSlices(k, s - 1))
<1> DEFINE n == Len(received)
<1>1. n \in Nat /\ received' = Append(received, e) /\ Len(received') = n + 1
  OBVIOUS
<1>2. n + 1 >= s /\ \A i \in 1 .. s : received'[n + 1 - s + i].part = <<k, i - 1>>
  <2>1. Len(received') >= s /\ \A i \in 1 .. s : received'[Len(received') - s + i].part = <<k, i - 1>>
    BY Zenon DEF LastSlices
  <2>2. ASSUME NEW i \in 1 .. s PROVE received'[n + 1 - s + i].part = <<k, i - 1>>
    <3>1. Len(received') - s + i = n + 1 - s + i
      BY <1>1
    <3> QED
      BY <2>1, <3>1, Zenon
  <2> QED
    BY <1>1, <2>1, <2>2
<1>3. received'[n + 1] = e /\ \A i \in 1 .. n : received'[i] = received[i]
  OBVIOUS
<1> HIDE DEF n
<1>4. e.part = <<k, s - 1>>
  <2>1. s \in 1 .. s /\ n + 1 - s + s = n + 1
    BY <1>1
  <2> QED
    BY <1>2, <1>3, <2>1
<1>5. ASSUME s # 1 PROVE LastSlices(k, s - 1)
  <2>1. n >= s - 1 /\ s - 1 \in Nat
    BY <1>1, <1>2, <1>5
  <2>2. ASSUME NEW i \in 1 .. s - 1 PROVE received[n - (s - 1) + i].part = <<k, i - 1>>
    <3>1. i \in 1 .. s /\ n + 1 - s + i = n - (s - 1) + i /\ n - (s - 1) + i \in 1 .. n
      BY <1>1, <2>1
    <3> QED
      BY <1>2, <1>3, <3>1
  <2> QED
    BY <2>1, <2>2 DEF LastSlices, n
<1> QED
  BY <1>4, <1>5

\* The buffer after the s-th slice in a row.
LEMMA JoinedPart ==
    ASSUME DataInv, Partial, NEW p \in Kept, NEW k \in Frames,
           NEW s \in 1 .. NumSlices(FrameLen[k]),
           p.part = <<k, s - 1>>, s # 1 => LastSlices(k, s - 1)
    PROVE  Joined(p) = Beginning(k, IF s = NumSlices(FrameLen[k]) THEN FrameLen[k] ELSE s * M)
<1> DEFINE L == FrameLen[k]
           N == NumSlices(L)
           t == s - 1
           n == IF s = N THEN L - t * M ELSE M
<1>0. M \in Nat \ {0} /\ L \in Nat \ {0} /\ N \in Nat \ {0}
  BY Sizes, SliceCount
<1>1. s \in Nat /\ t \in Nat /\ t < N /\ (s = N <=> t = N - 1) /\ s = t + 1
  BY <1>0
<1>2. p.flag = Flag(L, t) /\ p.payload = Slice(k, t)
  <2>1. p.flag = Flag(FrameLen[p.part[1]], p.part[2]) /\ p.payload = Slice(p.part[1], p.part[2])
    BY GenuinePart
  <2>2. p.part[1] = k /\ p.part[2] = t
    OBVIOUS
  <2> QED
    BY <2>1, <2>2
<1> HIDE DEF t, N
<1>3. /\ t * M \in Nat /\ (t = 0 => t * M = 0)
      /\ Slice(k, t) \in Seq(Bytes)
      /\ Len(Slice(k, t)) = n
      /\ \A j \in 1 .. n : Slice(k, t)[j] = <<k, t * M + j>>
  <2>1. n = IF t = N - 1 THEN L - t * M ELSE M
    BY <1>1
  <2>2. t < NumSlices(FrameLen[k])
    BY <1>1 DEF N
  <2>3. /\ t * M \in Nat /\ (t = 0 => t * M = 0) /\ Slice(k, t) \in Seq(Bytes)
        /\ Len(Slice(k, t)) = IF t = NumSlices(FrameLen[k]) - 1 THEN FrameLen[k] - t * M ELSE M
        /\ \A j \in 1 .. Len(Slice(k, t)) : Slice(k, t)[j] = <<k, t * M + j>>
    BY <1>1, <2>2, SliceBytes
  <2>4. Len(Slice(k, t)) = n
    BY <2>1, <2>3, Zenon DEF N
  <2> QED
    BY <2>3, <2>4, Zenon
<1>4. p.flag \in {"none", "start"} <=> t = 0
  BY <1>1, <1>2, SliceFlag DEF N
<1>5. t * M + n = (IF s = N THEN L ELSE s * M) /\ n \in Nat
  <2>1. s * M = t * M + M /\ n = Len(Slice(k, t)) /\ Len(Slice(k, t)) \in Nat
    BY <1>0, <1>1, <1>3, Times
  <2> QED
    BY <1>0, <1>1, <1>3, <2>1
<1> HIDE DEF n
<1> SUFFICES Joined(p) = Beginning(k, t * M + n)
  BY <1>5 DEF N
<1>6. CASE t = 0
  <2>1. Joined(p) = Slice(k, t) /\ t * M = 0
    BY <1>2, <1>3, <1>4, <1>6 DEF Joined
  <2>2. \A j \in 1 .. n : Slice(k, t)[j] = <<k, j>>
    BY <1>3, <2>1
  <2>3. Slice(k, t) = Beginning(k, n)
    BY <1>3, <1>5, <2>2, Bytewise
  <2>4. t * M + n = n
    BY <1>5, <2>1
  <2> QED
    BY <2>1, <2>3, <2>4
<1>7. CASE t # 0
  <2>1. Joined(p) = data \o Slice(k, t)
    BY <1>2, <1>4, <1>7 DEF Joined
  <2>2. data = Beginning(k, t * M)
    <3>1. t \in 1 .. N - 1 /\ LastSlices(k, t)
      BY <1>0, <1>1, <1>7 DEF t
    <3> QED
      BY <3>1 DEF Partial, N
  <2>3. data \in Seq(Bytes) /\ Len(data) = t * M
    <3>1. data \in Seq(Bytes)
      BY DEF DataInv, TypeOK
    <3> QED
      BY <1>3, <2>2, <3>1 DEF Beginning
  <2> DEFINE q == data \o Slice(k, t)
  <2>4. /\ q \in Seq(Bytes) /\ Len(q) = t * M + n
        /\ \A i \in 1 .. t * M : q[i] = data[i]
        /\ \A i \in 1 .. n : q[t * M + i] = Slice(k, t)[i]
    BY <1>3, <2>3, Joining
  <2> HIDE DEF q
  <2>5. ASSUME NEW i \in 1 .. t * M + n PROVE q[i] = <<k, i>>
    <3>1. CASE i <= t * M
      BY <1>3, <2>2, <2>4, <3>1 DEF Beginning
    <3>2. CASE i > t * M
      <4>1. PICK j \in 1 .. n : i = t * M + j
        <5>1. i - t * M \in 1 .. n /\ i = t * M + (i - t * M)
          BY <1>3, <1>5, <2>4, <3>2
        <5> QED
          BY <5>1
      <4> QED
        BY <1>3, <2>4, <4>1
    <3> QED
      BY <1>3, <2>4, <3>1, <3>2
  <2>6. q = Beginning(k, t * M + n)
    <3>1. t * M + n \in Nat
      BY <1>3, <1>5
    <3> QED
      BY <2>4, <2>5, <3>1, Bytewise
  <2> QED
    BY <2>1, <2>6 DEF q
<1> QED
  BY <1>6, <1>7

\* What ReceivePacket does, for the proofs below.
LEMMA ReceiveTakes ==
    ASSUME DataInv, ReceivePacket
    PROVE  \E p \in Kept :
               /\ p = Head(packetlist) /\ packetlist # <<>>
               /\ received' = Append(received, [id |-> p.id, part |-> p.part])
               /\ [id |-> p.id, part |-> p.part] \in [id : Nat, part : Parts]
               /\ IF p.part[2] = NumSlices(FrameLen[p.part[1]]) - 1
                  THEN decoded' = Append(decoded, Joined(p)) /\ data' = <<>>
                  ELSE decoded' = decoded /\ data' = Joined(p)
<1> DEFINE p == Head(packetlist)
<1>1. p \in Kept /\ p \in Stored /\ packetlist # <<>>
  BY DEF ReceivePacket, DataInv, TypeOK
<1>2. /\ received' = Append(received, [id |-> p.id, part |-> p.part])
      /\ IF p.flag \in {"none", "end"}
         THEN decoded' = Append(decoded, Joined(p)) /\ data' = <<>>
         ELSE decoded' = decoded /\ data' = Joined(p)
  BY DEF ReceivePacket
<1> SUFFICES /\ [id |-> p.id, part |-> p.part] \in [id : Nat, part : Parts]
             /\ p.flag \in {"none", "end"} <=> p.part[2] = NumSlices(FrameLen[p.part[1]]) - 1
  BY <1>1, <1>2
<1> HIDE DEF p
<1>3. [id |-> p.id, part |-> p.part] \in [id : Nat, part : Parts]
  BY <1>1 DEF Stored
<1>4. /\ p.part[1] \in Frames /\ p.part[2] \in Nat
      /\ p.part[2] < NumSlices(FrameLen[p.part[1]])
      /\ p.flag = Flag(FrameLen[p.part[1]], p.part[2])
  BY <1>1, GenuinePart
<1>5. p.flag \in {"none", "end"} <=> p.part[2] = NumSlices(FrameLen[p.part[1]]) - 1
  BY <1>4, SliceFlag
<1> QED
  BY <1>3, <1>5

LEMMA JoinReceive ==
    ASSUME DataInv, Partial, WholeFrameIntact, ReceivePacket
    PROVE  Partial' /\ WholeFrameIntact'
<1>1. PICK p \in Kept :
         /\ received' = Append(received, [id |-> p.id, part |-> p.part])
         /\ [id |-> p.id, part |-> p.part] \in [id : Nat, part : Parts]
         /\ IF p.part[2] = NumSlices(FrameLen[p.part[1]]) - 1
            THEN decoded' = Append(decoded, Joined(p)) /\ data' = <<>>
            ELSE decoded' = decoded /\ data' = Joined(p)
  BY ReceiveTakes
<1> DEFINE n == Len(received)
<1>2. received \in Seq([id : Nat, part : Parts]) /\ decoded \in Seq(Seq(Bytes)) /\ n \in Nat
  BY DEF DataInv, TypeOK
<1>3. ASSUME NEW k \in Frames, NEW s \in Nat \ {0}, LastSlices(k, s)'
      PROVE  p.part = <<k, s - 1>> /\ (s # 1 => LastSlices(k, s - 1))
  BY <1>1, <1>2, <1>3, LastSlicesStep
<1>4. \A k \in Frames : NumSlices(FrameLen[k]) \in Nat \ {0}
  BY Sizes, SliceCount
<1>5. Partial'
  <2> SUFFICES ASSUME NEW k \in Frames, NEW s \in 1 .. NumSlices(FrameLen[k]) - 1, LastSlices(k, s)'
               PROVE  data' = Beginning(k, s * M)
    BY DEF Partial, M, Frames, Beginning
  <2>1. s \in Nat \ {0} /\ s \in 1 .. NumSlices(FrameLen[k]) /\ s # NumSlices(FrameLen[k])
    BY <1>4
  <2>2. p.part = <<k, s - 1>> /\ (s # 1 => LastSlices(k, s - 1))
    BY <1>3, <2>1
  <2>3. Joined(p) = Beginning(k, s * M)
    BY <2>1, <2>2, JoinedPart
  <2>4. p.part[1] = k /\ p.part[2] = s - 1 /\ s - 1 # NumSlices(FrameLen[k]) - 1
    BY <1>4, <2>1, <2>2
  <2> QED
    BY <1>1, <2>3, <2>4
<1>6. \A i \in DOMAIN decoded : i \in DOMAIN decoded' /\ decoded'[i] = decoded[i]
  <2>1. decoded' = decoded \/ decoded' = Append(decoded, Joined(p))
    BY <1>1
  <2>2. Joined(p) \in Clean /\ decoded \in Seq(Clean)
    BY JoinedClean DEF DataInv
  <2> QED
    BY <2>1, <2>2, Appending
<1>7. WholeFrameIntact'
  <2> SUFFICES ASSUME NEW k \in Frames, ReceivedWhole(k)'
               PROVE  \E i \in DOMAIN decoded' : decoded'[i] = Frame(k)
    BY DEF WholeFrameIntact, Frames, Frame
  <2> DEFINE N == NumSlices(FrameLen[k])
  <2>0. N \in Nat \ {0}
    BY <1>4
  <2>1. Len(received') = n + 1 /\ DOMAIN received' = 1 .. n + 1 /\ DOMAIN received = 1 .. n
        /\ \A i \in 1 .. n : received'[i] = received[i]
    BY <1>1, <1>2
  <2>2. PICK j \in 0 .. n + 1 : \A s \in 1 .. N : j + s \in 1 .. n + 1 /\ received'[j + s].part = <<k, s - 1>>
    BY <2>1 DEF ReceivedWhole
  <2> HIDE DEF N, n
  <2>3. j + N <= n + 1 /\ j \in Nat
    <3>1. N \in 1 .. N
      BY <2>0
    <3>2. j + N \in 1 .. n + 1
      BY <2>2, <3>1
    <3> QED
      BY <1>2, <2>0, <3>2 DEF n
  <2>4. CASE j + N <= n
    <3>1. ASSUME NEW s \in 1 .. N PROVE j + s \in DOMAIN received /\ received[j + s].part = <<k, s - 1>>
      <4>1. j + s \in 1 .. n
        BY <1>2, <2>0, <2>3, <2>4
      <4> QED
        BY <2>1, <2>2, <4>1
    <3>2. j \in 0 .. n
      BY <1>2, <2>0, <2>3, <2>4
    <3>3. ReceivedWhole(k)
      BY <3>1, <3>2 DEF ReceivedWhole, N, n
    <3>4. PICK i \in DOMAIN decoded : decoded[i] = Frame(k)
      BY <3>3 DEF WholeFrameIntact
    <3> QED
      BY <1>6, <3>4
  <2>5. CASE j + N = n + 1
    <3>1. LastSlices(k, N)'
      <4>1. n + 1 >= N
        BY <1>2, <2>0, <2>3, <2>5
      <4>2. ASSUME NEW i \in 1 .. N PROVE received'[n + 1 - N + i].part = <<k, i - 1>>
        <5>1. n + 1 - N + i = j + i
          BY <1>2, <2>0, <2>3, <2>5
        <5> QED
          BY <2>2, <5>1
      <4>3. Len(received') >= N /\ \A i \in 1 .. N : received'[Len(received') - N + i].part = <<k, i - 1>>
        <5>1. ASSUME NEW i \in 1 .. N PROVE received'[Len(received') - N + i].part = <<k, i - 1>>
          <6>1. Len(received') - N + i = n + 1 - N + i
            BY <1>2, <2>0, <2>1
          <6> QED
            BY <4>2, <6>1, Zenon
        <5> QED
          BY <2>1, <4>1, <5>1
      <4> QED
        BY <4>3 DEF LastSlices, N, Frames
    <3>2. p.part = <<k, N - 1>> /\ (N # 1 => LastSlices(k, N - 1))
      BY <1>3, <2>0, <3>1
    <3>3. Joined(p) = Beginning(k, FrameLen[k])
      <4>1. N \in 1 .. NumSlices(FrameLen[k]) /\ N = NumSlices(FrameLen[k])
        BY <2>0 DEF N
      <4> QED
        BY <3>2, <4>1, JoinedPart
    <3>4. Joined(p) = Frame(k)
      BY <3>3 DEF Frame, Beginning
    <3>5. decoded' = Append(decoded, Joined(p))
      <4>1. p.part[1] = k /\ p.part[2] = N - 1
        BY <3>2
      <4> QED
        BY <1>1, <4>1 DEF N
    <3>6. Len(decoded) + 1 \in DOMAIN decoded' /\ decoded'[Len(decoded) + 1] = Joined(p)
      BY <1>2, <3>5
    <3> QED
      BY <3>4, <3>6
  <2> QED
    BY <1>2, <2>0, <2>3, <2>4, <2>5
<1> QED
  BY <1>5, <1>7

JoinInv == DataInv /\ Partial /\ WholeFrameIntact

LEMMA JoinStep == JoinInv /\ [Next]_vars => JoinInv'
<1> SUFFICES ASSUME JoinInv, [Next]_vars PROVE JoinInv'
  OBVIOUS
<1>1. DataInv'
  BY DataStep DEF JoinInv
<1>2. CASE ReceivePacket
  BY <1>1, <1>2, JoinReceive DEF JoinInv
<1>3. CASE ~ReceivePacket
  <2>1. UNCHANGED receiver
    BY <1>3 DEF Next, SendPacket, Lose, Repeat, Poll, ProcessSDESItem
  <2> QED
    BY <1>1, <2>1 DEF JoinInv, Partial, LastSlices, WholeFrameIntact, ReceivedWhole
<1> QED
  BY <1>2, <1>3

\* Whatever is lost, repeated or overtaken around it, a frame whose slices are received one
\* after the other is given to the decoder exactly as SendPacketAfterSlice cut it up.
THEOREM FramesIntact == Spec => []WholeFrameIntact
<1>1. Init => JoinInv
  <2> SUFFICES ASSUME Init PROVE JoinInv
    OBVIOUS
  <2>1. received = <<>> /\ Len(received) = 0 /\ DOMAIN received = {}
    BY DEF Init
  <2>2. \A k \in Frames : NumSlices(FrameLen[k]) \in Nat \ {0}
    BY Sizes, SliceCount
  <2>3. Partial
    BY <2>1, <2>2 DEF Partial, LastSlices
  <2>4. ASSUME NEW k \in Frames PROVE ~ReceivedWhole(k)
    <3>1. 1 \in 1 .. NumSlices(FrameLen[k])
      BY <2>2
    <3> QED
      BY <2>1, <3>1 DEF ReceivedWhole
  <2> QED
    BY <2>3, <2>4, DataInit DEF JoinInv, WholeFrameIntact
<1>2. JoinInv /\ [Next]_vars => JoinInv'
  BY JoinStep
<1>3. JoinInv => WholeFrameIntact
  BY DEF JoinInv
<1> QED
  BY <1>1, <1>2, <1>3, PTL DEF Spec

-----------------------------------------------------------------------------
(* Numbers that wrap.                                                      *)

\* A number is its remainder and a multiple of the modulus, in one way only.
LEMMA Remainder ==
    ASSUME NEW C \in Nat \ {0}, NEW q \in Nat, NEW r \in 0 .. C - 1
    PROVE  (q * C + r) % C = r
<1> DEFINE a == q * C + r
           u == a \div C
           v == a % C
<1>0. q * C \in Nat /\ r \in Nat /\ r < C /\ a \in Nat
  BY Times
<1>1. u \in Nat /\ v \in Nat /\ v < C /\ a = u * C + v
  <2> HIDE DEF a
  <2> QED
    BY <1>0, Division
<1>2. a = q * C + r
  OBVIOUS
<1> SUFFICES v = r
  OBVIOUS
<1> HIDE DEF a, u, v
<1>3. u * C \in Nat /\ u * C + v = q * C + r
  BY <1>1, <1>2, Times
<1>4. ~(u < q)
  <2> SUFFICES ASSUME u < q PROVE FALSE
    OBVIOUS
  <2>1. (u + 1) * C <= q * C /\ (u + 1) * C = u * C + C
    BY <1>1, Times
  <2> QED
    BY <1>0, <1>1, <1>3, <2>1
<1>5. ~(q < u)
  <2> SUFFICES ASSUME q < u PROVE FALSE
    OBVIOUS
  <2>1. (q + 1) * C <= u * C /\ (q + 1) * C = q * C + C
    BY <1>1, Times
  <2> QED
    BY <1>0, <1>1, <1>3, <2>1
<1>6. u = q
  BY <1>1, <1>4, <1>5
<1> QED
  BY <1>0, <1>1, <1>3, <1>6

\* Extended numbers: whole cycles and a 16-bit number.
LEMMA WholeCycles ==
    ASSUME NEW C \in Nat \ {0}, NEW n \in Nat, n % C = 0
    PROVE  (n + C) % C = 0 /\ \A r \in 0 .. C - 1 : (n + r) % C = r
<1> DEFINE q == n \div C
<1>1. q \in Nat /\ n = q * C
  <2>1. q \in Nat /\ n = q * C + (n % C) /\ q * C \in Nat
    BY Division, Times
  <2> QED
    BY <2>1
<1> HIDE DEF q
<1>2. (q + 1) * C = n + C /\ (q + 1) * C \in Nat /\ q + 1 \in Nat
  BY <1>1, Times
<1>3. ((q + 1) * C + 0) % C = 0
  <2>1. 0 \in 0 .. C - 1
    OBVIOUS
  <2> QED
    BY <1>2, <2>1, Remainder
<1>4. (n + C) % C = 0
  <2>1. (q + 1) * C + 0 = n + C
    BY <1>2
  <2> QED
    BY <1>3, <2>1, Zenon
<1>5. \A r \in 0 .. C - 1 : (n + r) % C = r
  BY <1>1, Remainder
<1> QED
  BY <1>4, <1>5

\* Less than a cycle further on, the 16-bit number is so much higher, or has wrapped once.
LEMMA Ahead ==
    ASSUME NEW C \in Nat \ {0}, NEW a \in Nat, NEW g \in Nat, g < C
    PROVE  \/ (a % C) + g < C /\ (a + g) % C = (a % C) + g
           \/ (a % C) + g >= C /\ (a + g) % C = (a % C) + g - C
<1> DEFINE q == a \div C
           r == a % C
<1>1. q \in Nat /\ r \in Nat /\ r < C /\ a = q * C + r /\ q * C \in Nat
  BY Division, Times
<1> HIDE DEF q, r
<1>2. CASE r + g < C
  <2>1. r + g \in 0 .. C - 1 /\ a + g = q * C + (r + g)
    BY <1>1, <1>2
  <2>2. (q * C + (r + g)) % C = r + g
    BY <1>1, <2>1, Remainder
  <2> QED
    BY <1>2, <2>1, <2>2 DEF r
<1>3. CASE r + g >= C
  <2>1. r + g - C \in 0 .. C - 1 /\ (q + 1) * C = q * C + C /\ q + 1 \in Nat
    BY <1>1, <1>3, Times
  <2>2. ((q + 1) * C + (r + g - C)) % C = r + g - C
    BY <2>1, Remainder
  <2>3. a + g = (q + 1) * C + (r + g - C)
    BY <1>1, <2>1
  <2> QED
    BY <1>3, <2>2, <2>3 DEF r
<1> QED
  BY <1>1, <1>2, <1>3

\* The list when a packet with a higher number than all others comes.
LEMMA InsertingLast ==
    ASSUME NEW q \in Seq(Stored), NEW p \in Stored, \A i \in DOMAIN q : q[i].ext < p.ext
    PROVE  Insert(q, p) = Append(q, p)
<1> DEFINE B == {0} \cup {i \in DOMAIN q : q[i].ext <= p.ext}
           at == Max(B)
<1>0. p.ext \in Nat /\ \A i \in DOMAIN q : q[i].ext \in Nat /\ q[i].ext < p.ext
  <2>1. \A e \in Stored : e.ext \in Nat
    BY DEF Stored
  <2>2. \A i \in DOMAIN q : q[i] \in Stored
    OBVIOUS
  <2> QED
    BY <2>1, <2>2, Zenon
<1>1. Len(q) \in Nat /\ B \in SUBSET (0 .. Len(q)) /\ B # {} /\ Len(q) \in B /\ DOMAIN q = 1 .. Len(q)
  <2>1. Len(q) \in Nat /\ DOMAIN q = 1 .. Len(q)
    OBVIOUS
  <2>2. \A i \in DOMAIN q : q[i].ext \in Nat /\ p.ext \in Nat /\ q[i].ext <= p.ext
    BY <1>0
  <2>3. Len(q) = 0 \/ Len(q) \in DOMAIN q
    BY <2>1
  <2> QED
    BY <2>1, <2>2, <2>3
<1>2. at = Len(q)
  <2>1. at \in B /\ Len(q) <= at
    <3> HIDE DEF B
    <3> QED
      BY <1>1, Greatest
  <2>2. at \in 0 .. Len(q)
    BY <1>1, <2>1
  <2>3. \A a, b \in Nat : a \in 0 .. b /\ b <= a => a = b
    OBVIOUS
  <2>4. at \in Nat /\ Len(q) \in Nat /\ Len(q) <= at
    BY <1>1, <2>1, <2>2
  <2> QED
    BY <2>2, <2>3, <2>4, Zenon
<1>3. Insert(q, p) = IF at # 0 /\ q[at].ext = p.ext THEN q ELSE InsertAt(q, at + 1, p)
  BY DEF Insert
<1> HIDE DEF at, B
<1>4. ~(at # 0 /\ q[at].ext = p.ext)
  <2> SUFFICES ASSUME at # 0 PROVE q[at].ext # p.ext
    OBVIOUS
  <2>1. at \in DOMAIN q
    BY <1>1, <1>2
  <2>2. q[at].ext \in Nat /\ p.ext \in Nat /\ q[at].ext < p.ext
    BY <1>0, <2>1
  <2> QED
    BY <2>2
<1>5. Insert(q, p) = InsertAt(q, Len(q) + 1, p)
  BY <1>2, <1>3, <1>4
<1>6. InsertAt(q, Len(q) + 1, p) = Append(q, p)
  <2>1. SubSeq(q, 1, (Len(q) + 1) - 1) = q
    <3>1. (Len(q) + 1) - 1 = Len(q)
      BY <1>1
    <3>2. SubSeq(q, 1, Len(q)) = q
      OBVIOUS
    <3> QED
      BY <3>1, <3>2, Zenon
  <2>2. SubSeq(q, Len(q) + 1, Len(q)) = <<>>
    BY <1>1
  <2>3. q \o <<p>> \o <<>> = Append(q, p)
    OBVIOUS
  <2> QED
    BY <2>1, <2>2, <2>3, Zenon DEF InsertAt
<1> QED
  BY <1>5, <1>6

\* The first packet is taken from the network.
LEMMA RemovingFirst ==
    ASSUME NEW S, NEW q \in Seq(S), q # <<>>
    PROVE  RemoveAt(q, 1) = Tail(q)
<1>1. SubSeq(q, 1, 1 - 1) = <<>>
  OBVIOUS
<1>2. SubSeq(q, 1 + 1, Len(q)) = Tail(q)
  OBVIOUS
<1>3. <<>> \o Tail(q) = Tail(q)
  OBVIOUS
<1> QED
  BY <1>1, <1>2, <1>3 DEF RemoveAt

LEMMA TailFacts ==
    ASSUME NEW S, NEW q \in Seq(S), q # <<>>
    PROVE  /\ Len(q) \in Nat \ {0} /\ Tail(q) \in Seq(S) /\ Len(Tail(q)) = Len(q) - 1
           /\ DOMAIN q = 1 .. Len(q) /\ DOMAIN Tail(q) = 1 .. Len(q) - 1
           /\ 1 \in DOMAIN q /\ Head(q) = q[1]
           /\ \A i \in 1 .. Len(q) - 1 : i + 1 \in DOMAIN q /\ Tail(q)[i] = q[i + 1]
OBVIOUS

-----------------------------------------------------------------------------
(* The order of packets.                                                   *)

\* The premise of ReceivedInOrder.
Orderly == ~Overtake /\ repeats = 0 /\ 2 * (losses + 1) < SeqCycle /\ ~WrappedOnProbation

\* The network holds the packets sent last, in order.
Due == sent - Len(net)
Lined == /\ Len(net) <= sent
         /\ \A i \in DOMAIN net : net[i].id = Due + i - 1 /\ net[i].seq = SeqNr(net[i].id)

Rising(q) == \A i, j \in DOMAIN q : i < j => q[i].id < q[j].id

\* The list is sorted by extended numbers as by ids, and behind what was received.
Sorted(taken, list) ==
    /\ Rising(taken) /\ Rising(list)
    /\ \A i, j \in DOMAIN list : i < j => list[i].ext < list[j].ext
    /\ \A i \in DOMAIN taken, j \in DOMAIN list : taken[i].id < list[j].id

\* h is the last packet that arrived: at most the lost packets are between it and the next
\* one, and no number in the list is above its own.
Top(h) == IF stats.sentdata THEN stats.exthighseqnr ELSE SeqNr(h)
Highest(h) ==
    /\ h < Due /\ Due <= h + 1 + losses
    /\ \A i \in DOMAIN packetlist : packetlist[i].id <= h /\ packetlist[i].ext <= Top(h)
    /\ \A i \in DOMAIN received : received[i].id <= h
    /\ IF stats.sentdata THEN stats.exthighseqnr = stats.numcycles + SeqNr(h)
       ELSE h = early[Len(early)]

OrderInv ==
    /\ Lined /\ Sorted(received, packetlist)
    /\ stats.numcycles % SeqCycle = 0 /\ (~stats.sentdata => stats.numcycles = 0)
    /\ IF early = <<>> THEN ~stats.sentdata /\ packetlist = <<>> /\ received = <<>>
       ELSE \E h \in Nat : Highest(h)

LEMMA OrderInit == Init => OrderInv
<1> SUFFICES ASSUME Init PROVE OrderInv
  OBVIOUS
<1>1. net = <<>> /\ Len(net) = 0 /\ DOMAIN net = {} /\ sent = 0
  BY DEF Init
<1>2. Lined
  BY <1>1 DEF Lined
<1>3. DOMAIN received = {} /\ DOMAIN packetlist = {} /\ early = <<>> /\ packetlist = <<>> /\ received = <<>>
  BY DEF Init
<1>4. Sorted(received, packetlist)
  BY <1>3 DEF Sorted, Rising
<1>5. stats.numcycles = 0 /\ stats.sentdata = FALSE
  BY DEF Init
<1>6. 0 % SeqCycle = 0
  BY TransportBounds
<1> QED
  BY <1>2, <1>3, <1>4, <1>5, <1>6 DEF OrderInv

\* The premise holds in all states before one in which it holds.
LEMMA OrderlyBefore ==
    ASSUME DataInv, [Next]_vars, Orderly'
    PROVE  Orderly
<1>1. losses \in Nat /\ repeats \in Nat /\ early \in Seq(Nat) /\ stats.sentdata \in BOOLEAN
  BY DEF DataInv, TypeOK
<1>2. (losses' = losses \/ losses' = losses + 1) /\ (repeats' = repeats \/ repeats' = repeats + 1)
  BY DEF Next, SendPacket, Lose, Repeat, Poll, ProcessSDESItem, ReceivePacket
<1>3. ~Overtake /\ repeats' = 0 /\ 2 * (losses' + 1) < SeqCycle
  BY DEF Orderly
<1>4. repeats = 0 /\ 2 * (losses + 1) < SeqCycle
  BY <1>1, <1>2, <1>3, TransportBounds
<1>5. first' = first
  BY DEF Next, SendPacket, Lose, Repeat, Poll, ProcessSDESItem, ReceivePacket
<1>6. \/ early' = early /\ stats'.sentdata = stats.sentdata
      \/ ~stats.sentdata /\ \E x \in Nat : early' = Append(early, x)
  <2>1. CASE Poll
    <3>1. PICK i, p, ext, list : Taken(i, p, ext, list)
      BY <2>1, PollTakes
    <3>2. /\ p \in Packets /\ early' = (IF stats.sentdata THEN early ELSE Append(early, p.id))
          /\ stats' = ProcessPacket(p.seq)
      BY <3>1 DEF Taken, DataInv, TypeOK
    <3>3. p.id \in Nat /\ p.seq \in 0 .. SeqCycle - 1
      BY <3>2 DEF Packets
    <3>4. stats.sentdata => stats'.sentdata = stats.sentdata
      <4>1. stats \in Stats
        BY DEF DataInv, TypeOK, Stats
      <4>2. Extended(p.seq).sentdata = stats.sentdata
        BY <3>3, <4>1, ExtendedCases
      <4> QED
        BY <3>2, <4>2 DEF ProcessPacket
    <3> QED
      BY <3>2, <3>3, <3>4
  <2>2. CASE ~Poll
    BY <2>2 DEF Next, SendPacket, Lose, Repeat, ProcessSDESItem, ReceivePacket
  <2> QED
    BY <2>1, <2>2
<1>7. ASSUME WrappedOnProbation PROVE WrappedOnProbation'
  <2>1. PICK i, j \in DOMAIN early :
           /\ i < j /\ SeqNr(early[i]) > SeqNr(early[j])
           /\ ~(stats.sentdata /\ j = Len(early) /\ SeqNr(early[j]) = 0)
    BY <1>7 DEF WrappedOnProbation
  <2>2. CASE early' = early /\ stats'.sentdata = stats.sentdata
    BY <1>5, <2>1, <2>2 DEF WrappedOnProbation, SeqNr
  <2>3. CASE ~stats.sentdata /\ \E x \in Nat : early' = Append(early, x)
    <3>1. PICK x \in Nat : early' = Append(early, x)
      BY <2>3
    <3>2. /\ i \in DOMAIN early' /\ j \in DOMAIN early' /\ early'[i] = early[i] /\ early'[j] = early[j]
          /\ Len(early') = Len(early) + 1 /\ j # Len(early')
      BY <1>1, <3>1
    <3> QED
      BY <1>5, <2>1, <3>2 DEF WrappedOnProbation, SeqNr
  <2> QED
    BY <1>6, <2>2, <2>3
<1> QED
  BY <1>3, <1>4, <1>7 DEF Orderly

LEMMA LinedAppend ==
    ASSUME DataInv, Lined, SendPacket
    PROVE  Lined' /\ Due' = Due
<1> DEFINE n == Len(net)
<1>1. PICK p \in Packets : net' = Append(net, p) /\ p.id = sent /\ p.seq = SeqNr(sent)
  <2> DEFINE p == [id |-> sent, part |-> <<frame, slice>>, seq |-> SeqNr(sent),
                   flag |-> Flag(FrameLen[frame], slice), payload |-> Slice(frame, slice)]
  <2>1. net' = Append(net, p) /\ p.id = sent /\ p.seq = SeqNr(sent)
    BY DEF SendPacket
  <2>2. net' \in Seq(Packets)
    BY DataSend DEF DataInv, TypeOK
  <2>3. p \in Packets
    <3> HIDE DEF p
    <3>1. net' = Append(net, p) /\ net \in Seq(Packets)
      BY <2>1 DEF DataInv, TypeOK
    <3>2. net'[Len(net) + 1] = p /\ Len(net) + 1 \in DOMAIN net'
      BY <3>1
    <3> QED
      BY <2>2, <3>2
  <2> QED
    BY <2>1, <2>3
<1>2. n \in Nat /\ Len(net') = n + 1 /\ DOMAIN net = 1 .. n /\ DOMAIN net' = 1 .. n + 1
      /\ net'[n + 1] = p /\ \A i \in 1 .. n : net'[i] = net[i]
  BY <1>1, Appending DEF DataInv, TypeOK
<1>3. sent \in Nat /\ sent' = sent + 1 /\ first' = first /\ n <= sent
  BY DEF SendPacket, DataInv, TypeOK, Lined
<1>4. Due = sent - n /\ Due' = sent - n /\ Len(net') <= sent'
  <2>1. Due' = sent' - Len(net')
    BY DEF Due
  <2> QED
    BY <1>2, <1>3, <2>1 DEF Due
<1>5. ASSUME NEW i \in 1 .. n + 1 PROVE net'[i].id = Due' + i - 1 /\ net'[i].seq = SeqNr(net'[i].id)
  <2>1. CASE i = n + 1
    BY <1>1, <1>2, <1>3, <1>4, <2>1
  <2>2. CASE i # n + 1
    <3>1. i \in DOMAIN net /\ net'[i] = net[i]
      BY <1>2, <2>2
    <3> QED
      BY <1>4, <3>1 DEF Lined
  <2> QED
    BY <2>1, <2>2
<1> HIDE DEF n
<1>6. ASSUME NEW i \in DOMAIN net' PROVE net'[i].id = Due' + i - 1 /\ net'[i].seq = (first' + net'[i].id) % SeqCycle
  BY <1>2, <1>3, <1>5 DEF SeqNr
<1> QED
  BY <1>4, <1>6 DEF Lined, SeqNr

LEMMA LinedTail ==
    ASSUME DataInv, Lined, net # <<>>, net' = Tail(net), sent' = sent, first' = first
    PROVE  /\ Lined' /\ Due \in Nat /\ Due' = Due + 1
           /\ net[1].id = Due /\ net[1].seq = SeqNr(Due)
<1> DEFINE n == Len(net)
<1>1. /\ n \in Nat \ {0} /\ DOMAIN net = 1 .. n /\ DOMAIN net' = 1 .. n - 1 /\ Len(net') = n - 1
      /\ \A i \in 1 .. n - 1 : i + 1 \in DOMAIN net /\ net'[i] = net[i + 1]
  BY TailFacts DEF DataInv, TypeOK
<1>2. sent \in Nat /\ n <= sent
  BY DEF DataInv, TypeOK, Lined
<1>3. \A i \in 1 .. n : net[i].id = Due + i - 1 /\ net[i].seq = SeqNr(net[i].id)
  BY <1>1 DEF Lined
<1>4. Due = sent - n /\ Due \in Nat /\ Due' = sent - (n - 1) /\ Due' = Due + 1 /\ Len(net') <= sent
  <2>1. Due' = sent' - Len(net')
    BY DEF Due
  <2> QED
    BY <1>1, <1>2, <2>1 DEF Due
<1> HIDE DEF n
<1>5. net[1].id = Due /\ net[1].seq = SeqNr(Due)
  <2>1. 1 \in 1 .. n /\ Due + 1 - 1 = Due
    BY <1>1, <1>4
  <2> QED
    BY <1>3, <2>1
<1>6. ASSUME NEW i \in DOMAIN net' PROVE net'[i].id = Due' + i - 1 /\ net'[i].seq = (first' + net'[i].id) % SeqCycle
  <2>1. i + 1 \in 1 .. n /\ net'[i] = net[i + 1] /\ i \in Nat
    BY <1>1
  <2>2. net[i + 1].id = Due + (i + 1) - 1 /\ net[i + 1].seq = SeqNr(net[i + 1].id)
    BY <1>3, <2>1
  <2>3. Due + (i + 1) - 1 = Due' + i - 1
    BY <1>4, <2>1
  <2> QED
    BY <2>1, <2>2, <2>3 DEF SeqNr
<1> QED
  BY <1>1, <1>2, <1>4, <1>5, <1>6 DEF Lined, SeqNr

\* The packets that were received and the list, as a packet leaves, comes or moves on.
Taking == [id : Nat, part : Parts]

LEMMA SortedTail ==
    ASSUME NEW r \in Seq(Taking), NEW q \in Seq(Stored), q # <<>>, Sorted(r, q)
    PROVE  Sorted(r, Tail(q)) /\ \A i \in DOMAIN Tail(q) : \E j \in DOMAIN q : Tail(q)[i] = q[j]
<1>1. /\ Len(q) \in Nat \ {0} /\ DOMAIN Tail(q) = 1 .. Len(q) - 1
      /\ \A i \in 1 .. Len(q) - 1 : i + 1 \in DOMAIN q /\ Tail(q)[i] = q[i + 1]
  BY TailFacts
<1>2. ASSUME NEW i \in DOMAIN Tail(q), NEW j \in DOMAIN Tail(q), i < j
      PROVE  Tail(q)[i].id < Tail(q)[j].id /\ Tail(q)[i].ext < Tail(q)[j].ext
  <2>1. i + 1 \in DOMAIN q /\ j + 1 \in DOMAIN q /\ i + 1 < j + 1 /\ Tail(q)[i] = q[i + 1] /\ Tail(q)[j] = q[j + 1]
    BY <1>1, <1>2
  <2> QED
    BY <2>1 DEF Sorted, Rising
<1>3. ASSUME NEW i \in DOMAIN r, NEW j \in DOMAIN Tail(q) PROVE r[i].id < Tail(q)[j].id
  BY <1>1 DEF Sorted
<1> QED
  BY <1>1, <1>2, <1>3 DEF Sorted, Rising

LEMMA SortedAppend ==
    ASSUME NEW r \in Seq(Taking), NEW q \in Seq(Stored), Sorted(r, q), NEW e \in Stored,
           \A i \in DOMAIN q : q[i].id < e.id /\ q[i].ext < e.ext,
           \A i \in DOMAIN r : r[i].id < e.id
    PROVE  Sorted(r, Append(q, e))
<1> DEFINE n == Len(q)
           a == Append(q, e)
<1>1. /\ n \in Nat /\ DOMAIN q = 1 .. n /\ DOMAIN a = 1 .. n + 1
      /\ a[n + 1] = e /\ \A i \in 1 .. n : a[i] = q[i]
  BY Appending
<1> HIDE DEF n, a
<1>2. ASSUME NEW i \in DOMAIN a, NEW j \in DOMAIN a, i < j
      PROVE  a[i].id < a[j].id /\ a[i].ext < a[j].ext
  <2>1. i \in DOMAIN q /\ a[i] = q[i]
    BY <1>1, <1>2
  <2>2. CASE j = n + 1
    BY <1>1, <2>1, <2>2
  <2>3. CASE j # n + 1
    <3>1. j \in DOMAIN q /\ a[j] = q[j]
      BY <1>1, <2>3
    <3> QED
      BY <1>2, <2>1, <3>1 DEF Sorted, Rising
  <2> QED
    BY <2>2, <2>3
<1>3. ASSUME NEW i \in DOMAIN r, NEW j \in DOMAIN a PROVE r[i].id < a[j].id
  <2>1. CASE j = n + 1
    BY <1>1, <2>1
  <2>2. CASE j # n + 1
    <3>1. j \in DOMAIN q /\ a[j] = q[j]
      BY <1>1, <2>2
    <3> QED
      BY <3>1 DEF Sorted
  <2> QED
    BY <2>1, <2>2
<1>4. Rising(r)
  BY DEF Sorted
<1> QED
  BY <1>2, <1>3, <1>4 DEF Sorted, Rising, a

LEMMA SortedMove ==
    ASSUME NEW r \in Seq(Taking), NEW q \in Seq(Stored), q # <<>>, Sorted(r, q),
           NEW e \in Taking, e.id = q[1].id
    PROVE  Sorted(Append(r, e), Tail(q))
<1> DEFINE n == Len(r)
           a == Append(r, e)
<1>1. /\ n \in Nat /\ DOMAIN r = 1 .. n /\ DOMAIN a = 1 .. n + 1
      /\ a[n + 1] = e /\ \A i \in 1 .. n : a[i] = r[i]
  BY Appending
<1> HIDE DEF n, a
<1>2. Sorted(r, Tail(q))
  BY SortedTail
<1>3. /\ Len(q) \in Nat \ {0} /\ DOMAIN Tail(q) = 1 .. Len(q) - 1 /\ 1 \in DOMAIN q
      /\ \A i \in 1 .. Len(q) - 1 : i + 1 \in DOMAIN q /\ Tail(q)[i] = q[i + 1]
  BY TailFacts
<1>4. ASSUME NEW i \in DOMAIN a, NEW j \in DOMAIN a, i < j PROVE a[i].id < a[j].id
  <2>1. i \in DOMAIN r /\ a[i] = r[i]
    BY <1>1, <1>4
  <2>2. CASE j = n + 1
    BY <1>1, <1>3, <2>1, <2>2 DEF Sorted
  <2>3. CASE j # n + 1
    <3>1. j \in DOMAIN r /\ a[j] = r[j]
      BY <1>1, <2>3
    <3> QED
      BY <1>4, <2>1, <3>1 DEF Sorted, Rising
  <2> QED
    BY <2>2, <2>3
<1>5. ASSUME NEW i \in DOMAIN a, NEW j \in DOMAIN Tail(q) PROVE a[i].id < Tail(q)[j].id
  <2>1. CASE i = n + 1
    <3>1. a[i].id = q[1].id
      BY <1>1, <2>1
    <3>2. j + 1 \in DOMAIN q /\ Tail(q)[j] = q[j + 1] /\ 1 < j + 1
      BY <1>3
    <3> QED
      BY <1>3, <3>1, <3>2 DEF Sorted, Rising
  <2>2. CASE i # n + 1
    <3>1. i \in DOMAIN r /\ a[i] = r[i]
      BY <1>1, <2>2
    <3> QED
      BY <1>2, <3>1 DEF Sorted
  <2> QED
    BY <2>1, <2>2
<1> QED
  BY <1>2, <1>4, <1>5 DEF Sorted, Rising, a

\* The 16-bit number of the next packet, seen from the last one that arrived.
LEMMA Gap ==
    ASSUME DataInv, Lined, Orderly, NEW h \in Nat, Highest(h)
    PROVE  LET g == Due - h
           IN  /\ g \in Nat \ {0} /\ 2 * g < SeqCycle
               /\ SeqNr(h) \in 0 .. SeqCycle - 1 /\ SeqNr(Due) \in 0 .. SeqCycle - 1
               /\ \/ SeqNr(Due) = SeqNr(h) + g
                  \/ SeqNr(Due) = SeqNr(h) + g - SeqCycle
<1> DEFINE g == Due - h
<1>1. SeqCycle \in Nat \ {0} /\ first \in Nat /\ losses \in Nat /\ 2 * (losses + 1) < SeqCycle
  BY TransportBounds DEF DataInv, TypeOK, Orderly
<1>2. Due \in Nat
  BY DEF DataInv, TypeOK, Lined, Due
<1>3. h < Due /\ Due <= h + 1 + losses
  BY DEF Highest
<1>4. g \in Nat \ {0} /\ 2 * g < SeqCycle /\ g < SeqCycle /\ first + Due = (first + h) + g /\ first + h \in Nat /\ first + Due \in Nat
  BY <1>1, <1>2, <1>3
<1> HIDE DEF g
<1>5. /\ \/ (first + h + g) % SeqCycle = ((first + h) % SeqCycle) + g
         \/ (first + h + g) % SeqCycle = ((first + h) % SeqCycle) + g - SeqCycle
  BY <1>1, <1>4, Ahead
<1>6. SeqNr(h) = (first + h) % SeqCycle /\ SeqNr(Due) = (first + h + g) % SeqCycle
  BY <1>4, Zenon DEF SeqNr
<1>7. (first + h) % SeqCycle \in 0 .. SeqCycle - 1 /\ (first + Due) % SeqCycle \in 0 .. SeqCycle - 1
  BY <1>1, <1>4
<1>8. SeqNr(h) \in 0 .. SeqCycle - 1 /\ SeqNr(Due) \in 0 .. SeqCycle - 1
  BY <1>7, Zenon DEF SeqNr
<1> QED
  BY <1>4, <1>5, <1>6, <1>8, Zenon DEF g

\* On probation the numbers do not wrap, but for the wrap that ends it.
LEMMA Unwrapped ==
    ASSUME DataInv, Lined, Orderly, Orderly', first' = first, ~stats.sentdata,
           NEW h \in Nat, Highest(h), early # <<>>, early' = Append(early, Due), Due \in Nat,
           ~(stats'.sentdata /\ SeqNr(Due) = 0)
    PROVE  SeqNr(h) < SeqNr(Due)
<1> DEFINE n == Len(early)
<1>1. early \in Seq(Nat) /\ n \in Nat \ {0} /\ n \in DOMAIN early
  BY DEF DataInv, TypeOK
<1>2. /\ n \in DOMAIN early' /\ n + 1 \in DOMAIN early' /\ n < n + 1 /\ Len(early') = n + 1
      /\ early'[n] = early[n] /\ early'[n + 1] = Due
  BY <1>1, Appending
<1>3. h = early[n]
  BY DEF Highest
<1> HIDE DEF n
<1>4. ~((first' + early'[n]) % SeqCycle > (first' + early'[n + 1]) % SeqCycle)
  <2> SUFFICES ASSUME (first' + early'[n]) % SeqCycle > (first' + early'[n + 1]) % SeqCycle
               PROVE  WrappedOnProbation'
    BY DEF Orderly
  <2>1. ~(stats'.sentdata /\ (first' + early'[n + 1]) % SeqCycle = 0)
    BY <1>2 DEF SeqNr
  <2> QED
    BY <1>2, <2>1 DEF WrappedOnProbation, SeqNr
<1>5. ~(SeqNr(h) > SeqNr(Due))
  BY <1>2, <1>3, <1>4 DEF SeqNr
<1>6. SeqNr(h) \in 0 .. SeqCycle - 1 /\ SeqNr(Due) \in 0 .. SeqCycle - 1 /\ SeqNr(h) # SeqNr(Due)
  <2>1. /\ Due - h \in Nat \ {0} /\ 2 * (Due - h) < SeqCycle
        /\ SeqNr(h) \in 0 .. SeqCycle - 1 /\ SeqNr(Due) \in 0 .. SeqCycle - 1
        /\ \/ SeqNr(Due) = SeqNr(h) + (Due - h)
           \/ SeqNr(Due) = SeqNr(h) + (Due - h) - SeqCycle
    BY Gap
  <2>2. SeqCycle \in Nat
    BY TransportBounds
  <2> QED
    BY <2>1, <2>2
<1>7. SeqNr(h) \in Int /\ SeqNr(Due) \in Int
  BY <1>6, TransportBounds
<1> QED
  BY <1>5, <1>6, <1>7

\* The packet that comes next has a higher extended number than all that came before.
LEMMA NextNumber ==
    ASSUME DataInv, OrderInv, Orderly, Orderly', NEW i, NEW p, NEW ext, NEW list,
           Taken(i, p, ext, list), p.id = Due, p.seq = SeqNr(Due), Due \in Nat
    PROVE  /\ stats'.numcycles % SeqCycle = 0 /\ (~stats'.sentdata => stats'.numcycles = 0)
           /\ stats'.sentdata => ext = stats'.exthighseqnr /\ ext = stats'.numcycles + SeqNr(Due)
           /\ ~stats'.sentdata => ext = SeqNr(Due)
           /\ ext \in Nat
           /\ early # <<>> => \A h \in Nat : Highest(h) => Top(h) \in Nat /\ Top(h) < ext
<1> DEFINE seq == SeqNr(Due)
           now == ProcessPacket(seq)
<1>0. SeqCycle \in Nat \ {0} /\ stats \in Stats /\ validated \in BOOLEAN
  BY TransportBounds DEF DataInv, TypeOK, Stats
<1>1. seq \in 0 .. SeqCycle - 1 /\ seq \in Nat
  <2>1. p \in Packets
    BY DEF Taken, DataInv, TypeOK
  <2>2. p.seq \in 0 .. SeqCycle - 1
    BY <2>1 DEF Packets
  <2> QED
    BY <1>0, <2>2
<1>2. /\ stats' = now
      /\ ext = IF now.sentdata /\ (stats.sentdata \/ seq = 0) THEN now.numcycles + seq ELSE seq
      /\ early' = IF stats.sentdata THEN early ELSE Append(early, Due)
      /\ first' = first
  BY DEF Taken
<1>3. /\ Lined /\ stats.numcycles % SeqCycle = 0 /\ (~stats.sentdata => stats.numcycles = 0)
      /\ stats.sentdata => early # <<>> /\ \E h \in Nat : Highest(h)
  BY DEF OrderInv
<1>4. stats.numcycles \in Nat /\ stats.exthighseqnr \in Nat
  BY <1>0 DEF Stats
<1> HIDE DEF seq, now
<1>5. CASE stats.sentdata
  <2>1. now = Extended(seq)
    BY <1>5 DEF now, ProcessPacket
  <2>2. ASSUME NEW h \in Nat, Highest(h)
        PROVE  /\ now.sentdata /\ now.numcycles \in Nat /\ now.numcycles % SeqCycle = 0
               /\ now.exthighseqnr = now.numcycles + seq
               /\ stats.exthighseqnr < now.exthighseqnr
    <3> DEFINE g == Due - h
               m == SeqNr(h)
    <3>1. /\ g \in Nat \ {0} /\ 2 * g < SeqCycle /\ m \in 0 .. SeqCycle - 1
          /\ seq = m + g \/ seq = m + g - SeqCycle
      BY <1>3, <2>2, Gap DEF seq
    <3>2. stats.exthighseqnr = stats.numcycles + m
      BY <1>5, <2>2 DEF Highest
    <3> HIDE DEF g, m
    <3>3. m = stats.exthighseqnr % SeqCycle
      BY <1>0, <1>3, <1>4, <3>1, <3>2, WholeCycles
    <3> DEFINE wraps == seq < m /\ SeqCycle + seq - m < m - seq
    <3>4. /\ now.sentdata = stats.sentdata
          /\ now.numcycles = IF wraps THEN stats.numcycles + SeqCycle ELSE stats.numcycles
          /\ now.exthighseqnr = IF seq >= m \/ wraps THEN now.numcycles + seq ELSE stats.exthighseqnr
      BY <1>0, <1>1, <2>1, <3>3, ExtendedCases
    <3>5. CASE seq = m + g
      <4>1. seq >= m /\ ~wraps
        BY <1>0, <1>1, <3>1, <3>5
      <4>2. now.numcycles = stats.numcycles /\ now.exthighseqnr = now.numcycles + seq
        BY <3>4, <4>1
      <4> QED
        BY <1>1, <1>3, <1>4, <1>5, <3>1, <3>2, <3>4, <3>5, <4>2
    <3>6. CASE seq = m + g - SeqCycle
      <4>1. wraps
        BY <1>0, <1>1, <3>1, <3>6
      <4>2. now.numcycles = stats.numcycles + SeqCycle /\ now.exthighseqnr = now.numcycles + seq
        BY <3>4, <4>1
      <4>3. (stats.numcycles + SeqCycle) % SeqCycle = 0
        BY <1>0, <1>3, <1>4, WholeCycles
      <4>4. now.numcycles \in Nat /\ now.numcycles % SeqCycle = 0
        BY <1>0, <1>4, <4>2, <4>3
      <4>5. stats.exthighseqnr < now.exthighseqnr
        BY <1>0, <1>1, <1>4, <3>1, <3>2, <3>6, <4>2
      <4> QED
        BY <1>5, <3>4, <4>2, <4>4, <4>5
    <3> QED
      BY <3>1, <3>5, <3>6
  <2>3. PICK h \in Nat : Highest(h)
    BY <1>3, <1>5
  <2>4. /\ now.sentdata /\ now.numcycles \in Nat /\ now.numcycles % SeqCycle = 0
        /\ now.exthighseqnr = now.numcycles + seq
    BY <2>2, <2>3
  <2>5. ext = now.numcycles + seq /\ ext \in Nat
    BY <1>1, <1>2, <1>5, <2>4
  <2>6. \A x \in Nat : Highest(x) => Top(x) \in Nat /\ Top(x) < ext
    BY <1>4, <1>5, <2>2, <2>4, <2>5 DEF Top
  <2> QED
    BY <1>2, <2>4, <2>5, <2>6 DEF seq
<1>6. CASE ~stats.sentdata
  <2>1. stats.numcycles = 0 /\ 0 % SeqCycle = 0 /\ SeqCycle % SeqCycle = 0
    BY <1>0, <1>3, <1>6
  <2>2. \/ now = Accept(seq)
        \/ now.sentdata = FALSE /\ now.numcycles = 0
    <3>1. now = Accept(seq) \/ now = OnProbation(seq)
      BY <1>6 DEF now, ProcessPacket
    <3>2. \/ OnProbation(seq) = Accept(seq)
          \/ OnProbation(seq).sentdata = stats.sentdata /\ OnProbation(seq).numcycles = stats.numcycles
      BY <1>0, <1>1, ProbationCases
    <3>3. stats.sentdata = FALSE
      BY <1>0, <1>6 DEF Stats
    <3> QED
      BY <2>1, <3>1, <3>2, <3>3
  <2>3. CASE now = Accept(seq) /\ seq = 0
    <3>1. now.sentdata /\ now.numcycles = SeqCycle /\ now.exthighseqnr = SeqCycle
      BY <1>0, <1>1, <2>3, AcceptCases
    <3>2. ext = SeqCycle /\ SeqCycle = SeqCycle + seq
      BY <1>0, <1>2, <2>3, <3>1
    <3>3. \A h \in Nat : Highest(h) => Top(h) \in Nat /\ Top(h) < ext
      <4> SUFFICES ASSUME NEW h \in Nat, Highest(h) PROVE SeqNr(h) \in Nat /\ SeqNr(h) < ext
        BY <1>6 DEF Top
      <4>1. SeqNr(h) \in 0 .. SeqCycle - 1
        BY <1>3, Gap
      <4> QED
        BY <1>0, <3>2, <4>1
    <3> QED
      BY <1>0, <1>2, <2>1, <3>1, <3>2, <3>3 DEF seq
  <2>4. CASE ~(now = Accept(seq) /\ seq = 0)
    <3>1. now = Accept(seq) => now.sentdata /\ now.numcycles = 0 /\ now.exthighseqnr = seq
      BY <1>0, <1>1, <2>1, <2>4, AcceptCases
    <3>2. ext = seq
      <4>1. CASE now = Accept(seq)
        BY <1>2, <1>6, <2>4, <4>1
      <4>2. CASE now.sentdata = FALSE
        BY <1>2, <4>2
      <4> QED
        BY <2>2, <4>1, <4>2
    <3>3. now.numcycles = 0 /\ (now.sentdata => now.exthighseqnr = seq) /\ ~(now.sentdata /\ seq = 0)
      BY <2>2, <2>4, <3>1
    <3>4. ASSUME early # <<>>, NEW h \in Nat, Highest(h) PROVE Top(h) \in Nat /\ Top(h) < ext
      <4>1. Top(h) = SeqNr(h)
        BY <1>6 DEF Top
      <4>2. SeqNr(h) \in 0 .. SeqCycle - 1
        BY <1>3, <3>4, Gap
      <4>3. SeqNr(h) < SeqNr(Due)
        <5>1. early' = Append(early, Due) /\ first' = first /\ ~(stats'.sentdata /\ SeqNr(Due) = 0)
          BY <1>2, <1>6, <3>3 DEF seq
        <5> QED
          BY <1>3, <1>6, <3>4, <5>1, Unwrapped
      <4> QED
        BY <1>0, <3>2, <4>1, <4>2, <4>3 DEF seq
    <3>5. stats'.numcycles = 0 /\ 0 + seq = seq
      BY <1>1, <1>2, <3>3
    <3> QED
      BY <1>1, <1>2, <2>1, <3>2, <3>3, <3>4, <3>5 DEF seq
  <2> QED
    BY <2>3, <2>4
<1> QED
  BY <1>5, <1>6

LEMMA OrderPoll ==
    ASSUME DataInv, OrderInv, Orderly, Orderly', Poll
    PROVE  OrderInv'
<1>1. PICK i, p, ext, list : Taken(i, p, ext, list)
  BY PollTakes
<1> DEFINE e == [id |-> p.id, part |-> p.part, ext |-> ext, flag |-> p.flag, payload |-> p.payload]
<1>2. /\ net # <<>> /\ i = 1 /\ p = net[1] /\ net' = RemoveAt(net, 1)
      /\ sent' = sent /\ first' = first /\ received' = received /\ losses' = losses
      /\ packetlist' = Insert(list, e)
      /\ early' = IF stats.sentdata THEN early ELSE Append(early, p.id)
      /\ list = IF ~validated' /\ Len(packetlist) = MaxProbationPackets THEN Tail(packetlist) ELSE packetlist
  BY <1>1 DEF Taken, Orderly, Poll
<1>3. net' = Tail(net)
  BY <1>2, RemovingFirst DEF DataInv
<1>4. Lined' /\ Due \in Nat /\ Due' = Due + 1 /\ p.id = Due /\ p.seq = SeqNr(Due)
  BY <1>2, <1>3, LinedTail DEF OrderInv
<1>5. /\ stats'.numcycles % SeqCycle = 0 /\ (~stats'.sentdata => stats'.numcycles = 0)
      /\ stats'.sentdata => ext = stats'.exthighseqnr /\ ext = stats'.numcycles + SeqNr(Due)
      /\ ~stats'.sentdata => ext = SeqNr(Due)
      /\ ext \in Nat
      /\ early # <<>> => \A h \in Nat : Highest(h) => Top(h) \in Nat /\ Top(h) < ext
  BY <1>1, <1>4, NextNumber
<1>6. e \in Stored /\ e.id = Due /\ e.ext = ext
  <2>1. p \in Packets
    BY <1>1 DEF Taken, DataInv, TypeOK
  <2> QED
    BY <1>4, <1>5, <2>1 DEF Packets, Stored
<1> HIDE DEF e
<1>7. packetlist \in Seq(Stored) /\ received \in Seq(Taking) /\ losses \in Nat /\ early \in Seq(Nat)
  BY DEF DataInv, TypeOK, Taking
<1>8. /\ list \in Seq(Stored) /\ Sorted(received, list)
      /\ \A x \in DOMAIN list : \E y \in DOMAIN packetlist : list[x] = packetlist[y]
  <2>1. CASE list = packetlist
    BY <1>7, <2>1 DEF OrderInv
  <2>2. CASE list = Tail(packetlist) /\ packetlist # <<>>
    BY <1>7, <2>2, SortedTail, TailFacts DEF OrderInv
  <2>3. Len(packetlist) = MaxProbationPackets => packetlist # <<>>
    BY <1>7, TransportBounds
  <2> QED
    BY <1>2, <2>1, <2>2, <2>3
<1>9. /\ \A x \in DOMAIN packetlist : packetlist[x].id < Due /\ packetlist[x].ext < ext
      /\ \A x \in DOMAIN received : received[x].id < Due
  <2>1. CASE early = <<>>
    <3>1. packetlist = <<>> /\ received = <<>>
      BY <2>1 DEF OrderInv
    <3>2. DOMAIN packetlist = {} /\ DOMAIN received = {}
      BY <3>1
    <3> QED
      BY <3>2
  <2>2. CASE early # <<>>
    <3>1. PICK h \in Nat : Highest(h)
      BY <2>2 DEF OrderInv
    <3>2. Top(h) \in Nat /\ Top(h) < ext /\ h < Due
      BY <1>5, <2>2, <3>1 DEF Highest
    <3>3. ASSUME NEW x \in DOMAIN packetlist
          PROVE  packetlist[x].id < Due /\ packetlist[x].ext < ext
      <4>1. packetlist[x].id <= h /\ packetlist[x].ext <= Top(h)
        BY <3>1 DEF Highest
      <4>2. packetlist[x].id \in Nat /\ packetlist[x].ext \in Nat
        <5>1. packetlist[x] \in Stored
          BY <1>7
        <5> QED
          BY <5>1 DEF Stored
      <4> QED
        BY <1>4, <1>5, <3>2, <4>1, <4>2
    <3>4. ASSUME NEW x \in DOMAIN received PROVE received[x].id < Due
      <4>1. received[x].id <= h
        BY <3>1 DEF Highest
      <4>2. received[x].id \in Nat
        <5>1. received[x] \in Taking
          BY <1>7
        <5> QED
          BY <5>1 DEF Taking
      <4> QED
        BY <1>4, <3>2, <4>1, <4>2
    <3> QED
      BY <3>3, <3>4
  <2> QED
    BY <2>1, <2>2
<1>10. \A x \in DOMAIN list : list[x].id < e.id /\ list[x].ext < e.ext
  <2> SUFFICES ASSUME NEW x \in DOMAIN list PROVE list[x].id < e.id /\ list[x].ext < e.ext
    OBVIOUS
  <2>1. PICK y \in DOMAIN packetlist : list[x] = packetlist[y]
    BY <1>8
  <2> QED
    BY <1>6, <1>9, <2>1
<1>11. packetlist' = Append(list, e)
  BY <1>2, <1>6, <1>8, <1>10, InsertingLast
<1>12. Sorted(received, Append(list, e))
  BY <1>6, <1>7, <1>8, <1>9, <1>10, SortedAppend
<1>13. Sorted(received', packetlist')
  BY <1>2, <1>11, <1>12
<1>14. early' # <<>> /\ (~stats'.sentdata => early'[Len(early')] = Due)
  <2>1. CASE stats.sentdata
    <3>1. early # <<>>
      BY <2>1 DEF OrderInv
    <3>2. stats'.sentdata
      <4>1. stats \in Stats /\ validated \in BOOLEAN /\ p \in Packets
        BY <1>1 DEF Taken, DataInv, TypeOK, Stats
      <4>2. p.seq \in 0 .. SeqCycle - 1
        BY <4>1 DEF Packets
      <4> QED
        BY <1>1, <2>1, <4>1, <4>2, ProcessPacketType DEF Taken
    <3> QED
      BY <1>2, <2>1, <3>1, <3>2
  <2>2. CASE ~stats.sentdata
    <3>1. early' = Append(early, Due)
      BY <1>2, <1>4, <2>2
    <3> QED
      BY <1>4, <1>7, <3>1
  <2> QED
    BY <2>1, <2>2
<1>15. ASSUME NEW x \in DOMAIN packetlist' PROVE packetlist'[x].id <= Due /\ packetlist'[x].ext <= ext
  <2>1. /\ Len(list) \in Nat /\ DOMAIN list = 1 .. Len(list) /\ DOMAIN packetlist' = 1 .. Len(list) + 1
        /\ packetlist'[Len(list) + 1] = e /\ \A y \in 1 .. Len(list) : packetlist'[y] = list[y]
    BY <1>6, <1>8, <1>11, Appending
  <2>2. CASE x = Len(list) + 1
    BY <1>4, <1>5, <1>6, <2>1, <2>2
  <2>3. CASE x # Len(list) + 1
    <3>1. x \in DOMAIN list /\ packetlist'[x] = list[x]
      BY <2>1, <2>3
    <3>2. list[x] \in Stored /\ list[x].id < Due /\ list[x].ext < ext
      BY <1>6, <1>8, <1>10, <3>1
    <3>3. list[x].id \in Nat /\ list[x].ext \in Nat
      BY <3>2 DEF Stored
    <3> QED
      BY <1>4, <1>5, <3>1, <3>2, <3>3
  <2> QED
    BY <2>2, <2>3
<1>16. ASSUME NEW x \in DOMAIN received' PROVE received'[x].id <= Due
  <2>1. received[x] \in Taking /\ received[x].id < Due
    BY <1>2, <1>7, <1>9
  <2>2. received[x].id \in Nat
    BY <2>1 DEF Taking
  <2> QED
    BY <1>2, <1>4, <2>1, <2>2
<1>17. \E h \in Nat : Highest(h)'
  <2>1. PICK h \in Nat : h = Due
    BY <1>4
  <2>2. h < Due' /\ Due' <= h + 1 + losses'
    BY <1>2, <1>4, <1>7, <2>1
  <2>3. ext = (IF stats'.sentdata THEN stats'.exthighseqnr ELSE (first' + h) % SeqCycle)
    BY <1>2, <1>5, <2>1 DEF SeqNr
  <2>4. IF stats'.sentdata THEN stats'.exthighseqnr = stats'.numcycles + ((first' + h) % SeqCycle)
        ELSE h = early'[Len(early')]
    BY <1>2, <1>5, <1>14, <2>1 DEF SeqNr
  <2>5. /\ \A x \in DOMAIN packetlist' : packetlist'[x].id <= h /\ packetlist'[x].ext <= ext
        /\ \A x \in DOMAIN received' : received'[x].id <= h
    BY <1>15, <1>16, <2>1
  <2>6. Highest(h)'
    BY <2>2, <2>3, <2>4, <2>5 DEF Highest, Top, SeqNr
  <2> QED
    BY <2>6
<1> QED
  BY <1>4, <1>5, <1>13, <1>14, <1>17 DEF OrderInv

LEMMA OrderReceive ==
    ASSUME DataInv, OrderInv, ReceivePacket
    PROVE  OrderInv'
<1>1. PICK p \in Kept :
         /\ p = Head(packetlist) /\ packetlist # <<>>
         /\ received' = Append(received, [id |-> p.id, part |-> p.part])
         /\ [id |-> p.id, part |-> p.part] \in [id : Nat, part : Parts]
  BY ReceiveTakes
<1>2. packetlist' = Tail(packetlist) /\ UNCHANGED <<sender, net, stats, validated, early, losses, repeats>>
  BY DEF ReceivePacket
<1> DEFINE e == [id |-> p.id, part |-> p.part]
<1>3. e \in Taking /\ e.id = p.id
  BY <1>1 DEF Taking
<1>4. received' = Append(received, e)
  BY <1>1
<1> HIDE DEF e
<1>5. packetlist \in Seq(Stored) /\ received \in Seq(Taking)
  BY DEF DataInv, TypeOK, Taking
<1>6. /\ Len(packetlist) \in Nat \ {0} /\ 1 \in DOMAIN packetlist /\ p = packetlist[1]
      /\ DOMAIN packetlist' = 1 .. Len(packetlist) - 1
      /\ \A i \in 1 .. Len(packetlist) - 1 : i + 1 \in DOMAIN packetlist /\ packetlist'[i] = packetlist[i + 1]
  BY <1>1, <1>2, <1>5, TailFacts
<1>7. Sorted(received', packetlist')
  <2>1. Sorted(Append(received, e), Tail(packetlist))
    BY <1>1, <1>3, <1>5, <1>6, SortedMove DEF OrderInv
  <2> QED
    BY <1>2, <1>4, <2>1
<1>8. Lined'
  BY <1>2 DEF OrderInv, Lined, Due, SeqNr
<1>9. early # <<>>
  BY <1>1 DEF OrderInv
<1>10. PICK h \in Nat : Highest(h)
  BY <1>9 DEF OrderInv
<1>11. ASSUME NEW i \in DOMAIN received' PROVE received'[i].id <= h
  <2>1. /\ Len(received) \in Nat /\ DOMAIN received' = 1 .. Len(received) + 1 /\ DOMAIN received = 1 .. Len(received)
        /\ received'[Len(received) + 1] = e /\ \A x \in 1 .. Len(received) : received'[x] = received[x]
    BY <1>3, <1>4, <1>5, Appending
  <2>2. CASE i = Len(received) + 1
    BY <1>3, <1>6, <1>10, <2>1, <2>2 DEF Highest
  <2>3. CASE i # Len(received) + 1
    <3>1. i \in DOMAIN received /\ received'[i] = received[i]
      BY <2>1, <2>3
    <3> QED
      BY <1>10, <3>1 DEF Highest
  <2> QED
    BY <2>2, <2>3
<1>12. \A i \in DOMAIN packetlist' : packetlist'[i].id <= h /\ packetlist'[i].ext <= Top(h)
  <2> SUFFICES ASSUME NEW i \in DOMAIN packetlist'
               PROVE  packetlist'[i].id <= h /\ packetlist'[i].ext <= Top(h)
    OBVIOUS
  <2>1. i + 1 \in DOMAIN packetlist /\ packetlist'[i] = packetlist[i + 1]
    BY <1>6
  <2> QED
    BY <1>10, <2>1 DEF Highest
<1>13. Highest(h)'
  BY <1>2, <1>10, <1>11, <1>12 DEF Highest, Top, Due, SeqNr
<1> QED
  BY <1>2, <1>7, <1>8, <1>9, <1>13 DEF OrderInv

LEMMA OrderStep ==
    ASSUME DataInv, OrderInv, Orderly, Orderly', [Next]_vars
    PROVE  OrderInv'
<1>1. CASE SendPacket
  <2>1. Lined' /\ Due' = Due
    BY <1>1, LinedAppend DEF OrderInv
  <2>2. UNCHANGED <<first, source, receiver, losses, repeats>>
    BY <1>1 DEF SendPacket
  <2>3. \A h \in Nat : Highest(h) => Highest(h)'
    BY <2>1, <2>2 DEF Highest, Top, SeqNr
  <2> QED
    BY <2>1, <2>2, <2>3 DEF OrderInv
<1>2. CASE Lose
  <2>1. net # <<>> /\ net' = Tail(net) /\ losses' = losses + 1 /\ UNCHANGED <<sender, source, receiver, repeats>>
    BY <1>2 DEF Lose
  <2>2. Lined' /\ Due \in Nat /\ Due' = Due + 1
    BY <2>1, LinedTail DEF OrderInv
  <2>3. ASSUME NEW h \in Nat, Highest(h) PROVE Highest(h)'
    <3>1. h < Due' /\ Due' <= h + 1 + losses'
      <4>1. h < Due /\ Due <= h + 1 + losses /\ losses \in Nat
        BY <2>3 DEF Highest, DataInv, TypeOK
      <4> QED
        BY <2>1, <2>2, <4>1
    <3> QED
      BY <2>1, <2>3, <3>1 DEF Highest, Top, SeqNr
  <2> QED
    BY <2>1, <2>2, <2>3 DEF OrderInv
<1>3. CASE Repeat
  <2>1. repeats \in Nat /\ repeats' = repeats + 1 /\ repeats' = 0
    BY <1>3 DEF Repeat, DataInv, TypeOK, Orderly
  <2> QED
    BY <2>1
<1>4. CASE Poll
  BY <1>4, OrderPoll
<1>5. CASE ReceivePacket
  BY <1>5, OrderReceive
<1>6. CASE ProcessSDESItem \/ UNCHANGED vars
  <2>1. UNCHANGED <<sender, net, stats, packetlist, early, receiver, losses, repeats>>
    BY <1>6 DEF ProcessSDESItem
  <2>2. Lined'
    BY <2>1 DEF OrderInv, Lined, Due, SeqNr
  <2>3. \A h \in Nat : Highest(h) => Highest(h)'
    BY <2>1 DEF Highest, Top, SeqNr, Due
  <2> QED
    BY <2>1, <2>2, <2>3 DEF OrderInv
<1> QED
  BY <1>1, <1>2, <1>3, <1>4, <1>5, <1>6 DEF Next

\* On a network that keeps the order, and as long as no gap can be half a cycle and the
\* numbers did not wrap while the source was on probation, RTPSourceStats::ProcessPacket and
\* the packet list give sReceiveVideoPacket the packets in the order they were sent.
THEOREM InOrder == Spec => []ReceivedInOrder
<1> DEFINE Inv == DataInv /\ (Orderly => OrderInv)
<1>1. Init => Inv
  BY DataInit, OrderInit
<1>2. Inv /\ [Next]_vars => Inv'
  <2> SUFFICES ASSUME Inv, [Next]_vars PROVE Inv'
    OBVIOUS
  <2>1. DataInv'
    BY DataStep
  <2>2. ASSUME Orderly' PROVE OrderInv'
    BY <2>2, OrderlyBefore, OrderStep
  <2> QED
    BY <2>1, <2>2
<1>3. Inv => ReceivedInOrder
  BY DEF OrderInv, Sorted, Rising, Orderly, ReceivedInOrder
<1> QED
  BY <1>1, <1>2, <1>3, PTL DEF Spec
=============================================================================
