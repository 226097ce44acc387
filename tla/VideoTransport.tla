--------------------------- MODULE VideoTransport ---------------------------
(***************************************************************************)
(* One video stream from the capture app to the decoder: the app cuts each *)
(* encoded frame into RTP packets (RTPSession::SendPacketAfterSlice), UDP  *)
(* may lose, repeat or overtake them, JRTPLIB's poll thread extends their  *)
(* 16-bit sequence numbers, keeps a new source on probation and puts what  *)
(* arrives into the source's packet list, and sReceiveVideoPacket puts the *)
(* frames together again and gives them to the decoder.                    *)
(*                                                                         *)
(* A frame's contents are its bytes, <<frame, offset>>.  There is one      *)
(* source.  The poll and the receive thread exclude each other by          *)
(* sourcesmutex, so that each packet is handled in one step.               *)
(***************************************************************************)
EXTENDS Naturals, Sequences, SequencesExt

CONSTANTS FrameLen,             \* the lengths of the frames, in sending order
          slice_data_max_size,
          SeqCycle,             \* 2^16 in the code
          FirstSeqs,            \* the sequence numbers a stream may start with
          MaxProbationPackets,  \* RTPINTERNALSOURCEDATA_MAXPROBATIONPACKETS
          MaxLoss,              \* bound: packets the network loses
          MaxRepeat,            \* bound: packets the network repeats
          Overtake              \* whether packets may overtake each other

ASSUME TransportBounds ==
    /\ FrameLen \in Seq(Nat \ {0}) /\ slice_data_max_size \in Nat \ {0}
    /\ SeqCycle \in Nat \ {0} /\ FirstSeqs \subseteq 0 .. SeqCycle - 1
    /\ MaxProbationPackets \in Nat \ {0, 1}
    /\ MaxLoss \in Nat /\ MaxRepeat \in Nat /\ Overtake \in BOOLEAN

Frames == DOMAIN FrameLen
Frame(k) == [i \in 1 .. FrameLen[k] |-> <<k, i>>]
RTP_PROBATIONCOUNT == 2

VARIABLES
    frame, slice,      \* the sender: the frame and the slice it sends next
    first,             \* the sequence number of the first packet
    sent,              \* packets sent
    net,               \* packets on their way
    stats,             \* RTPSourceStats of the source
    validated,
    packetlist,        \* RTPInternalSourceData::packetlist
    data,              \* data[0 .. dataLen-1] of sReceiveVideoPacket
    early,             \* packets that came up to the first accepted one
    received,          \* packets given to sReceiveVideoPacket, in order
    decoded,           \* frames given to AnsyncDecoder_ReceiveData, in order
    losses, repeats    \* bounded counters

sender   == <<frame, slice, first, sent>>
source   == <<stats, validated, packetlist, early>>
receiver == <<data, received, decoded>>
vars == <<sender, net, source, receiver, losses, repeats>>

Init ==
    /\ frame = 1 /\ slice = 0 /\ sent = 0 /\ first \in FirstSeqs
    /\ net = <<>> /\ packetlist = <<>> /\ validated = FALSE
    /\ stats = [sentdata |-> FALSE, probation |-> 0, prevseqnr |-> 0,
                numcycles |-> 0, exthighseqnr |-> 0]
    /\ data = <<>> /\ early = <<>> /\ received = <<>> /\ decoded = <<>>
    /\ losses = 0 /\ repeats = 0

-----------------------------------------------------------------------------
(* The sender.                                                             *)

\* Mutant: a last slice that is not full is not sent.
NumSlicesDown(len) == IF len > slice_data_max_size THEN len \div slice_data_max_size ELSE 1

\* n: one packet for a short frame, else as many slices as it takes.
NumSlices(len) ==
    IF len > slice_data_max_size
    THEN len \div slice_data_max_size + (IF len % slice_data_max_size # 0 THEN 1 ELSE 0)
    ELSE 1

\* The two top bits of the FU header; a short frame has no FU header.
Flag(len, step) ==
    CASE len <= slice_data_max_size -> "none"
      [] len > slice_data_max_size /\ step = 0 -> "start"
      [] len > slice_data_max_size /\ step # 0 /\ step = NumSlices(len) - 1 -> "end"
      [] OTHER -> "middle"

\* The bytes memcpy'd behind the FU header.
Slice(k, step) ==
    LET from == step * slice_data_max_size
        last == step = NumSlices(FrameLen[k]) - 1
    IN  [i \in 1 .. IF last THEN FrameLen[k] - from ELSE slice_data_max_size |-> <<k, from + i>>]

\* The 16-bit sequence number of packet n.
SeqNr(n) == (first + n) % SeqCycle

\* One SendPacket of SendPacketAfterSlice.  id and part, the packet's number in the stream
\* and its frame and slice, are history.
SendPacket ==
    /\ frame \in Frames
    /\ net' = Append(net, [id |-> sent, part |-> <<frame, slice>>, seq |-> SeqNr(sent),
                           flag |-> Flag(FrameLen[frame], slice), payload |-> Slice(frame, slice)])
    /\ sent' = sent + 1
    /\ IF slice + 1 < NumSlices(FrameLen[frame])
       THEN slice' = slice + 1 /\ frame' = frame
       ELSE slice' = 0 /\ frame' = frame + 1
    /\ UNCHANGED <<first, source, receiver, losses, repeats>>

-----------------------------------------------------------------------------
(* The network.                                                            *)

Lose ==
    /\ net # <<>> /\ losses < MaxLoss
    /\ net' = Tail(net) /\ losses' = losses + 1
    /\ UNCHANGED <<sender, source, receiver, repeats>>

Repeat ==
    /\ net # <<>> /\ repeats < MaxRepeat
    /\ net' = Append(net, Head(net)) /\ repeats' = repeats + 1
    /\ UNCHANGED <<sender, source, receiver, losses>>

-----------------------------------------------------------------------------
(* The poll thread.                                                        *)

\* ACCEPTPACKETCODE: the first packet that counts.
Accept(seq) ==
    [stats EXCEPT !.sentdata = TRUE,
                  !.numcycles = IF seq = 0 THEN SeqCycle ELSE stats.numcycles,
                  !.exthighseqnr = IF seq = 0 THEN SeqCycle ELSE seq]

\* A source on probation: after RTP_PROBATIONCOUNT further packets in
\* sequence it is accepted.
OnProbation(seq) ==
    LET next == stats.probation # 0 /\ seq = (stats.prevseqnr + 1) % SeqCycle
    IN  IF next /\ stats.probation = 1 THEN Accept(seq)
        ELSE [stats EXCEPT !.prevseqnr = seq,
                           !.probation = IF next THEN stats.probation - 1 ELSE RTP_PROBATIONCOUNT]

\* Mutant: a number below the highest one never begins a new cycle.
ExtendedNoCycle(seq) == [stats EXCEPT !.exthighseqnr =
    IF seq >= stats.exthighseqnr % SeqCycle THEN stats.numcycles + seq ELSE stats.exthighseqnr]

\* A number a little below the highest one is late, one far below it begins
\* a new cycle.
Extended(seq) ==
    LET maxseq16 == stats.exthighseqnr % SeqCycle
        wraps == /\ seq < maxseq16
                 /\ (SeqCycle + seq - maxseq16) % SeqCycle < (maxseq16 - seq) % SeqCycle
        cycles == stats.numcycles + IF wraps THEN SeqCycle ELSE 0
    IN  [stats EXCEPT !.numcycles = cycles,
                      !.exthighseqnr = IF seq >= maxseq16 \/ wraps THEN cycles + seq
                                       ELSE stats.exthighseqnr]

\* RTPSourceStats::ProcessPacket
ProcessPacket(seq) ==
    IF stats.sentdata THEN Extended(seq)
    ELSE IF validated THEN Accept(seq) ELSE OnProbation(seq)

\* ProcessRTPPacket: from the end back to the first packet whose number is not greater; a
\* packet that is already in the list is dropped.
Insert(list, p) ==
    LET at == Max({0} \cup {i \in DOMAIN list : list[i].ext <= p.ext})
    IN  IF at # 0 /\ list[at].ext = p.ext THEN list ELSE InsertAt(list, at + 1, p)

\* The poll thread takes a packet from the socket.  On probation the list is
\* bounded: the packet with the lowest number makes room.
Poll ==
    /\ net # <<>>
    /\ \E i \in (IF Overtake THEN DOMAIN net ELSE {1}) :
          LET p == net[i]
              now == ProcessPacket(p.seq)
              ext == IF now.sentdata /\ (stats.sentdata \/ p.seq = 0) THEN now.numcycles + p.seq
                     ELSE p.seq
              full == ~validated' /\ Len(packetlist) = MaxProbationPackets
          IN  /\ stats' = now /\ validated' = (validated \/ now.sentdata)
              /\ packetlist' = Insert(IF full THEN Tail(packetlist) ELSE packetlist,
                                      [id |-> p.id, part |-> p.part, ext |-> ext,
                                       flag |-> p.flag, payload |-> p.payload])
              /\ early' = IF stats.sentdata THEN early ELSE Append(early, p.id)
              /\ net' = RemoveAt(net, i)
    /\ UNCHANGED <<sender, receiver, losses, repeats>>

\* The source's CNAME arrives in an RTCP packet: "the source is validated".
ProcessSDESItem ==
    /\ ~validated /\ sent > 0
    /\ validated' = TRUE
    /\ UNCHANGED <<sender, net, stats, packetlist, early, receiver, losses, repeats>>

-----------------------------------------------------------------------------
(* The receiver.                                                           *)

\* Mutant: a start slice does not throw away what is left of an earlier frame.
JoinedKept(p) == IF p.flag = "none" THEN p.payload ELSE data \o p.payload

\* A start slice, or a packet without FU header, replaces the contents of the
\* buffer; the others are put behind them.
Joined(p) == IF p.flag \in {"none", "start"} THEN p.payload ELSE data \o p.payload

\* One GetNextPacket of sReceiveVideoPacket.
ReceivePacket ==
    /\ validated /\ packetlist # <<>>
    /\ LET p == Head(packetlist) IN
       /\ received' = Append(received, [id |-> p.id, part |-> p.part])
       /\ IF p.flag \in {"none", "end"}
          THEN decoded' = Append(decoded, Joined(p)) /\ data' = <<>>
          ELSE decoded' = decoded /\ data' = Joined(p)
    /\ packetlist' = Tail(packetlist)
    /\ UNCHANGED <<sender, net, stats, validated, early, losses, repeats>>

Next == SendPacket \/ Lose \/ Repeat \/ Poll \/ ProcessSDESItem \/ ReceivePacket

Spec == Init /\ [][Next]_vars

\* The app goes on sending, the poll thread polling and the receiver receiving.
FairSpec == Spec /\ WF_vars(SendPacket) /\ WF_vars(Poll) /\ WF_vars(ReceivePacket)

-----------------------------------------------------------------------------
(* Properties.                                                             *)

Bytes == {b \in Frames \X Nat : b[2] \in 1 .. FrameLen[b[1]]}
Parts == {p \in Frames \X Nat : p[2] < NumSlices(FrameLen[p[1]])}
Flags == {"none", "start", "middle", "end"}

Packets == [id : Nat, part : Parts, seq : 0 .. SeqCycle - 1, flag : Flags, payload : Seq(Bytes)]
Stored  == [id : Nat, part : Parts, ext : Nat, flag : Flags, payload : Seq(Bytes)]

\* The buffer and the units given to the decoder are made of bytes of the frames that were
\* sent, never of what lies behind them in memory; the rest are types.
TypeOK ==
    /\ frame \in 1 .. Len(FrameLen) + 1 /\ slice \in Nat /\ sent \in Nat
    /\ frame \in Frames => slice < NumSlices(FrameLen[frame])
    /\ first \in FirstSeqs /\ losses \in Nat /\ repeats \in Nat
    /\ net \in Seq(Packets) /\ packetlist \in Seq(Stored)
    /\ stats \in [sentdata : BOOLEAN, probation : Nat, prevseqnr : Nat, numcycles : Nat, exthighseqnr : Nat]
    /\ validated \in BOOLEAN /\ (stats.sentdata => validated)
    /\ early \in Seq(Nat) /\ received \in Seq([id : Nat, part : Parts])
    /\ data \in Seq(Bytes) /\ decoded \in Seq(Seq(Bytes))

\* The packets of frame k were received one after the other.
ReceivedWhole(k) ==
    \E j \in 0 .. Len(received) : \A s \in 1 .. NumSlices(FrameLen[k]) :
        j + s \in DOMAIN received /\ received[j + s].part = <<k, s - 1>>

\* Whatever happens to the packets of other frames, a frame whose own packets
\* came one after the other reaches the decoder exactly as it was sent.
WholeFrameIntact ==
    \A k \in Frames : ReceivedWhole(k) => \E i \in DOMAIN decoded : decoded[i] = Frame(k)

\* The beginning of a frame is never put behind bytes of another one: what a
\* lost end slice leaves in the buffer is not given to the decoder with the
\* frame that follows.
StartsAtStart ==
    \A i \in DOMAIN decoded : \A j \in DOMAIN decoded[i] :
        decoded[i][j][2] = 1 => j = 1

\* The numbers wrapped among the packets that came before the source was
\* accepted, which are sorted by their 16-bit numbers (unless the wrap falls
\* on the accepted packet itself).
WrappedOnProbation ==
    \E i, j \in DOMAIN early :
        /\ i < j /\ SeqNr(early[i]) > SeqNr(early[j])
        /\ ~(stats.sentdata /\ j = Len(early) /\ SeqNr(early[j]) = 0)

\* On a network that keeps the order of packets, sReceiveVideoPacket gets them
\* in the order they were sent, across wraps of the sequence number and gaps, as
\* long as no gap can be half a cycle.
ReceivedInOrder ==
    ~Overtake /\ repeats = 0 /\ 2 * (losses + 1) < SeqCycle /\ ~WrappedOnProbation
        => \A i, j \in DOMAIN received : i < j => received[i].id < received[j].id

\* Without loss the decoder gets every frame, once and in order, from a source
\* that becomes valid.
EverythingArrives ==
    [](losses = 0 /\ ~WrappedOnProbation) /\ <>validated
        => <>[](decoded = [k \in Frames |-> Frame(k)])

=============================================================================
