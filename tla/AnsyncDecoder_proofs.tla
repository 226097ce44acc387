------------------------ MODULE AnsyncDecoder_proofs ------------------------
(***************************************************************************)
(* Proofs about AnsyncDecoder for every ring size, every set of frame      *)
(* sizes and every number of calls.                                        *)
(***************************************************************************)
EXTENDS AnsyncDecoder, FiniteSetTheorems, TLAPS

USE DEF object, ownerv, threadv, ring, vars, Media, Video, Audio

-----------------------------------------------------------------------------
(* Arithmetic of the ring.                                                 *)

\* node->next stays inside the ring (CircularList_Create links the last node
\* to the first).
LEMMA NextNodeInRing == \A i \in Slots : NextNode(i) \in Slots
BY CountAssumption DEF Slots, NextNode

\* Publishing the node at the write position lengthens the unread stretch by
\* exactly that node.
LEMMA BetweenGrows ==
    ASSUME NEW r \in Slots, NEW w \in Slots, NextNode(w) # r, NEW i \in Slots
    PROVE  i \in Between(r, NextNode(w))
               <=> (i = w \/ (r # w /\ i \in Between(r, w)))
BY CountAssumption DEF Slots, NextNode, Between

\* When the write position reaches the reader the stretch is the whole ring.
LEMMA BetweenFills ==
    ASSUME NEW r \in Slots, NEW w \in Slots, NextNode(w) = r, NEW i \in Slots
    PROVE  i = w \/ (r # w /\ i \in Between(r, w))
BY CountAssumption DEF Slots, NextNode, Between

\* Releasing the node at the read position shortens the stretch by that node.
LEMMA BetweenShrinks ==
    ASSUME NEW r \in Slots, NEW w \in Slots, r # w, NextNode(r) # w,
           NEW i \in Slots
    PROVE  i \in Between(NextNode(r), w) <=> (i # r /\ i \in Between(r, w))
BY CountAssumption DEF Slots, NextNode, Between

LEMMA BetweenSingle ==
    ASSUME NEW r \in Slots, NEW w \in Slots, r # w, NextNode(r) = w,
           NEW i \in Slots
    PROVE  i \in Between(r, w) <=> i = r
BY CountAssumption DEF Slots, NextNode, Between

LEMMA BetweenWhole ==
    ASSUME NEW r \in Slots, NextNode(r) # r, NEW i \in Slots
    PROVE  i \in Between(NextNode(r), r) <=> i # r
BY CountAssumption DEF Slots, NextNode, Between

\* The reader's node is in the stretch and the writer's is not.
LEMMA BetweenEnds ==
    ASSUME NEW r \in Slots, NEW w \in Slots, r # w
    PROVE  r \in Between(r, w) /\ w \notin Between(r, w)
BY CountAssumption DEF Slots, Between

-----------------------------------------------------------------------------
(* The inductive invariant.                                                *)

\* Where the two threads are, relative to the object and to the ring.
Control ==
    /\ opc = "start" => ad = "null" /\ dpc = "none"
    /\ ad = "null" => dpc = "none"
    /\ ad = "freed" => opc = "done" /\ dpc = "end"
    /\ opc = "done" => ad = "freed"
    /\ opc \in {"wait", "fill", "publish", "early"} => wbuf = node_write
    /\ opc \in {"fill", "publish", "early"} => ~need_read[wbuf]
    /\ StoresInOrder => opc \notin {"early", "late"}
    /\ dpc = "decode" => need_read[node]

\* A node's memory fits the video frame in it, read or unread.
Room ==
    \A i \in Slots :
        buffer[i].frame.media_type = Video
            => buffer[i].max_len >= buffer[i].frame.len + Slack

IInv == TypeOK /\ Control /\ RingOccupancy /\ Room

\* The length of a frame, or of a node never filled, is a number.
LEMMA FrameLen ==
    ASSUME NEW f \in Frames \cup {NoFrame} PROVE f.len \in Nat
<1>1. CASE f \in Frames
  <2>1. f.len \in Sizes
    BY <1>1 DEF Frames
  <2> QED
    BY <2>1, BoundAssumption
<1>2. CASE f = NoFrame
  BY <1>2 DEF NoFrame
<1> QED
  BY <1>1, <1>2

\* The zeroed ring of AnsyncDecoder_Create has the invariant.
LEMMA InitIInv == Init => IInv
<1> SUFFICES ASSUME Init PROVE IInv
  OBVIOUS
<1> USE CountAssumption, BoundAssumption DEF Init
<1>1. TypeOK
  <2>1. 0 \in Slots
    BY DEF Slots
  <2>2. Empty \in [frame : Frames \cup {NoFrame}, max_len : Nat]
    BY DEF Empty
  <2>3. buffer \in [Slots -> [frame : Frames \cup {NoFrame}, max_len : Nat]]
    BY <2>2
  <2> QED
    BY <2>1, <2>3 DEF TypeOK
<1>2. Control
  BY DEF Control
<1>3. RingOccupancy
  BY DEF RingOccupancy
<1>4. Room
  BY DEF Room, Empty, NoFrame
<1> QED
  BY <1>1, <1>2, <1>3, <1>4 DEF IInv

\* Type correctness is preserved by every step.
LEMMA NextTypeOK == TypeOK /\ [Next]_vars => TypeOK'
<1> SUFFICES ASSUME TypeOK, [Next]_vars PROVE TypeOK'
  OBVIOUS
<1> USE CountAssumption, BoundAssumption, NextNodeInRing DEF TypeOK
<1>1. CASE Create
  BY <1>1 DEF Create
<1>2. CASE CreateFails
  BY <1>2 DEF CreateFails
<1>3. ASSUME NEW m \in Media, NEW l \in Sizes, ReceiveData(m, l) PROVE TypeOK'
  BY <1>3 DEF ReceiveData, Frames
<1>4. CASE WaitNode
  BY <1>4 DEF WaitNode
<1>5. CASE GiveUp
  BY <1>5 DEF GiveUp
<1>6. CASE NodeFree
  BY <1>6 DEF NodeFree
<1>7. CASE Fill
  <2>1. Filled(buffer[wbuf], arg) \in [frame : Frames \cup {NoFrame}, max_len : Nat]
    <3>1. MallocLen(arg) \in Nat
      BY FrameLen DEF MallocLen
    <3> QED
      BY <3>1 DEF Filled
  <2>2. buffer' \in [Slots -> [frame : Frames \cup {NoFrame}, max_len : Nat]]
    BY <1>7, <2>1 DEF Fill
  <2> QED
    BY <1>7, <2>2 DEF Fill
<1>8. CASE Publish
  BY <1>8 DEF Publish
<1>9. CASE Destroy
  BY <1>9 DEF Destroy
<1>10. CASE Free
  BY <1>10 DEF Free
<1>11. CASE ThreadStart
  BY <1>11 DEF ThreadStart
<1>12. CASE DecodeNode
  <2>1. /\ buffer[node].frame \in Frames \cup {NoFrame}
        /\ Accepted(node) \in Frames \cup {NoFrame}
    BY DEF Accepted
  <2> QED
    BY <1>12, <2>1 DEF DecodeNode
<1>13. CASE ReleaseNode
  BY <1>13 DEF ReleaseNode
<1>14. CASE ThreadExit
  BY <1>14 DEF ThreadExit
<1>15. CASE UNCHANGED vars
  BY <1>15
<1> QED
  BY <1>1, <1>2, <1>3, <1>4, <1>5, <1>6, <1>7, <1>8, <1>9, <1>10, <1>11,
     <1>12, <1>13, <1>14, <1>15 DEF Next, Owner, Decoder, Receive

\* The relation between the program counters, the write position and
\* need_read is preserved by every step.
LEMMA NextControl == IInv /\ [Next]_vars => Control'
<1> SUFFICES ASSUME IInv, [Next]_vars PROVE Control'
  OBVIOUS
<1> USE CountAssumption, BoundAssumption DEF IInv, TypeOK, Control
<1>1. CASE Create
  BY <1>1 DEF Create
<1>2. CASE CreateFails
  BY <1>2 DEF CreateFails
<1>3. ASSUME NEW m \in Media, NEW l \in Sizes, ReceiveData(m, l) PROVE Control'
  BY <1>3 DEF ReceiveData
<1>4. CASE WaitNode
  BY <1>4 DEF WaitNode
<1>5. CASE GiveUp
  BY <1>5 DEF GiveUp
<1>6. CASE NodeFree
  BY <1>6 DEF NodeFree
<1>7. CASE Fill
  BY <1>7 DEF Fill
<1>8. CASE Publish
  BY <1>8 DEF Publish
<1>9. CASE Destroy
  BY <1>9 DEF Destroy
<1>10. CASE Free
  BY <1>10 DEF Free
<1>11. CASE ThreadStart
  BY <1>11 DEF ThreadStart
<1>12. CASE DecodeNode
  BY <1>12 DEF DecodeNode
<1>13. CASE ReleaseNode
  BY <1>13 DEF ReleaseNode
<1>14. CASE ThreadExit
  BY <1>14 DEF ThreadExit
<1>15. CASE UNCHANGED vars
  BY <1>15
<1> QED
  BY <1>1, <1>2, <1>3, <1>4, <1>5, <1>6, <1>7, <1>8, <1>9, <1>10, <1>11,
     <1>12, <1>13, <1>14, <1>15 DEF Next, Owner, Decoder, Receive

\* need_read and the two positions change only when a node is published or
\* released.
LEMMA NextRingOccupancy == IInv /\ [Next]_vars => RingOccupancy'
<1> SUFFICES ASSUME IInv, [Next]_vars PROVE RingOccupancy'
  OBVIOUS
<1> USE DEF IInv, TypeOK
<1>1. CASE Publish
  <2>1. /\ need_read' = [need_read EXCEPT ![node_write] = TRUE]
        /\ node_write' = NextNode(node_write) /\ node' = node
        /\ ~need_read[node_write]
    BY <1>1 DEF Publish, Control
  <2>2. \A i \in Slots :
            need_read[i] <=> (node # node_write /\ i \in Between(node, node_write))
    BY <2>1 DEF RingOccupancy
  <2>3. \A i \in Slots :
            need_read'[i] <=> (i = node_write \/ (node # node_write /\ i \in Between(node, node_write)))
    BY <2>1, <2>2
  <2>4. CASE NextNode(node_write) = node
    BY <2>1, <2>3, <2>4, BetweenFills DEF RingOccupancy
  <2>5. CASE NextNode(node_write) # node
    <3>1. \A i \in Slots : need_read'[i] <=> i \in Between(node, NextNode(node_write))
      BY <2>3, <2>5, BetweenGrows
    <3> QED
      BY <2>1, <2>5, <3>1 DEF RingOccupancy, Between
  <2> QED
    BY <2>4, <2>5
<1>2. CASE ReleaseNode
  <2>1. /\ need_read' = [need_read EXCEPT ![node] = FALSE]
        /\ node' = NextNode(node) /\ node_write' = node_write
        /\ need_read[node]
    BY <1>2 DEF ReleaseNode, Control
  <2>2. \A i \in Slots :
            need_read[i] <=> (node # node_write => i \in Between(node, node_write))
    BY <2>1 DEF RingOccupancy
  <2>3. \A i \in Slots :
            need_read'[i] <=> (i # node /\ (node # node_write => i \in Between(node, node_write)))
    BY <2>1, <2>2
  <2>4. CASE NextNode(node) = node_write
    <3>1. \A i \in Slots : ~need_read'[i]
      <4>1. CASE node = node_write
        BY <4>1, <2>3, <2>4, CountAssumption DEF Slots, NextNode
      <4>2. CASE node # node_write
        BY <4>2, <2>3, <2>4, BetweenSingle
      <4> QED
        BY <4>1, <4>2
    <3> QED
      BY <2>1, <2>4, <3>1 DEF RingOccupancy
  <2>5. CASE NextNode(node) # node_write
    <3>1. \A i \in Slots : need_read'[i] <=> i \in Between(NextNode(node), node_write)
      BY <2>3, <2>5, BetweenShrinks, BetweenWhole
    <3> QED
      BY <2>1, <2>5, <3>1 DEF RingOccupancy, Between
  <2> QED
    BY <2>4, <2>5
<1>3. CASE UNCHANGED <<need_read, node, node_write>>
  BY <1>3 DEF RingOccupancy, Between
<1>4. ASSUME Next, ~Publish, ~ReleaseNode PROVE UNCHANGED <<need_read, node, node_write>>
  BY <1>4 DEF Next, Owner, Decoder, Receive, Create, CreateFails, ReceiveData,
     WaitNode, GiveUp, NodeFree, Fill, Destroy, Free, ThreadStart, DecodeNode,
     ThreadExit
<1> QED
  BY <1>1, <1>2, <1>3, <1>4

\* Only Fill changes a node's contents, and it replaces memory that is too
\* small.
LEMMA NextRoom == IInv /\ [Next]_vars => Room'
<1> SUFFICES ASSUME IInv, [Next]_vars PROVE Room'
  OBVIOUS
<1> USE DEF IInv, TypeOK
<1>1. CASE Fill
  <2>1. buffer' = [buffer EXCEPT ![wbuf] = Filled(buffer[wbuf], arg)]
    BY <1>1 DEF Fill
  <2>2. arg.media_type = Video
            => Filled(buffer[wbuf], arg).max_len >= arg.len + Slack
    <3>1. arg.len \in Nat /\ Slack \in Nat
      BY BoundAssumption, FrameLen
    <3> QED
      BY <3>1 DEF Filled, MallocLen
  <2> QED
    BY <2>1, <2>2 DEF Room, Filled
<1>2. CASE UNCHANGED buffer
  BY <1>2 DEF Room
<1>3. ASSUME Next, ~Fill PROVE UNCHANGED buffer
  BY <1>3 DEF Next, Owner, Decoder, Receive, Create, CreateFails, ReceiveData,
     WaitNode, GiveUp, NodeFree, Publish, Destroy, Free, ThreadStart,
     DecodeNode, ReleaseNode, ThreadExit
<1> QED
  BY <1>1, <1>2, <1>3

\* The inductive invariant holds in every reachable state, in whichever order
\* the owner's stores are seen.
THEOREM Invariance == Spec => []IInv
<1>1. IInv /\ [Next]_vars => IInv'
  BY NextTypeOK, NextControl, NextRingOccupancy, NextRoom DEF IInv
<1> QED
  BY InitIInv, <1>1, PTL DEF Spec

-----------------------------------------------------------------------------
(* The results.                                                            *)

\* AnsyncDecoder keeps the types of its variables.
THEOREM TypeCorrectness == Spec => []TypeOK
<1>1. IInv => TypeOK
  BY DEF IInv
<1> QED
  BY <1>1, Invariance, PTL

\* The unread nodes are the stretch from the reader to the writer: a frame is
\* never overtaken, skipped or decoded twice, for every ring size.
THEOREM Occupancy == Spec => []RingOccupancy
<1>1. IInv => RingOccupancy
  BY DEF IInv
<1> QED
  BY <1>1, Invariance, PTL

\* In whichever order the owner's stores are seen, the owner touches the node
\* that the decoder is reading in one case at most: the stores that line 468
\* was seen before.  The memory order is a case of the theorem, not a premise.
THEOREM Exclusion == Spec => []SlotExclusive
<1>1. IInv => SlotExclusive
  BY DEF IInv, Control, SlotExclusive
<1> QED
  BY <1>1, Invariance, PTL

\* Every video frame handed to the decoder has the extra bytes of line 427.
THEOREM SlackKept == Spec => []VideoSlack
<1>1. IInv => VideoSlack
  BY DEF IInv, Room, VideoSlack
<1> QED
  BY <1>1, Invariance, PTL

\* The decode thread has ended before anything of the decoder is freed.
THEOREM FreedAfterEnd == Spec => []NoUseAfterFree
<1>1. IInv => NoUseAfterFree
  BY DEF IInv, Control, NoUseAfterFree
<1> QED
  BY <1>1, Invariance, PTL

-----------------------------------------------------------------------------
(* The counters of the decoder.                                            *)

UnreadSet == {i \in Slots : need_read[i]}

\* The ring, and what is unread of it, is finite.
LEMMA RingFinite == IsFiniteSet(Slots) /\ IsFiniteSet(UnreadSet)
<1>1. IsFiniteSet(Slots)
  BY CountAssumption, FS_Interval DEF Slots
<1>2. UnreadSet \subseteq Slots
  BY DEF UnreadSet
<1> QED
  BY <1>1, <1>2, FS_Subset

\* A step keeps cnt_rcv - cnt_dec equal to the number of unread nodes.
LEMMA NextUnreadCount == IInv /\ UnreadCount /\ [Next]_vars => UnreadCount'
<1> SUFFICES ASSUME IInv, UnreadCount, [Next]_vars PROVE UnreadCount'
  OBVIOUS
<1> USE DEF IInv, TypeOK
<1>0. Cardinality(UnreadSet) \in Nat
  BY RingFinite, FS_CardinalityType
<1>1. CASE Publish
  <2>1. /\ need_read' = [need_read EXCEPT ![wbuf] = TRUE]
        /\ cnt_rcv' = cnt_rcv + 1 /\ cnt_dec' = cnt_dec
        /\ ~need_read[wbuf]
    BY <1>1 DEF Publish, Control
  <2>2. UnreadSet' = UnreadSet \cup {wbuf} /\ wbuf \notin UnreadSet
    BY <2>1 DEF UnreadSet
  <2>3. Cardinality(UnreadSet') = Cardinality(UnreadSet) + 1
    BY <2>2, RingFinite, FS_AddElement
  <2> QED
    BY <1>0, <2>1, <2>3 DEF UnreadCount, UnreadSet
<1>2. CASE ReleaseNode
  <2>1. /\ need_read' = [need_read EXCEPT ![node] = FALSE]
        /\ cnt_dec' = cnt_dec + 1 /\ cnt_rcv' = cnt_rcv
        /\ need_read[node]
    BY <1>2 DEF ReleaseNode, Control
  <2>2. UnreadSet' = UnreadSet \ {node} /\ node \in UnreadSet
    BY <2>1 DEF UnreadSet
  <2>3. Cardinality(UnreadSet') = Cardinality(UnreadSet) - 1
    BY <2>2, RingFinite, FS_RemoveElement
  <2> QED
    BY <1>0, <2>1, <2>3 DEF UnreadCount, UnreadSet
<1>3. CASE UNCHANGED <<need_read, cnt_rcv, cnt_dec>>
  BY <1>3 DEF UnreadCount
<1>4. ASSUME Next, ~Publish, ~ReleaseNode PROVE UNCHANGED <<need_read, cnt_rcv, cnt_dec>>
  BY <1>4 DEF Next, Owner, Decoder, Receive, Create, CreateFails, ReceiveData,
     WaitNode, GiveUp, NodeFree, Fill, Destroy, Free, ThreadStart, DecodeNode,
     ThreadExit
<1> QED
  BY <1>1, <1>2, <1>3, <1>4

\* cnt_rcv - cnt_dec is the number of frames in the ring: nothing is released
\* twice or written over.
THEOREM Conservation == Spec => []UnreadCount
<1>1. Init => UnreadCount
  <2> SUFFICES ASSUME Init PROVE UnreadCount
    OBVIOUS
  <2>1. {i \in Slots : need_read[i]} = {}
    BY DEF Init
  <2> QED
    BY <2>1, FS_EmptySet DEF Init, UnreadCount
<1> QED
  BY <1>1, NextUnreadCount, Invariance, PTL DEF Spec

-----------------------------------------------------------------------------
(* The ring as the bounded first-in first-out queue of FrameQueue.         *)

Skip == IF dpc = "decode" THEN 1 ELSE 0

\* The unread nodes are the ones at distances 0 .. n - 1 from the reader and
\* the writer is at distance n, where n is the number of unread nodes.
Stretch ==
    /\ Cardinality(UnreadSet) \in 0 .. Count
    /\ node_write = Ahead(node, Cardinality(UnreadSet))
    /\ \A k \in Slots : need_read[Ahead(node, k)] <=> k < Cardinality(UnreadSet)

\* A node published after it was filled holds the frame that was received,
\* and the codec gets what the nodes were filled for if all are.
Content ==
    /\ opc \in {"wait", "fill", "publish", "early", "late"} => arg \in Frames
    /\ opc = "publish" => buffer[wbuf].frame = arg
    /\ StoresInOrder => decoded = handed

QInv == IInv /\ Stretch /\ Content

\* Going k places ahead stays in the ring, is injective, and is going one
\* place ahead k times.
LEMMA AheadInRing == \A i, k \in Slots : Ahead(i, k) \in Slots
BY CountAssumption DEF Slots, Ahead

LEMMA AheadInjective ==
    ASSUME NEW i \in Slots, NEW j \in Slots, NEW k \in Slots, Ahead(i, j) = Ahead(i, k)
    PROVE  j = k
BY CountAssumption DEF Slots, Ahead

LEMMA AheadStep ==
    ASSUME NEW i \in Slots, NEW k \in Slots
    PROVE  /\ Ahead(i, k + 1) = NextNode(Ahead(i, k))
           /\ k + 1 < Count => Ahead(NextNode(i), k) = Ahead(i, k + 1)
           /\ k + 1 = Count => Ahead(NextNode(i), k) = i
BY CountAssumption DEF Slots, Ahead, NextNode

LEMMA AheadEnds == \A i \in Slots : Ahead(i, 0) = i /\ Ahead(i, Count) = i
BY CountAssumption DEF Slots, Ahead

\* How many nodes are unread after a node was published or released.
LEMMA CountPublished ==
    ASSUME IInv, Publish
    PROVE  /\ Cardinality(UnreadSet) \in Nat
           /\ Cardinality(UnreadSet') = Cardinality(UnreadSet) + 1
<1>1. /\ need_read' = [need_read EXCEPT ![wbuf] = TRUE] /\ ~need_read[wbuf]
      /\ need_read \in [Slots -> BOOLEAN] /\ wbuf \in Slots
  BY DEF Publish, Control, IInv, TypeOK
<1>2. UnreadSet' = UnreadSet \cup {wbuf} /\ wbuf \notin UnreadSet
  BY <1>1 DEF UnreadSet
<1> QED
  BY <1>2, RingFinite, FS_AddElement, FS_CardinalityType

LEMMA CountReleased ==
    ASSUME IInv, ReleaseNode
    PROVE  /\ Cardinality(UnreadSet) \in Nat
           /\ Cardinality(UnreadSet') = Cardinality(UnreadSet) - 1
<1>1. /\ need_read' = [need_read EXCEPT ![node] = FALSE] /\ need_read[node]
      /\ need_read \in [Slots -> BOOLEAN] /\ node \in Slots
  BY DEF ReleaseNode, Control, IInv, TypeOK
<1>2. UnreadSet' = UnreadSet \ {node} /\ node \in UnreadSet
  BY <1>1 DEF UnreadSet
<1> QED
  BY <1>2, RingFinite, FS_RemoveElement, FS_CardinalityType

\* A step keeps the unread nodes one stretch ahead of the reader.
LEMMA NextStretch == IInv /\ Stretch /\ [Next]_vars => Stretch'
<1> SUFFICES ASSUME IInv, Stretch, [Next]_vars PROVE Stretch'
  OBVIOUS
<1> DEFINE n == Cardinality(UnreadSet)
<1>0. /\ n \in 0 .. Count /\ node_write = Ahead(node, n)
      /\ \A k \in Slots : need_read[Ahead(node, k)] <=> k < n
      /\ node \in Slots /\ need_read \in [Slots -> BOOLEAN]
      /\ Count \in Nat \ {0} /\ 0 \in Slots
  BY CountAssumption DEF Stretch, IInv, TypeOK, Slots
<1>1. CASE Publish
  <2>1. /\ need_read' = [need_read EXCEPT ![node_write] = TRUE]
        /\ node_write' = NextNode(node_write) /\ node' = node
        /\ ~need_read[node_write]
    BY <1>1 DEF Publish, Control, IInv
  <2>2. n' = n + 1
    BY <1>1, CountPublished
  <2>3. n \in Slots
    <3>1. n # Count
      BY <1>0, <2>1, AheadEnds
    <3> QED
      BY <1>0, <3>1 DEF Slots
  <2>4. node_write' = Ahead(node, n + 1)
    BY <1>0, <2>1, <2>3, AheadStep
  <2>5. ASSUME NEW k \in Slots PROVE need_read'[Ahead(node, k)] <=> k < n + 1
    <3>1. Ahead(node, k) \in Slots /\ Ahead(node, n) \in Slots
      BY <1>0, <2>3, AheadInRing
    <3>2. CASE k = n
      BY <1>0, <2>1, <2>3, <3>1, <3>2 DEF Slots
    <3>3. CASE k # n
      <4>1. Ahead(node, k) # Ahead(node, n)
        BY <1>0, <2>3, <3>3, AheadInjective
      <4>2. need_read'[Ahead(node, k)] = need_read[Ahead(node, k)]
        BY <1>0, <2>1, <3>1, <4>1
      <4>3. k < n + 1 <=> k < n
        BY <2>3, <3>3 DEF Slots
      <4> QED
        BY <1>0, <4>2, <4>3
    <3> QED
      BY <3>2, <3>3
  <2>6. n + 1 \in 0 .. Count
    BY <2>3, <1>0 DEF Slots
  <2> QED
    BY <2>1, <2>2, <2>4, <2>5, <2>6 DEF Stretch
<1>2. CASE ReleaseNode
  <2>1. /\ need_read' = [need_read EXCEPT ![node] = FALSE]
        /\ node' = NextNode(node) /\ node_write' = node_write
        /\ need_read[node]
    BY <1>2 DEF ReleaseNode, Control, IInv
  <2>2. n' = n - 1
    BY <1>2, CountReleased
  <2>3. n - 1 \in Slots
    <3>1. 0 < n
      BY <1>0, <2>1, AheadEnds
    <3> QED
      BY <1>0, <3>1 DEF Slots
  <2>4. node_write = Ahead(NextNode(node), n - 1)
    <3>1. (n - 1) + 1 = n /\ n \in Nat
      BY <1>0
    <3>2. CASE n < Count
      BY <1>0, <2>3, <3>1, <3>2, AheadStep
    <3>3. CASE n = Count
      BY <1>0, <2>3, <3>1, <3>3, AheadStep, AheadEnds
    <3> QED
      BY <1>0, <3>2, <3>3
  <2>5. ASSUME NEW k \in Slots PROVE need_read'[Ahead(NextNode(node), k)] <=> k < n - 1
    <3>1. CASE k + 1 = Count
      <4>1. Ahead(NextNode(node), k) = node
        BY <1>0, <3>1, AheadStep
      <4>2. ~(k < n - 1)
        BY <1>0, <3>1 DEF Slots
      <4> QED
        BY <1>0, <2>1, <4>1, <4>2
    <3>2. CASE k + 1 # Count
      <4>1. k + 1 \in Slots /\ k + 1 < Count /\ k + 1 # 0
        BY <1>0, <3>2 DEF Slots
      <4>2. Ahead(NextNode(node), k) = Ahead(node, k + 1) /\ Ahead(node, k + 1) \in Slots
        BY <1>0, <4>1, AheadStep, AheadInRing
      <4>3. Ahead(node, k + 1) # node
        BY <1>0, <4>1, AheadEnds, AheadInjective
      <4>4. need_read'[Ahead(node, k + 1)] <=> k + 1 < n
        BY <1>0, <2>1, <4>1, <4>2, <4>3
      <4>5. k + 1 < n <=> k < n - 1
        BY <1>0 DEF Slots
      <4> QED
        BY <4>2, <4>4, <4>5
    <3> QED
      BY <3>1, <3>2
  <2>6. n - 1 \in 0 .. Count
    BY <2>3, <1>0 DEF Slots
  <2> QED
    BY <2>1, <2>2, <2>4, <2>5, <2>6 DEF Stretch
<1>3. CASE UNCHANGED <<need_read, node, node_write>>
  BY <1>3 DEF Stretch, UnreadSet
<1>4. ASSUME Next, ~Publish, ~ReleaseNode PROVE UNCHANGED <<need_read, node, node_write>>
  BY <1>4 DEF Next, Owner, Decoder, Receive, Create, CreateFails, ReceiveData,
     WaitNode, GiveUp, NodeFree, Fill, Destroy, Free, ThreadStart, DecodeNode,
     ThreadExit
<1> QED
  BY <1>1, <1>2, <1>3, <1>4

\* A step keeps the received frame in the node that it was received for.
LEMMA NextContent == IInv /\ Content /\ [Next]_vars => Content'
<1> SUFFICES ASSUME IInv, Content, [Next]_vars PROVE Content'
  OBVIOUS
<1> USE DEF IInv, TypeOK, Content
<1>1. ASSUME NEW m \in Media, NEW l \in Sizes, ReceiveData(m, l) PROVE Content'
  BY <1>1, BoundAssumption DEF ReceiveData, Frames
<1>2. CASE Fill
  BY <1>2 DEF Fill, Filled
<1>3. CASE Publish
  BY <1>3 DEF Publish
<1>4. CASE DecodeNode
  <2>1. StoresInOrder => Accepted(node) = buffer[node].frame
    BY DEF Accepted, Control
  <2> QED
    BY <1>4, <2>1 DEF DecodeNode
<1>5. CASE /\ UNCHANGED <<buffer, arg, wbuf, decoded, handed>>
           /\ \/ opc' = opc \/ (opc = "wait" /\ opc' \in {"fill", "early"})
              \/ opc' \notin {"wait", "fill", "publish", "early", "late"}
  BY <1>5
<1>6. ASSUME Next, ~Fill, ~Publish, ~Receive, ~DecodeNode
      PROVE  /\ UNCHANGED <<buffer, arg, wbuf, decoded, handed>>
             /\ \/ opc' = opc \/ (opc = "wait" /\ opc' \in {"fill", "early"})
                \/ opc' \notin {"wait", "fill", "publish", "early", "late"}
  BY <1>6 DEF Next, Owner, Decoder, Create, CreateFails,
     WaitNode, GiveUp, NodeFree, Destroy, Free, ThreadStart,
     ReleaseNode, ThreadExit
<1> QED
  BY <1>1, <1>2, <1>3, <1>4, <1>5, <1>6 DEF Receive

\* What the refinement rests on holds in every reachable state.
LEMMA QueueInvariance == Spec => []QInv
<1>1. Init => Stretch /\ Content
  <2> SUFFICES ASSUME Init PROVE Stretch /\ Content
    OBVIOUS
  <2>1. UnreadSet = {}
    BY DEF Init, UnreadSet
  <2>2. Cardinality(UnreadSet) = 0
    BY <2>1, FS_EmptySet
  <2>3. Ahead(0, 0) = 0 /\ \A k \in Slots : Ahead(0, k) \in Slots /\ ~(k < 0)
    BY CountAssumption DEF Ahead, Slots
  <2> QED
    BY <2>2, <2>3, CountAssumption DEF Init, Stretch, Content
<1>2. IInv /\ Stretch /\ Content /\ [Next]_vars => (Stretch /\ Content)'
  BY NextStretch, NextContent
<1> QED
  BY <1>1, <1>2, Invariance, PTL DEF Spec, QInv

\* The queue of the refinement mapping: its length, and where its k-th frame
\* is in the ring.
QueueShape ==
    /\ Cardinality(UnreadSet) - Skip \in 0 .. Count
    /\ Unread = [k \in 1 .. Cardinality(UnreadSet) - Skip |->
                    Accepted(Ahead(node, Skip + k - 1))]
    /\ \A k \in 1 .. Cardinality(UnreadSet) - Skip :
          /\ Skip + k - 1 \in Slots
          /\ Ahead(node, Skip + k - 1) \in Slots
          /\ need_read[Ahead(node, Skip + k - 1)]

\* The queue of the mapping has that shape, in every state of the invariant.
LEMMA UnreadQueue == QInv => QueueShape
<1> SUFFICES ASSUME QInv PROVE QueueShape
  OBVIOUS
<1> DEFINE n == Cardinality(UnreadSet)
<1>0. /\ n \in 0 .. Count /\ node \in Slots /\ Count \in Nat \ {0} /\ 0 \in Slots
      /\ \A k \in Slots : need_read[Ahead(node, k)] <=> k < n
  BY CountAssumption DEF QInv, Stretch, IInv, TypeOK, Slots
<1>1. Skip \in 0 .. 1 /\ Skip <= n
  <2>1. CASE dpc = "decode"
    <3>1. need_read[node]
      BY <2>1 DEF QInv, IInv, Control
    <3>2. 0 < n
      BY <1>0, <3>1, AheadEnds
    <3> QED
      BY <1>0, <2>1, <3>2 DEF Skip
  <2>2. CASE dpc # "decode"
    BY <1>0, <2>2 DEF Skip
  <2> QED
    BY <2>1, <2>2
<1>2. n - Skip \in 0 .. Count
  BY <1>0, <1>1
<1>3. Unread = [k \in 1 .. n - Skip |-> Accepted(Ahead(node, Skip + k - 1))]
  BY DEF Unread, UnreadSet, Skip
<1>4. ASSUME NEW k \in 1 .. n - Skip
      PROVE  Skip + k - 1 \in Slots /\ Skip + k - 1 < n
  BY <1>0, <1>1 DEF Slots
<1> QED
  BY <1>0, <1>2, <1>3, <1>4, AheadInRing DEF QueueShape

\* The same in the state after a step.
LEMMA UnreadQueueNext == QInv' => QueueShape'
BY UnreadQueue, PTL

\* Publish puts the received frame at the end of the queue, filled or not.
LEMMA PublishPuts ==
    ASSUME QInv, QInv', Publish
    PROVE  /\ arg \in Frames /\ Len(Unread) < Count
           /\ Unread' = Append(Unread, arg)
<1> DEFINE n == Cardinality(UnreadSet)
<1>1. /\ opc \in {"publish", "early"} /\ wbuf = node_write /\ arg \in Frames
      /\ opc = "publish" => buffer[wbuf].frame = arg
      /\ node_write = Ahead(node, n) /\ ~need_read[wbuf]
      /\ UNCHANGED <<buffer, node, dpc, wbuf, arg>>
      /\ opc' = IF opc = "publish" THEN "idle" ELSE "late"
  BY DEF Publish, QInv, IInv, Control, Content, Stretch
<1>2. Skip' = Skip /\ Skip \in 0 .. 1
  BY <1>1 DEF Skip
<1>3. n' = n + 1 /\ n \in Nat
  BY CountPublished DEF QInv
<1>4. n - Skip \in 0 .. Count /\ n' - Skip' \in 0 .. Count
  BY UnreadQueue, UnreadQueueNext DEF QueueShape
<1>5. n + 1 <= Count
  BY <1>3, CountAssumption DEF QInv, Stretch
<1>6. Unread = [k \in 1 .. n - Skip |-> Accepted(Ahead(node, Skip + k - 1))]
  BY UnreadQueue DEF QueueShape
<1>7. Unread' = [k \in 1 .. (n + 1) - Skip |-> Accepted(Ahead(node, Skip + k - 1))']
  BY UnreadQueueNext, <1>2, <1>3 DEF QueueShape
<1>8. Len(Unread) = n - Skip /\ (n + 1) - Skip = (n - Skip) + 1 /\ n - Skip \in Nat
  BY <1>2, <1>3, <1>4, <1>6
<1>9. ASSUME NEW k \in Nat, k = (n + 1) - Skip
      PROVE  Accepted(Ahead(node, Skip + k - 1))' = arg
  <2>1. Skip + k - 1 = n
    BY <1>2, <1>3, <1>9
  <2>2. Ahead(node, Skip + k - 1)' = wbuf
    BY <1>1, <1>2, <2>1 DEF Ahead
  <2> QED
    BY <1>1, <2>2 DEF Accepted
<1>10. ASSUME NEW k \in 1 .. n - Skip
       PROVE  Accepted(Ahead(node, Skip + k - 1))' = Accepted(Ahead(node, Skip + k - 1))
  <2>1. need_read[Ahead(node, Skip + k - 1)]
    BY UnreadQueue DEF QueueShape
  <2> QED
    BY <1>1, <1>2, <2>1 DEF Accepted
<1>11. Unread' = Append(Unread, arg)
  <2>0. PICK m \in Nat : m = n - Skip
    BY <1>8
  <2> DEFINE Old(k) == Accepted(Ahead(node, Skip + k - 1))
             New(k) == Accepted(Ahead(node, Skip + k - 1))'
  <2>1. m \in Nat /\ m + 1 = (n + 1) - Skip
    BY <1>8, <2>0
  <2>2. New(m + 1) = arg
    BY <1>9, <2>1
  <2>3. \A k \in 1 .. m : New(k) = Old(k)
    BY <1>10, <2>0
  <2>4. Unread = [k \in 1 .. m |-> Old(k)] /\ Unread' = [k \in 1 .. m + 1 |-> New(k)]
    BY <1>6, <1>7, <2>0, <2>1
  <2> HIDE DEF Old, New
  <2> QED
    BY <2>1, <2>2, <2>3, <2>4
<1> QED
  BY <1>1, <1>2, <1>3, <1>5, <1>8, <1>11, CountAssumption

\* DecodeNode takes the first frame of the queue.
LEMMA DecodeTakes ==
    ASSUME QInv, QInv', DecodeNode
    PROVE  /\ Unread # <<>> /\ handed' = Append(handed, Head(Unread))
           /\ Unread' = Tail(Unread)
<1> DEFINE n == Cardinality(UnreadSet)
<1>1. /\ UNCHANGED <<buffer, node, need_read, opc, arg, wbuf>> /\ need_read[node]
      /\ Skip = 0 /\ Skip' = 1 /\ handed' = Append(handed, Accepted(node))
      /\ node \in Slots
  BY DEF DecodeNode, Skip, QInv, IInv, TypeOK
<1>2. n' = n /\ \A i \in Slots : Accepted(i)' = Accepted(i)
  BY <1>1 DEF UnreadSet, Accepted
<1>3. n \in Nat \ {0}
  <2>1. n - 1 \in 0 .. Count
    BY UnreadQueueNext, <1>1, <1>2 DEF QueueShape
  <2> QED
    BY <2>1, CountAssumption DEF QInv, Stretch
<1>4. Unread = [k \in 1 .. n |-> Accepted(Ahead(node, k - 1))]
  <2>1. Unread = [k \in 1 .. n - 0 |-> Accepted(Ahead(node, 0 + k - 1))]
    BY UnreadQueue, <1>1 DEF QueueShape
  <2>2. n - 0 = n /\ \A k \in 1 .. n : 0 + k - 1 = k - 1
    BY <1>3
  <2> QED
    BY <2>1, <2>2
<1>5. Unread' = [k \in 1 .. n - 1 |-> Accepted(Ahead(node, k))]
  <2>1. /\ Unread' = [k \in 1 .. n - 1 |-> Accepted(Ahead(node, 1 + k - 1))']
        /\ \A k \in 1 .. n - 1 : Ahead(node, 1 + k - 1)' \in Slots
    BY UnreadQueueNext, <1>1, <1>2 DEF QueueShape
  <2>2. \A k \in 1 .. n - 1 : 1 + k - 1 = k
    BY <1>3
  <2>3. \A k \in 1 .. n - 1 : Accepted(Ahead(node, 1 + k - 1))' = Accepted(Ahead(node, k))
    BY <1>1, <1>2, <2>1, <2>2
  <2> QED
    BY <2>1, <2>3
<1>6. Len(Unread) = n /\ Head(Unread) = Accepted(Ahead(node, 0))
  BY <1>3, <1>4
<1>7. Tail(Unread) = [k \in 1 .. n - 1 |-> Accepted(Ahead(node, k))]
  <2>1. Tail(Unread) = [k \in 1 .. n - 1 |-> Unread[k + 1]]
    BY <1>3, <1>4, <1>6
  <2>2. \A k \in 1 .. n - 1 : Unread[k + 1] = Accepted(Ahead(node, k))
    BY <1>3, <1>4
  <2> QED
    BY <2>1, <2>2
<1> QED
  BY <1>1, <1>3, <1>5, <1>6, <1>7, AheadEnds

\* ReleaseNode moves the reader to the next frame of the same queue.
LEMMA ReleaseKeeps ==
    ASSUME QInv, QInv', ReleaseNode
    PROVE  Unread' = Unread
<1> DEFINE n == Cardinality(UnreadSet)
<1>1. /\ UNCHANGED <<buffer, opc, arg, wbuf>> /\ node' = NextNode(node)
      /\ node \in Slots /\ Skip = 1 /\ Skip' = 0
  BY DEF ReleaseNode, Skip, QInv, IInv, TypeOK
<1>2. n' = n - 1 /\ n \in Nat
  BY CountReleased DEF QInv
<1>3. Unread' = [k \in 1 .. (n - 1) - 0 |-> Accepted(Ahead(node, 0 + k - 1))']
  BY UnreadQueueNext, <1>1, <1>2 DEF QueueShape
<1>4. Unread = [k \in 1 .. n - 1 |-> Accepted(Ahead(node, 1 + k - 1))]
  BY UnreadQueue, <1>1 DEF QueueShape
<1>5. (n - 1) - 0 = n - 1
  BY <1>2
<1>6. ASSUME NEW k \in 1 .. n - 1
      PROVE  Accepted(Ahead(node, 0 + k - 1))' = Accepted(Ahead(node, 1 + k - 1))
  <2>1. 1 + k - 1 \in Slots
    BY UnreadQueue, <1>1 DEF QueueShape
  <2>2. 0 + k - 1 \in Slots /\ (0 + k - 1) + 1 = 1 + k - 1 /\ 1 + k - 1 < Count
    BY <2>1, <1>2, CountAssumption DEF Slots
  <2>3. Ahead(NextNode(node), 0 + k - 1) = Ahead(node, 1 + k - 1)
    BY <1>1, <2>2, AheadStep
  <2> QED
    BY <1>1, <2>3 DEF Accepted, Ahead
<1> QED
  BY <1>3, <1>4, <1>5, <1>6

\* Fill writes a node that is not in the queue, or stores in a published one
\* the frame that it was accepted with.
LEMMA FillKeeps ==
    ASSUME QInv, QInv', Fill
    PROVE  Unread' = Unread
<1> DEFINE n == Cardinality(UnreadSet)
<1>1. /\ UNCHANGED <<node, need_read, dpc, wbuf, arg>>
      /\ \/ opc = "fill" /\ opc' = "publish" /\ ~need_read[wbuf]
         \/ opc = "late" /\ opc' = "idle"
      /\ buffer' = [buffer EXCEPT ![wbuf] = Filled(buffer[wbuf], arg)]
      /\ DOMAIN buffer = Slots /\ wbuf \in Slots
  BY DEF Fill, QInv, IInv, Control, TypeOK
<1>2. n' = n /\ Skip' = Skip
  BY <1>1 DEF UnreadSet, Skip
<1>3. Unread = [k \in 1 .. n - Skip |-> Accepted(Ahead(node, Skip + k - 1))]
  BY UnreadQueue DEF QueueShape
<1>4. Unread' = [k \in 1 .. n - Skip |-> Accepted(Ahead(node, Skip + k - 1))']
  BY UnreadQueueNext, <1>1, <1>2 DEF QueueShape
<1>5. ASSUME NEW k \in 1 .. n - Skip
      PROVE  Accepted(Ahead(node, Skip + k - 1))' = Accepted(Ahead(node, Skip + k - 1))
  <2> DEFINE i == Ahead(node, Skip + k - 1)
  <2>1. i \in Slots /\ need_read[i]
    BY UnreadQueue DEF QueueShape
  <2>2. i' = i
    BY <1>1, <1>2 DEF Ahead
  <2>3. CASE i # wbuf
    BY <1>1, <2>1, <2>2, <2>3 DEF Accepted
  <2>4. CASE i = wbuf
    <3>1. Filled(buffer[wbuf], arg).frame = arg
      BY DEF Filled
    <3> QED
      BY <1>1, <2>1, <2>2, <2>4, <3>1 DEF Accepted
  <2> QED
    BY <2>3, <2>4
<1> QED
  BY <1>3, <1>4, <1>5

\* The decoder implements the bounded queue: Publish is Put, DecodeNode is
\* Take, Free is Discard, and every other step leaves the queue alone.  No
\* memory order is assumed of the owner's stores: it decides only whether
\* what the codec gets is what was accepted.
THEOREM Refinement == Spec => ImplementsFrameQueue
<1> USE DEF FQ!vars
<1>1. ASSUME Init PROVE FQ!Init
  <2>1. Cardinality({i \in Slots : need_read[i]}) = 0
    <3>1. {i \in Slots : need_read[i]} = {}
      BY <1>1 DEF Init
    <3> QED
      BY <3>1, FS_EmptySet
  <2>2. Unread = <<>>
    <3>1. Unread = [k \in 1 .. 0 |-> Accepted(Ahead(node, 0 + k - 1))]
      <4>1. Skip = 0 /\ 0 - 0 = 0 /\ dpc # "decode"
        BY <1>1 DEF Init, Skip
      <4> QED
        BY <2>1, <4>1 DEF Unread
    <3>2. Unread \in Seq({}) /\ Len(Unread) = 0
      BY <3>1
    <3> QED
      BY <3>2
  <2> QED
    BY <1>1, <2>2 DEF Init, FQ!Init
<1>2. ASSUME QInv, QInv', [Next]_vars PROVE [FQ!Next]_FQ!vars
  <2>1. CASE Publish
    <3>1. ad # "freed" /\ UNCHANGED <<ad, handed>>
      BY <1>2, <2>1 DEF Publish, QInv, IInv, Control
    <3> QED
      BY <1>2, <2>1, <3>1, PublishPuts DEF FQ!Next, FQ!Put
  <2>2. CASE DecodeNode
    <3>1. ad # "freed" /\ UNCHANGED ad
      BY <1>2, <2>2 DEF DecodeNode, QInv, IInv, Control
    <3> QED
      BY <1>2, <2>2, <3>1, DecodeTakes DEF FQ!Next, FQ!Take
  <2>3. CASE ReleaseNode
    BY <1>2, <2>3, ReleaseKeeps DEF ReleaseNode
  <2>4. CASE Fill
    BY <1>2, <2>4, FillKeeps DEF Fill
  <2>5. CASE Free
    BY <2>5 DEF Free, FQ!Next, FQ!Discard
  <2>6. CASE /\ UNCHANGED <<need_read, buffer, node, handed>>
             /\ opc # "late" /\ opc' # "late"
             /\ (dpc = "decode") = (dpc' = "decode")
             /\ (ad = "freed") = (ad' = "freed")
    <3>1. Unread' = Unread
      BY <2>6 DEF Unread, Accepted
    <3> QED
      BY <2>6, <3>1
  <2>7. CASE /\ UNCHANGED <<need_read, buffer, node, handed, opc, arg, wbuf>>
             /\ (dpc = "decode") = (dpc' = "decode")
             /\ (ad = "freed") = (ad' = "freed")
    <3>1. Unread' = Unread
      BY <2>7 DEF Unread, Accepted
    <3> QED
      BY <2>7, <3>1
  <2>8. ASSUME Owner, ~Publish, ~Fill, ~Free
        PROVE  /\ UNCHANGED <<need_read, buffer, node, handed>>
               /\ opc # "late" /\ opc' # "late"
               /\ (dpc = "decode") = (dpc' = "decode")
               /\ (ad = "freed") = (ad' = "freed")
    BY <1>2, <2>8 DEF Owner, Receive, Create, CreateFails, ReceiveData,
       WaitNode, GiveUp, NodeFree, Destroy, QInv, IInv, Control
  <2>9. ASSUME Decoder, ~DecodeNode, ~ReleaseNode
        PROVE  /\ UNCHANGED <<need_read, buffer, node, handed, opc, arg, wbuf>>
               /\ (dpc = "decode") = (dpc' = "decode")
               /\ (ad = "freed") = (ad' = "freed")
    BY <1>2, <2>9 DEF Decoder, ThreadStart, ThreadExit
  <2>10. CASE UNCHANGED vars
    BY <2>7, <2>10
  <2> QED
    BY <1>2, <2>1, <2>2, <2>3, <2>4, <2>5, <2>6, <2>7, <2>8, <2>9, <2>10 DEF Next
<1>3. QInv => (StoresInOrder => decoded = handed)
  BY DEF QInv, Content
<1> QED
  BY <1>1, <1>2, <1>3, QueueInvariance, PTL DEF Spec, ImplementsFrameQueue, FQ!Spec
=============================================================================
