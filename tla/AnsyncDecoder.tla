--------------------------- MODULE AnsyncDecoder ---------------------------
(***************************************************************************)
(* The asynchronous decoder of the native service,                         *)
(* src/VirtualCamera/AnsyncDecoder/AnsyncDecoder.c: a ring of BufferData   *)
(* nodes (Common/circular_list.c) filled by its owner (the RTP receive     *)
(* thread, which calls Create, ReceiveData and Destroy) and emptied by     *)
(* decode_thread_func.  The only synchronisation is the plain int          *)
(* need_read of each node; nothing orders the store of need_read after     *)
(* the stores of the node's contents, so on the ARM targets of the build   *)
(* the decode thread may see them in either order.  StoresInOrder says     *)
(* whether it sees them in program order.                                  *)
(***************************************************************************)
EXTENDS Naturals, Sequences, FiniteSets

CONSTANTS Count,         \* nodes of the ring (240 in the code)
          WaitTries,     \* sleeps of ReceiveData before it gives up (20)
          Slack,         \* extra bytes malloc'ed for a video frame (256)
          Sizes,         \* lengths a frame may have
          MaxCalls,      \* bound: calls of AnsyncDecoder_ReceiveData
          StoresInOrder  \* need_read is seen after the node's contents

ASSUME CountAssumption == Count \in Nat \ {0}
ASSUME BoundAssumption == /\ WaitTries \in Nat /\ Slack \in Nat
                          /\ MaxCalls \in Nat  /\ Sizes \subseteq Nat
                          /\ StoresInOrder \in BOOLEAN

Slots  == 0 .. Count - 1
Video  == 1
Audio  == 2
Media  == {Video, Audio}
Frames == [id : 1 .. MaxCalls, media_type : Media, len : Sizes]

\* The zeroed node content of CircularList_Create; max_len = 0 <=> head NULL.
NoFrame == [id |-> 0, media_type |-> 0, len |-> 0]
Empty   == [frame |-> NoFrame, max_len |-> 0]

VARIABLES ad,          \* the AnsyncDecoder object: "null", "live", "freed"
          quit, running,
          need_read,   \* per node
          buffer,      \* per node: the rest of BufferData
          node_write,  \* ad->node_write
          node,        \* local of decode_thread_func
          cnt_rcv, cnt_dec,
          opc,         \* where the owner is
          count,       \* local of ReceiveData: sleeps left
          arg,         \* argument of the ReceiveData in progress
          wbuf,        \* local buffer of ReceiveData: the node it fills
          dpc,         \* where decode_thread_func is
          calls,       \* number of ReceiveData calls (bounded by MaxCalls)
          decoded,     \* what the codec was given, oldest first
          handed       \* history: the frames those nodes were filled for

object  == <<ad, quit, running>>
ownerv  == <<opc, count, arg, wbuf, calls>>
threadv == <<dpc, node, cnt_dec, decoded, handed>>
ring    == <<need_read, buffer>>
vars    == <<object, ownerv, threadv, ring, node_write, cnt_rcv>>

\* Mutant: the last node is not linked to the first.
NextNodeUnlinked(i) == i + 1

\* clist->nodes[i].next
NextNode(i) == IF i + 1 = Count THEN 0 ELSE i + 1

\* malloc_len of ReceiveData for a frame
MallocLen(f) == IF f.media_type = Video THEN f.len + Slack ELSE f.len

Init ==
    /\ ad = "null" /\ quit = FALSE /\ running = FALSE
    /\ need_read = [i \in Slots |-> FALSE]
    /\ buffer = [i \in Slots |-> Empty]
    /\ node_write = 0 /\ node = 0
    /\ cnt_rcv = 0 /\ cnt_dec = 0
    /\ opc = "start" /\ count = 0 /\ arg = NoFrame /\ wbuf = 0 /\ calls = 0
    /\ dpc = "none" /\ decoded = <<>> /\ handed = <<>>

-----------------------------------------------------------------------------
(* The owner.                                                              *)

\* AnsyncDecoder_Create: every codec step succeeded, the thread is running.
Create ==
    /\ opc = "start"
    /\ ad' = "live" /\ dpc' = "begin" /\ opc' = "idle"
    /\ UNCHANGED <<quit, running, ring, node_write, node, cnt_rcv, cnt_dec,
                   count, arg, wbuf, calls, decoded, handed>>

\* AnsyncDecoder_Create: a step failed before Thread_Run; the cleanup frees
\* what there is and the owner goes on with a NULL decoder.
CreateFails ==
    /\ opc = "start"
    /\ opc' = "idle"
    /\ UNCHANGED <<object, count, arg, wbuf, calls, threadv, ring, node_write, cnt_rcv>>

\* AnsyncDecoder_ReceiveData up to the wait loop.  Without a decoder, or
\* before its thread has set running, the frame is dropped.
ReceiveData(media, len) ==
    /\ opc = "idle" /\ ad # "freed" /\ calls < MaxCalls
    /\ calls' = calls + 1
    /\ IF ad = "live" /\ running
       THEN /\ arg' = [id |-> calls + 1, media_type |-> media, len |-> len]
            /\ wbuf' = node_write
            /\ count' = WaitTries
            /\ opc' = "wait"
       ELSE UNCHANGED <<arg, wbuf, count, opc>>
    /\ UNCHANGED <<object, threadv, ring, node_write, cnt_rcv>>

\* usleep(1000) while the node is still unread
WaitNode ==
    /\ opc = "wait" /\ need_read[wbuf] /\ count > 0
    /\ count' = count - 1
    /\ UNCHANGED <<object, opc, arg, wbuf, calls, threadv, ring, node_write, cnt_rcv>>

\* Mutant: need_read is not looked at again after the last sleep.
GiveUpOverwrites ==
    /\ opc = "wait" /\ need_read[wbuf] /\ count = 0
    /\ opc' = "fill"
    /\ UNCHANGED <<object, count, arg, wbuf, calls, threadv, ring, node_write, cnt_rcv>>

\* The ring is still full after the last sleep: the frame is dropped.
GiveUp ==
    /\ opc = "wait" /\ need_read[wbuf] /\ count = 0
    /\ opc' = "idle"
    /\ UNCHANGED <<object, count, arg, wbuf, calls, threadv, ring, node_write, cnt_rcv>>

\* Mutant: need_read is set before the node is filled.
NodeFreePublishesFirst ==
    /\ opc = "wait" /\ ~need_read[wbuf]
    /\ opc' = "early"
    /\ UNCHANGED <<object, count, arg, wbuf, calls, threadv, ring, node_write, cnt_rcv>>

\* The wait is over: the owner goes on to fill the node.
NodeFree ==
    /\ opc = "wait" /\ ~need_read[wbuf]
    /\ opc' \in IF StoresInOrder THEN {"fill"} ELSE {"fill", "early"}
    /\ UNCHANGED <<object, count, arg, wbuf, calls, threadv, ring, node_write, cnt_rcv>>

\* Mutant: memory is compared with the frame alone.
FilledTight(b, f) ==
    [frame |-> f,
     max_len |-> IF b.max_len < f.len THEN MallocLen(f) ELSE b.max_len]

\* The node's memory is replaced only when it is too small for the frame.
Filled(b, f) ==
    [frame |-> f,
     max_len |-> IF b.max_len < MallocLen(f) THEN MallocLen(f) ELSE b.max_len]

\* media_type, len, data and the memcpy become visible in the node.  When the
\* stores are seen out of order, need_read is already set and node_write moved.
Fill ==
    /\ opc \in {"fill", "late"}
    /\ buffer' = [buffer EXCEPT ![wbuf] = Filled(@, arg)]
    /\ opc' = IF opc = "fill" THEN "publish" ELSE "idle"
    /\ UNCHANGED <<object, count, arg, wbuf, calls, threadv, need_read, node_write, cnt_rcv>>

\* need_read = 1, node_write = next, cnt_rcv++
Publish ==
    /\ opc \in {"publish", "early"}
    /\ need_read' = [need_read EXCEPT ![wbuf] = TRUE]
    /\ node_write' = NextNode(node_write)
    /\ cnt_rcv' = cnt_rcv + 1
    /\ opc' = IF opc = "publish" THEN "idle" ELSE "late"
    /\ UNCHANGED <<object, count, arg, wbuf, calls, threadv, buffer>>

\* Mutant: the thread is joined without being told to quit.
DestroyWithoutQuit ==
    /\ opc = "idle" /\ ad = "live" /\ ~quit
    /\ opc' = "join"
    /\ UNCHANGED <<object, count, arg, wbuf, calls, threadv, ring, node_write, cnt_rcv>>

\* AnsyncDecoder_Destroy: quit, then Thread_Join; Destroy(NULL) does nothing.
Destroy ==
    /\ opc = "idle" /\ ad = "live" /\ ~quit
    /\ quit' = TRUE /\ opc' = "join"
    /\ UNCHANGED <<ad, running, count, arg, wbuf, calls, threadv, ring, node_write, cnt_rcv>>

\* Mutant: the object is freed without the join.
FreeWithoutJoin ==
    /\ opc = "join"
    /\ ad' = "freed" /\ opc' = "done"
    /\ UNCHANGED <<quit, running, count, arg, wbuf, calls, threadv, ring, node_write, cnt_rcv>>

\* Thread_Join has returned: the codec contexts, nodes and object are freed.
Free ==
    /\ opc = "join" /\ dpc = "end"
    /\ ad' = "freed" /\ opc' = "done"
    /\ UNCHANGED <<quit, running, count, arg, wbuf, calls, threadv, ring, node_write, cnt_rcv>>

-----------------------------------------------------------------------------
(* decode_thread_func.                                                     *)

\* The frame a node was filled for: its contents, or, while need_read has
\* been seen before them, the frame still being stored.
Accepted(i) == IF opc = "late" /\ i = wbuf THEN arg ELSE buffer[i].frame

ThreadStart ==
    /\ dpc = "begin"
    /\ running' = TRUE /\ dpc' = "loop"
    /\ UNCHANGED <<ad, quit, ownerv, node, cnt_dec, decoded, handed, ring, node_write, cnt_rcv>>

\* Mutant: the node is released before it is decoded.
DecodeNodeReleased ==
    /\ dpc = "loop" /\ ~quit /\ need_read[node]
    /\ decoded' = Append(decoded, buffer[node].frame)
    /\ handed' = Append(handed, Accepted(node))
    /\ need_read' = [need_read EXCEPT ![node] = FALSE]
    /\ dpc' = "decode"
    /\ UNCHANGED <<object, ownerv, node, cnt_dec, buffer, node_write, cnt_rcv>>

\* while (!quit) if (need_read) decode_*_node(ad, buffer)
DecodeNode ==
    /\ dpc = "loop" /\ ~quit /\ need_read[node]
    /\ decoded' = Append(decoded, buffer[node].frame)
    /\ handed' = Append(handed, Accepted(node))
    /\ dpc' = "decode"
    /\ UNCHANGED <<object, ownerv, node, cnt_dec, ring, node_write, cnt_rcv>>

\* Mutant: node is not advanced.
ReleaseNodeStays ==
    /\ dpc = "decode"
    /\ cnt_dec' = cnt_dec + 1
    /\ need_read' = [need_read EXCEPT ![node] = FALSE]
    /\ dpc' = "loop"
    /\ UNCHANGED <<object, ownerv, node, decoded, handed, buffer, node_write, cnt_rcv>>

\* Mutant: need_read is not cleared.
ReleaseNodeUnread ==
    /\ dpc = "decode"
    /\ cnt_dec' = cnt_dec + 1
    /\ node' = NextNode(node)
    /\ dpc' = "loop"
    /\ UNCHANGED <<object, ownerv, decoded, handed, ring, node_write, cnt_rcv>>

\* The decode and its callback have returned.
ReleaseNode ==
    /\ dpc = "decode"
    /\ cnt_dec' = cnt_dec + 1
    /\ need_read' = [need_read EXCEPT ![node] = FALSE]
    /\ node' = NextNode(node)
    /\ dpc' = "loop"
    /\ UNCHANGED <<object, ownerv, decoded, handed, buffer, node_write, cnt_rcv>>

ThreadExit ==
    /\ dpc = "loop" /\ quit
    /\ running' = FALSE /\ dpc' = "end"
    /\ UNCHANGED <<ad, quit, ownerv, node, cnt_dec, decoded, handed, ring, node_write, cnt_rcv>>

-----------------------------------------------------------------------------
Receive == \E m \in Media, l \in Sizes : ReceiveData(m, l)

Owner   == \/ Create \/ CreateFails \/ Receive \/ WaitNode \/ GiveUp
           \/ NodeFree \/ Fill \/ Publish \/ Destroy \/ Free
Decoder == ThreadStart \/ DecodeNode \/ ReleaseNode \/ ThreadExit
Next    == Owner \/ Decoder

\* Both threads keep running; when to call ReceiveData or Destroy is the
\* owner's choice, everything inside a call is not.
Fairness == /\ WF_vars(Decoder)
            /\ WF_vars(WaitNode \/ GiveUp \/ NodeFree \/ Fill \/ Publish \/ Free)

Spec     == Init /\ [][Next]_vars
FairSpec == Spec /\ Fairness
-----------------------------------------------------------------------------
(* Properties.                                                             *)

\* Every variable has its type; the counters are those of the calls.
TypeOK ==
    /\ ad \in {"null", "live", "freed"}
    /\ quit \in BOOLEAN /\ running \in BOOLEAN
    /\ need_read \in [Slots -> BOOLEAN]
    /\ buffer \in [Slots -> [frame : Frames \cup {NoFrame}, max_len : Nat]]
    /\ node_write \in Slots /\ node \in Slots /\ wbuf \in Slots
    /\ cnt_rcv \in Nat /\ cnt_dec \in Nat /\ count \in 0 .. WaitTries
    /\ opc \in {"start", "idle", "wait", "fill", "publish", "early", "late",
               "join", "done"}
    /\ arg \in Frames \cup {NoFrame}
    /\ dpc \in {"none", "begin", "loop", "decode", "end"}
    /\ calls \in 0 .. MaxCalls
    /\ decoded \in Seq(Frames \cup {NoFrame})
    /\ handed \in Seq(Frames \cup {NoFrame})

\* The ring positions from i up to, not including, j, going round.
Between(i, j) == IF i < j THEN i .. j - 1
                 ELSE (i .. Count - 1) \cup (0 .. j - 1)

\* The unread nodes are always exactly those the reader will meet before it
\* reaches the writer: no published frame is ever overtaken or skipped, and
\* when the two positions meet the ring is entirely full or entirely empty.
\* need_read is the only thing the two threads share (lines 228-235, 418-468).
RingOccupancy ==
    IF node = node_write
    THEN \A i, j \in Slots : need_read[i] = need_read[j]
    ELSE \A i \in Slots : need_read[i] <=> i \in Between(node, node_write)

\* cnt_rcv - cnt_dec is the number of unread nodes: no node is released twice
\* or published over an unread one (lines 233-234, 468-470).
UnreadCount == cnt_rcv = cnt_dec + Cardinality({i \in Slots : need_read[i]})

\* While the decoder reads a node the owner neither frees, reallocates nor
\* writes its memory (lines 229-234 against 430-465), in whichever order its
\* stores are seen, but for one case: the stores that line 468 was seen before.
\* With the stores seen in order that case does not arise either.
SlotExclusive ==
    dpc = "decode" /\ node = wbuf =>
        /\ opc \notin {"fill", "publish"}
        /\ StoresInOrder => opc # "late"

\* "alloc 256 bytes more to prevent avcodec_send_packet crash" (line 427): a
\* video frame has the extra room even when its node's memory was allocated
\* for an audio frame or for an earlier, shorter video frame.
VideoSlack ==
    \A i \in Slots :
        need_read[i] /\ buffer[i].frame.media_type = Video
            => buffer[i].max_len >= buffer[i].frame.len + Slack

\* AnsyncDecoder_Destroy frees the nodes and the codecs only when
\* decode_thread_func touches them no more (lines 372-376).
NoUseAfterFree == ad = "freed" => dpc = "end"

\* A frame in the ring is decoded unless the decoder is destroyed.
FrameDecoded == \A i \in Slots : need_read[i] ~> (~need_read[i] \/ quit)

\* AnsyncDecoder_Destroy returns: the join of the decode thread is answered.
DestroyReturns == (opc = "join") ~> (ad = "freed")

\* The node k places after i, going round.
Ahead(i, k) == IF i + k < Count THEN i + k ELSE i + k - Count

(* The frames accepted and not yet decoded, oldest first, as the unread    *)
(* nodes tell it; the one being decoded has already been handed over.      *)
Unread ==
    LET n    == Cardinality({i \in Slots : need_read[i]})
        skip == IF dpc = "decode" THEN 1 ELSE 0
    IN  [k \in 1 .. n - skip |-> Accepted(Ahead(node, skip + k - 1))]

FQ == INSTANCE FrameQueue WITH
          Frames   <- Frames,
          Capacity <- Count,
          queue    <- IF ad = "freed" THEN <<>> ELSE Unread,
          decoded  <- handed

\* The ring is a bounded first-in first-out queue in whichever order the
\* stores are seen: every accepted frame has its node decoded once, in the
\* order of acceptance, and no other node is decoded.  With the stores seen in
\* order the codec gets each of these frames whole.
ImplementsFrameQueue == FQ!Spec /\ [](StoresInOrder => decoded = handed)
=============================================================================
