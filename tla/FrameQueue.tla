----------------------------- MODULE FrameQueue -----------------------------
(***************************************************************************)
(* What AnsyncDecoder (src/VirtualCamera/AnsyncDecoder) promises its two   *)
(* users, the RTP receive thread and the codec: a bounded first-in         *)
(* first-out queue of encoded frames.  A frame that was accepted reaches   *)
(* the codec exactly once and in the order of acceptance, unless the       *)
(* decoder is destroyed first, in which case what is still queued is lost. *)
(***************************************************************************)
EXTENDS Naturals, Sequences

CONSTANTS Frames,    \* the frames a producer may offer
          Capacity   \* number of frames the queue can hold

VARIABLES queue,     \* accepted, not yet given to the codec
          decoded    \* given to the codec, oldest first

vars == <<queue, decoded>>

Init == /\ queue = <<>>
        /\ decoded = <<>>

Put(f) == /\ Len(queue) < Capacity
          /\ queue' = Append(queue, f)
          /\ UNCHANGED decoded

Take == /\ queue # <<>>
        /\ decoded' = Append(decoded, Head(queue))
        /\ queue' = Tail(queue)

Discard == /\ queue # <<>>
           /\ queue' = <<>>
           /\ UNCHANGED decoded

Next == (\E f \in Frames : Put(f)) \/ Take \/ Discard

Spec == Init /\ [][Next]_vars
=============================================================================
