-------------------------- MODULE MCVideoTransport --------------------------
(***************************************************************************)
(* Frames at the edges of the slicing, for slices of two bytes.            *)
(***************************************************************************)
EXTENDS VideoTransport

\* Exactly two slices, one byte over a slice, exactly one slice.
EdgeLengths == <<4, 3, 2>>

\* Three slices as well, so that there is a middle one, and a short frame.
LongerLengths == <<5, 1, 4, 3, 2>>
=============================================================================
