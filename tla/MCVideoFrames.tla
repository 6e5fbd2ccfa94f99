---------------------------- MODULE MCVideoFrames ----------------------------
(* VideoFrames with pictures of two chunks and one of a single chunk, so    *)
(* that ids collide with and without a change of length.                    *)
EXTENDS VideoFrames

CONSTANT small   \* the picture of one chunk

Lengths == [p \in Picture |-> IF p = small THEN 1 ELSE 2]
=============================================================================
