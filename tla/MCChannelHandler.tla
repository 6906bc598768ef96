--------------------------- MODULE MCChannelHandler ---------------------------
(* A small instance of ChannelHandler for TLC: one channel of each kind. *)
EXTENDS ChannelHandler

CONSTANTS in, out, req, blk

MCInputs == {in}
MCOutputs == {out}
MCRequests == {req}
MCBulks == {blk}
\* Less than a chunk, between one chunk and two, and exactly two chunks.
MCSizes == {1, 3, 4}
=============================================================================
