---------------------------- MODULE MCStatistics ----------------------------
(***************************************************************************)
(* A second is two ticks, frames are one tick apart, or three when the     *)
(* camera pauses or the encoder is slow.  The clock wraps every 16 ticks   *)
(* and an int holds -32 .. 31: both wrap in a few frames, while the bytes  *)
(* of one window still fit.                                                *)
(***************************************************************************)
EXTENDS Statistics

MCPcks == {[bytes |-> 2, valid |-> TRUE], [bytes |-> 5, valid |-> TRUE],
           [bytes |-> 5, valid |-> FALSE]}
MCGaps == {1, 3}
MCEncodings == {1, 3}
MCStarts == {1, 13}                   \* 13: just before the clock's wrap
=============================================================================
