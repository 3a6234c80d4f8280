----------------------------- MODULE MCStreamer -----------------------------
(***************************************************************************)
(* One sender, from camera to screen.  The moduli are those of             *)
(* MCVideoStream; the camera takes more pictures than there are buffers,   *)
(* so that buffers are used again and pictures are dropped.                *)
(***************************************************************************)
EXTENDS Streamer

MCSeqMod   == 4      \* 65536
MCReorder  == 1      \* 3000, below half of SeqMod
MCFrameMod == 2      \* 65536
MCTsStep   == 2      \* 6000 at 15 frames per second
MCTsMod    == 32     \* 2^32
=============================================================================
