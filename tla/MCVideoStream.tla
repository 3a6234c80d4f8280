--------------------------- MODULE MCVideoStream ----------------------------
(***************************************************************************)
(* The bounds shared by the runs of VideoStream.  The moduli are small so  *)
(* that the sequence number and the frame number wrap several times within *)
(* MaxFrames frames; the timestamp, as at the real frame rate, does not    *)
(* wrap during a run.                                                      *)
(***************************************************************************)
EXTENDS VideoStream

MCSeqMod   == 4      \* 65536
MCReorder  == 1      \* 3000, below half of SeqMod
MCFrameMod == 2      \* 65536
MCTsStep   == 2      \* 6000 at 15 frames per second
MCTsMod    == 32     \* 2^32
MCMaxTick  == 2      \* two frames 1 or 2 ticks apart
=============================================================================
