---------------------------- MODULE MCRawPicture ----------------------------
(***************************************************************************)
(* Small raw pictures.  4*2 in fragments of 4 bytes: three whole fragments *)
(* sent, four expected, none marked.  4*2 in fragments of 5 bytes: two     *)
(* whole ones and a marked residue.                                        *)
(***************************************************************************)
EXTENDS RawPicture

MCSeqMod   == 4      \* 65536
MCReorder  == 1      \* 3000, below half of SeqMod
MCFrameMod == 2      \* 65536
MCTsStep   == 2      \* 6000 at 15 frames per second
MCTsMod    == 32     \* 2^32
=============================================================================
