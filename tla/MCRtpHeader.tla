---------------------------- MODULE MCRtpHeader -----------------------------
(***************************************************************************)
(* Values at the boundaries of the bytes and of the fields' widths; the    *)
(* frame number of the sender is an int, and leaves 16 bits after 72       *)
(* minutes at 15 frames per second.                                        *)
(***************************************************************************)
EXTENDS RtpHeader

MCSeqs      == {255, 256, 65535}
MCStamps    == {<<0, 6000>>, <<255, 65535>>, <<65535, 0>>}
MCTypes     == {124, 127}
MCSources   == {<<43981, 291>>}            \* 0xABCD0123
MCFramenums == {256, 65535, 65537}
MCSlicenums == {1, 255, 1451}
=============================================================================
