---------------------------- MODULE MCJpgSlices -----------------------------
(***************************************************************************)
(* Small pictures of one slice, of four slices that are not square, and    *)
(* two that do not divide, like 320*240 with -J 15 of command.sh; zoomed   *)
(* or not.  An encoding has one byte, just what fits, or one byte more.    *)
(***************************************************************************)
EXTENDS JpgSlices

MCGeometries == {<<2, 3, 1, 1>>, <<2, 2, 1, 3>>, <<6, 4, 4, 2>>,
                 <<5, 4, 4, 1>>, <<4, 2, 3, 1>>}
MCFills      == {1, 6, 7, 20}        \* MAX_PAYLOAD - HeaderLen is 6
MCColour     == {<<6, 4, 4, 1>>}
=============================================================================
