-------------------------- MODULE MCDisplayWindow ---------------------------
(***************************************************************************)
(* Three pictures of three rows: the server may be at any row of one while *)
(* the receiver writes any row of the next, and two events may be read at  *)
(* once, so that one is left for the call after.                           *)
(***************************************************************************)
EXTENDS DisplayWindow
=============================================================================
