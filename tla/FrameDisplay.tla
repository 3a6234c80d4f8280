---------------------------- MODULE FrameDisplay ----------------------------
(***************************************************************************)
(* What the streamer promises its viewer, without saying how: the camera   *)
(* numbers the frames it captures, and the receiver puts some of them on   *)
(* the screen.  A frame may be missed, because the transport is lossy, but *)
(* a frame is shown only after it was captured, never twice, and never     *)
(* after a younger one.                                                    *)
(***************************************************************************)
EXTENDS Naturals

VARIABLES captured,   \* number of frames captured so far
          displayed,  \* the frames put on the screen so far
          shows       \* how often the screen was updated

dvars == <<captured, displayed, shows>>

DInit == captured = 0 /\ displayed = {} /\ shows = 0

\* The camera delivers the next frame.
Capture == /\ captured' = captured + 1
           /\ UNCHANGED <<displayed, shows>>

\* The receiver shows a frame younger than all it has shown before.
Display == \E f \in 0 .. captured - 1 :
             /\ \A g \in displayed : g < f
             /\ displayed' = displayed \cup {f}
             /\ shows' = shows + 1
             /\ UNCHANGED captured

DNext == Capture \/ Display

DSpec == DInit /\ [][DNext]_dvars
=============================================================================
