------------------------------ MODULE Streamer ------------------------------
(***************************************************************************)
(* The whole video path: the camera's driver fills buffers, the sender's   *)
(* one thread takes them, encodes and sends each in its callback before it *)
(* gives the buffer back, and the receiver shows what arrives.  Composes   *)
(* Capture and VideoStream, whose frame number f is the camera's picture   *)
(* seen[f + 1].                                                            *)
(***************************************************************************)
EXTENDS VideoStream, Capture

\* Loss and restarts are the subject of VideoStream's own runs.
ASSUME Undisturbed == JpgFlag /\ Ordered /\ ~Lossy /\ MaxRestarts = 0

\* Every call of the callback has a frame number.
ASSUME FramePerPicture == MaxPictures <= MaxFrames

all_vars == <<vars, c_vars>>

SInit == Init /\ CInit

-----------------------------------------------------------------------------
(* The sender: device set-up and capture loop around the callback.         *)

Device == /\ InitDevice \/ QueueAll \/ StreamOn \/ Select \/ Dequeue \/ Requeue
          /\ UNCHANGED vars

\* read_frame is called with the buffer, and sends its picture or skips it.
CallbackBegins == ReadFirst /\ (EncodeFrame \/ SkipFrame)

\* It works inside a packing loop.
CallbackSends == SendSlice /\ UNCHANGED c_vars

\* Sendto exits on any error: the frame ends where it is, and so does the
\* capture, since one thread does both.
SendtoFails == /\ s_pc = "sending" /\ k < NPck
               /\ CallbackExits
               /\ UNCHANGED vars

\* It returns to the capture loop, which gives the buffer back next.
CallbackReturns ==
  /\ ReadLast
  /\ FinishFrame \/ (s_pc = "idle" /\ UNCHANGED vars)

Streaming == \/ Device \/ CallbackBegins \/ CallbackSends \/ SendtoFails
             \/ CallbackReturns

\* The receiver and the camera go on by themselves.
Viewing == Receiver /\ UNCHANGED c_vars
Filming == CameraFrame /\ UNCHANGED vars

SNext == \/ Streaming \/ Viewing \/ Filming
         \/ pc = "exited" /\ UNCHANGED all_vars

SSpec == SInit /\ [][SNext]_all_vars

\* The operating system runs both programs.  A call may fail but need not: an
\* exit is never due.  EINTR and EAGAIN may come back any number of times, but
\* not for ever while a filled buffer waits, which is the driver's promise.
SFairSpec ==
  /\ SSpec
  /\ WF_all_vars(Viewing)
  /\ WF_all_vars(Streaming /\ pc' # "exited")
  /\ SF_all_vars(Device /\ pc = "dqbuf" /\ pc' = "callback")

-----------------------------------------------------------------------------
(* Properties.                                                             *)

\* What the viewer sees are the camera's pictures, each at most once and in
\* the order they were taken, whichever found no buffer, were skipped by -S or
\* got lost: the promise of FrameDisplay from lens to screen.
Camera == INSTANCE FrameDisplay WITH
            captured <- taken,
            displayed <- {seen[f + 1] : f \in displayed},
            shows <- stat.frames
ShowsTheCamera == Camera!DSpec

\* A picture is skipped by -S if the callback's count says so.
Skipped(f) == f % (NumFrameSkip + 1) # 0

\* A picture that found a buffer is shown, unless -S skips it, or a failing
\* call ends the sender before its callback returns: no buffer, frame or packet
\* waits for ever, and what was sent before an exit is shown after it.
EveryPictureShown ==
  \A p \in 0 .. MaxPictures - 1 :
    p \in Range(filled) ~>
      \/ pc = "exited" /\ p \notin Range(delivered)
      \/ \E f \in 0 .. Len(seen) - 1 :
           seen[f + 1] = p /\ (f \in displayed \/ Skipped(f))
=============================================================================
