------------------------------ MODULE Capture -------------------------------
(***************************************************************************)
(* The capture thread of the sender and the camera's driver                *)
(* (faros_polito_IMG_input_v4l.c): buffers mapped into the program, the    *)
(* loop that takes a filled buffer, calls the frame callback on it and     *)
(* gives it back.  Driver and camera are external; they are modelled from  *)
(* what the ioctl calls of the loop rely on.  A picture is its number.     *)
(***************************************************************************)
EXTENDS Integers, Sequences, Functions

CONSTANTS
  Requested,  \* 4: req.count, the buffers that the program asks for
  MaxPictures   \* bound: pictures that the camera takes

ASSUME CaptureAssumption ==
  Requested \in Nat \ {0} /\ MaxPictures \in Nat

None == -1
Indices == 0 .. Requested - 1

VARIABLES
  pc,        \* "setup", "queue", "streamon", "select", "dqbuf", "callback",
             \* "qbuf" of the program, or "exited"
  n_buffers, \* buffers that init_mmap has mapped
  buf,       \* buf.index of the loop, i of start_capturing
  seen,      \* pictures of which the callback has read its first half
  delivered, \* pictures that the callback has read to the end
  \* the driver
  streaming, \* is the stream on
  incoming,  \* queued buffers: the driver may write them
  outgoing,  \* filled buffers, in the order they were filled
  content,   \* the picture that a buffer holds
  taken,     \* pictures that the camera has taken
  filled     \* history: the pictures that found a buffer

c_vars == <<pc, n_buffers, buf, seen, delivered, streaming, incoming, outgoing,
            content, taken, filled>>
driver == <<streaming, incoming, outgoing, content, taken, filled>>

CInit ==
  /\ pc = "setup" /\ n_buffers = 0 /\ buf = None
  /\ seen = <<>> /\ delivered = <<>>
  /\ streaming = FALSE /\ incoming = <<>> /\ outgoing = <<>>
  /\ content = [i \in Indices |-> None] /\ taken = 0 /\ filled = <<>>

\* errno_exit, or exit after a message.
Exit == pc' = "exited"

\* EINTR or EAGAIN: around the loop again.
Retry == pc' = "select"

-----------------------------------------------------------------------------
(* The driver and the camera.                                              *)

\* A picture goes to the buffer queued first, or nowhere.
CameraFrame ==
  /\ streaming /\ pc # "exited" /\ taken < MaxPictures
  /\ taken' = taken + 1
  /\ IF incoming = <<>> THEN UNCHANGED <<incoming, outgoing, content, filled>>
     ELSE /\ content' = [content EXCEPT ![Head(incoming)] = taken]
          /\ outgoing' = Append(outgoing, Head(incoming))
          /\ incoming' = Tail(incoming)
          /\ filled' = Append(filled, taken)
  /\ UNCHANGED <<pc, n_buffers, buf, seen, delivered, streaming>>

\* VIDIOC_QBUF of a buffer that the driver does not hold.
Queue(i) == /\ i \notin Range(incoming \o outgoing)
            /\ incoming' = Append(incoming, i)
            /\ UNCHANGED <<streaming, outgoing, content, taken, filled>>

-----------------------------------------------------------------------------
(* init_device with init_mmap, and start_capturing.                        *)

\* Any call may fail, the driver may grant another number of buffers.
InitDevice ==
  /\ pc = "setup"
  /\ \/ \E count \in 1 .. Requested :
          IF count < 2
          THEN Exit /\ UNCHANGED <<n_buffers, buf>>
          ELSE pc' = "queue" /\ n_buffers' = count /\ buf' = 0
     \/ Exit /\ UNCHANGED <<n_buffers, buf>>
  /\ UNCHANGED <<seen, delivered, driver>>

\* mutants: the loop of start_capturing ends one buffer early, or late
AllButLastQueued(i) == i + 1 >= n_buffers - 1
OneMoreQueued(i) == i >= n_buffers

AllQueued(i) == i + 1 >= n_buffers

QueueAll ==
  /\ pc = "queue"
  /\ \/ /\ Queue(buf)
        /\ IF AllQueued(buf) THEN pc' = "streamon" /\ UNCHANGED buf
           ELSE buf' = buf + 1 /\ UNCHANGED pc
     \/ Exit /\ UNCHANGED <<buf, driver>>
  /\ UNCHANGED <<n_buffers, seen, delivered>>

StreamOn ==
  /\ pc = "streamon"
  /\ \/ pc' = "select" /\ streaming' = TRUE
     \/ Exit /\ UNCHANGED streaming
  /\ UNCHANGED <<n_buffers, buf, seen, delivered, incoming, outgoing, content,
                 taken, filled>>

-----------------------------------------------------------------------------
(* mainloop_capturing.                                                     *)

\* select: a filled buffer, or EINTR, or another error, or two seconds without
\* a picture; the last two end the program.
Select ==
  /\ pc = "select"
  /\ \/ outgoing # <<>> /\ pc' = "dqbuf"
     \/ Exit
     \/ Retry
  /\ UNCHANGED <<n_buffers, buf, seen, delivered, driver>>

\* VIDIOC_DQBUF: the buffer filled first.  EAGAIN repeats the loop, any other
\* error ends the program, EIO too: its case falls through.
Dequeue ==
  /\ pc = "dqbuf"
  /\ \/ /\ buf' = Head(outgoing) /\ outgoing' = Tail(outgoing)
        /\ pc' = "callback"
     \/ /\ UNCHANGED <<buf, outgoing>>
        /\ Retry \/ Exit
  /\ UNCHANGED <<n_buffers, seen, delivered, streaming, incoming, content,
                 taken, filled>>

\* mutant: the buffer goes back to the driver before the callback reads it
QueuedBack(i) == Queue(i)

\* What becomes of the dequeued buffer while the callback runs.
WhileReading(i) == UNCHANGED driver

\* mutant: the callback always gets the first buffer
FirstPicture(i) == content[0]

Picture(i) == content[i]               \* in buffers[i].start

\* fc: the callback reads the buffer for the time it takes to encode and send
\* a frame, modelled as two steps that read it.
ReadFirst ==
  /\ pc = "callback" /\ Len(seen) = Len(delivered)
  /\ seen' = Append(seen, Picture(buf))
  /\ WhileReading(buf)
  /\ UNCHANGED <<pc, n_buffers, buf, delivered>>

ReadLast ==
  /\ pc = "callback" /\ Len(seen) > Len(delivered)
  /\ delivered' = Append(delivered, Picture(buf))
  /\ pc' = "qbuf"
  /\ UNCHANGED <<n_buffers, buf, seen, driver>>

\* A failing call below fc ends the whole program, in the middle of a frame.
CallbackExits ==
  /\ pc = "callback" /\ Len(seen) > Len(delivered)
  /\ Exit
  /\ UNCHANGED <<n_buffers, buf, seen, delivered, driver>>

GiveBack(i) == Queue(i)

Requeue ==
  /\ pc = "qbuf"
  /\ \/ GiveBack(buf) /\ pc' = "select"
     \/ Exit /\ UNCHANGED driver
  /\ UNCHANGED <<n_buffers, buf, seen, delivered>>

-----------------------------------------------------------------------------
Program == \/ InitDevice \/ QueueAll \/ StreamOn \/ Select \/ Dequeue
           \/ ReadFirst \/ ReadLast \/ CallbackExits \/ Requeue

CNext == Program \/ CameraFrame \/ (pc = "exited" /\ UNCHANGED c_vars)

CSpec == CInit /\ [][CNext]_c_vars

-----------------------------------------------------------------------------
(* Properties.                                                             *)

CTypeOK ==
  /\ pc \in {"setup", "queue", "streamon", "select", "dqbuf", "callback",
             "qbuf", "exited"}
  /\ n_buffers \in 0 .. Requested /\ buf \in Indices \cup {None}
  /\ seen \in Seq(0 .. MaxPictures - 1) /\ delivered \in Seq(0 .. MaxPictures - 1)
  /\ streaming \in BOOLEAN
  /\ incoming \in Seq(Indices) /\ outgoing \in Seq(Indices)
  /\ content \in [Indices -> -1 .. MaxPictures - 1]
  /\ taken \in 0 .. MaxPictures /\ filled \in Seq(0 .. MaxPictures - 1)

\* The driver never writes the buffer that the callback reads: the picture is
\* the same at the end of the callback as at its beginning.
FrameStable ==
  /\ Len(delivered) <= Len(seen)
  /\ \A i \in 1 .. Len(delivered) : delivered[i] = seen[i]

\* No buffer is lost and none is twice in the queues: a buffer that the loop
\* does not work on is with the driver.  DQBUF's index is in buffers[], which
\* the loop asserts.
BuffersConserved ==
  pc \in {"select", "dqbuf", "callback", "qbuf"} =>
    LET held   == incoming \o outgoing
                    \o IF pc \in {"callback", "qbuf"} THEN <<buf>> ELSE <<>>
    IN Len(held) = n_buffers /\ Range(held) = 0 .. n_buffers - 1

\* The callback gets every picture that found a buffer, first filled first:
\* those it has begun, the one dequeued, and those waiting are all of them.
NoPictureForgotten ==
  LET dequeued == IF pc = "callback" /\ Len(seen) = Len(delivered)
                  THEN <<content[buf]>> ELSE <<>>
      waiting  == [i \in 1 .. Len(outgoing) |-> content[outgoing[i]]]
  IN filled = seen \o dequeued \o waiting
=============================================================================
