--------------------------- MODULE DisplayWindow ----------------------------
(***************************************************************************)
(* The way of a picture from the receiver to its window                    *)
(* (faros_polito_IMG_show_X.c and the end of process_image_yuyv): the      *)
(* receiver writes the rows of one XImage, asks the X server to put it on  *)
(* the screen, and goes on with the next picture.  With shared memory the  *)
(* server reads the rows when it comes to the request; without, Xlib       *)
(* copies them into it.  Xlib and the server are external.                 *)
(*                                                                         *)
(* A row, of the image or the screen, is the number of the picture it is   *)
(* of; 0 is black.                                                         *)
(***************************************************************************)
EXTENDS Integers, Sequences

CONSTANTS
  Rows,       \* height * zoom
  MaxFrames,  \* bound: pictures
  MaxEvents   \* bound: events that the server sends, MappingNotify for one

ASSUME WindowParams ==
  Rows \in Nat \ {0} /\ MaxFrames \in Nat /\ MaxEvents \in Nat

Lines == 0 .. Rows - 1
Pictures == 0 .. MaxFrames
ByReference == <<>>      \* a request of XShmPutImage holds no rows

VARIABLES
  \* the receiver, with Xlib
  pc,        \* "setup", "receive", "draw", "put", "pending", "event",
             \* "exited"
  isShared,  \* of the image_context
  drawable,  \* is the depth of the window 16 or 24
  attached,  \* is xImage->data memory of this process
  image,     \* rows of xImage->data
  row,       \* next row to be written
  frame,     \* number of the picture in work
  outbuf,    \* requests that Xlib has not sent yet
  events,    \* events that Xlib has read
  kept,      \* did the last XPending return without sending the requests
  \* the X server
  requests,  \* [frame, rows] in the order of sending
  srow,      \* rows of the first request already on the screen
  screen,    \* rows of the window
  arriving,  \* events sent to the receiver
  sentEvents, \* history: events so far
  done       \* history: the picture whose request was completed last

client == <<pc, isShared, drawable, attached, image, row, frame, outbuf, events, kept>>
server == <<requests, srow, screen, arriving, sentEvents, done>>
vars == <<client, server>>

Init ==
  /\ pc = "setup" /\ isShared = FALSE /\ drawable = FALSE /\ attached = FALSE
  /\ image = [l \in Lines |-> 0] /\ row = 0 /\ frame = 0
  /\ outbuf = <<>> /\ events = 0 /\ kept = FALSE
  /\ requests = <<>> /\ srow = 0 /\ screen = [l \in Lines |-> 0]
  /\ arriving = 0 /\ sentEvents = 0 /\ done = 0

-----------------------------------------------------------------------------
(* The receiver.                                                           *)

\* image_init_window with image_create.  Any call may fail and end the
\* program; only a failure of shmat goes unnoticed, because the address it
\* returns then, -1, is not less than 0.  The depth is the one of the display;
\* nobody looks at it here.
Setup ==
  /\ pc = "setup" /\ drawable' \in BOOLEAN
  /\ \/ pc' = "receive" /\ isShared' \in BOOLEAN /\ attached' = TRUE
     \/ pc' = "receive" /\ isShared' = TRUE /\ attached' = FALSE
     \/ pc' = "exited" /\ UNCHANGED <<isShared, attached>>
  /\ UNCHANGED <<image, row, frame, outbuf, events, kept, server>>

\* mutant: the image is cleared before the next picture is written
Cleared == [l \in Lines |-> 0]

\* The image as it is when the next picture is begun.
Kept == image

\* process_image_yuyv leaves its loop on packets with another picture.
NextPicture ==
  /\ pc = "receive" /\ frame < MaxFrames
  /\ frame' = frame + 1 /\ image' = Kept /\ row' = 0 /\ pc' = "draw"
  /\ UNCHANGED <<isShared, drawable, attached, outbuf, events, kept, server>>

\* mutant: the last row is forgotten
AllButLastDrawn == row + 1 >= Rows - 1

AllDrawn == row + 1 >= Rows

\* The pixels are converted and copied to imageLine1, row by row.  A depth that
\* the conversion does not know ends the program, and so does memory that is not
\* there.
DrawRow ==
  /\ pc = "draw"
  /\ IF drawable /\ attached
     THEN /\ image' = [image EXCEPT ![row] = frame]
          /\ row' = row + 1
          /\ pc' = IF AllDrawn THEN "put" ELSE pc
     ELSE pc' = "exited" /\ UNCHANGED <<image, row>>
  /\ UNCHANGED <<isShared, drawable, attached, frame, outbuf, events, kept, server>>

\* mutant: both requests refer to the image
RowsOfReference == ByReference

RowsOfRequest == IF isShared THEN ByReference ELSE image

\* image_put.  The request waits in Xlib's buffer; if that is full, Xlib sends
\* what it holds before or after it has taken the request.
ImagePut ==
  /\ pc = "put" /\ pc' = "pending"
  /\ LET request == [frame |-> frame, rows |-> RowsOfRequest]
     IN \/ outbuf' = Append(outbuf, request) /\ UNCHANGED requests
        \/ outbuf' = <<request>> /\ requests' = requests \o outbuf
        \/ outbuf' = <<>> /\ requests' = requests \o Append(outbuf, request)
  /\ UNCHANGED <<isShared, drawable, attached, image, row, frame, events, kept,
                 srow, screen, arriving, sentEvents, done>>

\* mutant: XPending in a mode that does not send
SentBefore == /\ kept' = FALSE /\ events' = arriving /\ arriving' = 0
              /\ UNCHANGED <<outbuf, requests>>

\* XPending finds no event read earlier: it sends the requests, and reads.
SendAndRead == /\ kept' = FALSE /\ events' = arriving /\ arriving' = 0
               /\ requests' = requests \o outbuf /\ outbuf' = <<>>

\* mutant: the number of events is tested too weakly
AtLeastNone(n) == n >= 0

Any(n) == n > 0

\* Events read earlier are XPending's answer, and then nothing is sent.
XPending ==
  /\ pc = "pending"
  /\ IF events > 0
     THEN kept' = TRUE /\ UNCHANGED <<events, arriving, outbuf, requests>>
     ELSE SendAndRead
  /\ pc' = IF Any(events') THEN "event" ELSE "receive"
  /\ UNCHANGED <<isShared, drawable, attached, image, row, frame, srow, screen,
                 sentEvents, done>>

\* XNextEvent writes through image_ctx.event, which no line sets: the program
\* survives that, or it does not.
XNextEvent ==
  /\ pc = "event" /\ pc' \in {"receive", "exited"}
  /\ events' = events - 1
  /\ UNCHANGED <<isShared, drawable, attached, image, row, frame, outbuf, kept, server>>

-----------------------------------------------------------------------------
(* The X server.                                                           *)

\* It works on the first request, row by row; those it has go on being worked
\* on after the program that sent them has ended, since the server holds on to
\* the shared memory.
PutRow ==
  /\ requests # <<>>
  /\ LET r == Head(requests)
     IN /\ screen' = [screen EXCEPT ![srow] =
                        IF r.rows = ByReference THEN image[srow] ELSE r.rows[srow]]
        /\ IF srow + 1 = Rows
           THEN srow' = 0 /\ requests' = Tail(requests) /\ done' = r.frame
           ELSE srow' = srow + 1 /\ UNCHANGED <<requests, done>>
  /\ UNCHANGED <<client, arriving, sentEvents>>

\* An event that every client gets, whatever it has selected.
Notify ==
  /\ pc \notin {"setup", "exited"} /\ sentEvents < MaxEvents
  /\ sentEvents' = sentEvents + 1 /\ arriving' = arriving + 1
  /\ UNCHANGED <<client, requests, srow, screen, done>>

-----------------------------------------------------------------------------
Client == \/ Setup \/ NextPicture \/ DrawRow \/ ImagePut \/ XPending
          \/ XNextEvent

\* No picture comes any more, or the program has ended.
Quiet == /\ pc = "exited" \/ (pc = "receive" /\ frame = MaxFrames)
         /\ requests = <<>>
         /\ UNCHANGED vars

Next == Client \/ PutRow \/ Notify \/ Quiet

Spec == Init /\ [][Next]_vars

\* The receiver's loop and the server's are kept running; no event need come.
FairSpec == Spec /\ WF_vars(Client) /\ WF_vars(PutRow)

-----------------------------------------------------------------------------
(* Properties.                                                             *)

TypeOK ==
  /\ pc \in {"setup", "receive", "draw", "put", "pending", "event", "exited"}
  /\ isShared \in BOOLEAN /\ drawable \in BOOLEAN /\ attached \in BOOLEAN
  /\ kept \in BOOLEAN
  /\ image \in [Lines -> Pictures] /\ screen \in [Lines -> Pictures]
  /\ row \in 0 .. Rows /\ srow \in Lines
  /\ frame \in Pictures /\ done \in Pictures
  /\ \A q \in {outbuf, requests} :
       q \in Seq([frame : Pictures, rows : {ByReference} \cup [Lines -> Pictures]])
  /\ events \in 0 .. MaxEvents /\ arriving \in 0 .. MaxEvents
  /\ sentEvents \in 0 .. MaxEvents

\* No row of the window goes back to an older picture, although the server
\* reads rows while the receiver writes them, and one put may overtake another
\* picture's drawing.
RowsNeverOlder == [][\A l \in Lines : screen'[l] >= screen[l]]_vars

\* When the server has completed a request, every row of the window is of its
\* picture; with shared memory it may be of a later one, since nobody waits
\* for the completion before the rows are written again.
CompletedPutHolds ==
  srow = 0 => \A l \in Lines : /\ screen[l] >= done
                               /\ ~isShared => screen[l] = done

\* When no request is on its way and nothing is drawn, the last picture is on
\* the screen whole, however torn it was before.
LastPictureStays ==
  (pc = "receive" /\ outbuf = <<>> /\ requests = <<>>) =>
    \A l \in Lines : screen[l] = frame

\* A picture put reaches the screen, it or a later one, without waiting for
\* the next, unless the program ends, or the request is kept in Xlib's buffer:
\* XPending sends it, but only when it finds no event read earlier.
EveryPutShown ==
  \A f \in Pictures :
    (pc = "pending" /\ frame = f) ~>
      \/ \A l \in Lines : screen[l] >= f
      \/ pc = "exited"
      \/ pc = "receive" /\ kept
=============================================================================
