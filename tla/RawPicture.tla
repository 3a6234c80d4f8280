----------------------------- MODULE RawPicture -----------------------------
(***************************************************************************)
(* The raw mode byte by byte: the sender divides the camera's YUYV bytes   *)
(* into fragments (pack_yuyv_in_raw_and_send), the receiver copies each to *)
(* its place, treats the buffer as if it held grey values, and draws pairs *)
(* of pixels from it (process_image_yuyv).  VideoStream moves the packets; *)
(* this module adds the bytes.  A byte of picture f is <<f, its position>>.*)
(***************************************************************************)
EXTENDS VideoStream

CONSTANTS
  Width, Height,   \* -w of both programs
  MAX_PAYLOAD_RTP, \* 1452: bytes of a whole fragment
  Square           \* 4: the black squares of the receiver

VARIABLE bytes     \* the receiver's videoFrame, what is drawn from it

raw_vars == <<vars, bytes>>

Pixels == Width * Height
Bpf == (Pixels * 12) \div 8        \* bytes per frame that the sender sends
frag_num == Bpf \div MAX_PAYLOAD_RTP
res == Bpf - frag_num * MAX_PAYLOAD_RTP

\* The packets that both programs expect, from two bytes per pixel.
set_pck_per_frame_for_yuyv ==
  LET whole == (Pixels * 2) \div MAX_PAYLOAD_RTP
  IN IF Pixels * 2 = whole * MAX_PAYLOAD_RTP THEN whole ELSE whole + 1

ASSUME RawParams ==
  /\ Width \in Nat \ {0} /\ Height \in Nat \ {0} /\ Width % 2 = 0
  /\ MAX_PAYLOAD_RTP \in Nat \ {0} /\ Square \in Nat

\* VideoStream's constants are those of the raw mode at this size.  The pause
\* between two packets divides by frag_num.  Restarts are VideoStream's subject.
ASSUME RawGeometry ==
  /\ ~JpgFlag /\ Ordered /\ MaxRestarts = 0 /\ frag_num > 0
  /\ NPck = frag_num + (IF res > 0 THEN 1 ELSE 0)
  /\ LastMarked = (res > 0)
  /\ PckPerFrame = set_pck_per_frame_for_yuyv

Bytes == 0 .. 3 * Pixels - 1
RInit == Init /\ bytes = [b \in Bytes |-> <<>>]

-----------------------------------------------------------------------------
(* The receiver.                                                           *)

\* The payload of a fragment of picture f, cut from the camera's bytes.
PayloadLen(slice) == IF slice < frag_num THEN MAX_PAYLOAD_RTP ELSE res
Payload(f, slice) ==
  [i \in 0 .. PayloadLen(slice) - 1 |-> <<f, slice * MAX_PAYLOAD_RTP + i>>]

Position(slice) == MAX_PAYLOAD_RTP * slice

\* mutant: fragments are placed one behind the other as they arrive
PlaceAppended(p) ==
  LET at == Position(Cardinality({q \in processed : q.frame = p.frame}))
      payload == Payload(p.frame, p.slicenum)
  IN bytes' = [b \in Bytes |-> IF b - at \in DOMAIN payload THEN payload[b - at]
                                                           ELSE bytes[b]]

\* memcpy of the payload to its place.
Place(p) ==
  LET at == Position(p.slicenum)
      payload == Payload(p.frame, p.slicenum)
  IN bytes' = [b \in Bytes |-> IF b - at \in DOMAIN payload THEN payload[b - at]
                                                           ELSE bytes[b]]

\* A packet of the current frame is placed, any other one is kept for later.
RawReceive ==
  /\ Receive \/ Reuse
  /\ IF processed' = processed THEN UNCHANGED bytes
     ELSE \E p \in processed' \ processed : Place(p)

\* The expansion of grey values to pixels runs in raw mode too.  Its loop goes
\* from the last byte to the first, so that each is read before it is
\* overwritten; JpgSlices has the loop itself.
Expand(v) == [b \in Bytes |-> v[b \div 3]]

\* So do the black squares, on a grid of the estimated number of packets.
sqrt_n_pck == CHOOSE s \in 0 .. PckPerFrame :
                s * s <= PckPerFrame /\ PckPerFrame < (s + 1) * (s + 1)
Squares == {ll * (Width \div sqrt_n_pck)
              + kk * Width * (Height \div sqrt_n_pck) + x + y * Width :
              ll \in 0 .. sqrt_n_pck - 1, kk \in 0 .. sqrt_n_pck - 1,
              x \in 0 .. Square - 1, y \in 0 .. Square - 1}
Shown(v) == LET w == Expand(v)
            IN [b \in Bytes |-> IF b \div 3 \in Squares THEN <<0>> ELSE w[b]]

RawShow == Show /\ bytes' = Shown(bytes)

\* Two pixels are drawn from four bytes: luma, shared chroma.
Drawn(v) == [p \in 0 .. Pixels - 1 |->
               LET pair == 4 * (p \div 2)
               IN <<v[pair + 2 * (p % 2)], v[pair + 1], v[pair + 3]>>]

-----------------------------------------------------------------------------
RawNext == \/ (Sender \/ Lose \/ Bounded) /\ UNCHANGED bytes
           \/ RawReceive \/ RawShow

RawSpec == RInit /\ [][RawNext]_raw_vars

\* As in VideoStream.
RawFairSpec == /\ RawSpec
               /\ WF_raw_vars(Sender /\ UNCHANGED bytes)
               /\ WF_raw_vars(RawReceive \/ RawShow)

-----------------------------------------------------------------------------
(* Properties.                                                             *)

\* When a frame is to be shown, a byte of it is in its place in the buffer
\* exactly if the fragment that carries it arrived, although the residue is
\* shorter, and although the buffer holds what became of earlier frames.
RawBytesInPlace ==
  r_pc = "show" => \A b \in 0 .. Bpf - 1 :
    bytes[b] = <<cur_pic, b>> <=>
      \E p \in processed : /\ p.frame = cur_pic
                           /\ p.slicenum = b \div MAX_PAYLOAD_RTP

\* "no option->raw YUYV data": a picture of which every fragment arrived is
\* drawn with the pixels of the camera, apart from the black squares.
Arrivals(f) == {p.slicenum : p \in {q \in processed : q.frame = f}}
RawPictureShown ==
  [][RawShow /\ Arrivals(cur_pic) = Slices =>
       \A p \in (0 .. Pixels - 1) \ Squares :
         Drawn(bytes')[p] = Drawn([b \in Bytes |-> <<cur_pic, b>>])[p]]_raw_vars
=============================================================================
