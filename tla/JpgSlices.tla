----------------------------- MODULE JpgSlices ------------------------------
(***************************************************************************)
(* A picture on its way from the camera to the screen in JPEG mode: the    *)
(* sender divides it into a square grid of slices and encodes each into a  *)
(* packet of its own (create_jpg_packets_from_buf), the receiver decodes   *)
(* each at its place and turns the grey picture into a coloured one in the *)
(* same buffer (process_image_yuyv).  The slices arrive in order or not at *)
(* all here; VideoStream has the asynchronous network.                     *)
(*                                                                         *)
(* A byte of a picture is its origin: <<frame, component, position>>.      *)
(***************************************************************************)
EXTENDS Integers

CONSTANTS
  Grey,            \* -G of the sender
  Geometries,      \* <<-w width, -w height, -J slices, --zoom>> that may be given
  MAX_PAYLOAD,     \* 1472
  HeaderLen,       \* 20
  MAX_OUT_JPG_BUF, \* 1024 * 1024
  Fills,           \* bytes that the encoder may produce for a slice
  Square,          \* 4: the black squares at the slices' corners
  Lossy,           \* may packets be lost
  MaxFrames        \* bound: pictures taken

ASSUME ParamsAssumption ==
  /\ Grey \in BOOLEAN /\ Lossy \in BOOLEAN
  /\ Geometries \subseteq (Nat \ {0}) \X (Nat \ {0}) \X (Nat \ {0}) \X (Nat \ {0})
  /\ {MAX_PAYLOAD, HeaderLen, MAX_OUT_JPG_BUF, Square, MaxFrames} \subseteq Nat
  /\ HeaderLen <= MAX_PAYLOAD
  /\ Fills \subseteq Nat \ {0}

VARIABLES
  width, height, pck_per_frame, \* as given to both programs
  zoom,       \* as given to the receiver
  pc,         \* "frame", "encode", "send", "show", "shown"; "aborted", "exited"
  k,          \* of the encoding or sending loop
  list,       \* pcklist: size, valid, first byte of the payload; history:
              \* my_buffer_fill of the slice
  frame,      \* number of the picture in work
  videoFrame, \* of the receiver, W * H * 3 bytes
  invalid,    \* pck_invalid.all of the receiver
  decoded     \* history: slices of this frame decoded

geometry == <<width, height, pck_per_frame, zoom>>
vars == <<geometry, pc, k, list, frame, videoFrame, invalid, decoded>>

NoJpg == 0        \* no JPEG begins with this byte
StartOfJpg == 255

IntSqrt(n) == CHOOSE s \in 0 .. n : s * s <= n /\ n < (s + 1) * (s + 1)
sqrt_n_pck == IntSqrt(pck_per_frame)
mb_width == width \div sqrt_n_pck
mb_height == height \div sqrt_n_pck
Slices == 0 .. pck_per_frame - 1
Row(slice) == slice \div sqrt_n_pck
Col(slice) == slice % sqrt_n_pck
BpP == IF Grey THEN 1 ELSE 3

Init ==
  /\ \E g \in Geometries :
       width = g[1] /\ height = g[2] /\ pck_per_frame = g[3] /\ zoom = g[4]
  /\ pc = "frame" /\ k = 0 /\ frame = 0 /\ invalid = 0 /\ decoded = {}
  /\ list = [s \in Slices |-> [size |-> MAX_PAYLOAD, valid |-> FALSE,
                               first |-> NoJpg, fill |-> 0]]
  /\ videoFrame = [b \in 0 .. width * height * 3 - 1 |-> <<>>]

-----------------------------------------------------------------------------
(* The sender.                                                             *)

\* The camera's YUYV: two pixels have a luma each and share their chroma.
Camera(f, b) ==
  CASE b % 2 = 0 -> <<f, "Y", b \div 2>>
    [] b % 4 = 1 -> <<f, "U", b \div 4>>
    [] b % 4 = 3 -> <<f, "V", b \div 4>>

\* buffer, after the luma was copied (-G), or the pixels were rearranged as
\* YUV444.
Buffer(f, b) ==
  LET pixel == b \div 3
      pair  == 4 * (pixel \div 2)
  IN IF Grey THEN Camera(f, 2 * b)
     ELSE CASE b % 3 = 0 -> Camera(f, 2 * pixel)
            [] b % 3 = 1 -> Camera(f, pair + 1)
            [] b % 3 = 2 -> Camera(f, pair + 3)

\* mutant: the sizes left by the frame before
SizesKept(l) == l

\* reset_jpg_packets_len: the payload may be of any size again.
SizesReset(l) == [s \in Slices |-> [l[s] EXCEPT !.size = MAX_PAYLOAD]]

\* mutant: the assertions compiled away
Undivided == TRUE

\* The assertions of create_jpg_packets_from_buf.
Divisible == /\ sqrt_n_pck * sqrt_n_pck = pck_per_frame
             /\ sqrt_n_pck * mb_width = width
             /\ sqrt_n_pck * mb_height = height

\* read_frame up to the encoding loop.
StartFrame ==
  /\ pc = "frame" /\ frame < MaxFrames
  /\ list' = SizesReset(list)
  /\ IF Divisible THEN pc' = "encode" ELSE pc' = "aborted"
  /\ UNCHANGED <<geometry, k, frame, videoFrame, invalid, decoded>>

Whole(fill, max_fill) == max_fill = fill

\* mutant: the size is what the encoder produced, whether it fits or not
PackedUnbounded(entry, fill) ==
  [size |-> fill + HeaderLen, valid |-> Whole(fill, fill),
   first |-> StartOfJpg, fill |-> fill]

\* What fits behind the header is copied.
Packed(entry, fill) ==
  LET max_fill == IF fill < entry.size - HeaderLen THEN fill
                  ELSE entry.size - HeaderLen
  IN [size |-> max_fill + HeaderLen, valid |-> Whole(fill, max_fill),
      first |-> StartOfJpg, fill |-> fill]

\* One round of the encoding loop; a full output buffer ends the program.
EncodeSlice ==
  /\ pc = "encode"
  /\ \E fill \in Fills :
       IF fill >= MAX_OUT_JPG_BUF
       THEN pc' = "exited" /\ UNCHANGED <<k, list>>
       ELSE /\ list' = [list EXCEPT ![k] = Packed(@, fill)]
            /\ k' = (k + 1) % pck_per_frame
            /\ pc' = IF k + 1 = pck_per_frame THEN "send" ELSE pc
  /\ UNCHANGED <<geometry, frame, videoFrame, invalid, decoded>>

-----------------------------------------------------------------------------
(* The receiver.                                                           *)

\* The bytes of a pixel that come out of the decoder: a colour of all three
\* components, or the luma.
DecodedByte(yuv, component) == IF Grey THEN yuv[1] ELSE <<component, yuv>>
Pixel(f, p) == [j \in 1 .. BpP |-> Buffer(f, BpP * p + j - 1)]

\* mutant: the grid is read by columns
PositionTransposed(slice) ==
  Col(slice) * mb_height * width + Row(slice) * mb_width

Position(slice) == Row(slice) * mb_height * width + Col(slice) * mb_width

\* decode_jpg_packet_rgb of a slice of picture f: the sender compressed the
\* pixels at bufoff, mb_height rows of mb_width of them, and the rows go into
\* the picture from Position on, width * output_components bytes apart.
Decode(f, slice, v) ==
  LET oc     == BpP
      bufoff == Row(slice) * mb_height * width + Col(slice) * mb_width
      off(b) == b - Position(slice)            \* in a picture width pixels wide
      x(b)   == (off(b) % (width * oc)) \div oc
      y(b)   == off(b) \div (width * oc)
  IN [b \in DOMAIN v |->
        IF off(b) >= 0 /\ x(b) < mb_width /\ y(b) < mb_height
        THEN DecodedByte(Pixel(f, bufoff + y(b) * width + x(b)), off(b) % oc)
        ELSE v[b]]

\* mutant: a slice that is not valid is left as it is
Unmarked(entry) == entry.first

\* The sender overwrites the first byte of a slice that is not valid.
FirstByte(entry) == IF entry.valid THEN entry.first ELSE NoJpg

\* A round of the sending loop, and the receiver's use of the packet, which
\* tells by its first byte alone whether there is a slice in it.
SendSlice ==
  /\ pc = "send"
  /\ list' = [list EXCEPT ![k].first = FirstByte(list[k])]
  /\ \/ Lossy /\ UNCHANGED <<videoFrame, invalid, decoded>>
     \/ /\ FirstByte(list[k]) # NoJpg
        /\ videoFrame' = Decode(frame, k, videoFrame)
        /\ decoded' = decoded \cup {k}
        /\ UNCHANGED invalid
     \/ /\ FirstByte(list[k]) = NoJpg /\ invalid' = invalid + 1
        /\ UNCHANGED <<videoFrame, decoded>>
  /\ k' = (k + 1) % pck_per_frame
  /\ pc' = IF k + 1 = pck_per_frame THEN "show" ELSE pc
  /\ UNCHANGED <<geometry, frame>>

\* mutant: the grey values are copied from the first to the last
PixelsFirstToLast(n) == [i \in 1 .. n |-> i - 1]

PixelsLastToFirst(n) == [i \in 1 .. n |-> n - i]

\* The grey value i becomes three equal ones, in the same buffer.
Spread(v, i) ==
  [v EXCEPT ![3 * i + 2] = v[i], ![3 * i + 1] = v[i], ![3 * i] = v[i]]
Expand(v) ==
  LET spread[i \in 0 .. width * height] ==   \* after i rounds of the loop
        IF i = 0 THEN v
        ELSE Spread(spread[i - 1], PixelsLastToFirst(width * height)[i])
  IN spread[width * height]

\* The pixels of the squares at the slices' upper left corners.
Squares == {ll * mb_width + kk * width * mb_height + x + y * width :
              ll \in 0 .. sqrt_n_pck - 1, kk \in 0 .. sqrt_n_pck - 1,
              x \in 0 .. Square - 1, y \in 0 .. Square - 1}
Black == <<0>>
Shown(v) == LET w == Expand(v)
            IN [b \in DOMAIN w |-> IF b \div 3 \in Squares THEN Black ELSE w[b]]

\* imageLine at a depth of 24: row y begins at y * bpl, and bpl is as wide as
\* the window, zoom pictures of it.
bpl == width * zoom
imageLine(v) ==
  [i \in {bpl * y + x : x \in 0 .. width - 1, y \in 0 .. height - 1} |->
     LET p == width * (i \div bpl) + (i % bpl)
     IN <<v[3 * p], v[3 * p + 1], v[3 * p + 2]>>]

\* mutant: the rows are zoomed, the columns are not
ZoomedRows(line) ==
  {<<(j * zoom + m) * bpl + i + kk, line[j * bpl + i]>> :
     j \in 0 .. height - 1, i \in 0 .. width - 1,
     kk \in 0 .. zoom - 1, m \in 0 .. zoom - 1}

\* The assignments to imageLine1, the window's image: pixel, colour.
Zoomed(line) ==
  {<<(j * zoom + m) * bpl + i * zoom + kk, line[j * bpl + i]>> :
     j \in 0 .. height - 1, i \in 0 .. width - 1,
     kk \in 0 .. zoom - 1, m \in 0 .. zoom - 1}

Show ==
  /\ pc = "show"
  /\ videoFrame' = Shown(videoFrame)
  /\ pc' = "shown"
  /\ UNCHANGED <<geometry, k, list, frame, invalid, decoded>>

NextFrame ==
  /\ pc = "shown" /\ pc' = "frame"
  /\ frame' = frame + 1 /\ decoded' = {}
  /\ UNCHANGED <<geometry, k, list, videoFrame, invalid>>

-----------------------------------------------------------------------------
Finished == \/ pc \in {"aborted", "exited"}
            \/ pc = "frame" /\ frame = MaxFrames

Next == \/ StartFrame \/ EncodeSlice \/ SendSlice \/ Show \/ NextFrame
        \/ Finished /\ UNCHANGED vars

Spec == Init /\ [][Next]_vars

-----------------------------------------------------------------------------
(* Properties.                                                             *)

TypeOK ==
  /\ <<width, height, pck_per_frame, zoom>> \in Geometries
  /\ pc \in {"frame", "encode", "send", "show", "shown", "aborted", "exited"}
  /\ k \in Slices /\ frame \in 0 .. MaxFrames /\ invalid \in Nat
  /\ list \in [Slices -> [size : HeaderLen .. MAX_PAYLOAD, valid : BOOLEAN,
                          first : {NoJpg, StartOfJpg}, fill : Fills \cup {0}]]
  /\ decoded \subseteq Slices

\* A slice is called valid exactly when the whole encoding fits into a packet
\* behind the header, however large the slices of earlier frames were, and
\* then the packet holds all of it.
ValidIffFits ==
  pc = "send" => \A s \in Slices :
    /\ list[s].valid <=> list[s].fill <= MAX_PAYLOAD - HeaderLen
    /\ list[s].valid => list[s].size = list[s].fill + HeaderLen

\* The decoder only gets whole slices: the receiver never takes a cut-off one
\* for a JPEG, although the packet is sent nevertheless and its buffer is the
\* one of the frame before.
OnlyWholeDecoded ==
  pc \in {"send", "show"} =>
    \A s \in decoded : list[s].fill <= MAX_PAYLOAD - HeaderLen

\* The picture in the window is the camera's, pixel by pixel and zoomed, if
\* all of its slices were decoded: the two programs agree on the grid, and the
\* expansion in place loses nothing.  Only the black squares are the
\* receiver's.
PictureReproduced ==
  pc = "shown" /\ decoded = Slices =>
    LET drawn == Zoomed(imageLine(videoFrame))
        colour(p) == [j \in 1 .. 3 |->
                        IF p \in Squares THEN Black
                        ELSE DecodedByte(Pixel(frame, p), j - 1)]
    IN drawn = {<<y * bpl + x, colour(width * (y \div zoom) + x \div zoom)>> :
                  x \in 0 .. width * zoom - 1, y \in 0 .. height * zoom - 1}
=============================================================================
