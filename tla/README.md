# faros-streamer in TLA+

Models, checks and proofs about faros-streamer, a low-delay video streamer: a
**sender** captures frames from a V4L camera, encodes each as a grid of small
JPEGs (or cuts it into raw fragments) and sends every piece in a UDP datagram of
its own; a **receiver** puts the pieces where they belong and shows the frame as
soon as it knows it is over. A TCP connection back to the sender carries key
presses that change the JPEG quality.

File names below without a path are those of `src/`; `sender.c`, `receiver.c`,
`jpg.c`, `rtp.c`, `net.h` and `input_v4l.c` stand for `faros_polito_IMG_*`.

## The system

| Component | State it keeps | Operations | Talks to |
|---|---|---|---|
| Capture loop (`input_v4l.c`) | mapped buffers, the buffer in work | `init_device`, `start_capturing`, `mainloop_capturing` | driver (ioctl, select), frame callback |
| Frame callback (`sender.c`) | `net_par.st`, `net_par.rtp`: frame and sequence number, timestamp, packet list | `read_frame`, `pack_frame_in_jpg_and_send`, `pack_yuyv_in_raw_and_send`, `update_stat` | encoder, UDP |
| JPEG slices (`jpg.c`) | packet list (size, valid), output buffer | `create_jpg_packets_from_buf`, `reset_jpg_packets_len`, `decode_jpg_packet_rgb` | libjpeg |
| RTP header (`rtp.c`) | none (bytes of a packet) | one getter and one setter per field | both programs |
| Receiver (`receiver.c`) | current timestamp, `frame_shown`, the kept packet, the picture | `process_image_yuyv` in an endless loop | UDP, X11 |
| Quality server (`myreceiver_thread.c`, a thread of the *sender*) | listening socket, set of descriptors, `ctrl_jpg_quality` | accept, read a key | capture thread (shared variable) |
| Quality client (`mysender_thread.c`, a thread of the *receiver*) | terminal, stdin buffer, connection | read a key, write it | quality server (TCP) |
| Window (`show_X.c`, end of `process_image_yuyv`) | the XImage, in shared memory or not; Xlib's buffer and event queue | `image_init_window`, `image_put`, `XPending`, `XNextEvent` | X server |
| Statistics (both programs) | the struct `sender_stat_t`, counters with a total and one since the last line | `update_stat`, once per frame | clock |
| Raw mode (`common.c`, both programs) | fragments, the picture as YUYV | `set_pck_per_frame_for_yuyv`, `pack_yuyv_in_raw_and_send` | UDP, drawing |
| Wrappers, options | – | `Sendto`, `Recvfrom`, `getopt_long` | – |

What is hard here: the network loses, reorders and duplicates; the end of a frame
is known from a marker bit that may be lost, and otherwise only from the first
packet of the next frame, which must then be kept across the display of the old
one; sequence and frame numbers wrap; the sender may be restarted under a running
receiver; a slice may not fit its packet; the driver fills buffers while one is
being read; keys pass two buffers and a byte stream before a thread takes them,
and another thread picks the result up without a lock; the X server reads the
rows of a picture while the receiver writes the next one into them; counters and
clocks wrap; any system call may end a program in the middle of a frame. The list of these hazards
with their lines and the properties that cover them is in `PROJECT.json`.

What makes each component correct:

* **video path**: a shown picture is of one frame and complete as far as its
  packets arrived; every frame that was begun is shown, once, in order, without
  waiting for a packet that may not come; both ends agree on invalid slices;
* **header**: the fields are independent of each other and of the order of calls;
* **slices**: both programs agree on the grid; only whole encodings are decoded;
* **quality**: keys act at most once and in order, none is lost if typed one at
  a time, and what they ask for reaches the encoder;
* **capture**: the callback's buffer is its own, pictures arrive once and in
  order, no buffer is lost;
* **camera to screen**: what the viewer sees are the camera's pictures, once and
  in order, and each that found a buffer gets there;
* **window**: no row goes back to an older picture, the last one ends up whole;
* **statistics**: a line is about the frames since the line before, exactly;
* **raw mode**: every byte that arrives is at its place, and is drawn from there.

## Modules

| Module | Models |
|---|---|
| `FrameDisplay` | the abstract promise of the video path: frames are shown at most once, in order, and only if captured |
| `VideoStream` | `read_frame` and the packing loops, UDP, `process_image_yuyv` |
| `Capture` | start-up of the device, the capture loop, the driver's queues |
| `Streamer` | `Capture` and `VideoStream` composed: the callback is a step of both |
| `RawPicture` | the bytes of the raw mode on top of `VideoStream` |
| `JpgSlices` | one picture through encoder, packets, decoder, expansion, drawing and zoom, byte by byte |
| `DisplayWindow` | the image shared with the X server, Xlib's buffers, the server |
| `Statistics` | `update_stat` of sender and receiver, the delay |
| `HeaderFields` | the abstract header: a record of fields with assignments |
| `RtpHeader` | the header's bytes and all accessors |
| `Knob` | the abstract promise of the feedback path: keys turn a knob |
| `QualityControl` | terminal, stdin buffer, TCP, both control threads, the capture thread's copy, a restarted sender |
| `VideoStreamProofs`, `StreamerProofs` (also those of `Capture`), `RawProofs`, `JpgSlicesProofs`, `RtpHeaderProofs`, `WindowProofs`, `KnobProofs`, `StatisticsProofs` | theorems |
| `MC*` | the bounds of the runs |

`VideoStream` composes sender, network and receiver of one picture after the
other; the rest is attached to it. `Streamer` EXTENDS both it and `Capture` and
joins their actions, so that the callback takes a buffer when the frame is begun
and gives it back when the last packet is out. `RawPicture` EXTENDS it with one
variable, the bytes. `JpgSlices` refines its pictures: what `VideoStream` calls the
content of `videoFrame[slice]` is bytes there. `DisplayWindow` is what happens
after `Show`, seen from the memory that `Show` writes. `QualityControl` shares only
`jpg_quality` with it, whose one effect on the stream is the size of a slice,
which both `VideoStream` and `JpgSlices` leave open.

### How `VideoStream` corresponds to the code

* **Sender.** `s_pc`, `k` are the place in `read_frame` and its loop index;
  `framenum`, `seqN`, `timestamp` are the fields of `net_par`. `SkipFrame` is a
  call of `read_frame` that `-S` ends early, `EncodeFrame` one that starts
  packing (the encoder marks any set of slices invalid; with `-T` in JPEG mode the
  timestamp is the host's clock), `SendSlice` a turn of the packing loop (also the
  datagram that `-L` drops), `FinishFrame` `update_stat` and the end of
  `read_frame`. `Restart` kills the program anywhere and runs `main`'s
  initialisations again.
* **Network.** `net` is the set of datagrams on their way. `Ordered`, `Lossy`
  and `MaxDup` say what it may do.
* **Receiver.** `r_pc = "loop"` is the top of the `while (1)`; `Receive` is an
  iteration whose packet comes from `Recvfrom`, `Reuse` one that uses the kept
  packet. An iteration takes `SameFrame` or `OtherFrame` according to the
  timestamp. `Show` is everything after the loop. `geometry` is whether the
  call's locals `sqrt_n_pck`, `mb_width`, `mb_height` have been assigned.
  Payloads are the number of their frame; after `Show` the buffer is `Smeared`,
  because the expansion to RGB happens in place.
* `pic`, `restarts`, `cur_pic`, `processed` and `displayed` are history that
  only properties (and bounds) read; in `stat`, `from` is the timestamp that the
  delay was computed from.

### The others

* `RtpHeader`: `p` is the buffer, an action per setter call of the packing loops.
  32-bit values are pairs of 16-bit halves, since TLC's integers are signed. The
  promise (`HeaderFields`) is that of a record: a getter returns the value set last,
  cut to the width of its field, whatever other setters ran since.
* `QualityControl`: `ForwardKey` is a round of the client's loop (select, `fgetc`,
  `write`); `fgetc` empties the terminal into `stdio`, which select does not see.
  `ReadClient` takes any number of bytes up to `MSG_SIZE`, as TCP may give it any
  piece, and looks at the first only. `patient` users type a key when the last
  has been taken; the others type ahead, and may close the receiver. `ReadFrame`
  is the copy at the beginning of the callback, which the Actua build lacks.
  `Restart` kills the sender once: the receivers stay connected to nobody
  (`orphan`), and the second write after that raises SIGPIPE (`killed`). `Listen`
  may fail, since nobody looks at the result of `bind`. The users are taken not to
  type NUL (Ctrl-@): `strlen` finds nothing of it, so nothing would be written.
* `Capture`: `incoming` and `outgoing` are the driver's queues, `content` the
  picture in each buffer. The callback reads its buffer in two steps, so that the
  camera can interleave. Every ioctl may fail.
* `Streamer`: `CallbackBegins` is `ReadFirst` with `EncodeFrame` or `SkipFrame`,
  `CallbackReturns` is `ReadLast` with `FinishFrame`; in between the sender's one
  thread can do nothing but `SendSlice`. `SendtoFails` is the exit in the wrapper
  `Sendto`, after which the receiver goes on with what was sent. Frame `f` of
  `VideoStream` is the picture `seen[f + 1]` of `Capture`.
* `JpgSlices`: a byte is its origin (frame, component, position), so that a
  conversion is checked by where each byte ends up. `Packed` is what
  `create_jpg_packets_from_buf` makes of an encoding, of any size in `Fills`;
  `FirstByte` is the mark that the sender puts on a slice that does not fit;
  `Decode`, `Expand`, `Shown`, `imageLine` and `Zoomed` are the receiver's five
  passes over the picture, each with the loop's indices. The assertions on the
  grid are `Divisible`. Slices arrive in order or are lost, as `VideoStream` has
  the rest.
* `RawPicture`: `frag_num` and `res` are the sender's division of the frame,
  `set_pck_per_frame_for_yuyv` the other one, of both programs, from two bytes per
  pixel instead of one and a half. `Place` copies a payload to its position when
  `VideoStream` uses the packet, `Shown` does to the YUYV bytes what the code does
  to them, `Drawn` makes pixels of them.
* `DisplayWindow`: a row holds the number of the picture it is of. `image` is the
  XImage; a request carries a copy of its rows (`XPutImage`) or none
  (`XShmPutImage`), and waits in `outbuf` until Xlib sends it. `XPending` sends
  only when no event is queued already; `XNextEvent` writes through a pointer that
  was never set, and therefore may end the program. `PutRow` is the server, a row
  at a time. A failed `shmat` is not noticed (`attached`), and the first write ends
  the program, as does a depth that the conversion does not know (`drawable`). When
  Xlib's buffer is full, the put may go out with it, or stay behind alone.
* `Statistics`: `s` is the struct, `CountSent` and `CountShown` the additions of
  the two `update_stat`, `SenderReset` and `ReceiverReset` the resets after a line.
  `Int32` is the overflow of an `int`, `Delay` the difference of the 32-bit clocks.
  The time since the call before (`Gaps`) and the part of it that was spent encoding
  (`Encodings`) are inputs of their own: the rest is idle.
  `window` is what a bystander would remember of the frames since the last line.

## Runs

| Run | Question | Distinct states |
|---|---|---|
| `streamer` | camera, buffers, loop, packets, receiver together, any call failing: right pictures, in order, all of them (liveness), no buffer lost | 60,868 |
| `stream_ordered` | loss without reordering, `-T`, `-S 1`, sender killed and restarted: complete, unmixed, once, in order; refines `FrameDisplay` | 2.6 M |
| `stream_reordered` | what is left when the network reorders and duplicates; every packet is used | 2.5 M |
| `stream_raw` | raw bytes with loss, none marked, `-S 1`: bytes in place, once, in order, shown at last | 13,637 |
| `rtp_header` | bytes implement fields, at boundary values | 3 k |
| `quality` | two receivers, patient users or hasty ones, a sender restarted: refines `Knob`, none lost, reaches the encoder; keys typed ahead go out with the next | 709,098 |
| `slices_grey` | grey pictures byte by byte up to the zoomed window, sizes from frame to frame | 125 k |
| `display` | memory shared with the X server or copied, events at any time | 5,801 |
| `statistics` | wrapping counters and clock, lines at any frame, both programs | 215,152 |

Three runs show where the code departs from what the repository says of it; the
findings in `PROJECT.json` quote both sides:

* `stream_ext_seq`: the "extended" sequence number falls back at every wrap;
* `slices_colour`: colour slices are misplaced and shown as grey values;
* `raw_picture`: a raw picture that arrived whole is not drawn as the camera took
  it: it is expanded like a grey one, and a quarter of it is never sent.

What the properties are, beyond their names: `EveryPictureShown` follows a picture
from the driver's buffer to the screen; `ShowsTheCamera` is `FrameDisplay` again
with the camera's pictures in place of frame numbers; `NoPictureForgotten` says
that what the callback has begun, what it was just given and what waits in the
driver are all the pictures that ever found a buffer, in order; `LineIsOfItsWindow`
compares a line with the one computed from the remembered frames;
`PictureReproduced` compares the window with the camera's picture pixel by pixel;
`EveryPutShown` excepts the one case in which Xlib keeps the request because an
event was already queued, and that case is real: without the exception TLC finds
the picture waiting for the next one. `BufferedKeysGoOut` is what is left to a user
who types ahead: keys do wait in stdin's buffer, as long as no other is typed, but
one more key sends all of those (not one each).

**Hazards without a property.** Nine of the hazards in `PROJECT.json` name none.
Three are decided by one expression and the options, so that a property would
repeat it: the table of factors (`jpg.c:394`), the division by the number of
fragments (`sender.c:104`), the bounds of the quality (`myreceiver_thread.c:69`). In
raw mode nothing says what the count of invalid packets should be (`sender.c:232`).
The descriptors that are never closed do harm after about a thousand connections, in
a way the source does not define (`myreceiver_thread.c:52`). The write through the
unset pointer (`receiver.c:463`) and the unnoticed failure of `shmat`
(`show_X.c:95`) are in the model, but end the program, and what is promised of
the window is promised of a program that goes on. The failed `bind`
(`myreceiver_thread.c:34`) and the receiver that finds no sender
(`mysender_thread.c:43`) are in the model too, and every property of `quality` holds
with them; but the code has no recovery from either that could be promised.

**Smaller observations**, which the models contain or which were met in reading,
and no run is spent on:

* EIO of DQBUF, which a comment calls ignored, ends the program
  (`input_v4l.c:128`).
* Keys take the quality out of the usage's [0..100] (`myreceiver_thread.c:69`).
* When the marked packet was lost, the delay is charged from the next frame's
  timestamp (`receiver.c:468`); `DelayOfShownFrame` is therefore stated without
  loss.
* `command.sh:6` says that too large a packet crashes the decoder; the code marks
  such slices and the receiver skips them (`OnlyWholeDecoded`).
* `-J 15` of `command.sh:7` ends at the assertion of `jpg.c:327`; the geometry
  with three slices of `slices_grey` reaches `"aborted"`.
* The capture of the Actua build never copies the quality: the mutant
  `ReadFrameActua`, which `EncoderFollows` refutes.
* The bit rate of the sender's line is labelled per second but is that of the
  window, a second or longer; the encoding time includes sending and the pauses
  between packets.
* `pck_num.all` and `pck_bytes.all` are ints that are never reset. With 16 packets
  in a frame and 15 frames in a second the first overflows after three months; after
  seven it is 0 again for one frame, and the average is divided by it (`sender.c:243`).
  `CountersFit` stays below.
* The receiver sums its delays as microseconds in an int (`receiver.c:84`): two
  minutes of delay at 15 frames a second are too much. `WindowFits` names the
  limit, above which `LineIsOfItsWindow` is not true.
* Nothing reacts to Expose events: a window that was covered shows the picture
  again with the next frame.
* The greeting that the server sends is never read: `select` of the receiver's
  control thread returns at once for ever (a busy loop), as does that of the server
  for a receiver that has gone.

**Bounds.** The moduli 4 (sequence number) and 2 (frame number) wrap several
times in the pictures of a run; `MCReorder` is 1, so that the test for late
packets has both outcomes. The receiver remembers one frame and one kept packet,
so three frames in flight already show every way in which old, current and next
frame can meet; the runs have three to five. The timestamp does not wrap
(`NoTimestampWrap`): 2^32 ticks of 90 kHz are 13 hours, of the microsecond clock
71 minutes; equal timestamps a wrap apart would need a receiver that heard nothing
in between. `streamer` has fewer buffers than pictures, so that buffers are used
again and pictures are dropped. `stream_raw` has a size that both divisions
disagree on and that leaves no residue, so that no packet is marked; `raw_picture`
one with a residue. In `quality` one user types three keys, the least with which
one waits in stdin's buffer until another comes; the other types one; a read of
three bytes can split a key's pair and join two keys, as ten bytes can; the sender
is restarted once. `slices_grey` has slices that are not square, grids of one and
of 2 by 2, zoom 1 to 3, a grid and a size that do not divide, and encodings of one
byte, just fitting, one too long, and too long for the output buffer. `display` has
three rows and three pictures, so that the server can be in one, the receiver in
the next and a request of the third wait; two events can be read at once, so that
one is left for the next call. In `statistics` the clock wraps every 16 ticks and
an int every 64, within the four frames of a run, while one window still fits:
the real totals overflow after 2 GB, a window after a 2 GB second.

**Fairness.** `VideoStream`: weak fairness of the sender's and of the receiver's
loop, which the operating system keeps scheduling; `Receive` needs a datagram, so
its fairness also says that UDP does not hold one for ever. None of loss or
restart. `RawPicture`: the same. `Streamer`: weak fairness of the receiver and of
the sender's steps that are not exits, since a call may fail but need not, and an
exit is never due; strong fairness of DQBUF's success, since the loop's EINTR and
EAGAIN may disable it again and again, but not for ever while a filled buffer
waits: that is the driver's promise. None of the camera. `QualityControl`: the
server's loop looks at every descriptor in each round, hence fairness per
connection; the client's loop and the camera go on; users owe nothing, nor does
anybody restart a sender. `DisplayWindow`: the receiver's loop and the server's go
on; no event need come.

## Proofs

Every theorem is for all values of the constants that the named assumptions of its
modules allow; hypotheses of single theorems are in the column "needs".

### Video path: `VideoStreamProofs`

| Theorem | Says | Needs |
|---|---|---|
| `TypeCorrect` | `TypeOK` | – |
| `GeometryAlwaysSet` | the drawing after the loop uses only assigned locals | – |
| `KeptPacketAlwaysCurrent` | the kept packet is of the current frame (proved only; no run spends a property on it) | – |
| `PictureNeverMixed` | no picture mixes two frames | `Distinct` |
| `NoFrameEverSkipped` | a frame begun is shown before another is begun | `Distinct` |
| `AlwaysShownOnceInOrder` | once and in order | `Ordered`, `Distinct` |
| `StreamRefinesDisplay` | `VideoStream` implements `FrameDisplay` | `Ordered`, `Distinct` |
| `EveryPacketAlwaysUsed` | without loss each packet sent is on its way, used, or kept | – (the property names its case) |
| `PictureAlwaysComplete` | the picture shown has exactly the valid slices that arrived | `Ordered`, `Distinct` |
| `InvalidAlwaysConserved` | both ends count the same invalid slices, up to those on their way | – (the property names its case) |
| `DelayAlwaysOfShownFrame` | the delay is charged from the frame shown | `MarkersArrive` |

`Distinct` is "no restarts, or `-T`"; `MarkersArrive` is order, no loss, no restarts,
and frames that end with a marked packet.

The argument is one invariant in layers, each proved with those before it.
`TypeInv`: types. `ControlInv`: how `frame_shown`, `r_pc`, `geometry` and the
kept packet go together; this alone gives the second and third theorem.
`ClockInv`: the sender's timestamp and clock as functions of its frames.
`StampInv`: packets of different frames have different timestamps; here
`NoTimestampWrap` and `Distinct` are used. `PictureInv`: the pixels in
`videoFrame` are of the frame processed last as long as it has not been shown.
`OrderInv`: on a network that keeps the order, everything in `net` is younger than
everything that has arrived. `ShownInv`: the frames displayed are older than the
one in work. None of the properties is inductive alone: that a picture is not
mixed rests on timestamps identifying frames, which rests on the sender's
arithmetic, and on `frame_shown` being right at the moment of the change.

`PictureAlwaysComplete` rests on `StampInv` (a packet that is used for the picture
is of its frame) and on the buffer being smeared when a frame is begun; the count
needs that the sets of packets on their way, used and waiting are finite and that
each step moves one packet between them. The delay needs two facts more:
`MarkedInv`, a frame that was sent has a marked packet, and `DelayInv`, the loop
ends with that packet and no other, since on an ordered network it is on the
screen before a packet of the next frame is looked at. With loss the property is
false (see the observations above), so `MarkersArrive` is needed.

### Raw mode: `RawProofs`

`RawBytesAlwaysInPlace`, for every size of picture and of packet. `RawInv` says that
every byte is of a frame that arrived (or untouched, or shown already), and of
the frame in work that the bytes in place are exactly those of the fragments that
arrived. It stands on the whole invariant of the video path and on the arithmetic
of the fragments (`SliceOfByte`, `FrameFits`, `PlaceByte`): `memcpy` of fragment
`s` writes the bytes from `s * MAX_PAYLOAD_RTP` on, the residue ends where the
picture does, and none of it leaves the buffer. Restarts are excluded by
`RawGeometry`.

### Capture and the whole streamer: `StreamerProofs`

The first half is about `Capture` alone, for any number of buffers and pictures:
`CaptureTypeCorrect`, `FrameAlwaysStable`, `BuffersAlwaysConserved`,
`NoPictureEverForgotten`. Its invariant says in which places a buffer can be
(`PlaceInv`: queued, filled, in the loop's hands, never in two), that the buffer
being read holds the picture that was delivered (`ReadInv`), that the two queues
and the loop together have all buffers (`CountInv`), that the pictures waiting are
the tail of those filled (`FilledInv`), and that picture numbers ascend
(`AscendInv`). That the callback's picture is stable is not inductive: it needs
that its buffer is in no queue, which needs that a buffer is never in two places.

The second half is about the composition. `StreamerIsBoth`: every behaviour is one
of `VideoStream` and one of `Capture`, which carries the theorems of both over
(`StreamerKeepsItsBuffers`, `StreamerCountsAlike`). `StreamerShowsTheCamera`: the
refinement of `FrameDisplay` from lens to screen, for any numbers of buffers and
slices, from both invariants and one that joins them, `CallsInv`: the frame number
counts the callback's calls. It assumes what `Streamer` assumes by name (JPEG mode,
a network that neither loses nor reorders, one sender).

### Slices: `JpgSlicesProofs`

`SlicesTypeCorrect`, `AlwaysValidIffFits` and `OnlyWholeEverDecoded`, for any grid,
packet and encoding size; `GreyAlwaysReproduced`, for any size, grid and zoom, of
grey pictures. The invariant of the first three is about the middle of the encoding
loop: the slices before `k` are what `Packed` makes of them, those from `k` on still have
the size that the reset gave them; without the reset the size of a slice could only
shrink from frame to frame.

`GreyAlwaysReproduced` follows a picture through the receiver. `PictureInv` says of
every byte that a decoded slice covers that it is the camera's luma. A later slice
may cover it only with the same value (`DecodePlaces`: where a byte is put and which
pixel it is of are the same number), so that nothing about disjoint slices is needed.
That the slices cover the picture (`SlicesCover`) needs the assertions on the grid
and that the integer root exists. The expansion in the same buffer is a loop
(`SpreadFrom`): after i rounds the last i pixels are spread, and nothing before them
is touched, because round i writes at three times its pixel or later; the order from
the last pixel to the first is essential, as the mutant `PixelsFirstToLast` shows.
`ZoomDraws` is the arithmetic of the window: the loops write the same pairs of place
and colour as reading the window pixel by pixel expects. That the picture is grey is
a hypothesis; of colour the property is false (`slices_colour`).

### Header: `RtpHeaderProofs`

`HeaderRefinesFields`, every setter changes its own field and no other, for all
values, from lemmas on dividing bytes into bit fields; and `HeaderTypeCorrect`,
nothing written is larger than its byte. A step of the code
is a step of the record with the value cut to its field (`Cut`), so that the refinement
also says what the getters return.

### Window: `WindowProofs`

For any geometry of the window and any numbers of pictures and events:
`WindowTypeCorrect`, `RowsGoForward`, `CompletedPutAlwaysHolds`,
`LastPictureAlwaysStays`. The invariant follows a picture from the image to the
screen. `ImageInv`: no row of the image is newer than the picture in work, and those
already drawn are of it. `PathInv`: the requests, wherever they wait (with the
server, then in Xlib's buffer), form one path of ascending pictures, none older than
what is done, and each row they will deliver is at least of their picture.
`ScreenInv`: the rows that the server has reached are at least of the first request,
the others of the one done before, and none is ahead of the image. Without shared
memory these are equalities: a request carries its rows with it.

### Quality: `KnobProofs`

For any receivers, keys and size of a read: `QualityTypeCorrect`;
`QualityRefinesKnob`, the feedback path implements `Knob`; `NoKeyEverLost`, when
nothing of patient users is on its way the quality is the option plus every key of
those connected. What makes the refinement inductive is where the keys of one
receiver are (`WayInv`): there are positions m and n in what was typed such that
those in the connection lie between the last obeyed and the m-th, those in stdin's
buffer between the m-th and the n-th, those in the terminal after the n-th, each in
order; lost keys leave gaps, never a return. For patient users at most one key is
on its way (`PatientInv`), and never behind the first byte of the connection, which
is why a read that looks only at the first byte passes over nothing. `LinkInv`
(bytes only in a living connection) is needed for the step in which the sender is
restarted.

`NoKeyLost` sums over the receivers, of which there may be any number. Its proof
counts instead: `Taken(key)` is the finite set of the key presses that were obeyed,
as pairs of receiver and position; a key that takes effect adds one pair to it, a
restart empties it, and `TakenInv` says that the quality is the option and the
difference of two cardinalities. When nothing is on its way, `Taken` is all there is.

### Statistics: `StatisticsProofs`

For any frame rate, pauses, sizes and clock: `StatTypeCorrect` (no average is
divided by zero), `FrameAlwaysInOneLine`, `LineAlwaysOfItsWindow`. `StatInv` is about
the counts: frames and packets in the struct, in the window and in the lines, and
how long a window can be. `LineInv` is about the values: the struct holds the sums of
the window modulo the overflow of an int, and its extremes (`OneMoreSeen`), or
their start values before the first frame. `WindowFits` turns the sums modulo the
overflow into the sums.

The truth that a line is compared with is a sum over the frames of the window, of
any length. `Total` is a recursive function, and what it computes is proved by the
least counterexample: of the numbers up to n at which a formula fails, one is the
least (`LeastNumber`, from the well-foundedness of a finite subset; these lemmas stand in
`JpgSlicesProofs` too), and so a loop
that stays right for a turn stays right for all (`AllRounds`). From it follow that
the recursive function exists and sums (`TotalIsASum`), that one more frame adds its
own (`TotalStep`), and the bound (`TotalBound`). `DelayIsReal` is the arithmetic of
the clock: the difference of two 32-bit clocks, read as a signed number, is the real
delay as long as that is less than 35 minutes.

**Assumptions** that are more than types: `NoTimestampWrap`; `RawGeometry` (a picture
has a whole fragment; no restarts); a header that leaves room in
the packet; finitely many receivers; `DelaysFit`, `CountersFit` and `WindowFits`, which
keep the statistics below the overflows that the observations name.

**Only model-checked**: liveness (`EveryPictureShown`, `DueFrameShown`,
`EveryPutShown`, `EncoderFollows`, `BufferedKeysGoOut`; out of the prover's reach, as
it needs ENABLED).
Every invariant, action property and refinement of the passing runs is stated by a
theorem, those of `stream_reordered` and of the ordered network under the hypotheses
of the tables.

## Known limits of the code that the models document

* Without `-T`, a sender restarted in the middle of a frame starts its timestamps
  over, and the receiver may take its packets for those of the old frame: pictures
  mix. The theorem's assumption is needed.
* With reordering, a late packet makes the receiver show a frame again or out of
  order; only the properties of `stream_reordered` remain.
* A receiver started late has simply lost the earlier packets.
* Raw mode: nothing sets the valid flags, so the sender reports every packet as
  invalid; the grey expansion is applied to YUYV data as well; a picture smaller
  than a fragment divides by zero (`RawGeometry` assumes a larger one).
* With shared memory a row may already be of the next picture while the server
  puts the one before: the window is torn for a moment, never set back.
* A receiver whose sender was restarted has a dead keyboard, and the second key
  ends it.
* `RTP_get_payload_type` reads the wrong byte; nothing calls it.
* Keys typed ahead stay in stdin's buffer until another key is pressed.
* A receiver exits as a whole if its control thread finds no sender.

## Not modelled

* The quality factor of a slice and its table (`jpg.c:394`): it changes only how
  large an encoding becomes, and the models let it have any size; that the index
  leaves the table for more than 25 slices is seen from the option alone.
* `libjpeg`'s own errors; the RGB input of the KINECT build.
* The descriptors of the quality server: that they are never closed matters after a
  thousand connections, and what `FD_SET(-1)` then writes is not defined.
* The arithmetic of `yuv_to_rgb_*`: floating point on single bytes, without state;
  a pixel is kept as the bytes it comes from. The depth of 16 bits.
* The wrappers that the streamer never calls, most of `sockwrap.c`; option parsing,
  whose results are constants; the Actua build as a whole.
* `create_jpg_packets`, `RTP_init_header_v2`, `enum_inputs`, `enum_standards`: never
  called in a stream. `stop_capturing`, `image_destroy` and what comes after them:
  behind loops that never end.

## Plan

Done: `FrameDisplay`, `VideoStream`, `HeaderFields`, `RtpHeader`, `Capture`,
`Streamer`, `RawPicture`, `JpgSlices`, `DisplayWindow`, `Knob`, `QualityControl`,
`Statistics`, each with proofs of the safety properties that its runs check.
Possible extensions: the raw mode with restarts under `-T`; the timestamp's wrap, by
keeping in the invariant how far apart the frames in flight can be.
