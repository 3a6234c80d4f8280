---------------------------- MODULE VideoStream -----------------------------
(***************************************************************************)
(* The video path: the sender's frame callback (read_frame and the two     *)
(* packing loops of faros_polito_IMG_sender.c), the UDP network, and the   *)
(* receiver's protocol state machine with the display step that follows it *)
(* (process_image_yuyv of faros_polito_IMG_receiver.c).                    *)
(*                                                                         *)
(* Pixels are abstracted to the number of the frame they were captured in: *)
(* the payload of a packet is that number, and a slice of the receiver's   *)
(* videoFrame holds the number of the frame its pixels came from.          *)
(***************************************************************************)
EXTENDS Integers, FiniteSets

CONSTANTS
  JpgFlag,      \* st.jpg_flag: JPEG slices (-J) or raw YUYV fragments
  NPck,         \* packets sent per frame
  PckPerFrame,  \* st.pck_per_frame: for raw frames an estimate of its own
  LastMarked,   \* does the last packet carry the marker bit
  NumFrameSkip, \* -S: frames skipped between two frames sent
  AbsClock,     \* -T: in JPEG mode the timestamp is the sender's clock
  SeqMod,       \* 65536: the sequence number has 16 bits
  FrameMod,     \* 65536: so has the frame number of the header extension
  TsMod,        \* 2^32: the timestamp has 32 bits
  TsStep,       \* clock / framerate: 90000 / 15 = 6000
  MAX_REORDER_PACKETS, \* 3000
  MaxFrames,    \* bound: pictures captured
  MaxTick,      \* bound: ticks of the sender's clock between two frames
  MaxDup,       \* bound: datagrams delivered twice
  MaxRestarts,  \* bound: restarts of the sender
  Ordered,      \* does the network deliver in order
  Lossy         \* does the network, or the sender's own -L, lose datagrams

ASSUME ParamsAssumption ==
  /\ JpgFlag \in BOOLEAN /\ LastMarked \in BOOLEAN /\ AbsClock \in BOOLEAN
  /\ Ordered \in BOOLEAN /\ Lossy \in BOOLEAN
  /\ NPck \in Nat \ {0} /\ PckPerFrame \in Nat \ {0}
  /\ SeqMod \in Nat \ {0} /\ FrameMod \in Nat \ {0} /\ TsMod \in Nat \ {0}
  /\ TsStep \in Nat \ {0} /\ MaxTick \in Nat \ {0}
  /\ NumFrameSkip \in Nat /\ MAX_REORDER_PACKETS \in Nat
  /\ MaxFrames \in Nat /\ MaxDup \in Nat /\ MaxRestarts \in Nat

\* The JPEG loop sends pck_per_frame packets and marks the last; the raw loop
\* only marks a residue.
ASSUME JpgAssumption == JpgFlag => LastMarked /\ PckPerFrame = NPck

\* The runs considered are shorter than one wrap of the 32-bit timestamp.
ASSUME NoTimestampWrap ==
  MaxFrames * TsStep < TsMod /\ MaxFrames * MaxTick < TsMod

Slices == 0 .. NPck - 1
Entries == 0 .. PckPerFrame - 1          \* of pcklist
Frames == 0 .. MaxFrames - 1

\* mutant: the timestamp keeps counting frames with -T too
ClockForgotten == FALSE

UseClock == JpgFlag /\ AbsClock         \* has the timestamp any clock in it

Packet == [n : Nat,                      \* position in the order of sending
           frame : Nat,                  \* the picture it is a slice of
           framenum : 0 .. FrameMod - 1,
           slicenum : Slices,
           seqN : 0 .. SeqMod - 1,
           timestamp : 0 .. TsMod - 1,
           marker : BOOLEAN,
           valid : BOOLEAN]              \* first payload byte is not 0x00

NoPck == [n |-> -1]     \* old_pck_present_flag = 0
Blank == -1             \* pixels of the calloc'ed videoFrame
Smeared == -2           \* pixels moved by the grey-to-RGB expansion

VARIABLES
  \* sender (capture thread)
  s_pc,        \* "idle", or "sending" inside a packing loop
  k,           \* loop counter of the packing loop
  valid,       \* pcklist[k].valid
  framenum,    \* net_par.st.framenum
  seqN,        \* net_par.rtp.seqN
  timestamp,   \* net_par.rtp.timestamp
  clock,       \* microsecond clock of the sender's host
  s_invalid,   \* stat.pck_invalid.all of the sender
  pic,         \* history: the picture the camera delivers next or now
  restarts,    \* history: restarts of the sender so far
  \* network
  sent,        \* datagrams numbered so far
  net,         \* datagrams in flight
  dups,        \* datagrams delivered twice so far
  \* receiver (main thread)
  r_pc,        \* "loop" in the state machine, "show" after its break
  r_framenum,  \* net_par.st.framenum, -1 before the first packet
  r_seqN,      \* net_par.rtp.seqN
  r_timestamp, \* net_par.rtp.timestamp
  seqN_ext,    \* net_par.rtp.seqN_ext
  curr_timestamp, \* net_par.st.curr_timestamp
  frame_shown, \* net_par.st.frame_shown
  old_pck,     \* net_par.st.old_pck_*: a packet kept for the next iteration
  geometry,    \* have this call's sqrt_n_pck, mb_width, mb_height a value
  videoFrame,  \* the picture under construction, per slice
  stat,        \* receiver's counters, and the timestamp the last delay used
  \* history: only properties read these
  cur_pic,     \* frame of the packet processed last
  processed,   \* packets whose payload was used or counted as invalid
  displayed    \* frames put on the screen

s_vars == <<s_pc, k, valid, framenum, seqN, timestamp, clock, s_invalid, pic,
            restarts, sent>>
n_vars == <<net, dups>>
r_vars == <<r_pc, r_framenum, r_seqN, r_timestamp, seqN_ext, curr_timestamp,
            frame_shown, old_pck, geometry, videoFrame, stat>>
h_vars == <<cur_pic, processed, displayed>>
vars == <<s_vars, n_vars, r_vars, h_vars>>

\* The initialisations of the sender's main; the clock is its host's.
SenderInit ==
  /\ s_pc = "idle" /\ k = 0 /\ valid = [i \in Entries |-> FALSE]
  /\ framenum = 0 /\ seqN = 0 /\ timestamp = 0 /\ clock = 0
  /\ s_invalid = 0 /\ pic = 0 /\ restarts = 0 /\ sent = 0

\* Those of the receiver's, up to its first Recvfrom.
ReceiverInit ==
  /\ r_pc = "loop" /\ r_framenum = -1 /\ r_seqN = 0 /\ r_timestamp = 0
  /\ seqN_ext = 0 /\ curr_timestamp = 0 /\ frame_shown = FALSE
  /\ old_pck = NoPck /\ geometry = FALSE
  /\ videoFrame = [i \in Slices |-> Blank]
  /\ stat = [frames |-> 0, invalid |-> 0, from |-> 0]
  /\ cur_pic = -1 /\ processed = {} /\ displayed = {}

Init == SenderInit /\ ReceiverInit /\ net = {} /\ dups = 0

-----------------------------------------------------------------------------
(* The sender.                                                             *)

\* mutant: the wrap tested one too late
IncrementLateWrap(s) == IF s + 1 > SeqMod THEN s + 1 - SeqMod ELSE s + 1

RTP_increment_seqN(s) == IF s + 1 > SeqMod - 1 THEN s + 1 - SeqMod ELSE s + 1

\* End of read_frame, for a frame sent or skipped.
AdvanceFrame == /\ framenum' = framenum + 1
                /\ pic' = pic + 1
                /\ timestamp' = (timestamp + TsStep) % TsMod

\* read_frame on a frame that -S drops.
SkipFrame ==
  /\ s_pc = "idle" /\ pic < MaxFrames
  /\ framenum % (NumFrameSkip + 1) # 0
  /\ AdvanceFrame
  /\ UNCHANGED <<s_pc, k, valid, seqN, clock, s_invalid, restarts, sent,
                 n_vars, r_vars, h_vars>>

\* read_frame on a frame to send, up to the packing loop.  The encoder may
\* find any of the slices too big; the raw mode never sets a valid flag.
EncodeFrame ==
  /\ s_pc = "idle" /\ pic < MaxFrames
  /\ framenum % (NumFrameSkip + 1) = 0
  /\ s_pc' = "sending" /\ k' = 0
  /\ IF JpgFlag THEN valid' \in [Entries -> BOOLEAN] ELSE UNCHANGED valid
  /\ IF UseClock
     THEN \E d \in 1 .. MaxTick : /\ clock' = clock + d
                                  /\ timestamp' = clock' % TsMod
     ELSE UNCHANGED <<clock, timestamp>>
  /\ UNCHANGED <<framenum, seqN, s_invalid, pic, restarts, sent,
                 n_vars, r_vars, h_vars>>

\* mutant: the first byte of a slice too big is not overwritten with 0x00
JpgHeaderUnmarked ==
  [n |-> sent, frame |-> pic, framenum |-> framenum % FrameMod,
   slicenum |-> k, seqN |-> seqN, timestamp |-> timestamp,
   marker |-> k = NPck - 1, valid |-> TRUE]

\* The packet that pack_frame_in_jpg_and_send makes of pcklist[k].
JpgHeader ==
  [n |-> sent, frame |-> pic, framenum |-> framenum % FrameMod,
   slicenum |-> k, seqN |-> seqN, timestamp |-> timestamp,
   marker |-> k = NPck - 1, valid |-> valid[k]]

\* The one that pack_yuyv_in_raw_and_send makes of the k-th fragment: frag_num
\* whole fragments, and the residue, which alone is marked.
RawHeader ==
  [n |-> sent, frame |-> pic, framenum |-> framenum % FrameMod,
   slicenum |-> k, seqN |-> seqN, timestamp |-> timestamp,
   marker |-> LastMarked /\ k = NPck - 1, valid |-> TRUE]

Header == IF JpgFlag THEN JpgHeader ELSE RawHeader

\* One turn of the packing loop; -L makes the sender drop the datagram itself.
SendSlice ==
  /\ s_pc = "sending" /\ k < NPck
  /\ \/ net' = net \cup {Header}
     \/ Lossy /\ UNCHANGED net
  /\ sent' = sent + 1
  /\ seqN' = RTP_increment_seqN(seqN)
  /\ k' = k + 1
  /\ UNCHANGED <<s_pc, valid, framenum, timestamp, clock, s_invalid, pic,
                 restarts, dups, r_vars, h_vars>>

\* After the loop: update_stat and the end of read_frame.
FinishFrame ==
  /\ s_pc = "sending" /\ k = NPck
  /\ s_pc' = "idle"
  /\ s_invalid' = s_invalid + Cardinality({i \in Entries : ~valid[i]})
  /\ AdvanceFrame
  /\ UNCHANGED <<k, valid, seqN, clock, restarts, sent,
                 n_vars, r_vars, h_vars>>

\* The sender is killed, even in the middle of a frame, and started again with
\* the initialisations of its main; the receiver and the network know nothing
\* of it, and the clock of the host goes on.
Restart ==
  /\ restarts < MaxRestarts /\ restarts' = restarts + 1
  /\ s_pc' = "idle" /\ k' = 0 /\ valid' = [i \in Entries |-> FALSE]
  /\ framenum' = 0 /\ seqN' = 0 /\ timestamp' = 0 /\ s_invalid' = 0
  /\ pic' = IF s_pc = "sending" THEN pic + 1 ELSE pic
  /\ UNCHANGED <<clock, sent, n_vars, r_vars, h_vars>>

-----------------------------------------------------------------------------
(* The network: UDP may lose, and unless Ordered reorder and duplicate.    *)

Lose == /\ Lossy
        /\ \E p \in net : net' = net \ {p}
        /\ UNCHANGED <<s_vars, dups, r_vars, h_vars>>

Deliverable(p) == Ordered => \A q \in net : p.n <= q.n

Deliver(p) == /\ p \in net /\ Deliverable(p)
              /\ \/ net' = net \ {p} /\ UNCHANGED dups
                 \/ ~Ordered /\ dups < MaxDup /\ dups' = dups + 1
                             /\ UNCHANGED net

-----------------------------------------------------------------------------
(* The receiver.                                                           *)

\* The extended sequence number: a difference of almost 2^16 is taken for a
\* late packet from before the wrap.
ExtendSeq(ext, s) ==
  LET delta == s - (ext % SeqMod)
  IN IF delta < SeqMod - 1 - MAX_REORDER_PACKETS THEN ext + delta ELSE ext

\* mutants: the test of frame_shown forgotten, or never true
AlwaysUnshown == TRUE
NeverUnshown == FALSE

\* Is the frame under construction not on the screen yet?
Unshown == ~frame_shown

\* mutant: slices placed in order of arrival, whatever their number
UseSliceAppended(p) ==
  LET pos == Cardinality({q \in processed : q.frame = p.frame}) % NPck
  IN /\ IF p.valid
        THEN videoFrame' = [videoFrame EXCEPT ![pos] = p.frame] /\ UNCHANGED stat
        ELSE stat' = [stat EXCEPT !.invalid = @ + 1] /\ UNCHANGED videoFrame
     /\ r_framenum' = p.framenum /\ geometry' = TRUE
     /\ cur_pic' = p.frame /\ processed' = processed \cup {p}

\* A slice of the current frame: decode it in place, or count it.
UseSlice(p) ==
  /\ IF p.valid
     THEN /\ videoFrame' = [videoFrame EXCEPT ![p.slicenum] = p.frame]
          /\ UNCHANGED stat
     ELSE /\ stat' = [stat EXCEPT !.invalid = @ + 1]
          /\ UNCHANGED videoFrame
  /\ r_framenum' = p.framenum
  /\ geometry' = TRUE
  /\ cur_pic' = p.frame
  /\ processed' = processed \cup {p}

\* mutant: the marker bit is not looked at
SameFrameNoMarker(p, ts) ==
  /\ p.timestamp = ts /\ UseSlice(p) /\ curr_timestamp' = ts
  /\ old_pck' = NoPck /\ r_pc' = "loop" /\ frame_shown' = FALSE

\* Same timestamp: use the packet; the marker bit ends the loop before the
\* reset of frame_shown at its bottom.
SameFrame(p, ts) ==
  /\ p.timestamp = ts
  /\ UseSlice(p)
  /\ curr_timestamp' = ts
  /\ old_pck' = NoPck
  /\ IF p.marker THEN r_pc' = "show" /\ UNCHANGED frame_shown
                 ELSE r_pc' = "loop" /\ frame_shown' = FALSE

\* mutants: the packet is not kept; the current timestamp is not updated
OtherFrameDropped(p, ts) ==
  /\ p.timestamp # ts /\ curr_timestamp' = p.timestamp /\ old_pck' = NoPck
  /\ IF Unshown THEN r_pc' = "show" /\ UNCHANGED frame_shown
                ELSE r_pc' = "loop" /\ frame_shown' = FALSE
  /\ UNCHANGED <<r_framenum, geometry, videoFrame, stat, cur_pic, processed>>

OtherFrameStaleTimestamp(p, ts) ==
  /\ p.timestamp # ts /\ curr_timestamp' = ts /\ old_pck' = p
  /\ IF Unshown THEN r_pc' = "show" /\ UNCHANGED frame_shown
                ELSE r_pc' = "loop" /\ frame_shown' = FALSE
  /\ UNCHANGED <<r_framenum, geometry, videoFrame, stat, cur_pic, processed>>

\* Another timestamp: keep the packet for the next iteration, and leave the
\* loop if the previous frame still has to be shown.
OtherFrame(p, ts) ==
  /\ p.timestamp # ts
  /\ curr_timestamp' = p.timestamp
  /\ old_pck' = p
  /\ IF Unshown THEN r_pc' = "show" /\ UNCHANGED frame_shown
                ELSE r_pc' = "loop" /\ frame_shown' = FALSE
  /\ UNCHANGED <<r_framenum, geometry, videoFrame, stat, cur_pic, processed>>

\* One iteration of the while loop on packet p.
Iterate(p) ==
  LET first == r_framenum < 0
      ts    == IF first THEN p.timestamp ELSE curr_timestamp
  IN /\ r_seqN' = p.seqN
     /\ r_timestamp' = p.timestamp
     /\ seqN_ext' = ExtendSeq(IF first THEN p.seqN ELSE seqN_ext, p.seqN)
     /\ SameFrame(p, ts) \/ OtherFrame(p, ts)
     /\ UNCHANGED displayed

\* Recvfrom returns a datagram.
Receive == /\ r_pc = "loop" /\ old_pck = NoPck
           /\ \E p \in net : Deliver(p) /\ Iterate(p)
           /\ UNCHANGED s_vars

\* The packet kept by the previous iteration takes the place of Recvfrom.
Reuse == /\ r_pc = "loop" /\ old_pck # NoPck
         /\ Iterate(old_pck)
         /\ UNCHANGED <<s_vars, n_vars>>

\* mutant: frame_shown is not set after the loop
ShowUnrecorded ==
  /\ r_pc = "show" /\ r_pc' = "loop"
  /\ videoFrame' = [i \in Slices |-> Smeared]
  /\ stat' = [stat EXCEPT !.frames = @ + 1, !.from = r_timestamp]
  /\ geometry' = FALSE /\ displayed' = displayed \cup {cur_pic}
  /\ UNCHANGED <<r_framenum, r_seqN, r_timestamp, seqN_ext, curr_timestamp,
                 frame_shown, old_pck, cur_pic, processed, s_vars, n_vars>>

\* The code after the loop.  The expansion of grey to RGB and the black
\* squares overwrite videoFrame in place; the delay is charged from the
\* timestamp of the packet received last.
Show == /\ r_pc = "show"
        /\ r_pc' = "loop"
        /\ frame_shown' = TRUE
        /\ videoFrame' = [i \in Slices |-> Smeared]
        /\ stat' = [stat EXCEPT !.frames = @ + 1, !.from = r_timestamp]
        /\ geometry' = FALSE
        /\ displayed' = displayed \cup {cur_pic}
        /\ UNCHANGED <<r_framenum, r_seqN, r_timestamp, seqN_ext, curr_timestamp,
                       old_pck, cur_pic, processed, s_vars, n_vars>>

-----------------------------------------------------------------------------
Sender == SkipFrame \/ EncodeFrame \/ SendSlice \/ FinishFrame
Receiver == Receive \/ Reuse \/ Show

\* The camera has delivered its MaxFrames frames and the receiver blocks in
\* Recvfrom: the bound ends the behaviour, nothing else may.
Bounded == /\ s_pc = "idle" /\ pic = MaxFrames
           /\ net = {} /\ r_pc = "loop" /\ old_pck = NoPck
           /\ UNCHANGED vars

Next == Sender \/ Restart \/ Lose \/ Receiver \/ Bounded

Spec == Init /\ [][Next]_vars

\* Each program is a loop the operating system keeps running, and UDP does
\* not hold a datagram for ever: it delivers it or loses it.  No fairness of
\* Lose or Restart: both are accidents.
FairSpec == Spec /\ WF_vars(Sender) /\ WF_vars(Receiver)

-----------------------------------------------------------------------------
(* Properties.                                                             *)

TypeOK ==
  /\ s_pc \in {"idle", "sending"} /\ k \in 0 .. NPck
  /\ valid \in [Entries -> BOOLEAN]
  /\ framenum \in 0 .. MaxFrames
  /\ seqN \in 0 .. SeqMod - 1 /\ timestamp \in 0 .. TsMod - 1
  /\ clock \in Nat /\ s_invalid \in Nat /\ sent \in Nat
  /\ pic \in 0 .. MaxFrames /\ restarts \in 0 .. MaxRestarts
  /\ net \subseteq Packet /\ dups \in 0 .. MaxDup
  /\ r_pc \in {"loop", "show"}
  /\ r_framenum \in -1 .. FrameMod - 1
  /\ r_seqN \in 0 .. SeqMod - 1 /\ r_timestamp \in 0 .. TsMod - 1
  /\ seqN_ext \in Int /\ curr_timestamp \in 0 .. TsMod - 1
  /\ frame_shown \in BOOLEAN /\ old_pck \in Packet \cup {NoPck}
  /\ geometry \in BOOLEAN
  /\ videoFrame \in [Slices -> Nat \cup {Blank, Smeared}]
  /\ stat \in [frames : Nat, invalid : Nat, from : 0 .. TsMod - 1]
  /\ cur_pic \in Nat \cup {-1} /\ processed \subseteq Packet
  /\ displayed \subseteq Nat \cup {-1}

\* The packets that have left the network.
Arrived == processed \cup (IF old_pck = NoPck THEN {} ELSE {old_pck})

\* A packet kept for the next iteration is of the frame now current, so the
\* next iteration uses it: the machine cannot keep the same packet for ever.
KeptPacketIsCurrent == old_pck # NoPck => old_pck.timestamp = curr_timestamp

\* The black squares after the loop use sqrt_n_pck, mb_width and mb_height,
\* which only the branch of the current frame assigns, in the same call.
GeometrySet == r_pc = "show" => geometry

\* A picture put on the screen never mixes slices of two frames, whatever the
\* network loses, reorders or duplicates.  When the sender may be restarted
\* this needs -T: without a clock in them its timestamps start over.
PictureNotMixed ==
  r_pc = "show" => \A i \in Slices : videoFrame[i] \in {cur_pic, Blank, Smeared}

\* On a network that keeps the order, the picture on the screen holds every
\* valid slice of its frame that arrived, and in its own place.
PictureComplete ==
  r_pc = "show" =>
    \A i \in Slices :
      videoFrame[i] = cur_pic <=>
        \E p \in processed : p.frame = cur_pic /\ p.slicenum = i /\ p.valid

\* On a network that keeps the order, a frame is shown once, and after all the
\* older frames that are ever shown.
ShownOnceInOrder == r_pc = "show" => \A g \in displayed : g < cur_pic

\* The receiver never turns to another frame before it has shown the one
\* whose packets it has used.
NoFrameSkipped == \A p \in processed : p.frame = cur_pic \/ p.frame \in displayed

\* Every datagram that Recvfrom returned is used, or is kept for the next
\* iteration: what a network without loss carried is used, or soon will be.
EveryPacketUsed ==
  ~Lossy =>
    \A n \in 0 .. sent - 1 : \E p \in net \cup Arrived : p.n = n

\* Both ends agree on the slices that did not fit a packet (toobig at the
\* sender, invalid at the receiver), up to those still on their way.
InvalidConserved ==
  LET OnTheWay == net \cup (Arrived \ processed)
      Current  == IF s_pc = "sending" THEN {i \in Slices : i < k /\ ~valid[i]}
                                      ELSE {}
  IN JpgFlag /\ ~Lossy /\ Ordered /\ MaxRestarts = 0 =>
       stat.invalid + Cardinality({p \in OnTheWay : ~p.valid})
         = s_invalid + Cardinality(Current)

\* The stream implements its abstract specification: a picture counts as
\* captured from the moment read_frame packs it.
FD == INSTANCE FrameDisplay WITH
        captured <- pic + (IF s_pc = "sending" THEN 1 ELSE 0),
        displayed <- displayed, shows <- stat.frames
ImplementsFrameDisplay == FD!DSpec

\* A frame is due when its marked packet was used, or when a packet of another
\* frame arrived after one of its packets was used.
Due(f) == \E p \in processed :
            /\ p.frame = f
            /\ p.marker \/ \E q \in Arrived : q.n > p.n /\ q.frame # f

\* A due frame is shown, without waiting for a packet that may never arrive.
DueFrameShown == \A f \in Frames : Due(f) ~> f \in displayed

\* "extended sequence number (su 32 bit)": it grows from packet to packet.
ExtSeqGrows ==
  [][r_framenum >= 0 /\ seqN_ext' # seqN_ext => seqN_ext' > seqN_ext]_vars

\* On a network that loses nothing the delay ("per calcolare ritardo fino a
\* visualizzazione") is the one of the frame on the screen.  When the marked
\* packet is lost, it is charged from the timestamp of the next frame.
DelayOfShownFrame ==
  [][\A p \in processed : Show /\ p.frame = cur_pic => stat'.from = p.timestamp]_vars
=============================================================================
