------------------------------- MODULE RawProofs -------------------------------
(***************************************************************************)
(* Theorems about RawPicture, for every size of picture and of packet: the *)
(* fragments of a frame that arrived are in the buffer, byte by byte, and  *)
(* nothing else of that frame is.                                          *)
(***************************************************************************)
EXTENDS RawPicture, VideoStreamProofs

-----------------------------------------------------------------------------
(* Arithmetic of the fragments.                                            *)

\* Slice s of m bytes holds the bytes from s * m to the one before the next's.
LEMMA SliceOfByte ==
  ASSUME NEW m \in Nat \ {0}, NEW b \in Nat, NEW s \in Nat
  PROVE  b \div m = s <=> s * m <= b /\ b < s * m + m
<1> DEFINE q == b \div m
<1>1. q \in Nat /\ q * m <= b /\ b < q * m + m /\ s * m \in Nat /\ q * m \in Nat
  OBVIOUS
<1>2. s < q => s * m + m <= q * m
  BY <1>1, StepBound
<1>3. q < s => q * m + m <= s * m
  BY <1>1, StepBound
<1> HIDE DEF q
<1>4. q = s <=> s * m <= b /\ b < s * m + m
  BY <1>1, <1>2, <1>3
<1> QED BY <1>4 DEF q

\* What the sender sends of a picture fits the receiver's buffer, and is cut
\* into frag_num whole fragments and the residue.
LEMMA FrameFits ==
  /\ Bpf \in Nat /\ frag_num \in Nat /\ res \in Nat /\ MAX_PAYLOAD_RTP \in Nat \ {0}
  /\ res < MAX_PAYLOAD_RTP /\ Bpf = frag_num * MAX_PAYLOAD_RTP + res
  /\ frag_num * MAX_PAYLOAD_RTP \in Nat
  /\ 0 .. Bpf - 1 \subseteq Bytes
<1>1. Pixels \in Nat /\ MAX_PAYLOAD_RTP \in Nat \ {0}
  BY RawParams DEF Pixels
<1>2. Bpf \in Nat /\ Bpf <= 3 * Pixels
  BY <1>1 DEF Bpf
<1>3. /\ frag_num \in Nat /\ frag_num * MAX_PAYLOAD_RTP \in Nat
      /\ frag_num * MAX_PAYLOAD_RTP <= Bpf
      /\ Bpf < frag_num * MAX_PAYLOAD_RTP + MAX_PAYLOAD_RTP
  <2>1. frag_num \in Nat
    BY <1>1, <1>2 DEF frag_num
  <2> QED BY <1>1, <1>2, <2>1, SliceOfByte DEF frag_num
<1> QED BY <1>1, <1>2, <1>3 DEF res, Bytes

\* memcpy writes a byte of the picture exactly if the fragment carries it.
LEMMA PlaceByte ==
  ASSUME NEW p \in Packet, Place(p)
  PROVE  /\ DOMAIN bytes' = Bytes
         /\ \A b \in Bytes : bytes'[b] \in {bytes[b], <<p.frame, b>>}
         /\ \A b \in 0 .. Bpf - 1 :
              bytes'[b] = IF p.slicenum = b \div MAX_PAYLOAD_RTP
                          THEN <<p.frame, b>> ELSE bytes[b]
<1> DEFINE m == MAX_PAYLOAD_RTP
           s == p.slicenum
           at == m * s
           len == IF s < frag_num THEN m ELSE res
<1>1. /\ s \in Nat /\ s <= frag_num /\ (s = frag_num => res > 0)
      /\ m \in Nat \ {0} /\ frag_num \in Nat /\ res \in Nat /\ res < m
  BY FrameFits, RawGeometry, ParamsAssumption DEF Packet, Slices
<1>2. /\ at \in Nat /\ at = s * m /\ len \in Nat
      /\ s < frag_num => len = m
      /\ s = frag_num => len = res /\ at = frag_num * m
  BY <1>1
<1>3. bytes' = [b \in Bytes |-> IF b - at \in 0 .. len - 1
                                THEN <<p.frame, s * m + (b - at)>> ELSE bytes[b]]
  BY DEF Place, Position, Payload, PayloadLen, at, len
<1>4. Bytes \subseteq Nat
  BY DEF Bytes
<1>5. \A b \in Bytes : s * m + (b - at) = b
  BY <1>2, <1>4
<1> HIDE DEF at, len
<1>6. ASSUME NEW b \in 0 .. Bpf - 1
      PROVE  b - at \in 0 .. len - 1 <=> s = b \div m
  <2>1. b \in Nat /\ b < Bpf /\ Bpf = frag_num * m + res
    BY FrameFits
  <2>2. s = b \div m <=> at <= b /\ b < at + m
    BY <1>1, <1>2, <2>1, SliceOfByte
  <2>3. at \in Int /\ len \in Int /\ m \in Int
    BY <1>1, <1>2
  <2>4. CASE s < frag_num
    <3>1. len = m
      BY <1>2, <2>4
    <3> QED BY <2>1, <2>2, <2>3, <3>1
  <2>5. CASE s = frag_num
    <3>1. len = res /\ Bpf = at + res /\ res < m
      BY <1>1, <1>2, <2>1, <2>5
    <3> QED BY <2>1, <2>2, <2>3, <3>1
  <2> QED BY <1>1, <2>4, <2>5
<1>7. DOMAIN bytes' = Bytes /\ \A b \in Bytes : bytes'[b] \in {bytes[b], <<p.frame, b>>}
  BY <1>3, <1>5
<1>8. \A b \in 0 .. Bpf - 1 :
        bytes'[b] = IF s = b \div m THEN <<p.frame, b>> ELSE bytes[b]
  BY <1>3, <1>5, <1>6, FrameFits
<1> QED BY <1>7, <1>8

-----------------------------------------------------------------------------
(* The buffer.                                                             *)

\* A byte of one of these pictures, of a black square, or not yet written.
OfFrames(byte, S) == \/ byte \in {<<>>, <<0>>}
                     \/ \E f \in S, i \in Nat : byte = <<f, i>>

\* The pictures of which there may be bytes: those shown, and the one under
\* construction.
Held == displayed \cup (IF r_framenum < 0 \/ Between THEN {} ELSE {cur_pic})

\* The bytes of frame f in their place are those of the fragments used.
InPlace(f) ==
  \A b \in 0 .. Bpf - 1 :
    bytes[b] = <<f, b>> <=>
      \E p \in processed : p.frame = f /\ p.slicenum = b \div MAX_PAYLOAD_RTP

RawInv == /\ \A b \in Bytes : OfFrames(bytes[b], Held)
          /\ r_framenum >= 0 /\ ~Between => InPlace(cur_pic)

\* A byte tells its picture.
LEMMA OtherFramesByte ==
  ASSUME NEW byte, NEW S, OfFrames(byte, S), NEW f, f \notin S, NEW b
  PROVE  byte # <<f, b>>
<1>1. <<f, b>> # <<>> /\ <<f, b>> # <<0>>
  OBVIOUS
<1>2. \A g \in S, i \in Nat : <<f, b>> # <<g, i>>
  OBVIOUS
<1> QED BY <1>1, <1>2 DEF OfFrames

\* Every behaviour is one of the video path, of which all the rest is known.
LEMMA RawStep == [RawNext]_raw_vars => [Next]_vars
BY DEF RawNext, RawReceive, RawShow, Next, Receiver, raw_vars

LEMMA RawStream == RawSpec => []StreamInv
<1>1. Distinct /\ Ordered
  BY RawGeometry DEF Distinct
<1>2. Spec => []StreamInv
  BY <1>1, StreamInvariant
<1> QED BY <1>2, RawStep, PTL DEF RawSpec, Spec, RInit

\* One iteration of the receiver's loop with its memcpy.
LEMMA IterateRaw ==
  ASSUME StreamInv, StreamInv', RawInv, NEW p \in Packet, r_pc = "loop",
         Iterate(p), old_pck # NoPck => p = old_pck, p \in net \/ p = old_pck,
         IF processed' = processed THEN UNCHANGED bytes
         ELSE \E q \in processed' \ processed : Place(q)
  PROVE  RawInv'
<1> DEFINE ts == IF r_framenum < 0 THEN p.timestamp ELSE curr_timestamp
<1>1. SameFrame(p, ts) \/ OtherFrame(p, ts)
  BY DEF Iterate
<1>2. displayed' = displayed /\ r_framenum \in Int /\ p.framenum \in Nat
  BY ParamsAssumption DEF Iterate, StreamInv, TypeInv, TypeOK, Packet
<1>3. CASE SameFrame(p, ts)
  <2>1. /\ processed' = processed \cup {p} /\ cur_pic' = p.frame
        /\ r_framenum' = p.framenum
    BY <1>3 DEF SameFrame, UseSlice
  <2>2. ~Between'
    BY <1>3 DEF SameFrame, Between
  <2>3. Place(p)
    <3>1. p \notin processed
      BY UsedOnce
    <3> QED BY <2>1, <3>1
  <2>4. /\ r_framenum >= 0 /\ ~Between => cur_pic = p.frame
        /\ r_framenum < 0 \/ Between => \A q \in processed : q.frame # p.frame
        /\ p.frame \notin displayed
    <3>1. \A g \in displayed : g < p.frame
      BY <1>2, <2>1, <2>2, FrameBegins
    <3>2. p.frame \in Int
      BY DEF Packet
    <3> QED BY <1>2, <2>1, <2>2, <3>1, <3>2, FrameBegins
  <2>5. Held' = displayed \cup {p.frame} /\ Held \subseteq Held'
    BY <1>2, <2>1, <2>2, <2>4 DEF Held
  <2>6. \A b \in Bytes : OfFrames(bytes'[b], Held')
    <3> SUFFICES ASSUME NEW b \in Bytes PROVE OfFrames(bytes'[b], Held')
      OBVIOUS
    <3>1. bytes'[b] = bytes[b] \/ bytes'[b] = <<p.frame, b>>
      BY <2>3, PlaceByte
    <3>2. OfFrames(bytes[b], Held)
      BY DEF RawInv
    <3>3. OfFrames(bytes[b], Held')
      BY <2>5, <3>2 DEF OfFrames
    <3>4. b \in Nat /\ p.frame \in Held'
      BY <2>5 DEF Bytes
    <3> QED BY <3>1, <3>3, <3>4 DEF OfFrames
  <2>7. InPlace(p.frame)
    <3>1. CASE r_framenum >= 0 /\ ~Between
      BY <2>4, <3>1 DEF RawInv
    <3>2. CASE r_framenum < 0 \/ Between
      <4>1. Held = displayed
        BY <3>2 DEF Held
      <4>2. \A b \in 0 .. Bpf - 1 : bytes[b] # <<p.frame, b>>
        BY <2>4, <4>1, OtherFramesByte, FrameFits DEF RawInv
      <4> QED BY <2>4, <3>2, <4>2 DEF InPlace
    <3> QED BY <1>2, <3>1, <3>2
  <2>8. InPlace(cur_pic)'
    <3> SUFFICES ASSUME NEW b \in 0 .. Bpf - 1
                 PROVE  bytes'[b] = <<p.frame, b>> <=>
                          \E q \in processed' : /\ q.frame = p.frame
                                                /\ q.slicenum = b \div MAX_PAYLOAD_RTP
      BY <2>1 DEF InPlace
    <3>1. bytes'[b] = IF p.slicenum = b \div MAX_PAYLOAD_RTP
                      THEN <<p.frame, b>> ELSE bytes[b]
      BY <2>3, PlaceByte
    <3>2. bytes[b] = <<p.frame, b>> <=>
            \E q \in processed : q.frame = p.frame /\ q.slicenum = b \div MAX_PAYLOAD_RTP
      BY <2>7 DEF InPlace
    <3>3. CASE p.slicenum = b \div MAX_PAYLOAD_RTP
      BY <2>1, <3>1, <3>3
    <3>4. CASE p.slicenum # b \div MAX_PAYLOAD_RTP
      BY <2>1, <3>1, <3>2, <3>4
    <3> QED BY <3>3, <3>4
  <2> QED BY <2>6, <2>8 DEF RawInv
<1>4. CASE OtherFrame(p, ts)
  <2>1. /\ UNCHANGED <<r_framenum, cur_pic, processed, bytes>>
        /\ p.timestamp # ts /\ old_pck' = p /\ p # NoPck
    BY <1>4, NoPckIsNone DEF OtherFrame
  <2>2. r_framenum >= 0 /\ old_pck = NoPck
    BY <1>2, <2>1 DEF StreamInv, ControlInv, KeptPacketIsCurrent
  <2>3. Between' = Between
    BY <1>4, <2>1, <2>2 DEF OtherFrame, Between, Unshown
  <2>4. Held' = Held /\ (InPlace(cur_pic)' <=> InPlace(cur_pic))
    BY <1>2, <2>1, <2>3 DEF Held, InPlace
  <2> QED BY <2>1, <2>3, <2>4 DEF RawInv
<1> QED BY <1>1, <1>3, <1>4

LEMMA RawInvStep ==
  StreamInv /\ StreamInv' /\ RawInv /\ [RawNext]_raw_vars => RawInv'
<1> SUFFICES ASSUME StreamInv, StreamInv', RawInv, [RawNext]_raw_vars
             PROVE  RawInv'
  OBVIOUS
<1>1. CASE RawReceive
  <2>1. CASE Receive
    <3>1. PICK p \in net : Iterate(p)
      BY <2>1 DEF Receive
    <3>2. p \in Packet
      BY DEF StreamInv, TypeInv, TypeOK
    <3> QED BY <1>1, <2>1, <3>1, <3>2, IterateRaw DEF Receive, RawReceive
  <2>2. CASE Reuse
    <3>1. old_pck \in Packet
      BY <2>2 DEF Reuse, StreamInv, TypeInv, TypeOK
    <3> QED BY <1>1, <2>2, <3>1, IterateRaw DEF Reuse, RawReceive
  <2> QED BY <1>1, <2>1, <2>2 DEF RawReceive
<1>2. CASE RawShow
  <2>1. /\ Between' /\ displayed' = displayed \cup {cur_pic}
        /\ bytes' = Shown(bytes)
    BY <1>2 DEF RawShow, Show, Between
  <2>2. Held \subseteq Held'
    BY <2>1 DEF Held
  <2>3. ASSUME NEW b \in Bytes PROVE OfFrames(bytes'[b], Held')
    <3>1. b \div 3 \in Bytes
      BY RawParams DEF Bytes, Pixels
    <3>2. bytes'[b] \in {<<0>>, bytes[b \div 3]}
      BY <2>1, <3>1 DEF Shown, Expand
    <3>3. OfFrames(bytes[b \div 3], Held)
      BY <3>1 DEF RawInv
    <3> QED BY <2>2, <3>2, <3>3 DEF OfFrames
  <2> QED BY <2>1, <2>3 DEF RawInv
<1>3. CASE UNCHANGED <<r_vars, h_vars, bytes>>
  <2>1. UNCHANGED <<r_pc, frame_shown, old_pck, r_framenum, cur_pic, processed,
                    displayed, bytes>>
    BY <1>3 DEF r_vars, h_vars
  <2>2. (Between' <=> Between) /\ Held' = Held
        /\ (InPlace(cur_pic)' <=> InPlace(cur_pic))
    BY <2>1 DEF Between, Held, InPlace
  <2> QED BY <2>1, <2>2 DEF RawInv
<1> QED
  BY <1>1, <1>2, <1>3
  DEF RawNext, Sender, SkipFrame, EncodeFrame, SendSlice, FinishFrame, Lose,
      Bounded, vars, raw_vars

\* When a frame is to be shown, the fragments of it that arrived are in the
\* buffer, each byte in its place, and no byte of another fragment is, for
\* every size of picture: whole fragments, residue and what the expansion of
\* earlier frames left behind do not get into each other's way.
THEOREM RawBytesAlwaysInPlace == RawSpec => []RawBytesInPlace
<1>1. RInit => RawInv
  BY DEF RInit, Init, ReceiverInit, RawInv, OfFrames
<1>2. StreamInv /\ RawInv => RawBytesInPlace
  BY DEF StreamInv, ControlInv, TypeInv, TypeOK, RawInv, InPlace, Between,
         RawBytesInPlace
<1> QED BY <1>1, <1>2, RawStream, RawInvStep, PTL DEF RawSpec

=============================================================================
