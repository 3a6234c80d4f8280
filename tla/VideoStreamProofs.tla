-------------------------- MODULE VideoStreamProofs --------------------------
(***************************************************************************)
(* Theorems about VideoStream, for every value of its constants.           *)
(***************************************************************************)
EXTENDS VideoStream, FiniteSetTheorems, TLAPS

\* TypeOK with the two facts about the sender that make it inductive.
TypeInv == /\ TypeOK
           /\ framenum <= pic
           /\ s_pc = "sending" => pic < MaxFrames

\* The packet that leaves the sender is one.
LEMMA HeaderType == ASSUME TypeInv, s_pc = "sending", k < NPck
                    PROVE  Header \in Packet
<1> USE ParamsAssumption, JpgAssumption DEF TypeInv, TypeOK
<1>1. k \in Slices
  BY DEF Slices
<1>2. JpgFlag => valid[k] \in BOOLEAN
  BY <1>1 DEF Slices, Entries
<1>3. framenum % FrameMod \in 0 .. FrameMod - 1
  OBVIOUS
<1>4. (LastMarked /\ k = NPck - 1) \in BOOLEAN /\ (k = NPck - 1) \in BOOLEAN
  OBVIOUS
<1>5. CASE JpgFlag
  BY <1>1, <1>2, <1>3, <1>4, <1>5 DEF Header, JpgHeader, Packet
<1>6. CASE ~JpgFlag
  BY <1>1, <1>3, <1>4, <1>6 DEF Header, RawHeader, Packet
<1> QED BY <1>5, <1>6

\* One iteration of the receiver's loop keeps the types.
LEMMA IterateType ==
  ASSUME TypeInv, NEW p \in Packet, Iterate(p)
  PROVE  /\ r_pc' \in {"loop", "show"}
         /\ r_framenum' \in -1 .. FrameMod - 1
         /\ r_seqN' \in 0 .. SeqMod - 1 /\ r_timestamp' \in 0 .. TsMod - 1
         /\ seqN_ext' \in Int /\ curr_timestamp' \in 0 .. TsMod - 1
         /\ frame_shown' \in BOOLEAN /\ old_pck' \in Packet \cup {NoPck}
         /\ geometry' \in BOOLEAN
         /\ videoFrame' \in [Slices -> Nat \cup {Blank, Smeared}]
         /\ stat' \in [frames : Nat, invalid : Nat, from : 0 .. TsMod - 1]
         /\ cur_pic' \in Nat \cup {-1} /\ processed' \subseteq Packet
         /\ displayed' \subseteq Nat \cup {-1}
<1> DEFINE ts == IF r_framenum < 0 THEN p.timestamp ELSE curr_timestamp
<1> USE ParamsAssumption DEF TypeInv, TypeOK
<1>1. /\ p.timestamp \in 0 .. TsMod - 1 /\ p.seqN \in 0 .. SeqMod - 1
      /\ p.framenum \in 0 .. FrameMod - 1 /\ p.slicenum \in Slices
      /\ p.frame \in Nat
  BY DEF Packet
<1>2. ts \in 0 .. TsMod - 1
  BY <1>1
<1>3. /\ r_seqN' = p.seqN /\ r_timestamp' = p.timestamp
      /\ displayed' = displayed
  BY DEF Iterate
<1>4. seqN_ext' \in Int
  BY <1>1 DEF Iterate, ExtendSeq
<1>5. SameFrame(p, ts) \/ OtherFrame(p, ts)
  BY DEF Iterate
<1>6. CASE SameFrame(p, ts)
  <2>1. /\ UseSlice(p) /\ curr_timestamp' = ts /\ old_pck' = NoPck
        /\ r_pc' \in {"loop", "show"} /\ frame_shown' \in BOOLEAN
    BY <1>6 DEF SameFrame
  <2>2. videoFrame' \in [Slices -> Nat \cup {Blank, Smeared}]
    BY <1>1, <2>1 DEF UseSlice
  <2>3. stat' \in [frames : Nat, invalid : Nat, from : 0 .. TsMod - 1]
    BY <2>1 DEF UseSlice
  <2> QED BY <1>1, <1>2, <1>3, <1>4, <2>1, <2>2, <2>3 DEF UseSlice
<1>7. CASE OtherFrame(p, ts)
  BY <1>1, <1>3, <1>4, <1>7 DEF OtherFrame
<1> QED BY <1>5, <1>6, <1>7

LEMMA TypeInvInit == Init => TypeInv
<1> SUFFICES ASSUME Init PROVE TypeInv
  OBVIOUS
<1> USE ParamsAssumption DEF Init, SenderInit, ReceiverInit
<1>1. valid \in [Entries -> BOOLEAN]
  OBVIOUS
<1>2. videoFrame \in [Slices -> Nat \cup {Blank, Smeared}]
  OBVIOUS
<1>3. stat \in [frames : Nat, invalid : Nat, from : 0 .. TsMod - 1]
  OBVIOUS
<1>4. net \subseteq Packet /\ processed \subseteq Packet
      /\ displayed \subseteq Nat \cup {-1} /\ old_pck \in Packet \cup {NoPck}
  OBVIOUS
<1>5. framenum <= pic /\ (s_pc = "sending" => pic < MaxFrames)
  OBVIOUS
<1>6. /\ s_pc \in {"idle", "sending"} /\ k \in 0 .. NPck
      /\ framenum \in 0 .. MaxFrames
      /\ seqN \in 0 .. SeqMod - 1 /\ timestamp \in 0 .. TsMod - 1
      /\ clock \in Nat /\ s_invalid \in Nat /\ sent \in Nat
      /\ pic \in 0 .. MaxFrames /\ restarts \in 0 .. MaxRestarts
      /\ dups \in 0 .. MaxDup
  OBVIOUS
<1>7. /\ r_pc \in {"loop", "show"}
      /\ r_framenum \in -1 .. FrameMod - 1
      /\ r_seqN \in 0 .. SeqMod - 1 /\ r_timestamp \in 0 .. TsMod - 1
      /\ seqN_ext \in Int /\ curr_timestamp \in 0 .. TsMod - 1
      /\ cur_pic \in Nat \cup {-1}
  OBVIOUS
<1>8. frame_shown \in BOOLEAN /\ geometry \in BOOLEAN
  OBVIOUS
<1> HIDE DEF Init, SenderInit, ReceiverInit
<1> QED BY <1>1, <1>2, <1>3, <1>4, <1>5, <1>6, <1>7, <1>8 DEF TypeInv, TypeOK

LEMMA TypeInvStep == TypeInv /\ [Next]_vars => TypeInv'
<1> SUFFICES ASSUME TypeInv, [Next]_vars PROVE TypeInv'
  OBVIOUS
<1> USE ParamsAssumption, NoTimestampWrap DEF TypeInv, TypeOK
<1>1. CASE SkipFrame
  BY <1>1 DEF SkipFrame, AdvanceFrame, n_vars, r_vars, h_vars
<1>2. CASE EncodeFrame
  BY <1>2 DEF EncodeFrame, n_vars, r_vars, h_vars
<1>3. CASE SendSlice
  <2>1. Header \in Packet
    BY <1>3, HeaderType DEF SendSlice
  <2>2. seqN' \in 0 .. SeqMod - 1
    BY <1>3 DEF SendSlice, RTP_increment_seqN
  <2> QED BY <1>3, <2>1, <2>2 DEF SendSlice, r_vars, h_vars
<1>4. CASE FinishFrame
  <2>1. Cardinality({i \in Entries : ~valid[i]}) \in Nat
    <3>1. IsFiniteSet(Entries)
      BY FS_Interval DEF Entries
    <3> QED BY <3>1, FS_Subset, FS_CardinalityType
  <2> QED BY <1>4, <2>1 DEF FinishFrame, AdvanceFrame, n_vars, r_vars, h_vars
<1>5. CASE Restart
  BY <1>5 DEF Restart, n_vars, r_vars, h_vars
<1>6. CASE Lose
  BY <1>6 DEF Lose, s_vars, r_vars, h_vars
<1>7. CASE Receive
  <2>1. PICK p \in net : Deliver(p) /\ Iterate(p)
    BY <1>7 DEF Receive
  <2>2. net' \subseteq Packet /\ dups' \in 0 .. MaxDup
    BY <2>1 DEF Deliver
  <2> QED BY <1>7, <2>1, <2>2, IterateType DEF Receive, s_vars
<1>8. CASE Reuse
  <2>1. old_pck \in Packet
    BY <1>8 DEF Reuse
  <2> QED BY <1>8, <2>1, IterateType DEF Reuse, s_vars, n_vars
<1>9. CASE Show
  <2>1. videoFrame' \in [Slices -> Nat \cup {Blank, Smeared}]
    BY <1>9 DEF Show
  <2>2. stat' \in [frames : Nat, invalid : Nat, from : 0 .. TsMod - 1]
    <3>1. stat' = [frames |-> stat.frames + 1, invalid |-> stat.invalid,
                   from |-> r_timestamp]
      BY <1>9 DEF Show
    <3> QED BY <3>1
  <2>3. displayed' \subseteq Nat \cup {-1}
    BY <1>9 DEF Show
  <2> QED BY <1>9, <2>1, <2>2, <2>3 DEF Show, s_vars, n_vars
<1>10. CASE Bounded \/ UNCHANGED vars
  BY <1>10 DEF Bounded, vars, s_vars, n_vars, r_vars, h_vars
<1> QED
  BY <1>1, <1>2, <1>3, <1>4, <1>5, <1>6, <1>7, <1>8, <1>9, <1>10
  DEF Next, Sender, Receiver

\* Every variable has its type: in particular the numbers of the header stay
\* within their fields (RTP_increment_seqN) and k within pcklist.
THEOREM TypeCorrect == Spec => []TypeOK
<1>1. TypeInv => TypeOK
  BY DEF TypeInv
<1> QED BY <1>1, TypeInvInit, TypeInvStep, PTL DEF Spec

-----------------------------------------------------------------------------
(* The receiver's control, on every network.                               *)

\* The last picture is on the screen, and no slice of another has been used.
Between == r_pc = "loop" /\ (frame_shown \/ old_pck # NoPck)

ControlInv ==
  /\ KeptPacketIsCurrent
  /\ r_framenum < 0 => /\ r_pc = "loop" /\ old_pck = NoPck
                       /\ ~frame_shown /\ processed = {}
  /\ r_framenum >= 0 /\ ~Between => geometry

LEMMA NoPckIsNone == NoPck \notin Packet
BY DEF NoPck, Packet

LEMMA IterateControl ==
  ASSUME TypeInv, ControlInv, NEW p \in Packet, r_pc = "loop",
         old_pck # NoPck => p = old_pck, Iterate(p)
  PROVE  ControlInv'
<1> DEFINE ts == IF r_framenum < 0 THEN p.timestamp ELSE curr_timestamp
<1>1. SameFrame(p, ts) \/ OtherFrame(p, ts)
  BY DEF Iterate
<1>2. p.framenum \in Nat
  BY ParamsAssumption DEF Packet
<1>3. CASE SameFrame(p, ts)
  BY <1>2, <1>3 DEF SameFrame, UseSlice, ControlInv, KeptPacketIsCurrent, Between
<1>4. CASE OtherFrame(p, ts)
  <2>1. r_framenum >= 0 /\ p.timestamp # curr_timestamp
    BY <1>4, ParamsAssumption DEF OtherFrame, TypeInv, TypeOK
  <2>2. old_pck = NoPck
    BY <2>1 DEF ControlInv, KeptPacketIsCurrent
  <2>3. KeptPacketIsCurrent'
    BY <1>4 DEF OtherFrame, KeptPacketIsCurrent
  <2>4. old_pck' # NoPck /\ r_framenum' = r_framenum /\ geometry' = geometry
    BY <1>4, NoPckIsNone DEF OtherFrame
  <2>5. CASE Unshown
    BY <2>1, <2>2, <2>3, <2>4, <2>5, <1>4
    DEF OtherFrame, ControlInv, Between, Unshown
  <2>6. CASE ~Unshown
    BY <2>1, <2>3, <2>4, <2>6, <1>4 DEF OtherFrame, ControlInv, Between
  <2> QED BY <2>5, <2>6
<1> QED BY <1>1, <1>3, <1>4

LEMMA ControlInvStep == TypeInv /\ ControlInv /\ [Next]_vars => ControlInv'
<1> SUFFICES ASSUME TypeInv, ControlInv, [Next]_vars PROVE ControlInv'
  OBVIOUS
<1> USE DEF ControlInv, KeptPacketIsCurrent, Between
<1>1. CASE Receive
  <2>1. PICK p \in net : Iterate(p)
    BY <1>1 DEF Receive
  <2>2. p \in Packet
    BY <2>1 DEF TypeInv, TypeOK
  <2> QED BY <1>1, <2>1, <2>2, IterateControl DEF Receive
<1>2. CASE Reuse
  <2>1. old_pck \in Packet
    BY <1>2 DEF Reuse, TypeInv, TypeOK
  <2> QED BY <1>2, <2>1, IterateControl DEF Reuse
<1>3. CASE Show
  BY <1>3 DEF Show
<1>4. CASE UNCHANGED <<r_vars, h_vars>>
  BY <1>4 DEF r_vars, h_vars
<1> QED
  BY <1>1, <1>2, <1>3, <1>4
  DEF Next, Sender, Receiver, SkipFrame, EncodeFrame, SendSlice, FinishFrame,
      Restart, Lose, Bounded, vars

LEMMA ControlInvariant == Spec => [](TypeInv /\ ControlInv)
<1>1. Init => ControlInv
  BY DEF Init, SenderInit, ReceiverInit, ControlInv, KeptPacketIsCurrent, Between
<1> QED BY <1>1, TypeInvInit, TypeInvStep, ControlInvStep, PTL DEF Spec

\* The locals that the drawing of the black squares reads were assigned in
\* the same call of process_image_yuyv, on a network of any kind.
THEOREM GeometryAlwaysSet == Spec => []GeometrySet
<1>1. TypeInv /\ ControlInv => GeometrySet
  BY DEF TypeInv, TypeOK, ControlInv, Between, GeometrySet
<1> QED BY <1>1, ControlInvariant, PTL

\* The packet kept for the next iteration is used by it.
THEOREM KeptPacketAlwaysCurrent == Spec => []KeptPacketIsCurrent
<1>1. ControlInv => KeptPacketIsCurrent
  BY DEF ControlInv
<1> QED BY <1>1, ControlInvariant, PTL

-----------------------------------------------------------------------------
(* The timestamp identifies the frame, which is what the receiver relies on *)
(* when it compares it with curr_timestamp.                                 *)

\* Without restarts the timestamps grow by TsStep; with them, only -T makes
\* the timestamps of the new sender differ from those of the old one.
Distinct == MaxRestarts = 0 \/ UseClock

Pkts == net \cup Arrived

StampInv ==
  /\ \A p, q \in Pkts : p.frame < q.frame => p.timestamp < q.timestamp
  /\ \A p, q \in Pkts : p.frame = q.frame => p.timestamp = q.timestamp
  /\ \A p \in Pkts : p.frame <= pic
  /\ s_pc = "idle" =>
       \A p \in Pkts : /\ p.frame < pic
                       /\ IF UseClock THEN p.timestamp <= clock
                                      ELSE p.timestamp < timestamp
  /\ s_pc = "sending" =>
       \A p \in Pkts : /\ p.frame = pic => p.timestamp = timestamp
                       /\ p.frame < pic => p.timestamp < timestamp

ClockInv ==
  /\ ~UseClock => timestamp = pic * TsStep
  /\ UseClock => /\ clock <= (pic + IF s_pc = "sending" THEN 1 ELSE 0) * MaxTick
                 /\ s_pc = "sending" => timestamp = clock

LEMMA PktsType == TypeInv => Pkts \subseteq Packet
BY DEF TypeInv, TypeOK, Pkts, Arrived

\* Products of the counters with the step, bounded by NoTimestampWrap.
LEMMA StepBound ==
  ASSUME NEW n \in Nat, NEW m \in Nat, n < m, NEW c \in Nat
  PROVE  (n + 1) * c = n * c + c /\ (n + 1) * c <= m * c /\ n * c <= m * c
<1>1. PICK d \in Nat : m = n + 1 + d
  <2>1. m - (n + 1) \in Nat /\ m = n + 1 + (m - (n + 1))
    OBVIOUS
  <2> QED BY <2>1
<1>2. m * c = n * c + c + d * c
  BY <1>1
<1>3. d * c \in Nat /\ n * c \in Nat
  OBVIOUS
<1> QED BY <1>2, <1>3

\* What the network and the receiver do adds no packet.
LEMMA NoNewPkts ==
  ASSUME TypeInv, Lose \/ Receiver PROVE Pkts' \subseteq Pkts
<1>1. CASE Lose
  BY <1>1 DEF Lose, Pkts, Arrived, r_vars, h_vars
<1>2. CASE Show
  BY <1>2 DEF Show, Pkts, Arrived, n_vars
<1>3. ASSUME NEW p \in Pkts, Iterate(p), net' \subseteq net, 
             old_pck # NoPck => p = old_pck
      PROVE  Pkts' \subseteq Pkts
  <2> DEFINE ts == IF r_framenum < 0 THEN p.timestamp ELSE curr_timestamp
  <2>1. SameFrame(p, ts) \/ OtherFrame(p, ts)
    BY <1>3 DEF Iterate
  <2>2. processed' \subseteq processed \cup {p} /\ old_pck' \in {p, NoPck}
    BY <2>1 DEF SameFrame, OtherFrame, UseSlice
  <2> QED BY <1>3, <2>2 DEF Pkts, Arrived
<1>4. CASE Receive
  <2>1. PICK p \in net : Deliver(p) /\ Iterate(p)
    BY <1>4 DEF Receive
  <2>2. net' \subseteq net /\ p \in Pkts
    BY <2>1 DEF Deliver, Pkts
  <2> QED BY <1>3, <1>4, <2>1, <2>2 DEF Receive
<1>5. CASE Reuse
  BY <1>3, <1>5 DEF Reuse, n_vars, Pkts, Arrived
<1> QED BY <1>1, <1>2, <1>4, <1>5 DEF Receiver

LEMMA ClockInvStep ==
  Distinct /\ TypeInv /\ ClockInv /\ [Next]_vars => ClockInv'
<1> SUFFICES ASSUME Distinct, TypeInv, ClockInv, [Next]_vars PROVE ClockInv'
  OBVIOUS
<1> USE ParamsAssumption, NoTimestampWrap DEF ClockInv
<1>1. pic \in Nat /\ clock \in Nat /\ s_pc \in {"idle", "sending"}
      /\ timestamp \in Nat
  BY DEF TypeInv, TypeOK
<1>2. ASSUME pic < MaxFrames
      PROVE  /\ (pic + 1) * TsStep = pic * TsStep + TsStep
             /\ (pic + 1) * TsStep < TsMod
             /\ (pic + 1) * MaxTick = pic * MaxTick + MaxTick
             /\ (pic + 1) * MaxTick < TsMod
             /\ pic * TsStep \in Nat /\ pic * MaxTick \in Nat
             /\ MaxFrames * TsStep \in Nat /\ MaxFrames * MaxTick \in Nat
  <2>1. /\ (pic + 1) * TsStep = pic * TsStep + TsStep
        /\ (pic + 1) * TsStep <= MaxFrames * TsStep
    BY <1>1, <1>2, StepBound
  <2>2. /\ (pic + 1) * MaxTick = pic * MaxTick + MaxTick
        /\ (pic + 1) * MaxTick <= MaxFrames * MaxTick
    BY <1>1, <1>2, StepBound
  <2>3. /\ pic * TsStep \in Nat /\ pic * MaxTick \in Nat
        /\ MaxFrames * TsStep \in Nat /\ MaxFrames * MaxTick \in Nat
    BY <1>1
  <2> QED BY <2>1, <2>2, <2>3
<1>3. CASE SkipFrame \/ FinishFrame
  <2>1. /\ pic < MaxFrames /\ pic' = pic + 1 /\ s_pc' = "idle"
        /\ timestamp' = (timestamp + TsStep) % TsMod /\ clock' = clock
    BY <1>3 DEF SkipFrame, FinishFrame, AdvanceFrame, TypeInv
  <2>2. ~UseClock => timestamp' = pic' * TsStep
    BY <1>1, <1>2, <2>1
  <2>3. UseClock => clock' <= (pic + 1) * MaxTick
    BY <1>1, <1>2, <2>1
  <2> QED BY <1>1, <2>1, <2>2, <2>3 DEF UseClock
<1>4. CASE EncodeFrame
  <2>1. /\ pic < MaxFrames /\ pic' = pic /\ s_pc = "idle" /\ s_pc' = "sending"
    BY <1>4 DEF EncodeFrame
  <2>2. CASE UseClock
    <3>1. PICK d \in 1 .. MaxTick : /\ clock' = clock + d
                                    /\ timestamp' = clock' % TsMod
      BY <1>4, <2>2 DEF EncodeFrame
    <3>2. clock <= pic * MaxTick
      BY <1>1, <2>1, <2>2
    <3>3. clock' <= (pic + 1) * MaxTick /\ clock' \in Nat
      BY <1>1, <1>2, <2>1, <3>1, <3>2
    <3>4. timestamp' = clock'
      BY <1>1, <1>2, <2>1, <3>1, <3>3
    <3> QED BY <2>1, <2>2, <3>3, <3>4 DEF UseClock
  <2>3. CASE ~UseClock
    BY <1>4, <2>1, <2>3 DEF EncodeFrame, UseClock
  <2> QED BY <2>2, <2>3
<1>5. CASE Restart
  <2>1. UseClock
    BY <1>5 DEF Restart, Distinct, TypeInv, TypeOK
  <2>2. clock' = clock /\ s_pc' = "idle"
        /\ pic' = pic + IF s_pc = "sending" THEN 1 ELSE 0
    BY <1>1, <1>5 DEF Restart
  <2>3. clock' <= pic' * MaxTick
    BY <1>1, <2>1, <2>2
  <2> QED BY <1>1, <2>1, <2>2, <2>3 DEF UseClock
<1>6. CASE UNCHANGED <<s_pc, pic, timestamp, clock>>
  BY <1>6 DEF UseClock
<1> QED
  BY <1>3, <1>4, <1>5, <1>6
  DEF Next, Sender, SendSlice, Lose, Receiver, Receive, Reuse, Show, Bounded,
      vars, s_vars

LEMMA StampInvStep ==
  Distinct /\ TypeInv /\ ClockInv /\ StampInv /\ [Next]_vars => StampInv'
<1> SUFFICES ASSUME Distinct, TypeInv, ClockInv, StampInv, [Next]_vars
             PROVE  StampInv'
  OBVIOUS
<1>1. /\ pic \in Nat /\ clock \in Nat /\ s_pc \in {"idle", "sending"}
      /\ timestamp \in Nat
      /\ \A p \in Pkts : p.frame \in Nat /\ p.timestamp \in Nat
  BY PktsType, ParamsAssumption DEF TypeInv, TypeOK, Packet
<1>2. CASE SkipFrame \/ FinishFrame
  <2>1. /\ pic < MaxFrames /\ pic' = pic + 1 /\ s_pc' = "idle"
        /\ timestamp' = (timestamp + TsStep) % TsMod /\ clock' = clock
        /\ s_pc = "sending" \/ s_pc = "idle"
    BY <1>2 DEF SkipFrame, FinishFrame, AdvanceFrame, TypeInv
  <2>2. Pkts' = Pkts
    BY <1>2 DEF SkipFrame, FinishFrame, Pkts, Arrived, n_vars, r_vars, h_vars
  <2>3. ~UseClock => timestamp' = timestamp + TsStep
    <3>1. /\ (pic + 1) * TsStep = pic * TsStep + TsStep
          /\ (pic + 1) * TsStep <= MaxFrames * TsStep
      BY <1>1, <2>1, StepBound, ParamsAssumption
    <3>2. pic * TsStep \in Nat /\ MaxFrames * TsStep \in Nat
      BY <1>1, ParamsAssumption
    <3> QED BY <1>1, <2>1, <3>1, <3>2, ParamsAssumption, NoTimestampWrap
            DEF ClockInv
  <2>4. \A p \in Pkts : p.frame < pic' /\ p.frame <= pic'
    BY <1>1, <2>1 DEF StampInv
  <2>5. \A p \in Pkts : IF UseClock THEN p.timestamp <= clock
                                    ELSE p.timestamp < timestamp'
    BY <1>1, <2>1, <2>3, ParamsAssumption DEF StampInv, ClockInv
  <2> QED BY <2>1, <2>2, <2>4, <2>5 DEF StampInv, UseClock
<1>3. CASE EncodeFrame
  <2>1. /\ pic < MaxFrames /\ pic' = pic /\ s_pc = "idle" /\ s_pc' = "sending"
    BY <1>3 DEF EncodeFrame
  <2>2. Pkts' = Pkts
    BY <1>3 DEF EncodeFrame, Pkts, Arrived, n_vars, r_vars, h_vars
  <2>3. \A p \in Pkts : p.frame < pic /\ p.timestamp < timestamp'
    <3>1. CASE UseClock
      <4>1. ClockInv'
        BY ClockInvStep
      <4>2. timestamp' = clock' /\ clock < clock'
        BY <1>1, <1>3, <2>1, <3>1, <4>1, ParamsAssumption
        DEF EncodeFrame, ClockInv, UseClock
      <4> QED BY <1>1, <1>3, <2>1, <3>1, <4>2, ParamsAssumption
              DEF StampInv, EncodeFrame
    <3>2. CASE ~UseClock
      BY <1>3, <2>1, <3>2 DEF StampInv, EncodeFrame
    <3> QED BY <3>1, <3>2
  <2> QED BY <1>1, <2>1, <2>2, <2>3 DEF StampInv
<1>4. CASE SendSlice
  <2>1. /\ s_pc = "sending" /\ s_pc' = s_pc /\ pic' = pic
        /\ timestamp' = timestamp
    BY <1>4 DEF SendSlice
  <2>2. Pkts' \subseteq Pkts \cup {Header}
    BY <1>4 DEF SendSlice, Pkts, Arrived, r_vars, h_vars
  <2>3. Header.frame = pic /\ Header.timestamp = timestamp
    BY DEF Header, JpgHeader, RawHeader
  <2>4. \A p \in Pkts' : \/ p.frame = pic /\ p.timestamp = timestamp
                         \/ p \in Pkts /\ p.frame < pic /\ p.timestamp < timestamp
    BY <1>1, <2>1, <2>2, <2>3 DEF StampInv
  <2> QED BY <1>1, <2>1, <2>4 DEF StampInv
<1>5. CASE Restart
  <2>1. UseClock
    BY <1>5, ParamsAssumption DEF Restart, Distinct, TypeInv, TypeOK
  <2>2. /\ s_pc' = "idle" /\ clock' = clock
        /\ pic' = IF s_pc = "sending" THEN pic + 1 ELSE pic
    BY <1>5 DEF Restart
  <2>3. Pkts' = Pkts
    BY <1>5 DEF Restart, Pkts, Arrived, n_vars, r_vars, h_vars
  <2>4. \A p \in Pkts : p.frame < pic' /\ p.timestamp <= clock
    BY <1>1, <2>1, <2>2 DEF StampInv, ClockInv
  <2> QED BY <1>1, <2>1, <2>2, <2>3, <2>4 DEF StampInv, UseClock
<1>6. CASE Lose \/ Receiver
  <2>1. Pkts' \subseteq Pkts
    BY <1>6, NoNewPkts
  <2>2. UNCHANGED s_vars
    BY <1>6 DEF Lose, Receiver, Receive, Reuse, Show
  <2> QED BY <2>1, <2>2 DEF StampInv, s_vars, UseClock
<1>7. CASE Bounded \/ UNCHANGED vars
  BY <1>7 DEF Bounded, vars, s_vars, n_vars, r_vars, h_vars, StampInv, Pkts,
              Arrived, UseClock
<1> QED BY <1>2, <1>3, <1>4, <1>5, <1>6, <1>7 DEF Next, Sender

-----------------------------------------------------------------------------
(* The picture under construction.                                         *)

PictureInv ==
  /\ r_framenum < 0 => cur_pic = Blank
  /\ r_framenum >= 0 =>
       \E p \in processed : /\ p.frame = cur_pic
                            /\ old_pck = NoPck => p.timestamp = curr_timestamp
  /\ \A i \in Slices : videoFrame[i] \in {Blank, Smeared}
                         \cup (IF Between THEN {} ELSE {cur_pic})
  /\ NoFrameSkipped
  /\ r_framenum >= 0 /\ Between => cur_pic \in displayed

LEMMA IteratePicture ==
  ASSUME TypeInv, ControlInv, StampInv, PictureInv, NEW p \in Pkts,
         r_pc = "loop", old_pck # NoPck => p = old_pck, Iterate(p)
  PROVE  PictureInv'
<1> DEFINE ts == IF r_framenum < 0 THEN p.timestamp ELSE curr_timestamp
<1>1. SameFrame(p, ts) \/ OtherFrame(p, ts)
  BY DEF Iterate
<1>2. displayed' = displayed
  BY DEF Iterate
<1>3. p \in Packet /\ processed \subseteq Pkts /\ r_framenum \in Int
  BY PktsType, ParamsAssumption DEF Pkts, Arrived, TypeInv, TypeOK
<1>4. CASE SameFrame(p, ts)
  <2>1. /\ p.timestamp = ts /\ curr_timestamp' = ts /\ old_pck' = NoPck
        /\ cur_pic' = p.frame /\ processed' = processed \cup {p}
        /\ r_pc' = "loop" => ~frame_shown'
    BY <1>4 DEF SameFrame, UseSlice
  <2>2. ~Between'
    BY <2>1 DEF Between
  <2>3. r_framenum >= 0 /\ ~Between => cur_pic = p.frame
    <3> SUFFICES ASSUME r_framenum >= 0, ~Between PROVE cur_pic = p.frame
      OBVIOUS
    <3>1. old_pck = NoPck
      BY DEF Between
    <3>2. PICK q \in processed : q.frame = cur_pic /\ q.timestamp = curr_timestamp
      BY <3>1 DEF PictureInv
    <3>3. q.timestamp = p.timestamp
      BY <1>3, <2>1, <3>2
    <3>4. ~(q.frame < p.frame) /\ ~(p.frame < q.frame)
      BY <1>3, <3>2, <3>3 DEF StampInv, Packet
    <3>5. q.frame \in Nat /\ p.frame \in Nat
      BY <1>3, <3>2, PktsType DEF Packet
    <3> QED BY <3>2, <3>4, <3>5
  <2>4. \A i \in Slices : videoFrame[i] \in {Blank, Smeared, p.frame}
    <3>1. CASE r_framenum < 0
      <4>1. processed = {} /\ ~Between
        BY <3>1 DEF ControlInv, Between
      <4> QED BY <2>3, <3>1, <4>1 DEF PictureInv
    <3>2. CASE r_framenum >= 0
      BY <2>3, <3>2 DEF PictureInv
    <3> QED BY <1>3, <3>1, <3>2
  <2>5. \A i \in Slices : videoFrame'[i] \in {Blank, Smeared, cur_pic'}
    <3>1. videoFrame' = IF p.valid
                        THEN [videoFrame EXCEPT ![p.slicenum] = p.frame]
                        ELSE videoFrame
      BY <1>4 DEF SameFrame, UseSlice
    <3> QED BY <2>1, <2>4, <3>1 DEF TypeInv, TypeOK
  <2>6. NoFrameSkipped'
    <3>1. CASE r_framenum < 0
      BY <2>1, <3>1 DEF ControlInv, NoFrameSkipped
    <3>2. CASE r_framenum >= 0 /\ Between
      BY <1>2, <2>1, <3>2 DEF PictureInv, NoFrameSkipped
    <3>3. CASE r_framenum >= 0 /\ ~Between
      BY <1>2, <2>1, <2>3, <3>3 DEF PictureInv, NoFrameSkipped
    <3> QED BY <1>3, <3>1, <3>2, <3>3
  <2>7. r_framenum' = p.framenum /\ p.framenum \in Nat
    BY <1>3, <1>4, ParamsAssumption DEF SameFrame, UseSlice, Packet
  <2> QED BY <2>1, <2>2, <2>5, <2>6, <2>7 DEF PictureInv
<1>5. CASE OtherFrame(p, ts)
  <2>1. /\ p.timestamp # ts /\ old_pck' = p /\ old_pck' # NoPck
        /\ UNCHANGED <<r_framenum, videoFrame, cur_pic, processed>>
    BY <1>3, <1>5, NoPckIsNone DEF OtherFrame
  <2>2. r_framenum >= 0 /\ old_pck = NoPck
    BY <1>3, <2>1 DEF ControlInv, KeptPacketIsCurrent
  <2>3. Between' = Between
    BY <1>5, <2>1, <2>2 DEF OtherFrame, Between, Unshown
  <2>4. NoFrameSkipped'
    BY <1>2, <2>1 DEF PictureInv, NoFrameSkipped
  <2> QED BY <1>2, <2>1, <2>3, <2>4 DEF PictureInv
<1> QED BY <1>1, <1>4, <1>5

LEMMA PictureInvStep ==
  TypeInv /\ ControlInv /\ StampInv /\ PictureInv /\ [Next]_vars => PictureInv'
<1> SUFFICES ASSUME TypeInv, ControlInv, StampInv, PictureInv, [Next]_vars
             PROVE  PictureInv'
  OBVIOUS
<1>1. CASE Receive
  <2>1. PICK p \in net : Iterate(p)
    BY <1>1 DEF Receive
  <2> QED BY <1>1, <2>1, IteratePicture DEF Receive, Pkts
<1>2. CASE Reuse
  BY <1>2, IteratePicture DEF Reuse, Pkts, Arrived
<1>3. CASE Show
  <2>1. /\ Between' /\ displayed' = displayed \cup {cur_pic}
        /\ videoFrame' = [i \in Slices |-> Smeared]
        /\ UNCHANGED <<r_framenum, processed, cur_pic, old_pck, curr_timestamp>>
    BY <1>3 DEF Show, Between
  <2>2. NoFrameSkipped'
    BY <2>1 DEF PictureInv, NoFrameSkipped
  <2>3. \A i \in Slices : videoFrame'[i] \in {Blank, Smeared}
    BY <2>1
  <2>4. r_framenum' >= 0 =>
          \E p \in processed' : /\ p.frame = cur_pic'
                                /\ old_pck' = NoPck => p.timestamp = curr_timestamp'
    BY <2>1 DEF PictureInv
  <2> QED BY <2>1, <2>2, <2>3, <2>4 DEF PictureInv
<1>4. CASE UNCHANGED <<r_vars, h_vars>>
  <2>1. UNCHANGED <<r_pc, frame_shown, r_framenum, processed, cur_pic, old_pck,
                    curr_timestamp, videoFrame, displayed>>
    BY <1>4 DEF r_vars, h_vars
  <2>2. Between' <=> Between
    BY <2>1 DEF Between
  <2>3. NoFrameSkipped'
    BY <2>1 DEF PictureInv, NoFrameSkipped
  <2> QED BY <2>1, <2>2, <2>3 DEF PictureInv
<1> QED
  BY <1>1, <1>2, <1>3, <1>4
  DEF Next, Sender, Receiver, SkipFrame, EncodeFrame, SendSlice, FinishFrame,
      Restart, Lose, Bounded, vars

LEMMA PictureInvariant ==
  ASSUME Distinct
  PROVE  Spec => [](TypeInv /\ ControlInv /\ ClockInv /\ StampInv /\ PictureInv)
<1>1. Init => ControlInv
  BY DEF Init, SenderInit, ReceiverInit, ControlInv, KeptPacketIsCurrent, Between
<1>2. Init => ClockInv /\ StampInv
  BY ParamsAssumption DEF Init, SenderInit, ReceiverInit, ClockInv, StampInv, Pkts, Arrived
<1>3. Init => PictureInv
  BY DEF Init, SenderInit, ReceiverInit, PictureInv, NoFrameSkipped, Between, Blank
<1>4. TypeInv /\ ClockInv /\ [Next]_vars => ClockInv'
  BY ClockInvStep
<1>5. TypeInv /\ ClockInv /\ StampInv /\ [Next]_vars => StampInv'
  BY StampInvStep
<1> QED
  BY <1>1, <1>2, <1>3, <1>4, <1>5, TypeInvInit, TypeInvStep, ControlInvStep,
     PictureInvStep, PTL
  DEF Spec

\* Slices of two frames are never on the screen in one picture, on a network
\* of any kind, unless a sender without -T is restarted.
THEOREM PictureNeverMixed == ASSUME Distinct PROVE Spec => []PictureNotMixed
<1>1. PictureInv => PictureNotMixed
  BY DEF PictureInv, PictureNotMixed, Between
<1> QED BY <1>1, PictureInvariant, PTL

\* The receiver shows every frame of which it used a packet before it uses one
\* of another frame, on a network of any kind.
THEOREM NoFrameEverSkipped == ASSUME Distinct PROVE Spec => []NoFrameSkipped
<1>1. PictureInv => NoFrameSkipped
  BY DEF PictureInv
<1> QED BY <1>1, PictureInvariant, PTL

-----------------------------------------------------------------------------
(* Networks that keep the order, which is what the receiver assumes        *)
(* ("Assume IN ORDER reception of packets").                               *)

\* The packets are numbered in the order of sending, frame after frame, the
\* marked one last, and those that arrived precede those in flight.
OrderInv ==
  /\ \A p \in Pkts : p.n < sent
  /\ \A p, q \in Pkts : p.n = q.n => p = q
  /\ \A p, q \in Pkts : p.n < q.n => p.frame <= q.frame
  /\ \A p, q \in Pkts : p.marker /\ p.frame = q.frame => q.n <= p.n
  /\ s_pc = "sending" /\ k < NPck => \A p \in Pkts : p.frame = pic => ~p.marker
  /\ \A p \in Arrived, q \in net : p.n < q.n

\* What the receiver has shown is behind what it is working on.
ShownInv ==
  /\ \A g \in displayed : g <= cur_pic
  /\ ~Between => \A g \in displayed : g < cur_pic
  /\ old_pck # NoPck => cur_pic < old_pck.frame
  /\ frame_shown \/ r_pc = "show" =>
       \/ old_pck # NoPck
       \/ \E p \in processed : p.frame = cur_pic /\ p.marker

LEMMA OrderInvStep ==
  Ordered /\ TypeInv /\ StampInv /\ OrderInv /\ [Next]_vars => OrderInv'
<1> SUFFICES ASSUME Ordered, TypeInv, StampInv, OrderInv, [Next]_vars
             PROVE  OrderInv'
  OBVIOUS
<1>1. /\ sent \in Nat /\ pic \in Nat /\ k \in Nat
      /\ \A p \in Pkts : p.frame \in Nat /\ p.n \in Nat
  BY PktsType, ParamsAssumption DEF TypeInv, TypeOK, Packet
<1>2. CASE SkipFrame \/ FinishFrame \/ Restart
  <2>1. s_pc' = "idle" /\ sent' = sent
    BY <1>2 DEF SkipFrame, FinishFrame, Restart
  <2>2. UNCHANGED <<net, processed, old_pck>>
    BY <1>2 DEF SkipFrame, FinishFrame, Restart, n_vars, r_vars, h_vars
  <2> QED BY <2>1, <2>2 DEF OrderInv, Pkts, Arrived
<1>3. CASE EncodeFrame
  <2>1. s_pc = "idle" /\ UNCHANGED <<sent, pic, net, processed, old_pck>>
    BY <1>3 DEF EncodeFrame, n_vars, r_vars, h_vars
  <2>2. \A p \in Pkts : p.frame # pic
    BY <1>1, <2>1 DEF StampInv
  <2> QED BY <2>1, <2>2 DEF OrderInv, Pkts, Arrived
<1>4. CASE SendSlice
  <2>1. /\ s_pc = "sending" /\ k < NPck /\ k' = k + 1 /\ pic' = pic
        /\ sent' = sent + 1 /\ net' \in {net, net \cup {Header}}
        /\ UNCHANGED <<processed, old_pck>>
    BY <1>4 DEF SendSlice, r_vars, h_vars
  <2>2. /\ Header.n = sent /\ Header.frame = pic
        /\ Header.marker => k = NPck - 1
    BY DEF Header, JpgHeader, RawHeader
  <2>3. Arrived' = Arrived /\ Pkts' \subseteq Pkts \cup {Header}
    BY <2>1 DEF Arrived, Pkts
  <2>4. \A p \in Pkts : p.n < Header.n /\ p.frame <= Header.frame
    BY <2>2 DEF OrderInv, StampInv
  <2>5. \A p \in Pkts : p.frame = Header.frame => ~p.marker
    BY <2>1, <2>2 DEF OrderInv
  <2>6. \A p \in Pkts' : p.n < sent'
    BY <1>1, <2>1, <2>2, <2>3 DEF OrderInv
  <2>7. \A p, q \in Pkts' : p.n = q.n => p = q
    BY <1>1, <2>2, <2>3, <2>4 DEF OrderInv
  <2>8. \A p, q \in Pkts' : p.n < q.n => p.frame <= q.frame
    BY <1>1, <2>2, <2>3, <2>4 DEF OrderInv
  <2>9. \A p, q \in Pkts' : p.marker /\ p.frame = q.frame => q.n <= p.n
    <3> SUFFICES ASSUME NEW p \in Pkts', NEW q \in Pkts', 
                        p.marker, p.frame = q.frame
                 PROVE  q.n <= p.n
      OBVIOUS
    <3>1. CASE p \in Pkts /\ q \in Pkts
      BY <3>1 DEF OrderInv
    <3>2. CASE p = Header
      BY <1>1, <2>2, <2>3, <2>4, <3>2
    <3>3. CASE p \in Pkts /\ q = Header
      BY <2>5, <3>3
    <3> QED BY <2>3, <3>1, <3>2, <3>3
  <2>10. k' < NPck => \A p \in Pkts' : p.frame = pic' => ~p.marker
    BY <1>1, <2>1, <2>2, <2>3, <2>5, ParamsAssumption
  <2>11. \A p \in Arrived', q \in net' : p.n < q.n
    BY <2>1, <2>3, <2>4 DEF OrderInv, Pkts
  <2> QED BY <2>6, <2>7, <2>8, <2>9, <2>10, <2>11 DEF OrderInv
<1>5. CASE Lose \/ Receiver
  <2>1. Pkts' \subseteq Pkts
    BY <1>5, NoNewPkts
  <2>2. UNCHANGED <<s_pc, k, pic, sent>>
    BY <1>5 DEF Lose, Receiver, Receive, Reuse, Show, s_vars
  <2>3. \A p \in Arrived', q \in net' : p.n < q.n
    <3>1. CASE Lose
      BY <3>1 DEF Lose, OrderInv, Arrived, r_vars, h_vars
    <3>2. CASE Show
      BY <3>2 DEF Show, OrderInv, Arrived, n_vars
    <3>3. ASSUME NEW p, Iterate(p)
          PROVE  Arrived' \subseteq Arrived \cup {p}
      <4>1. processed' \subseteq processed \cup {p} /\ old_pck' \in {p, NoPck}
        BY <3>3 DEF Iterate, SameFrame, OtherFrame, UseSlice
      <4> QED BY <4>1 DEF Arrived
    <3>4. CASE Receive
      <4>1. PICK p \in net : Deliver(p) /\ Iterate(p)
        BY <3>4 DEF Receive
      <4>2. Arrived' \subseteq Arrived \cup {p}
        BY <3>3, <4>1
      <4>3. net' = net \ {p} /\ \A q \in net : p.n <= q.n
        BY <4>1 DEF Deliver, Deliverable
      <4>4. \A q \in net' : p.n < q.n
        BY <1>1, <4>1, <4>3 DEF OrderInv, Pkts
      <4> QED BY <4>2, <4>3, <4>4 DEF OrderInv
    <3>5. CASE Reuse
      <4>1. Iterate(old_pck) /\ old_pck \in Arrived /\ net' = net
        BY <3>5 DEF Reuse, Arrived, n_vars
      <4>2. Arrived' \subseteq Arrived
        BY <3>3, <4>1
      <4> QED BY <4>1, <4>2 DEF OrderInv
    <3> QED BY <1>5, <3>1, <3>2, <3>4, <3>5 DEF Receiver
  <2> QED BY <2>1, <2>2, <2>3 DEF OrderInv
<1>6. CASE Bounded \/ UNCHANGED vars
  BY <1>6 DEF Bounded, vars, s_vars, n_vars, r_vars, h_vars, OrderInv, Pkts,
              Arrived
<1> QED BY <1>2, <1>3, <1>4, <1>5, <1>6 DEF Next, Sender

LEMMA IterateShown ==
  ASSUME TypeInv, ControlInv, StampInv, PictureInv, OrderInv, ShownInv,
         NEW p \in Pkts, r_pc = "loop", Iterate(p),
         IF old_pck # NoPck THEN p = old_pck ELSE p \in net
  PROVE  ShownInv'
<1> DEFINE ts == IF r_framenum < 0 THEN p.timestamp ELSE curr_timestamp
<1>1. SameFrame(p, ts) \/ OtherFrame(p, ts)
  BY DEF Iterate
<1>2. displayed' = displayed
  BY DEF Iterate
<1>3. /\ processed \subseteq Pkts /\ processed \subseteq Arrived
      /\ r_framenum \in Int /\ cur_pic \in Int /\ displayed \subseteq Int
      /\ \A q \in Pkts : q.frame \in Nat /\ q.n \in Nat /\ q.timestamp \in Nat
  BY PktsType, ParamsAssumption DEF Pkts, Arrived, TypeInv, TypeOK, Packet
<1>4. \A q, r \in Pkts : q.timestamp = r.timestamp <=> q.frame = r.frame
  <2> SUFFICES ASSUME NEW q \in Pkts, NEW r \in Pkts
               PROVE  q.timestamp = r.timestamp <=> q.frame = r.frame
    OBVIOUS
  <2>1. q.frame < r.frame \/ r.frame < q.frame \/ q.frame = r.frame
    BY <1>3
  <2>2. q.frame < r.frame => q.timestamp < r.timestamp
    BY DEF StampInv
  <2>3. r.frame < q.frame => r.timestamp < q.timestamp
    BY DEF StampInv
  <2>4. q.frame = r.frame => q.timestamp = r.timestamp
    BY DEF StampInv
  <2> QED BY <1>3, <2>1, <2>2, <2>3, <2>4
\* A packet from the network is not older than the current frame.
<1>5. ASSUME r_framenum >= 0, old_pck = NoPck
      PROVE  /\ cur_pic <= p.frame
             /\ p.timestamp = curr_timestamp <=> p.frame = cur_pic
             /\ frame_shown => p.frame # cur_pic
  <2>1. PICK q \in processed : q.frame = cur_pic /\ q.timestamp = curr_timestamp
    BY <1>5 DEF PictureInv
  <2>2. q.n < p.n /\ q.frame <= p.frame
    BY <1>3, <1>5, <2>1 DEF OrderInv
  <2>3. frame_shown => p.frame # cur_pic
    <3> SUFFICES ASSUME frame_shown, p.frame = cur_pic PROVE FALSE
      OBVIOUS
    <3>1. PICK m \in processed : m.frame = cur_pic /\ m.marker
      BY <1>5 DEF ShownInv
    <3>2. m.n < p.n /\ p.n <= m.n
      BY <1>3, <1>5, <3>1 DEF OrderInv
    <3> QED BY <1>3, <3>1, <3>2
  <2> QED BY <1>3, <1>4, <2>1, <2>2, <2>3
<1>6. CASE SameFrame(p, ts)
  <2>1. /\ p.timestamp = ts /\ old_pck' = NoPck
        /\ cur_pic' = p.frame /\ processed' = processed \cup {p}
        /\ IF p.marker THEN r_pc' = "show" ELSE r_pc' = "loop" /\ ~frame_shown'
    BY <1>6 DEF SameFrame, UseSlice
  <2>2. \A g \in displayed : g < p.frame
    <3>1. CASE old_pck # NoPck
      BY <1>3, <3>1 DEF ShownInv
    <3>2. CASE r_framenum < 0
      <4>1. cur_pic < p.frame
        BY <1>3, <3>2 DEF PictureInv, Blank
      <4> QED BY <1>3, <4>1 DEF ShownInv
    <3>3. CASE r_framenum >= 0 /\ old_pck = NoPck
      <4>1. p.frame = cur_pic /\ ~frame_shown
        BY <1>3, <1>5, <2>1, <3>3
      <4> QED BY <3>3, <4>1 DEF ShownInv, Between
    <3> QED BY <1>3, <3>1, <3>2, <3>3
  <2>3. \A g \in displayed : g <= p.frame
    BY <1>3, <2>2
  <2>4. p.marker => \E q \in processed' : q.frame = cur_pic' /\ q.marker
    BY <2>1
  <2> QED BY <1>2, <2>1, <2>2, <2>3, <2>4 DEF ShownInv
<1>7. CASE OtherFrame(p, ts)
  <2>1. /\ p.timestamp # ts /\ old_pck' = p /\ p # NoPck
        /\ UNCHANGED <<cur_pic, processed>>
    BY <1>7, PktsType, NoPckIsNone DEF OtherFrame
  <2>2. r_framenum >= 0 /\ old_pck = NoPck
    BY <1>3, <2>1 DEF ControlInv, KeptPacketIsCurrent
  <2>3. cur_pic < p.frame
    BY <1>3, <1>5, <2>1, <2>2
  <2>4. Between' = Between
    BY <1>7, <2>1, <2>2 DEF OtherFrame, Between, Unshown
  <2> QED BY <1>2, <2>1, <2>3, <2>4 DEF ShownInv
<1> QED BY <1>1, <1>6, <1>7

LEMMA ShownInvStep ==
  /\ TypeInv /\ ControlInv /\ StampInv /\ PictureInv /\ OrderInv /\ ShownInv
  /\ [Next]_vars
  => ShownInv'
<1> SUFFICES ASSUME TypeInv, ControlInv, StampInv, PictureInv, OrderInv,
                    ShownInv, [Next]_vars
             PROVE  ShownInv'
  OBVIOUS
<1>1. CASE Receive
  <2>1. PICK p \in net : Iterate(p)
    BY <1>1 DEF Receive
  <2> QED BY <1>1, <2>1, IterateShown DEF Receive, Pkts
<1>2. CASE Reuse
  BY <1>2, IterateShown DEF Reuse, Pkts, Arrived
<1>3. CASE Show
  <2>1. /\ r_pc = "show" /\ r_pc' = "loop" /\ frame_shown'
        /\ displayed' = displayed \cup {cur_pic}
        /\ UNCHANGED <<cur_pic, old_pck, processed>>
    BY <1>3 DEF Show
  <2>2. cur_pic \in Int
    BY DEF TypeInv, TypeOK
  <2> QED BY <2>1, <2>2 DEF ShownInv, Between
<1>4. CASE UNCHANGED <<r_vars, h_vars>>
  <2>1. UNCHANGED <<r_pc, frame_shown, processed, cur_pic, old_pck, displayed>>
    BY <1>4 DEF r_vars, h_vars
  <2>2. Between' <=> Between
    BY <2>1 DEF Between
  <2> QED BY <2>1, <2>2 DEF ShownInv
<1> QED
  BY <1>1, <1>2, <1>3, <1>4
  DEF Next, Sender, Receiver, SkipFrame, EncodeFrame, SendSlice, FinishFrame,
      Restart, Lose, Bounded, vars

\* Everything that is invariant when the network keeps the order.
StreamInv == /\ TypeInv /\ ControlInv /\ ClockInv /\ StampInv /\ PictureInv
             /\ OrderInv /\ ShownInv

LEMMA StreamInvariant ==
  ASSUME Distinct, Ordered PROVE Spec => []StreamInv
<1>1. Init => OrderInv /\ ShownInv
  BY DEF Init, SenderInit, ReceiverInit, OrderInv, ShownInv, Pkts, Arrived, Between
<1>2. TypeInv /\ StampInv /\ OrderInv /\ [Next]_vars => OrderInv'
  BY OrderInvStep
<1> QED BY <1>1, <1>2, PictureInvariant, ShownInvStep, PTL DEF Spec, StreamInv

\* On a network that keeps the order every frame is shown at most once, and
\* only after the frames older than it: frame_shown and the kept packet make
\* the marker bit and the change of timestamp report the end of a frame once.
THEOREM AlwaysShownOnceInOrder ==
  ASSUME Distinct, Ordered PROVE Spec => []ShownOnceInOrder
<1>1. ShownInv => ShownOnceInOrder
  BY DEF ShownInv, ShownOnceInOrder, Between
<1> QED BY <1>1, StreamInvariant, PTL DEF StreamInv

\* What a step of the stream is to the display.
LEMMA DisplayStep == StreamInv /\ [Next]_vars => [FD!DNext]_(FD!dvars)
<1> DEFINE captured == pic + (IF s_pc = "sending" THEN 1 ELSE 0)
<1> SUFFICES ASSUME StreamInv, [Next]_vars PROVE [FD!DNext]_(FD!dvars)
  OBVIOUS
<1>1. /\ pic \in Nat /\ s_pc \in {"idle", "sending"}
      /\ cur_pic \in Int /\ stat.frames \in Nat
  BY DEF StreamInv, TypeInv, TypeOK
<1>2. CASE SkipFrame \/ EncodeFrame
  <2>1. captured' = captured + 1
    BY <1>1, <1>2 DEF SkipFrame, EncodeFrame, AdvanceFrame
  <2>2. UNCHANGED <<displayed, stat>>
    BY <1>2 DEF SkipFrame, EncodeFrame, r_vars, h_vars
  <2> QED BY <2>1, <2>2 DEF FD!DNext, FD!Capture
<1>3. CASE Show
  <2>1. r_pc = "show" /\ ~Between /\ r_framenum >= 0
    BY <1>3 DEF Show, Between, StreamInv, ControlInv, TypeInv, TypeOK
  <2>2. PICK p \in processed : p.frame = cur_pic
    BY <2>1 DEF StreamInv, PictureInv
  <2>3. p \in Pkts /\ p.frame \in Nat
    BY <2>2, PktsType DEF Pkts, Arrived, StreamInv, Packet
  <2>4. cur_pic \in 0 .. captured - 1
    <3>1. p.frame <= pic /\ (s_pc = "idle" => p.frame < pic)
      BY <2>3 DEF StreamInv, StampInv
    <3> QED BY <1>1, <2>2, <2>3, <3>1
  <2>5. \A g \in displayed : g < cur_pic
    BY <2>1 DEF StreamInv, ShownInv
  <2>6. /\ displayed' = displayed \cup {cur_pic}
        /\ stat'.frames = stat.frames + 1 /\ captured' = captured
    BY <1>3 DEF Show, s_vars, StreamInv, TypeInv, TypeOK
  <2> QED BY <2>4, <2>5, <2>6 DEF FD!DNext, FD!Display
<1>4. CASE Receive \/ Reuse
  <2>1. PICK p : Iterate(p)
    BY <1>4 DEF Receive, Reuse
  <2>2. displayed' = displayed /\ stat'.frames = stat.frames
    BY <2>1 DEF Iterate, SameFrame, OtherFrame, UseSlice, StreamInv, TypeInv,
                TypeOK
  <2>3. captured' = captured
    BY <1>4 DEF Receive, Reuse, s_vars
  <2> QED BY <2>2, <2>3 DEF FD!dvars
<1>5. CASE SendSlice \/ FinishFrame \/ Restart
  <2>1. captured' = captured
    BY <1>1, <1>5 DEF SendSlice, FinishFrame, Restart, AdvanceFrame
  <2>2. UNCHANGED <<displayed, stat>>
    BY <1>5 DEF SendSlice, FinishFrame, Restart, r_vars, h_vars
  <2> QED BY <2>1, <2>2 DEF FD!dvars
<1>6. CASE Lose \/ Bounded \/ UNCHANGED vars
  BY <1>6 DEF Lose, Bounded, vars, s_vars, r_vars, h_vars, FD!dvars
<1> QED BY <1>2, <1>3, <1>4, <1>5, <1>6 DEF Next, Sender, Receiver

\* The whole video path implements the abstract specification of the display.
THEOREM StreamRefinesDisplay ==
  ASSUME Distinct, Ordered PROVE Spec => ImplementsFrameDisplay
<1>1. Init => FD!DInit
  BY DEF Init, SenderInit, ReceiverInit, FD!DInit
<1> QED
  BY <1>1, DisplayStep, StreamInvariant, PTL
  DEF Spec, ImplementsFrameDisplay, FD!DSpec

-----------------------------------------------------------------------------
(* No packet that arrived is dropped.                                      *)

LEMMA IterateArrived ==
  ASSUME NEW p \in Packet, Iterate(p), old_pck # NoPck => p = old_pck
  PROVE  Arrived' = Arrived \cup {p}
<1> DEFINE ts == IF r_framenum < 0 THEN p.timestamp ELSE curr_timestamp
<1>1. SameFrame(p, ts) \/ OtherFrame(p, ts)
  BY DEF Iterate
<1>2. CASE SameFrame(p, ts)
  BY <1>2 DEF SameFrame, UseSlice, Arrived
<1>3. CASE OtherFrame(p, ts)
  BY <1>3, NoPckIsNone DEF OtherFrame, Arrived
<1> QED BY <1>1, <1>2, <1>3

LEMMA UsedStep == TypeInv /\ EveryPacketUsed /\ [Next]_vars => EveryPacketUsed'
<1> SUFFICES ASSUME TypeInv, EveryPacketUsed, [Next]_vars, ~Lossy
             PROVE  \A n \in 0 .. sent' - 1 : \E p \in Pkts' : p.n = n
  BY DEF EveryPacketUsed, Pkts
<1>0. /\ sent \in Nat /\ net \subseteq Packet
      /\ \A n \in 0 .. sent - 1 : \E p \in Pkts : p.n = n
  BY DEF TypeInv, TypeOK, EveryPacketUsed, Pkts
<1>1. CASE SendSlice
  <2>1. /\ sent' = sent + 1 /\ net' = net \cup {Header} /\ Header.n = sent
        /\ UNCHANGED <<processed, old_pck>>
    BY <1>1 DEF SendSlice, Header, JpgHeader, RawHeader, r_vars, h_vars
  <2>2. Pkts' = Pkts \cup {Header}
    BY <2>1 DEF Pkts, Arrived
  <2>3. ASSUME NEW n \in 0 .. sent' - 1 PROVE n \in 0 .. sent - 1 \/ n = sent
    BY <1>0, <2>1
  <2> QED BY <1>0, <2>1, <2>2, <2>3
<1>2. CASE Receive
  <2>1. PICK p \in net : Deliver(p) /\ Iterate(p)
    BY <1>2 DEF Receive
  <2>2. Arrived' = Arrived \cup {p}
    BY <1>0, <1>2, <2>1, IterateArrived DEF Receive
  <2>3. net \ {p} \subseteq net' /\ sent' = sent
    BY <1>2, <2>1 DEF Deliver, Receive, s_vars
  <2>4. Pkts \subseteq Pkts'
    BY <2>2, <2>3 DEF Pkts
  <2> QED BY <1>0, <2>3, <2>4
<1>3. CASE Reuse
  <2>1. old_pck \in Packet
    BY <1>3 DEF Reuse, TypeInv, TypeOK
  <2>2. Arrived' = Arrived \cup {old_pck}
    BY <1>3, <2>1, IterateArrived DEF Reuse
  <2>3. net' = net /\ sent' = sent
    BY <1>3 DEF Reuse, s_vars, n_vars
  <2> QED BY <1>0, <2>2, <2>3 DEF Pkts
<1>4. CASE UNCHANGED <<net, processed, old_pck, sent>>
  BY <1>0, <1>4 DEF Pkts, Arrived
<1>5. SkipFrame \/ EncodeFrame \/ FinishFrame \/ Restart \/ Show \/ Bounded
        \/ UNCHANGED vars => UNCHANGED <<net, processed, old_pck, sent>>
  BY DEF SkipFrame, EncodeFrame, FinishFrame, Restart, Show, Bounded, vars, s_vars,
         n_vars, r_vars, h_vars
<1>6. ~Lose
  BY DEF Lose
<1> QED BY <1>1, <1>2, <1>3, <1>4, <1>5, <1>6 DEF Next, Sender, Receiver

\* On a network that loses nothing the receiver uses or keeps every packet,
\* however they are reordered and duplicated: the one slot of old_pck suffices.
THEOREM EveryPacketAlwaysUsed == Spec => []EveryPacketUsed
<1>1. Init => EveryPacketUsed
  BY DEF Init, SenderInit, EveryPacketUsed
<1> QED BY <1>1, TypeInvInit, TypeInvStep, UsedStep, PTL DEF Spec

-----------------------------------------------------------------------------
(* The picture is complete.                                                *)

\* The pixels of frame f are those of its valid slices that were used.
Complete(f) ==
  \A i \in Slices :
    videoFrame[i] = f <=>
      \E p \in processed : p.frame = f /\ p.slicenum = i /\ p.valid

CompleteInv == r_framenum >= 0 /\ ~Between => Complete(cur_pic)

\* A slice that is used is of the frame under construction, or the first of a
\* frame younger than all that were shown.
LEMMA FrameBegins ==
  ASSUME StreamInv, StreamInv', NEW p \in Packet,
         displayed' = displayed, processed' = processed \cup {p},
         cur_pic' = p.frame, ~Between'
  PROVE  /\ \A g \in displayed : g < p.frame
         /\ r_framenum >= 0 /\ ~Between => cur_pic = p.frame
         /\ r_framenum < 0 \/ Between => \A q \in processed : q.frame # p.frame
<1>1. /\ \A q \in processed' : q.frame = p.frame \/ q.frame \in displayed
      /\ \A g \in displayed : g < p.frame
  BY DEF StreamInv, PictureInv, NoFrameSkipped, ShownInv
<1>2. /\ p.frame \in Nat /\ cur_pic \in Nat \cup {-1} /\ r_framenum \in Int
      /\ displayed \subseteq Int
      /\ \A q \in processed : q.frame \in Nat
  BY ParamsAssumption DEF Packet, StreamInv, TypeInv, TypeOK
<1>3. ASSUME r_framenum >= 0, ~Between PROVE cur_pic = p.frame
  <2>1. PICK q \in processed : q.frame = cur_pic
    BY <1>3 DEF StreamInv, PictureInv
  <2>2. cur_pic \notin displayed
    <3>1. \A g \in displayed : g < cur_pic
      BY <1>3 DEF StreamInv, ShownInv
    <3> QED BY <1>2, <3>1
  <2> QED BY <1>1, <2>1, <2>2
<1>4. ASSUME r_framenum < 0 \/ Between
      PROVE  \A q \in processed : q.frame # p.frame
  <2>1. CASE r_framenum < 0
    BY <2>1 DEF StreamInv, ControlInv
  <2>2. CASE r_framenum >= 0 /\ Between
    <3>1. \A q \in processed : q.frame \in displayed
      BY <2>2 DEF StreamInv, PictureInv, NoFrameSkipped
    <3> QED BY <1>1, <1>2, <3>1
  <2> QED BY <1>2, <1>4, <2>1, <2>2
<1> QED BY <1>1, <1>3, <1>4

\* Before a slice of frame p.frame is used, the same holds of it.
LEMMA CompleteBefore ==
  ASSUME StreamInv, StreamInv', CompleteInv, NEW p \in Packet,
         displayed' = displayed, processed' = processed \cup {p},
         cur_pic' = p.frame, ~Between'
  PROVE  Complete(p.frame)
<1>1. p.frame \in Nat /\ r_framenum \in Int
  BY ParamsAssumption DEF Packet, StreamInv, TypeInv, TypeOK
<1>2. CASE r_framenum >= 0 /\ ~Between
  BY <1>2, FrameBegins DEF CompleteInv
<1>3. CASE r_framenum < 0 \/ Between
  <2>1. \A i \in Slices : videoFrame[i] \in {Blank, Smeared}
    BY <1>3 DEF StreamInv, PictureInv, ControlInv, Between
  <2>2. \A q \in processed : q.frame # p.frame
    BY <1>3, FrameBegins
  <2> QED BY <1>1, <2>1, <2>2 DEF Complete, Blank, Smeared
<1> QED BY <1>1, <1>2, <1>3

LEMMA IterateComplete ==
  ASSUME StreamInv, StreamInv', CompleteInv, NEW p \in Packet, r_pc = "loop",
         Iterate(p), old_pck # NoPck => p = old_pck
  PROVE  CompleteInv'
<1> DEFINE ts == IF r_framenum < 0 THEN p.timestamp ELSE curr_timestamp
<1>1. SameFrame(p, ts) \/ OtherFrame(p, ts)
  BY DEF Iterate
<1>2. CASE SameFrame(p, ts)
  <2>1. /\ processed' = processed \cup {p} /\ cur_pic' = p.frame
        /\ displayed' = displayed
        /\ videoFrame' = IF p.valid
                         THEN [videoFrame EXCEPT ![p.slicenum] = p.frame]
                         ELSE videoFrame
    BY <1>2 DEF SameFrame, UseSlice, Iterate
  <2>2. ~Between'
    BY <1>2 DEF SameFrame, Between
  <2>3. Complete(p.frame)
    BY <2>1, <2>2, CompleteBefore
  <2>4. p.slicenum \in Slices /\ videoFrame \in [Slices -> Nat \cup {Blank, Smeared}]
    BY DEF Packet, StreamInv, TypeInv, TypeOK
  <2>5. ASSUME NEW i \in Slices
        PROVE  videoFrame'[i] = p.frame <=>
                 \E q \in processed' : q.frame = p.frame /\ q.slicenum = i /\ q.valid
    <3>1. CASE p.valid /\ p.slicenum = i
      BY <2>1, <2>4, <3>1
    <3>2. CASE ~(p.valid /\ p.slicenum = i)
      <4>1. videoFrame'[i] = videoFrame[i]
        BY <2>1, <2>4, <3>2
      <4> QED BY <2>1, <2>3, <3>2, <4>1 DEF Complete
    <3> QED BY <3>1, <3>2
  <2> QED BY <2>1, <2>5 DEF CompleteInv, Complete
<1>3. CASE OtherFrame(p, ts)
  <2>1. /\ UNCHANGED <<r_framenum, videoFrame, cur_pic, processed>>
        /\ old_pck' = p /\ p # NoPck /\ p.timestamp # ts
    BY <1>3, NoPckIsNone DEF OtherFrame
  <2>2. ~Between' => ~Between \/ r_framenum < 0
    <3>1. CASE old_pck # NoPck
      BY <2>1, <3>1, <1>3 DEF OtherFrame, Between, Unshown, StreamInv, ControlInv,
                        KeptPacketIsCurrent
    <3>2. CASE old_pck = NoPck
      BY <2>1, <3>2, <1>3 DEF OtherFrame, Between, Unshown
    <3> QED BY <3>1, <3>2
  <2>3. r_framenum \in Int
    BY ParamsAssumption DEF StreamInv, TypeInv, TypeOK
  <2>4. Complete(cur_pic)' <=> Complete(cur_pic)
    BY <2>1 DEF Complete
  <2> QED BY <2>1, <2>2, <2>3, <2>4 DEF CompleteInv
<1> QED BY <1>1, <1>2, <1>3

LEMMA CompleteInvStep ==
  StreamInv /\ StreamInv' /\ CompleteInv /\ [Next]_vars => CompleteInv'
<1> SUFFICES ASSUME StreamInv, StreamInv', CompleteInv, [Next]_vars
             PROVE  CompleteInv'
  OBVIOUS
<1>1. CASE Receive
  <2>1. PICK p \in net : Iterate(p)
    BY <1>1 DEF Receive
  <2>2. p \in Packet
    BY <2>1 DEF StreamInv, TypeInv, TypeOK
  <2> QED BY <1>1, <2>1, <2>2, IterateComplete DEF Receive
<1>2. CASE Reuse
  <2>1. old_pck \in Packet
    BY <1>2 DEF Reuse, StreamInv, TypeInv, TypeOK
  <2> QED BY <1>2, <2>1, IterateComplete DEF Reuse
<1>3. CASE Show
  BY <1>3 DEF Show, CompleteInv, Between
<1>4. CASE UNCHANGED <<r_vars, h_vars>>
  <2>1. UNCHANGED <<r_pc, frame_shown, old_pck, r_framenum, cur_pic, processed,
                    videoFrame>>
    BY <1>4 DEF r_vars, h_vars
  <2>2. (Between' <=> Between) /\ (Complete(cur_pic)' <=> Complete(cur_pic))
    BY <2>1 DEF Between, Complete
  <2> QED BY <2>1, <2>2 DEF CompleteInv
<1> QED
  BY <1>1, <1>2, <1>3, <1>4
  DEF Next, Sender, Receiver, SkipFrame, EncodeFrame, SendSlice, FinishFrame,
      Restart, Lose, Bounded, vars

\* On a network that keeps the order the picture on the screen has every valid
\* slice of its frame that arrived, each in its place, and only those.
THEOREM PictureAlwaysComplete ==
  ASSUME Distinct, Ordered PROVE Spec => []PictureComplete
<1>1. Init => CompleteInv
  BY DEF Init, ReceiverInit, CompleteInv
<1>2. StreamInv /\ CompleteInv => PictureComplete
  BY DEF StreamInv, ControlInv, TypeInv, TypeOK, CompleteInv, Complete, Between,
         PictureComplete
<1> QED BY <1>1, <1>2, StreamInvariant, CompleteInvStep, PTL DEF Spec

-----------------------------------------------------------------------------
(* Both ends count the same slices that did not fit a packet.              *)

\* The transmission of which InvalidConserved speaks.
Agreeing == JpgFlag /\ ~Lossy /\ Ordered /\ MaxRestarts = 0

OnTheWay == net \cup (Arrived \ processed)
Waiting == {p \in OnTheWay : ~p.valid}
Uncounted == IF s_pc = "sending" THEN {i \in Slices : i < k /\ ~valid[i]} ELSE {}

InvalidInv ==
  /\ IsFiniteSet(OnTheWay)
  /\ stat.invalid + Cardinality(Waiting) = s_invalid + Cardinality(Uncounted)

\* On a network that keeps the order no packet is used twice.
LEMMA UsedOnce ==
  ASSUME StreamInv, NEW p \in Packet, p \in net \/ p = old_pck
  PROVE  p \notin processed
<1>1. CASE p \in net
  <2> SUFFICES ASSUME p \in processed PROVE FALSE
    OBVIOUS
  <2>1. p.n < p.n
    BY <1>1 DEF StreamInv, OrderInv, Arrived
  <2> QED BY <2>1 DEF Packet
<1>2. CASE p = old_pck
  <2> SUFFICES ASSUME p \in processed PROVE FALSE
    OBVIOUS
  <2>1. p.frame = cur_pic \/ p.frame \in displayed
    BY DEF StreamInv, PictureInv, NoFrameSkipped
  <2>2. cur_pic < p.frame
    BY <1>2, NoPckIsNone DEF StreamInv, ShownInv
  <2>3. \A g \in displayed : g <= cur_pic
    BY DEF StreamInv, ShownInv
  <2>4. p.frame \in Int /\ cur_pic \in Int
    BY DEF Packet, StreamInv, TypeInv, TypeOK
  <2> QED BY <2>1, <2>2, <2>3, <2>4
<1> QED BY <1>1, <1>2

\* An iteration on a packet takes it off the way, or keeps it there.
LEMMA IterateOnTheWay ==
  ASSUME StreamInv, NEW p \in Packet, r_pc = "loop", Iterate(p),
         \/ old_pck = NoPck /\ p \in net /\ net' = net \ {p}
         \/ old_pck = p /\ net' = net
  PROVE  \/ /\ p \in OnTheWay /\ OnTheWay' = OnTheWay \ {p}
            /\ stat'.invalid = stat.invalid + (IF p.valid THEN 0 ELSE 1)
         \/ OnTheWay' = OnTheWay /\ stat'.invalid = stat.invalid
<1> DEFINE ts == IF r_framenum < 0 THEN p.timestamp ELSE curr_timestamp
<1>1. SameFrame(p, ts) \/ OtherFrame(p, ts)
  BY DEF Iterate
<1>2. p # NoPck
  BY NoPckIsNone
<1>3. \A q \in Arrived : q \in net => FALSE
  <2> SUFFICES ASSUME NEW q \in Arrived, q \in net PROVE FALSE
    OBVIOUS
  <2>1. q \in Packet
    BY DEF StreamInv, TypeInv, TypeOK
  <2>2. q.n < q.n
    BY DEF StreamInv, OrderInv
  <2> QED BY <2>1, <2>2 DEF Packet
<1>4. p \notin processed
  BY UsedOnce
<1>5. CASE SameFrame(p, ts)
  <2>1. /\ processed' = processed \cup {p} /\ old_pck' = NoPck
        /\ stat' = IF p.valid THEN stat ELSE [stat EXCEPT !.invalid = @ + 1]
    BY <1>5 DEF SameFrame, UseSlice
  <2>2. stat'.invalid = stat.invalid + (IF p.valid THEN 0 ELSE 1)
    BY <2>1 DEF StreamInv, TypeInv, TypeOK
  <2>3. OnTheWay' = net'
    BY <2>1 DEF OnTheWay, Arrived
  <2>4. CASE old_pck = NoPck /\ p \in net /\ net' = net \ {p}
    BY <2>2, <2>3, <2>4 DEF OnTheWay, Arrived
  <2>5. CASE old_pck = p /\ net' = net
    <3>1. OnTheWay = net \cup {p} /\ p \notin net
      BY <1>2, <1>3, <1>4, <2>5 DEF OnTheWay, Arrived
    <3> QED BY <2>2, <2>3, <2>5, <3>1
  <2> QED BY <2>4, <2>5
<1>6. CASE OtherFrame(p, ts)
  <2>1. /\ p.timestamp # ts /\ old_pck' = p
        /\ UNCHANGED <<r_framenum, stat, processed>>
    BY <1>6 DEF OtherFrame
  <2>2. old_pck = NoPck
    BY <1>2, <2>1 DEF StreamInv, ControlInv, KeptPacketIsCurrent
  <2>3. p \in net /\ net' = net \ {p}
    BY <1>2, <2>2
  <2>4. OnTheWay = net /\ OnTheWay' = net' \cup {p}
    BY <1>2, <1>4, <2>1, <2>2 DEF OnTheWay, Arrived
  <2> QED BY <2>1, <2>3, <2>4
<1> QED BY <1>1, <1>5, <1>6

\* Then the sum of what is counted and what waits stays the same.
LEMMA WaitingStep ==
  ASSUME IsFiniteSet(OnTheWay), stat.invalid \in Nat, NEW p,
         \/ /\ p \in OnTheWay /\ OnTheWay' = OnTheWay \ {p}
            /\ stat'.invalid = stat.invalid + (IF p.valid THEN 0 ELSE 1)
         \/ OnTheWay' = OnTheWay /\ stat'.invalid = stat.invalid
  PROVE  /\ IsFiniteSet(OnTheWay')
         /\ stat'.invalid + Cardinality(Waiting') = stat.invalid + Cardinality(Waiting)
<1>1. IsFiniteSet(Waiting) /\ Cardinality(Waiting) \in Nat
  <2>1. Waiting \in SUBSET OnTheWay
    BY DEF Waiting
  <2> QED BY <2>1, FS_Subset, FS_CardinalityType
<1>2. CASE OnTheWay' = OnTheWay /\ stat'.invalid = stat.invalid
  BY <1>2 DEF Waiting
<1>3. CASE /\ p \in OnTheWay /\ OnTheWay' = OnTheWay \ {p}
           /\ stat'.invalid = stat.invalid + (IF p.valid THEN 0 ELSE 1)
  <2>1. IsFiniteSet(OnTheWay')
    BY <1>3, FS_RemoveElement
  <2>2. CASE p.valid
    <3>1. Waiting' = Waiting
      BY <1>3, <2>2 DEF Waiting
    <3> QED BY <1>1, <1>3, <2>1, <2>2, <3>1
  <2>3. CASE ~p.valid
    <3>1. Waiting' = Waiting \ {p} /\ p \in Waiting
      BY <1>3, <2>3 DEF Waiting
    <3>2. Cardinality(Waiting') = Cardinality(Waiting) - 1
      BY <1>1, <3>1, FS_RemoveElement
    <3> QED BY <1>1, <1>3, <2>1, <2>3, <3>2
  <2> QED BY <2>2, <2>3
<1> QED BY <1>2, <1>3

LEMMA UncountedFinite ==
  IsFiniteSet(Uncounted) /\ Cardinality(Uncounted) \in Nat
<1>1. IsFiniteSet(Slices)
  BY ParamsAssumption, FS_Interval DEF Slices
<1>2. Uncounted \in SUBSET Slices
  BY DEF Uncounted
<1>3. IsFiniteSet(Uncounted)
  BY <1>1, <1>2, FS_Subset
<1> QED BY <1>3, FS_CardinalityType

LEMMA SendInvalid ==
  ASSUME StreamInv, InvalidInv, Agreeing, SendSlice PROVE InvalidInv'
<1>1. /\ s_pc = "sending" /\ k \in 0 .. NPck /\ k < NPck /\ k' = k + 1
      /\ net' = net \cup {Header}
      /\ UNCHANGED <<s_pc, valid, s_invalid, processed, old_pck, stat>>
  BY DEF SendSlice, Agreeing, StreamInv, TypeInv, TypeOK, r_vars, h_vars
<1>2. (Header.valid <=> valid[k]) /\ Header.n = sent /\ sent \in Nat
  BY DEF Header, JpgHeader, Agreeing, StreamInv, TypeInv, TypeOK
<1>3. Header \notin OnTheWay /\ OnTheWay' = OnTheWay \cup {Header}
  <2>1. Header \notin Pkts
    BY <1>2 DEF StreamInv, OrderInv
  <2>2. OnTheWay \subseteq Pkts /\ Header \notin processed
    BY <2>1 DEF OnTheWay, Pkts, Arrived
  <2>3. OnTheWay' = OnTheWay \cup {Header}
    BY <1>1 DEF OnTheWay, Arrived
  <2> QED BY <2>1, <2>2, <2>3
<1>4. /\ IsFiniteSet(OnTheWay) /\ IsFiniteSet(OnTheWay')
      /\ IsFiniteSet(Waiting) /\ Cardinality(Waiting) \in Nat
  <2>1. Waiting \in SUBSET OnTheWay
    BY DEF Waiting
  <2> QED BY <1>3, <2>1, FS_Subset, FS_CardinalityType, FS_AddElement DEF InvalidInv
<1>5. k \in Slices /\ k \in Int /\ Slices \subseteq Int
  BY <1>1, ParamsAssumption DEF Slices
<1>6. IsFiniteSet(Uncounted) /\ Cardinality(Uncounted) \in Nat
  BY UncountedFinite
<1>7. /\ \A i \in Slices : i < k' <=> (i < k \/ i = k)
      /\ ~(k < k)
  BY <1>1, <1>5
<1>8. /\ Uncounted = {i \in Slices : i < k /\ ~valid[i]}
      /\ Uncounted' = {i \in Slices : i < k' /\ ~valid[i]}
  BY <1>1 DEF Uncounted
<1>9. CASE valid[k]
  <2>1. Waiting' = Waiting
    <3>1. Header.valid
      BY <1>2, <1>9
    <3> QED BY <1>3, <3>1, Zenon DEF Waiting
  <2>2. Uncounted' = Uncounted
    BY <1>5, <1>9, <1>7, <1>8
  <2> QED BY <1>1, <1>4, <2>1, <2>2 DEF InvalidInv
<1>10. CASE ~valid[k]
  <2>1. Waiting' = Waiting \cup {Header} /\ Header \notin Waiting
    <3>1. ~Header.valid
      BY <1>2, <1>10
    <3> QED BY <1>3, <3>1, Zenon DEF Waiting
  <2>2. Uncounted' = Uncounted \cup {k} /\ k \notin Uncounted
    BY <1>5, <1>10, <1>7, <1>8
  <2>3. /\ Cardinality(Waiting') = Cardinality(Waiting) + 1
        /\ Cardinality(Uncounted') = Cardinality(Uncounted) + 1
    BY <1>4, <1>6, <2>1, <2>2, FS_AddElement
  <2>4. s_invalid \in Nat /\ stat.invalid \in Nat
    BY DEF StreamInv, TypeInv, TypeOK
  <2> QED BY <1>1, <1>4, <1>6, <2>3, <2>4 DEF InvalidInv
<1> QED BY <1>9, <1>10

LEMMA InvalidInvStep ==
  ASSUME Agreeing PROVE StreamInv /\ InvalidInv /\ [Next]_vars => InvalidInv'
<1> SUFFICES ASSUME StreamInv, InvalidInv, [Next]_vars PROVE InvalidInv'
  OBVIOUS
<1>0. /\ IsFiniteSet(OnTheWay)
      /\ stat.invalid + Cardinality(Waiting) = s_invalid + Cardinality(Uncounted)
      /\ stat.invalid \in Nat /\ s_invalid \in Nat
  BY DEF InvalidInv, StreamInv, TypeInv, TypeOK
<1>1. CASE SendSlice
  BY <1>1, SendInvalid
<1>2. CASE UNCHANGED <<net, processed, old_pck, stat, s_invalid, Uncounted>>
  BY <1>0, <1>2 DEF InvalidInv, Waiting, OnTheWay, Arrived
<1>3. CASE SkipFrame \/ EncodeFrame
  <2>1. Uncounted = {} /\ UNCHANGED <<net, processed, old_pck, stat, s_invalid>>
    BY <1>3 DEF SkipFrame, EncodeFrame, Uncounted, n_vars, r_vars, h_vars
  <2>2. Uncounted' = {}
    <3>1. CASE SkipFrame
      BY <3>1 DEF SkipFrame, Uncounted
    <3>2. CASE EncodeFrame
      BY <3>2 DEF EncodeFrame, Uncounted, Slices
    <3> QED BY <1>3, <3>1, <3>2
  <2> QED BY <1>2, <2>1, <2>2
<1>4. CASE FinishFrame
  <2>1. /\ Uncounted' = {} /\ UNCHANGED <<net, processed, old_pck, stat>>
        /\ s_invalid' = s_invalid + Cardinality({i \in Entries : ~valid[i]})
    BY <1>4 DEF FinishFrame, Uncounted, n_vars, r_vars, h_vars
  <2>2. Uncounted = {i \in Entries : ~valid[i]}
    <3>1. Entries = Slices /\ \A i \in Slices : i < NPck
      BY JpgAssumption, ParamsAssumption DEF Agreeing, Entries, Slices
    <3> QED BY <1>4, <3>1 DEF FinishFrame, Uncounted
  <2>3. Cardinality(Uncounted') = 0 /\ Cardinality(Uncounted) \in Nat
    BY <2>1, FS_EmptySet, UncountedFinite
  <2> QED BY <1>0, <2>1, <2>2, <2>3 DEF InvalidInv, Waiting, OnTheWay, Arrived
<1>5. CASE Receive \/ Reuse
  <2>1. PICK p \in Packet : /\ Iterate(p) /\ r_pc = "loop"
                            /\ \/ old_pck = NoPck /\ p \in net /\ net' = net \ {p}
                               \/ old_pck = p /\ net' = net
    <3>1. CASE Receive
      BY <3>1 DEF Receive, Deliver, Agreeing, StreamInv, TypeInv, TypeOK
    <3>2. CASE Reuse
      BY <3>2 DEF Reuse, n_vars, StreamInv, TypeInv, TypeOK
    <3> QED BY <1>5, <3>1, <3>2
  <2>2. UNCHANGED <<s_invalid, Uncounted>>
    BY <1>5 DEF Receive, Reuse, s_vars, Uncounted
  <2>3. \/ /\ p \in OnTheWay /\ OnTheWay' = OnTheWay \ {p}
           /\ stat'.invalid = stat.invalid + (IF p.valid THEN 0 ELSE 1)
        \/ OnTheWay' = OnTheWay /\ stat'.invalid = stat.invalid
    BY <2>1, IterateOnTheWay
  <2>4. /\ IsFiniteSet(OnTheWay')
        /\ stat'.invalid + Cardinality(Waiting') = stat.invalid + Cardinality(Waiting)
    BY <1>0, <2>3, WaitingStep
  <2> QED BY <1>0, <2>2, <2>4 DEF InvalidInv
<1>6. CASE Show
  <2>1. /\ stat'.invalid = stat.invalid
        /\ UNCHANGED <<net, processed, old_pck, s_invalid, Uncounted>>
    BY <1>6 DEF Show, s_vars, n_vars, Uncounted, StreamInv, TypeInv, TypeOK
  <2> QED BY <1>0, <2>1 DEF InvalidInv, Waiting, OnTheWay, Arrived
<1>7. ~Restart /\ ~Lose
  BY DEF Restart, Lose, Agreeing, StreamInv, TypeInv, TypeOK
<1>8. CASE Bounded \/ UNCHANGED vars
  <2>1. UNCHANGED <<net, processed, old_pck, stat, s_invalid, s_pc, k, valid>>
    BY <1>8 DEF Bounded, vars, s_vars, n_vars, r_vars, h_vars
  <2> QED BY <1>2, <2>1 DEF Uncounted
<1> QED
  BY <1>1, <1>3, <1>4, <1>5, <1>6, <1>7, <1>8 DEF Next, Sender, Receiver

\* In a transmission without loss both ends agree on the number of slices that
\* did not fit a packet, but for those on their way.
THEOREM InvalidAlwaysConserved == Spec => []InvalidConserved
<1>1. ASSUME Agreeing PROVE Spec => []InvalidConserved
  <2>1. Init => InvalidInv
    <3> SUFFICES ASSUME Init PROVE InvalidInv
      OBVIOUS
    <3>1. OnTheWay = {} /\ Waiting = {} /\ Uncounted = {}
      BY DEF Init, SenderInit, ReceiverInit, OnTheWay, Waiting, Uncounted, Arrived
    <3>2. stat.invalid = 0 /\ s_invalid = 0
      BY DEF Init, SenderInit, ReceiverInit
    <3> QED BY <3>1, <3>2, FS_EmptySet DEF InvalidInv
  <2>2. InvalidInv => InvalidConserved
    BY DEF InvalidInv, InvalidConserved, OnTheWay, Waiting, Uncounted
  <2>3. Distinct /\ Ordered
    BY <1>1 DEF Agreeing, Distinct
  <2>4. Spec => []StreamInv
    BY <2>3, StreamInvariant
  <2>5. StreamInv /\ InvalidInv /\ [Next]_vars => InvalidInv'
    BY <1>1, InvalidInvStep
  <2> QED BY <2>1, <2>2, <2>4, <2>5, PTL DEF Spec
<1>2. ASSUME ~Agreeing PROVE Spec => []InvalidConserved
  <2>1. InvalidConserved
    BY <1>2 DEF InvalidConserved, Agreeing
  <2> QED BY <2>1, PTL
<1> QED BY <1>1, <1>2

-----------------------------------------------------------------------------
(* The delay is that of the frame on the screen.                           *)

\* The transmission of which it holds: the receiver hears of the end of a
\* frame by its marked packet, which the raw mode sends only for a residue.
MarkersArrive == Ordered /\ ~Lossy /\ MaxRestarts = 0 /\ LastMarked

\* The sender ends every frame with a marked packet, and none is lost.
MarkedInv ==
  \A p \in Pkts : p.frame < pic \/ s_pc = "idle" \/ k = NPck
    => \E m \in Pkts : m.frame = p.frame /\ m.marker

\* The loop ends with the marked packet and no other, so that the packet
\* received last is one of the frame to be shown, and that frame is on the
\* screen before a packet of the next one is looked at.
DelayInv ==
  /\ r_pc = "show" => old_pck = NoPck /\ r_timestamp = curr_timestamp
  /\ r_pc = "loop" /\ old_pck = NoPck
       /\ (\E q \in processed : q.frame = cur_pic /\ q.marker) => frame_shown

\* Without loss no packet leaves the picture.
LEMMA PktsKept ==
  ASSUME ~Lossy PROVE TypeInv /\ [Next]_vars => Pkts \subseteq Pkts'
<1> SUFFICES ASSUME TypeInv, [Next]_vars PROVE Pkts \subseteq Pkts'
  OBVIOUS
<1>1. CASE SendSlice
  BY <1>1 DEF SendSlice, Pkts, Arrived, r_vars, h_vars
<1>2. CASE Receive
  <2>1. PICK p \in net : Deliver(p) /\ Iterate(p)
    BY <1>2 DEF Receive
  <2>2. Arrived' = Arrived \cup {p}
    BY <1>2, <2>1, IterateArrived DEF Receive, TypeInv, TypeOK
  <2>3. net \ {p} \subseteq net'
    BY <2>1 DEF Deliver
  <2> QED BY <2>2, <2>3 DEF Pkts
<1>3. CASE Reuse
  <2>1. old_pck \in Packet
    BY <1>3 DEF Reuse, TypeInv, TypeOK
  <2>2. Arrived' = Arrived \cup {old_pck} /\ net' = net
    BY <1>3, <2>1, IterateArrived DEF Reuse, n_vars
  <2> QED BY <2>2 DEF Pkts
<1>4. CASE UNCHANGED <<net, processed, old_pck>>
  BY <1>4 DEF Pkts, Arrived
<1>5. ~Lose
  BY DEF Lose
<1>6. SkipFrame \/ EncodeFrame \/ FinishFrame \/ Restart \/ Show \/ Bounded
        \/ UNCHANGED vars => UNCHANGED <<net, processed, old_pck>>
  BY DEF SkipFrame, EncodeFrame, FinishFrame, Restart, Show, Bounded, vars, n_vars,
         r_vars, h_vars
<1> QED BY <1>1, <1>2, <1>3, <1>4, <1>5, <1>6 DEF Next, Sender, Receiver

LEMMA MarkedInvStep ==
  ASSUME MarkersArrive PROVE StreamInv /\ MarkedInv /\ [Next]_vars => MarkedInv'
<1> SUFFICES ASSUME StreamInv, MarkedInv, [Next]_vars, NEW p \in Pkts',
                    p.frame < pic' \/ s_pc' = "idle" \/ k' = NPck
             PROVE  \E m \in Pkts' : m.frame = p.frame /\ m.marker
  BY DEF MarkedInv
<1>0. /\ s_pc \in {"idle", "sending"} /\ pic \in Nat /\ k \in Nat /\ NPck \in Nat \ {0}
      /\ \A q \in Pkts : q.frame \in Nat /\ q.frame <= pic
      /\ s_pc = "idle" => \A q \in Pkts : q.frame < pic
  BY PktsType, ParamsAssumption DEF StreamInv, TypeInv, TypeOK, StampInv, Packet
<1>1. Pkts \subseteq Pkts'
  BY PktsKept DEF MarkersArrive, StreamInv
<1>2. ASSUME p \in Pkts, p.frame < pic \/ s_pc = "idle" \/ k = NPck
      PROVE  \E m \in Pkts' : m.frame = p.frame /\ m.marker
  BY <1>1, <1>2 DEF MarkedInv
<1>3. CASE SendSlice
  <2>1. /\ s_pc = "sending" /\ k < NPck /\ k' = k + 1 /\ UNCHANGED <<pic, s_pc>>
        /\ net' = net \cup {Header} /\ UNCHANGED <<processed, old_pck>>
    BY <1>3 DEF SendSlice, MarkersArrive, r_vars, h_vars
  <2>2. Header.frame = pic /\ (Header.marker <=> k = NPck - 1)
    BY DEF Header, JpgHeader, RawHeader, MarkersArrive
  <2>3. Pkts' = Pkts \cup {Header}
    BY <2>1 DEF Pkts, Arrived
  <2>4. CASE p.frame < pic
    BY <1>2, <2>2, <2>3, <2>4, <1>0
  <2>5. CASE ~(p.frame < pic)
    <3>1. k' = NPck
      BY <2>1, <2>5
    <3>2. Header.marker
      BY <1>0, <2>1, <2>2, <3>1
    <3>3. p.frame = pic
      BY <1>0, <2>2, <2>3, <2>5
    <3> QED BY <2>2, <2>3, <3>2, <3>3
  <2> QED BY <2>4, <2>5
<1>4. CASE FinishFrame \/ SkipFrame \/ EncodeFrame
  <2>1. p \in Pkts
    BY <1>4 DEF FinishFrame, SkipFrame, EncodeFrame, Pkts, Arrived, n_vars, r_vars,
                h_vars
  <2>2. s_pc = "idle" \/ k = NPck
    BY <1>4 DEF FinishFrame, SkipFrame, EncodeFrame
  <2> QED BY <1>2, <2>1, <2>2
<1>5. CASE Lose \/ Receiver
  <2>1. p \in Pkts
    BY <1>5, NoNewPkts DEF StreamInv
  <2>2. UNCHANGED <<s_pc, k, pic>>
    BY <1>5 DEF Lose, Receiver, Receive, Reuse, Show, s_vars
  <2> QED BY <1>2, <2>1, <2>2
<1>6. CASE Bounded \/ UNCHANGED vars
  <2>1. UNCHANGED <<s_pc, k, pic, net, processed, old_pck>>
    BY <1>6 DEF Bounded, vars, s_vars, n_vars, r_vars, h_vars
  <2> QED BY <1>2, <2>1 DEF Pkts, Arrived
<1>7. ~Restart
  BY DEF Restart, MarkersArrive, StreamInv, TypeInv, TypeOK
<1> QED BY <1>3, <1>4, <1>5, <1>6, <1>7 DEF Next, Sender

\* A packet of the next frame finds the frame before it on the screen.
LEMMA MarkedBefore ==
  ASSUME MarkersArrive, StreamInv, MarkedInv, DelayInv, r_pc = "loop",
         old_pck = NoPck, r_framenum >= 0,
         NEW p \in net, Deliver(p), p.timestamp # curr_timestamp
  PROVE  frame_shown
<1>1. /\ processed \subseteq Pkts /\ p \in Pkts /\ Arrived = processed
      /\ \A q \in Pkts : q.frame \in Nat /\ q.n \in Nat
      /\ pic \in Nat /\ s_pc \in {"idle", "sending"}
  BY PktsType, ParamsAssumption DEF Pkts, Arrived, StreamInv, TypeInv, TypeOK, Packet
<1>2. PICK q \in processed : q.frame = cur_pic /\ q.timestamp = curr_timestamp
  BY DEF StreamInv, PictureInv
<1>3. cur_pic < p.frame
  <2>1. q.n < p.n
    BY <1>1 DEF StreamInv, OrderInv
  <2>2. q.frame <= p.frame
    BY <1>1, <2>1 DEF StreamInv, OrderInv
  <2>3. q.frame # p.frame
    BY <1>1, <1>2 DEF StreamInv, StampInv
  <2> QED BY <1>1, <1>2, <2>2, <2>3
<1>4. PICK m \in Pkts : m.frame = cur_pic /\ m.marker
  <2>1. p.frame <= pic
    BY <1>1 DEF StreamInv, StampInv
  <2>2. q.frame < pic
    BY <1>1, <1>2, <1>3, <2>1
  <2> QED BY <1>1, <1>2, <2>2 DEF MarkedInv
<1>5. m \notin net
  <2> SUFFICES ASSUME m \in net PROVE FALSE
    OBVIOUS
  <2>1. p.n <= m.n
    BY DEF Deliver, Deliverable, MarkersArrive
  <2>2. p.n = m.n => p = m
    BY <1>1 DEF StreamInv, OrderInv
  <2>3. p.n < m.n => p.frame <= m.frame
    BY <1>1 DEF StreamInv, OrderInv
  <2> QED BY <1>1, <1>3, <1>4, <2>1, <2>2, <2>3
<1> QED BY <1>1, <1>4, <1>5 DEF Pkts, DelayInv

LEMMA IterateDelay ==
  ASSUME MarkersArrive, StreamInv, MarkedInv, DelayInv, r_pc = "loop",
         NEW p \in Pkts, Iterate(p),
         IF old_pck # NoPck THEN p = old_pck ELSE p \in net /\ Deliver(p)
  PROVE  DelayInv'
<1> DEFINE ts == IF r_framenum < 0 THEN p.timestamp ELSE curr_timestamp
<1>1. SameFrame(p, ts) \/ OtherFrame(p, ts)
  BY DEF Iterate
<1>2. /\ processed \subseteq Pkts /\ processed \subseteq Arrived
      /\ cur_pic \in Int /\ displayed \subseteq Int /\ r_framenum \in Int
      /\ \A q \in Pkts : q.frame \in Nat /\ q.n \in Nat
  BY PktsType, ParamsAssumption DEF Pkts, Arrived, StreamInv, TypeInv, TypeOK, Packet
<1>3. CASE SameFrame(p, ts)
  <2>1. /\ p.timestamp = ts /\ old_pck' = NoPck /\ curr_timestamp' = ts
        /\ r_timestamp' = p.timestamp
        /\ cur_pic' = p.frame /\ processed' = processed \cup {p}
        /\ r_pc' = "loop" => ~p.marker
    BY <1>3 DEF SameFrame, UseSlice, Iterate
  <2>2. ASSUME NEW q \in processed, q.frame = p.frame, q.marker PROVE FALSE
    <3>1. CASE old_pck # NoPck
      <4>1. cur_pic < p.frame /\ \A g \in displayed : g <= cur_pic
        BY <3>1 DEF StreamInv, ShownInv
      <4>2. q.frame = cur_pic \/ q.frame \in displayed
        BY DEF StreamInv, PictureInv, NoFrameSkipped
      <4> QED BY <1>2, <2>2, <4>1, <4>2
    <3>2. CASE old_pck = NoPck
      <4>1. q.n < p.n
        BY <1>2, <3>2 DEF StreamInv, OrderInv
      <4>2. p.n <= q.n
        BY <1>2, <2>2 DEF StreamInv, OrderInv
      <4> QED BY <1>2, <4>1, <4>2
    <3> QED BY <3>1, <3>2
  <2> QED BY <2>1, <2>2 DEF DelayInv
<1>4. CASE OtherFrame(p, ts)
  <2>1. p.timestamp # ts /\ old_pck' = p /\ p # NoPck
    BY <1>4, PktsType, NoPckIsNone DEF OtherFrame, StreamInv
  <2>2. r_framenum >= 0 /\ p.timestamp # curr_timestamp /\ old_pck = NoPck
    BY <1>2, <2>1 DEF StreamInv, ControlInv, KeptPacketIsCurrent
  <2>3. frame_shown
    BY <2>2, MarkedBefore
  <2> QED BY <1>4, <2>1, <2>3 DEF OtherFrame, Unshown, DelayInv
<1> QED BY <1>1, <1>3, <1>4

LEMMA DelayInvStep ==
  ASSUME MarkersArrive
  PROVE  StreamInv /\ MarkedInv /\ DelayInv /\ [Next]_vars => DelayInv'
<1> SUFFICES ASSUME StreamInv, MarkedInv, DelayInv, [Next]_vars PROVE DelayInv'
  OBVIOUS
<1>1. CASE Receive
  <2>1. PICK p \in net : Deliver(p) /\ Iterate(p)
    BY <1>1 DEF Receive
  <2> QED BY <1>1, <2>1, IterateDelay DEF Receive, Pkts
<1>2. CASE Reuse
  BY <1>2, IterateDelay DEF Reuse, Pkts, Arrived
<1>3. CASE Show
  BY <1>3 DEF Show, DelayInv
<1>4. CASE UNCHANGED <<r_vars, h_vars>>
  BY <1>4 DEF r_vars, h_vars, DelayInv
<1> QED
  BY <1>1, <1>2, <1>3, <1>4
  DEF Next, Sender, Receiver, SkipFrame, EncodeFrame, SendSlice, FinishFrame,
      Restart, Lose, Bounded, vars

\* Where no packet is lost and frames end with a marked packet, the delay is
\* charged from the timestamp of the frame that is put on the screen.
THEOREM DelayAlwaysOfShownFrame ==
  ASSUME MarkersArrive PROVE Spec => DelayOfShownFrame
<1>1. StreamInv /\ DelayInv /\ [Next]_vars =>
        [\A p \in processed : Show /\ p.frame = cur_pic => stat'.from = p.timestamp]_vars
  <2> SUFFICES ASSUME StreamInv, DelayInv, NEW p \in processed, Show,
                      p.frame = cur_pic
               PROVE  stat'.from = p.timestamp
    OBVIOUS
  <2>1. stat'.from = r_timestamp /\ r_pc = "show"
    BY DEF Show, StreamInv, TypeInv, TypeOK
  <2>2. old_pck = NoPck /\ r_timestamp = curr_timestamp /\ r_framenum >= 0
    BY <2>1, ParamsAssumption DEF DelayInv, StreamInv, ControlInv, TypeInv, TypeOK
  <2>3. PICK q \in processed : q.frame = cur_pic /\ q.timestamp = curr_timestamp
    BY <2>2 DEF StreamInv, PictureInv
  <2>4. p.timestamp = q.timestamp
    BY <2>3 DEF StreamInv, StampInv, Pkts, Arrived
  <2> QED BY <2>1, <2>2, <2>3, <2>4
<1>2. Init => MarkedInv /\ DelayInv
  BY DEF Init, SenderInit, ReceiverInit, MarkedInv, DelayInv, Pkts, Arrived
<1>3. Spec => []StreamInv
  BY StreamInvariant DEF MarkersArrive, Distinct
<1>4. StreamInv /\ MarkedInv /\ [Next]_vars => MarkedInv'
  BY MarkedInvStep
<1>5. StreamInv /\ MarkedInv /\ DelayInv /\ [Next]_vars => DelayInv'
  BY DelayInvStep
<1> QED BY <1>1, <1>2, <1>3, <1>4, <1>5, PTL DEF Spec, DelayOfShownFrame
=============================================================================
