---------------------------- MODULE StreamerProofs ----------------------------
(***************************************************************************)
(* Theorems about the capture loop, for every number of buffers and of     *)
(* pictures, and then about the whole streamer.  The theorems about the    *)
(* capture loop speak of Capture's specification, CSpec, and use nothing   *)
(* of the video path.                                                      *)
(***************************************************************************)
EXTENDS Streamer, VideoStreamProofs, SequenceTheorems, TLAPS

-----------------------------------------------------------------------------
(* The capture loop.  The driver's queues are sequences; the invariants    *)
(* speak of the sets of buffers in them, and the lemmas say how those sets *)
(* change.                                                                 *)


Pics == 0 .. MaxPictures - 1
NoDuplicates(seq) ==
  \A i, j \in 1 .. Len(seq) : seq[i] = seq[j] => i = j

LEMMA AppendRange ==
  ASSUME NEW S, NEW seq \in Seq(S), NEW x \in S
  PROVE  /\ Append(seq, x) \in Seq(S) /\ Append(seq, x) # <<>>
         /\ Len(Append(seq, x)) = Len(seq) + 1
         /\ Range(Append(seq, x)) = Range(seq) \cup {x}
         /\ NoDuplicates(seq) /\ x \notin Range(seq) =>
              NoDuplicates(Append(seq, x))
<1> DEFINE t == Append(seq, x)
<1>1. /\ t \in Seq(S) /\ t # <<>> /\ Len(t) = Len(seq) + 1 /\ Len(seq) \in Nat
      /\ \A i \in 1 .. Len(seq) : t[i] = seq[i]
      /\ t[Len(seq) + 1] = x
  BY AppendProperties
<1>2. Range(seq) = {seq[i] : i \in 1 .. Len(seq)}
  BY RangeEquality
<1>3. Range(t) = {t[i] : i \in 1 .. Len(t)}
  BY <1>1, RangeEquality
<1> HIDE DEF t
<1>4. Range(t) = Range(seq) \cup {x}
  BY <1>1, <1>2, <1>3
<1>5. ASSUME NoDuplicates(seq), x \notin Range(seq) PROVE NoDuplicates(t)
  BY <1>1, <1>2, <1>5 DEF NoDuplicates
<1> QED BY <1>1, <1>4, <1>5 DEF t

LEMMA TailRange ==
  ASSUME NEW S, NEW seq \in Seq(S), seq # <<>>
  PROVE  /\ Head(seq) \in S /\ Tail(seq) \in Seq(S)
         /\ Len(Tail(seq)) = Len(seq) - 1
         /\ Range(seq) = {Head(seq)} \cup Range(Tail(seq))
         /\ NoDuplicates(seq) => /\ NoDuplicates(Tail(seq))
                                 /\ Head(seq) \notin Range(Tail(seq))
<1> DEFINE t == Tail(seq)
<1>1. /\ t \in Seq(S) /\ Len(seq) \in Nat \ {0} /\ Len(t) = Len(seq) - 1
      /\ \A i \in 1 .. Len(t) : t[i] = seq[i + 1]
      /\ Head(seq) = seq[1] /\ Head(seq) \in S
  BY HeadTailProperties, EmptySeq
<1>2. Range(seq) = {seq[i] : i \in 1 .. Len(seq)}
  BY RangeEquality
<1>3. Range(t) = {t[i] : i \in 1 .. Len(t)}
  BY <1>1, RangeEquality
<1> HIDE DEF t
<1>4. ASSUME NEW i \in 1 .. Len(seq)
      PROVE  seq[i] \in {Head(seq)} \cup Range(t)
  <2>1. CASE i = 1
    BY <1>1, <2>1
  <2>2. CASE i # 1
    <3>1. i - 1 \in 1 .. Len(t) /\ t[i - 1] = seq[i]
      BY <1>1, <2>2
    <3> QED BY <1>3, <3>1
  <2> QED BY <2>1, <2>2
<1>5. ASSUME NEW i \in 1 .. Len(t)
      PROVE  i + 1 \in 1 .. Len(seq) /\ t[i] \in Range(seq)
  <2>1. i + 1 \in 1 .. Len(seq)
    BY <1>1
  <2>2. t[i] = seq[i + 1]
    BY <1>1
  <2> QED BY <1>2, <2>1, <2>2
<1>6. Range(seq) = {Head(seq)} \cup Range(t)
  <2>1. Range(seq) \subseteq {Head(seq)} \cup Range(t)
    BY <1>2, <1>4
  <2>2. Head(seq) \in Range(seq)
    BY <1>1, <1>2
  <2>3. Range(t) \subseteq Range(seq)
    BY <1>3, <1>5
  <2> QED BY <2>1, <2>2, <2>3
<1>7. ASSUME NoDuplicates(seq)
      PROVE  NoDuplicates(t) /\ Head(seq) \notin Range(t)
  <2>1. NoDuplicates(t)
    BY <1>1, <1>7 DEF NoDuplicates
  <2>2. ASSUME NEW i \in 1 .. Len(t), t[i] = seq[1] PROVE FALSE
    BY <1>1, <1>7, <2>2 DEF NoDuplicates
  <2> QED BY <1>1, <1>3, <2>1, <2>2
<1> QED BY <1>1, <1>6, <1>7 DEF t

-----------------------------------------------------------------------------
(* The invariant, in parts.                                                *)

\* Types, and what is true of the buffers that have been filled.
CTypeInv ==
  /\ CTypeOK
  /\ pc \in {"queue", "callback", "qbuf"} => buf \in Indices
  /\ \A i \in Range(outgoing) : content[i] \in Pics
  /\ pc = "callback" => content[buf] \in Pics
  /\ pc = "dqbuf" => outgoing # <<>>

\* A buffer is in one place: once in the driver's first queue, or in its
\* second, or with the program.
PlaceInv ==
  /\ NoDuplicates(incoming)
  /\ Range(incoming) \cap Range(outgoing) = {}
  /\ pc = "callback" => buf \notin Range(incoming)

\* The callback has read its picture whole, or its first half only, and then
\* the buffer still holds it.
ReadInv ==
  /\ \/ seen = delivered
     \/ /\ pc \in {"callback", "exited"}
        /\ \E x \in Pics : seen = Append(delivered, x)
  /\ pc = "callback" /\ seen # delivered =>
       seen = Append(delivered, content[buf])

\* What a taken picture does to the queues and the buffers.
LEMMA CameraStep ==
  ASSUME CTypeInv, CameraFrame, incoming # <<>>
  PROVE  /\ taken \in Pics /\ Head(incoming) \in Indices
         /\ content' = [content EXCEPT ![Head(incoming)] = taken]
         /\ content' \in [Indices -> -1 .. MaxPictures - 1]
         /\ content'[Head(incoming)] = taken
         /\ \A i \in Indices \ {Head(incoming)} : content'[i] = content[i]
         /\ incoming' = Tail(incoming)
         /\ outgoing' = Append(outgoing, Head(incoming))
         /\ filled' = Append(filled, taken)
<1>1. /\ content' = [content EXCEPT ![Head(incoming)] = taken]
      /\ incoming' = Tail(incoming)
      /\ outgoing' = Append(outgoing, Head(incoming))
      /\ filled' = Append(filled, taken)
      /\ taken < MaxPictures
  BY DEF CameraFrame
<1>2. /\ incoming \in Seq(Indices) /\ taken \in 0 .. MaxPictures
      /\ content \in [Indices -> -1 .. MaxPictures - 1]
  BY DEF CTypeInv, CTypeOK
<1>3. Head(incoming) \in Indices
  BY <1>2, TailRange
<1>4. taken \in Pics /\ taken \in -1 .. MaxPictures - 1
  BY <1>1, <1>2, CaptureAssumption DEF Pics
<1> QED BY <1>1, <1>2, <1>3, <1>4

LEMMA QueuesStep ==
  ASSUME CTypeInv, CameraFrame, incoming # <<>>
  PROVE  /\ incoming' \in Seq(Indices)
         /\ outgoing' \in Seq(Indices) /\ outgoing' # <<>>
         /\ Range(outgoing') = Range(outgoing) \cup {Head(incoming)}
         /\ filled' \in Seq(Pics)
<1>1. /\ filled \in Seq(Pics)
      /\ incoming \in Seq(Indices) /\ outgoing \in Seq(Indices)
  BY DEF CTypeInv, CTypeOK, Pics
<1>2. /\ taken \in Pics /\ filled' = Append(filled, taken)
      /\ Head(incoming) \in Indices /\ incoming' = Tail(incoming)
      /\ outgoing' = Append(outgoing, Head(incoming))
  BY CameraStep
<1>3. incoming' \in Seq(Indices)
  BY <1>1, <1>2, TailRange
<1>4. /\ outgoing' \in Seq(Indices) /\ outgoing' # <<>>
      /\ Range(outgoing') = Range(outgoing) \cup {Head(incoming)}
  BY <1>1, <1>2, AppendRange
<1>5. filled' \in Seq(Pics)
  BY <1>1, <1>2, AppendProperties
<1> QED BY <1>3, <1>4, <1>5

LEMMA CTypeInvInit == CInit => CTypeInv
<1> SUFFICES ASSUME CInit PROVE CTypeInv
  OBVIOUS
<1>1. Range(outgoing) = {}
  BY DEF CInit, Range
<1>2. None \in -1 .. MaxPictures - 1
  BY CaptureAssumption DEF None
<1>3. /\ seen \in Seq(Pics) /\ delivered \in Seq(Pics) /\ filled \in Seq(Pics)
      /\ incoming \in Seq(Indices) /\ outgoing \in Seq(Indices)
  BY EmptySeq DEF CInit
<1>4. content \in [Indices -> -1 .. MaxPictures - 1]
  BY <1>2 DEF CInit
<1>5. /\ n_buffers \in 0 .. Requested /\ taken \in 0 .. MaxPictures
      /\ pc = "setup" /\ buf = None /\ streaming = FALSE
  BY CaptureAssumption DEF CInit
<1> QED BY <1>1, <1>3, <1>4, <1>5 DEF CTypeInv, CTypeOK, Pics

LEMMA CTypeInvStep == CTypeInv /\ [CNext]_c_vars => CTypeInv'
<1> SUFFICES ASSUME CTypeInv, [CNext]_c_vars PROVE CTypeInv'
  OBVIOUS
<1> USE CaptureAssumption DEF CTypeInv, CTypeOK, Pics, driver
<1>1. CASE InitDevice
  <2>1. UNCHANGED <<seen, delivered, driver>> /\ pc = "setup"
    BY <1>1 DEF InitDevice
  <2>2. \/ pc' = "exited" /\ UNCHANGED <<n_buffers, buf>>
        \/ pc' = "queue" /\ buf' = 0 /\ n_buffers' \in 0 .. Requested
    BY <1>1 DEF InitDevice, Exit
  <2>3. 0 \in Indices
    BY DEF Indices
  <2> QED BY <2>1, <2>2, <2>3
<1>2. CASE QueueAll
  <2>1. CASE Queue(buf) /\ AllQueued(buf) /\ pc' = "streamon" /\ UNCHANGED buf
    BY <1>2, <2>1, AppendRange DEF QueueAll, Queue
  <2>2. CASE Queue(buf) /\ ~AllQueued(buf) /\ buf' = buf + 1 /\ UNCHANGED pc
    <3>1. buf' \in Indices
      BY <1>2, <2>2 DEF QueueAll, AllQueued, Indices
    <3> QED BY <1>2, <2>2, <3>1, AppendRange DEF QueueAll, Queue
  <2>3. CASE Exit /\ UNCHANGED <<buf, driver>>
    BY <1>2, <2>3 DEF QueueAll, Exit
  <2> QED BY <1>2, <2>1, <2>2, <2>3 DEF QueueAll
<1>3. CASE StreamOn
  BY <1>3 DEF StreamOn, Exit
<1>4. CASE Select
  BY <1>4 DEF Select, Exit, Retry
<1>5. CASE Dequeue
  <2>1. CASE UNCHANGED <<buf, outgoing>>
    BY <1>5, <2>1 DEF Dequeue, Retry, Exit
  <2>2. CASE buf' = Head(outgoing) /\ outgoing' = Tail(outgoing) /\ pc' = "callback"
    <3>1. /\ Head(outgoing) \in Indices /\ Tail(outgoing) \in Seq(Indices)
          /\ Range(outgoing) = {Head(outgoing)} \cup Range(Tail(outgoing))
      BY <1>5, TailRange DEF Dequeue
    <3> QED BY <1>5, <2>2, <3>1 DEF Dequeue
  <2> QED BY <1>5, <2>1, <2>2 DEF Dequeue
<1>6. CASE ReadFirst
  BY <1>6, AppendRange DEF ReadFirst, Picture, WhileReading
<1>7. CASE ReadLast
  BY <1>7, AppendRange DEF ReadLast, Picture
<1>8. CASE CallbackExits
  BY <1>8 DEF CallbackExits, Exit
<1>9. CASE Requeue
  <2>1. CASE Queue(buf) /\ pc' = "select"
    BY <1>9, <2>1, AppendRange DEF Requeue, Queue
  <2>2. CASE Exit /\ UNCHANGED driver
    BY <1>9, <2>2 DEF Requeue, Exit
  <2> QED BY <1>9, <2>1, <2>2 DEF Requeue, GiveBack
<1>10. CASE CameraFrame
  <2>1. taken' \in 0 .. MaxPictures
        /\ UNCHANGED <<pc, n_buffers, buf, seen, delivered, streaming>>
    BY <1>10 DEF CameraFrame
  <2>2. CASE incoming = <<>>
    <3>1. UNCHANGED <<incoming, outgoing, content, filled>>
      BY <1>10, <2>2 DEF CameraFrame
    <3> QED BY <2>1, <3>1
  <2>3. CASE incoming # <<>>
    <3>0. /\ taken \in Pics /\ Head(incoming) \in Indices
          /\ incoming' = Tail(incoming)
          /\ outgoing' = Append(outgoing, Head(incoming))
          /\ filled' = Append(filled, taken)
      BY <1>10, <2>3, CameraStep
    <3>1. /\ incoming' \in Seq(Indices) /\ outgoing' \in Seq(Indices)
          /\ outgoing' # <<>> /\ filled' \in Seq(Pics)
          /\ Range(outgoing') = Range(outgoing) \cup {Head(incoming)}
      BY <1>10, <2>3, QueuesStep
    <3>2. Range(outgoing) \subseteq Indices
      BY RangeOfSeq
    <3>3. \A i \in Indices : content[i] \in Pics => content'[i] \in Pics
      BY <1>10, <2>3, CameraStep
    <3>4. content'[Head(incoming)] \in Pics
      BY <1>10, <2>3, CameraStep
    <3>5. content' \in [Indices -> -1 .. MaxPictures - 1]
      BY <1>10, <2>3, CameraStep
    <3> QED BY <2>1, <3>1, <3>2, <3>3, <3>4, <3>5
  <2> QED BY <2>2, <2>3
<1>11. CASE UNCHANGED c_vars
  BY <1>11 DEF c_vars
<1> QED
  BY <1>1, <1>2, <1>3, <1>4, <1>5, <1>6, <1>7, <1>8, <1>9, <1>10, <1>11
  DEF CNext, Program

\* CTypeOK, for any number of buffers and pictures.
THEOREM CaptureTypeCorrect == CSpec => []CTypeOK
<1>1. CSpec => []CTypeInv
  BY CTypeInvInit, CTypeInvStep, PTL DEF CSpec
<1>2. CTypeInv => CTypeOK
  BY DEF CTypeInv
<1> QED BY <1>1, <1>2, PTL

-----------------------------------------------------------------------------
LEMMA PlaceInvInit == CInit => PlaceInv
BY EmptySeq DEF CInit, PlaceInv, NoDuplicates, Range

LEMMA PlaceInvStep == CTypeInv /\ PlaceInv /\ [CNext]_c_vars => PlaceInv'
<1> SUFFICES ASSUME CTypeInv, PlaceInv, [CNext]_c_vars PROVE PlaceInv'
  OBVIOUS
<1> USE DEF PlaceInv
<1>0. incoming \in Seq(Indices) /\ outgoing \in Seq(Indices)
  BY DEF CTypeInv, CTypeOK
<1>1. ASSUME NEW i \in Indices, Queue(i)
      PROVE  /\ outgoing' = outgoing /\ NoDuplicates(incoming')
             /\ Range(incoming') \cap Range(outgoing) = {}
  <2>1. i \notin Range(incoming) \cup Range(outgoing)
    BY <1>0, <1>1, RangeConcatenation DEF Queue
  <2> QED BY <1>0, <1>1, <2>1, AppendRange DEF Queue
<1>2. CASE QueueAll
  <2>1. CASE Queue(buf)
    <3>1. buf \in Indices /\ pc' # "callback"
      BY <1>2 DEF QueueAll, CTypeInv, Exit
    <3> QED BY <1>1, <2>1, <3>1
  <2>2. CASE Exit /\ UNCHANGED driver
    BY <2>2 DEF Exit, driver
  <2> QED BY <1>2, <2>1, <2>2 DEF QueueAll
<1>3. CASE Requeue
  <2>1. CASE Queue(buf) /\ pc' = "select"
    <3>1. buf \in Indices
      BY <1>3 DEF Requeue, CTypeInv
    <3> QED BY <1>1, <2>1, <3>1
  <2>2. CASE Exit /\ UNCHANGED driver
    BY <2>2 DEF Exit, driver
  <2> QED BY <1>3, <2>1, <2>2 DEF Requeue, GiveBack
<1>4. CASE Dequeue
  <2>1. CASE UNCHANGED <<buf, outgoing>> /\ (Retry \/ Exit)
    BY <1>4, <2>1 DEF Dequeue, Retry, Exit
  <2>2. CASE buf' = Head(outgoing) /\ outgoing' = Tail(outgoing)
    <3>1. Range(outgoing) = {Head(outgoing)} \cup Range(Tail(outgoing))
      BY <1>0, <1>4, TailRange DEF Dequeue, CTypeInv
    <3> QED BY <1>4, <2>2, <3>1 DEF Dequeue
  <2> QED BY <1>4, <2>1, <2>2 DEF Dequeue
<1>5. CASE CameraFrame
  <2>1. UNCHANGED <<pc, buf>>
    BY <1>5 DEF CameraFrame
  <2>2. CASE incoming = <<>>
    BY <1>5, <2>1, <2>2 DEF CameraFrame
  <2>3. CASE incoming # <<>>
    <3>1. /\ Head(incoming) \in Indices /\ incoming' = Tail(incoming)
          /\ outgoing' = Append(outgoing, Head(incoming))
      BY <1>5, <2>3, CameraStep
    <3>2. /\ Range(incoming) = {Head(incoming)} \cup Range(incoming')
          /\ NoDuplicates(incoming') /\ Head(incoming) \notin Range(incoming')
      BY <1>0, <2>3, <3>1, TailRange
    <3>3. Range(outgoing') = Range(outgoing) \cup {Head(incoming)}
      BY <1>0, <3>1, AppendRange
    <3> QED BY <2>1, <3>2, <3>3
  <2> QED BY <2>2, <2>3
<1>6. CASE UNCHANGED <<pc, buf, incoming, outgoing>>
  BY <1>6
<1>7. CASE pc' # "callback" /\ UNCHANGED <<incoming, outgoing>>
  BY <1>7
<1>8. InitDevice \/ StreamOn \/ Select \/ ReadFirst \/ ReadLast \/ CallbackExits
        \/ (pc = "exited" /\ UNCHANGED c_vars) \/ UNCHANGED c_vars
      => \/ UNCHANGED <<pc, buf, incoming, outgoing>>
         \/ pc' # "callback" /\ UNCHANGED <<incoming, outgoing>>
  BY DEF InitDevice, StreamOn, Select, ReadFirst, ReadLast, CallbackExits, Exit,
         Retry, WhileReading, c_vars, driver
<1> QED BY <1>2, <1>3, <1>4, <1>5, <1>6, <1>7, <1>8 DEF CNext, Program

-----------------------------------------------------------------------------
LEMMA ReadInvInit == CInit => ReadInv
BY DEF CInit, ReadInv

LEMMA ReadInvStep == CTypeInv /\ PlaceInv /\ ReadInv /\ [CNext]_c_vars => ReadInv'
<1> SUFFICES ASSUME CTypeInv, PlaceInv, ReadInv, [CNext]_c_vars PROVE ReadInv'
  OBVIOUS
<1> USE DEF ReadInv
<1>0. /\ seen \in Seq(Pics) /\ delivered \in Seq(Pics)
      /\ pc = "callback" => content[buf] \in Pics
  BY DEF CTypeInv, CTypeOK, Pics
<1>1. CASE ReadFirst
  <2>1. /\ pc = "callback" /\ Len(seen) = Len(delivered)
        /\ seen' = Append(seen, content[buf])
        /\ UNCHANGED <<pc, buf, delivered, content>>
    BY <1>1 DEF ReadFirst, Picture, WhileReading, driver
  <2>2. seen = delivered
    BY <1>0, <2>1, AppendProperties
  <2> QED BY <1>0, <2>1, <2>2
<1>2. CASE ReadLast
  <2>1. /\ pc = "callback" /\ Len(seen) > Len(delivered) /\ pc' = "qbuf"
        /\ delivered' = Append(delivered, content[buf]) /\ seen' = seen
    BY <1>2 DEF ReadLast, Picture
  <2>2. seen # delivered
    BY <1>0, <2>1
  <2> QED BY <2>1, <2>2
<1>3. CASE CallbackExits
  <2>1. pc = "callback" /\ pc' = "exited" /\ UNCHANGED <<seen, delivered>>
    BY <1>3 DEF CallbackExits, Exit
  <2> QED BY <2>1
<1>4. CASE CameraFrame
  <2>1. UNCHANGED <<pc, buf, seen, delivered>> /\ pc # "exited"
    BY <1>4 DEF CameraFrame
  <2>2. CASE incoming = <<>>
    BY <1>4, <2>1, <2>2 DEF CameraFrame
  <2>3. CASE incoming # <<>>
    <3>1. pc = "callback" => content'[buf] = content[buf]
      <4>1. Head(incoming) \in Range(incoming)
        BY <2>3, TailRange DEF CTypeInv, CTypeOK
      <4>2. pc = "callback" => buf \in Indices \ {Head(incoming)}
        BY <4>1 DEF PlaceInv, CTypeInv
      <4> QED BY <1>4, <2>3, <4>2, CameraStep
    <3> QED BY <2>1, <3>1
  <2> QED BY <2>2, <2>3
<1>5. CASE /\ pc # "callback" /\ UNCHANGED <<seen, delivered>>
           /\ pc = "exited" => pc' = "exited"
  <2>1. seen # delivered => pc' = "exited"
    BY <1>5
  <2> QED BY <1>5, <2>1
<1>6. InitDevice \/ QueueAll \/ StreamOn \/ Select \/ Dequeue \/ Requeue
      => /\ pc # "callback" /\ pc # "exited" /\ UNCHANGED <<seen, delivered>>
  BY DEF InitDevice, QueueAll, StreamOn, Select, Dequeue, Requeue
<1>7. CASE UNCHANGED c_vars
  BY <1>7 DEF c_vars
<1> QED BY <1>1, <1>2, <1>3, <1>4, <1>5, <1>6, <1>7 DEF CNext, Program

\* The camera never changes a picture that the callback is reading: FrameStable,
\* whatever the number of buffers and however slow the callback.
THEOREM FrameAlwaysStable == CSpec => []FrameStable
<1>1. CSpec => [](CTypeInv /\ PlaceInv /\ ReadInv)
  BY CTypeInvInit, CTypeInvStep, PlaceInvInit, PlaceInvStep, ReadInvInit,
     ReadInvStep, PTL DEF CSpec
<1>2. CTypeInv /\ ReadInv => FrameStable
  <2> SUFFICES ASSUME CTypeInv, ReadInv PROVE FrameStable
    OBVIOUS
  <2>1. delivered \in Seq(Pics) /\ Len(delivered) \in Nat
    BY DEF CTypeInv, CTypeOK, Pics
  <2>2. CASE seen = delivered
    BY <2>1, <2>2 DEF FrameStable
  <2>3. CASE \E x \in Pics : seen = Append(delivered, x)
    BY <2>1, <2>3, AppendProperties DEF FrameStable
  <2> QED BY <2>2, <2>3 DEF ReadInv
<1> QED BY <1>1, <1>2, PTL

-----------------------------------------------------------------------------
(* No buffer is lost.                                                      *)

\* While the buffers are being queued, those before buf are; afterwards all of
\* them are in one of the queues or with the program.
CountInv ==
  /\ streaming => pc \notin {"setup", "queue", "streamon"}
  /\ pc \in {"setup", "queue", "streamon"} => outgoing = <<>>
  /\ pc = "setup" => incoming = <<>>
  /\ pc = "queue" => /\ buf < n_buffers /\ Len(incoming) = buf
                     /\ Range(incoming) = 0 .. buf - 1
  /\ pc \in {"streamon", "select", "dqbuf"} =>
       /\ Len(incoming) + Len(outgoing) = n_buffers
       /\ Range(incoming) \cup Range(outgoing) = 0 .. n_buffers - 1
  /\ pc \in {"callback", "qbuf"} =>
       /\ Len(incoming) + Len(outgoing) + 1 = n_buffers
       /\ Range(incoming) \cup Range(outgoing) \cup {buf} = 0 .. n_buffers - 1

LEMMA CountInvInit == CInit => CountInv
BY DEF CInit, CountInv

LEMMA CountInvStep == CTypeInv /\ CountInv /\ [CNext]_c_vars => CountInv'
<1> SUFFICES ASSUME CTypeInv, CountInv, [CNext]_c_vars PROVE CountInv'
  OBVIOUS
<1>0. /\ incoming \in Seq(Indices) /\ outgoing \in Seq(Indices)
      /\ Len(incoming) \in Nat /\ Len(outgoing) \in Nat /\ n_buffers \in Nat
      /\ pc \in {"queue", "callback", "qbuf"} => buf \in Indices /\ buf \in Nat
  BY CaptureAssumption DEF CTypeInv, CTypeOK, Indices
<1>1. CASE InitDevice
  <2>1. /\ pc = "setup" /\ UNCHANGED <<incoming, outgoing, streaming>>
        /\ \/ pc' = "exited"
           \/ pc' = "queue" /\ buf' = 0 /\ n_buffers' \in Nat \ {0}
    BY <1>1, CaptureAssumption DEF InitDevice, Exit, driver
  <2>2. incoming = <<>> => Len(incoming) = 0 /\ Range(incoming) = 0 .. 0 - 1
    <3>1. ASSUME incoming = <<>> PROVE Len(incoming) = 0 /\ Range(incoming) = {}
      BY <3>1 DEF Range
    <3>2. 0 .. 0 - 1 = {}
      OBVIOUS
    <3> QED BY <3>1, <3>2
  <2>3. ~streaming /\ outgoing = <<>> /\ incoming = <<>>
    BY <2>1 DEF CountInv
  <2>4. CASE pc' = "exited"
    BY <2>1, <2>3, <2>4 DEF CountInv
  <2>5. CASE pc' = "queue" /\ buf' = 0 /\ n_buffers' \in Nat \ {0}
    <3>1. Len(incoming') = buf' /\ Range(incoming') = 0 .. buf' - 1
      BY <2>1, <2>2, <2>3, <2>5
    <3> QED BY <2>1, <2>3, <2>5, <3>1 DEF CountInv
  <2> QED BY <2>1, <2>4, <2>5
<1>2. CASE QueueAll
  <2>1. CASE Queue(buf)
    <3>1. /\ pc = "queue" /\ n_buffers' = n_buffers
          /\ incoming' = Append(incoming, buf) /\ UNCHANGED <<streaming, outgoing>>
      BY <1>2, <2>1 DEF QueueAll, Queue
    <3>2. /\ Len(incoming') = buf + 1 /\ outgoing = <<>> /\ ~streaming
          /\ Range(incoming') = 0 .. buf
      <4>1. /\ Len(incoming') = Len(incoming) + 1
            /\ Range(incoming') = Range(incoming) \cup {buf}
        BY <1>0, <3>1, AppendRange
      <4> QED BY <1>0, <3>1, <4>1 DEF CountInv
    <3>3. Len(outgoing) = 0 /\ Range(outgoing) = {}
      BY <3>2 DEF Range
    <3>4. CASE AllQueued(buf) /\ pc' = "streamon"
      <4>1. n_buffers = buf + 1
        BY <1>0, <3>1, <3>4 DEF AllQueued, CountInv
      <4> QED BY <1>0, <3>1, <3>2, <3>3, <3>4, <4>1 DEF CountInv
    <3>5. CASE ~AllQueued(buf) /\ buf' = buf + 1 /\ pc' = pc
      BY <1>0, <3>1, <3>2, <3>5 DEF AllQueued, CountInv
    <3>6. CASE Exit /\ UNCHANGED <<buf, driver>>
      BY <3>1, <3>2, <3>6 DEF Exit, CountInv
    <3> QED BY <1>2, <3>4, <3>5, <3>6 DEF QueueAll
  <2>2. CASE Exit /\ UNCHANGED <<buf, driver>>
    BY <1>2, <2>2 DEF QueueAll, Exit, driver, CountInv
  <2> QED BY <1>2, <2>1, <2>2 DEF QueueAll
<1>3. CASE StreamOn
  BY <1>3 DEF StreamOn, Exit, CountInv
<1>4. CASE Select
  BY <1>4 DEF Select, Exit, Retry, CountInv, driver
<1>5. CASE Dequeue
  <2>1. /\ pc = "dqbuf" /\ outgoing # <<>>
        /\ UNCHANGED <<n_buffers, streaming, incoming>>
    BY <1>5 DEF Dequeue, CTypeInv
  <2>2. CASE UNCHANGED <<buf, outgoing>> /\ pc' \in {"select", "exited"}
    BY <2>1, <2>2 DEF CountInv
  <2>3. CASE /\ buf' = Head(outgoing) /\ outgoing' = Tail(outgoing)
             /\ pc' = "callback"
    <3>1. /\ Len(outgoing') = Len(outgoing) - 1
          /\ Range(outgoing) = {buf'} \cup Range(outgoing')
      BY <1>0, <2>1, <2>3, TailRange
    <3> QED BY <1>0, <2>1, <2>3, <3>1 DEF CountInv
  <2> QED BY <1>5, <2>2, <2>3 DEF Dequeue, Retry, Exit
<1>6. CASE ReadFirst
  BY <1>6 DEF ReadFirst, WhileReading, driver, CountInv
<1>7. CASE ReadLast
  BY <1>7 DEF ReadLast, driver, CountInv
<1>8. CASE CallbackExits
  BY <1>8 DEF CallbackExits, Exit, driver, CountInv
<1>9. CASE Requeue
  <2>1. pc = "qbuf" /\ UNCHANGED <<n_buffers, buf>>
    BY <1>9 DEF Requeue
  <2>2. CASE Queue(buf) /\ pc' = "select"
    <3>1. incoming' = Append(incoming, buf) /\ UNCHANGED <<streaming, outgoing>>
      BY <2>2 DEF Queue
    <3>2. /\ Len(incoming') = Len(incoming) + 1
          /\ Range(incoming') = Range(incoming) \cup {buf}
      BY <1>0, <2>1, <3>1, AppendRange
    <3> QED BY <1>0, <2>1, <2>2, <3>1, <3>2 DEF CountInv
  <2>3. CASE Exit /\ UNCHANGED driver
    BY <2>1, <2>3 DEF Exit, driver, CountInv
  <2> QED BY <1>9, <2>2, <2>3 DEF Requeue, GiveBack
<1>10. CASE CameraFrame
  <2>1. streaming /\ UNCHANGED <<pc, n_buffers, buf, streaming>>
    BY <1>10 DEF CameraFrame
  <2>2. CASE incoming = <<>>
    <3>1. UNCHANGED <<incoming, outgoing>>
      BY <1>10, <2>2 DEF CameraFrame
    <3> QED BY <2>1, <3>1 DEF CountInv
  <2>3. CASE incoming # <<>>
    <3>1. /\ Head(incoming) \in Indices /\ incoming' = Tail(incoming)
          /\ outgoing' = Append(outgoing, Head(incoming))
      BY <1>10, <2>3, CameraStep
    <3>2. /\ Len(incoming') = Len(incoming) - 1
          /\ Range(incoming) = {Head(incoming)} \cup Range(incoming')
      BY <1>0, <2>3, <3>1, TailRange
    <3>3. /\ Len(outgoing') = Len(outgoing) + 1
          /\ Range(outgoing') = Range(outgoing) \cup {Head(incoming)}
      BY <1>0, <3>1, AppendRange
    <3>4. /\ Len(incoming') + Len(outgoing') = Len(incoming) + Len(outgoing)
          /\ Range(incoming') \cup Range(outgoing')
               = Range(incoming) \cup Range(outgoing)
      BY <1>0, <3>2, <3>3
    <3> QED BY <2>1, <3>4 DEF CountInv
  <2> QED BY <2>2, <2>3
<1>11. CASE UNCHANGED c_vars
  BY <1>11 DEF c_vars, CountInv
<1> QED
  BY <1>1, <1>2, <1>3, <1>4, <1>5, <1>6, <1>7, <1>8, <1>9, <1>10, <1>11
  DEF CNext, Program

\* Whatever call fails, and whenever the camera fills a buffer, every buffer that
\* was mapped is in one of the driver's queues or with the loop: BuffersConserved.
THEOREM BuffersAlwaysConserved == CSpec => []BuffersConserved
<1>1. CSpec => [](CTypeInv /\ CountInv)
  BY CTypeInvInit, CTypeInvStep, CountInvInit, CountInvStep, PTL DEF CSpec
<1>2. CTypeInv /\ CountInv => BuffersConserved
  <2> SUFFICES ASSUME CTypeInv, CountInv,
                      pc \in {"select", "dqbuf", "callback", "qbuf"}
               PROVE  LET held == incoming \o outgoing
                                    \o IF pc \in {"callback", "qbuf"} THEN <<buf>>
                                                                     ELSE <<>>
                      IN Len(held) = n_buffers /\ Range(held) = 0 .. n_buffers - 1
    BY DEF BuffersConserved
  <2> DEFINE queued == incoming \o outgoing
             mine == IF pc \in {"callback", "qbuf"} THEN <<buf>> ELSE <<>>
  <2>1. /\ incoming \in Seq(Indices) /\ outgoing \in Seq(Indices)
        /\ pc \in {"callback", "qbuf"} => buf \in Indices
        /\ Len(incoming) \in Nat /\ Len(outgoing) \in Nat
    BY DEF CTypeInv, CTypeOK
  <2>2. /\ queued \in Seq(Indices)
        /\ Len(queued) = Len(incoming) + Len(outgoing)
        /\ Range(queued) = Range(incoming) \cup Range(outgoing)
    BY <2>1, RangeConcatenation, ConcatProperties
  <2>3. /\ mine \in Seq(Indices)
        /\ pc \in {"callback", "qbuf"} => Len(mine) = 1 /\ Range(mine) = {buf}
        /\ pc \notin {"callback", "qbuf"} => Len(mine) = 0 /\ Range(mine) = {}
    BY <2>1 DEF Range
  <2> HIDE DEF queued, mine
  <2>4. /\ Len(queued \o mine) = Len(queued) + Len(mine)
        /\ Range(queued \o mine) = Range(queued) \cup Range(mine)
    <3>1. Len(queued \o mine) = Len(queued) + Len(mine)
      BY <2>2, <2>3, ConcatProperties
    <3>2. Range(queued \o mine) = Range(queued) \cup Range(mine)
      BY <2>2, <2>3, RangeConcatenation
    <3> QED BY <3>1, <3>2
  <2>5. Len(queued \o mine) = n_buffers /\ Range(queued \o mine) = 0 .. n_buffers - 1
    <3>1. CASE pc \in {"callback", "qbuf"}
      BY <2>1, <2>2, <2>3, <2>4, <3>1 DEF CountInv
    <3>2. CASE pc \in {"select", "dqbuf"}
      <4>1. /\ Len(incoming) + Len(outgoing) = n_buffers
            /\ Range(incoming) \cup Range(outgoing) = 0 .. n_buffers - 1
        BY <3>2 DEF CountInv
      <4>2. Len(mine) = 0 /\ Range(mine) = {}
        BY <2>3, <3>2
      <4>3. Len(queued \o mine) = n_buffers
        BY <2>1, <2>2, <2>4, <4>1, <4>2
      <4>4. Range(queued \o mine) = 0 .. n_buffers - 1
        BY <2>2, <2>4, <4>1, <4>2
      <4> QED BY <4>3, <4>4
    <3> QED BY <3>1, <3>2
  <2> QED BY <2>5 DEF queued, mine
<1> QED BY <1>1, <1>2, PTL

-----------------------------------------------------------------------------
(* No picture is forgotten.                                                *)

\* Is a dequeued picture waiting for its callback to begin?
Dequeued == IF pc = "callback" /\ Len(seen) = Len(delivered) THEN 1 ELSE 0

\* NoPictureForgotten, element by element, and the order of the pictures.
FilledInv ==
  /\ Len(filled) = Len(seen) + Dequeued + Len(outgoing)
  /\ \A i \in 1 .. Len(seen) : filled[i] = seen[i]
  /\ Dequeued = 1 => filled[Len(seen) + 1] = content[buf]
  /\ \A j \in 1 .. Len(outgoing) :
       filled[Len(seen) + Dequeued + j] = content[outgoing[j]]

AscendInv ==
  /\ \A i \in 1 .. Len(filled) : filled[i] < taken
  /\ \A i, j \in 1 .. Len(filled) : i < j => filled[i] < filled[j]

LEMMA FilledInvInit == CInit => FilledInv /\ AscendInv
BY DEF CInit, FilledInv, AscendInv, Dequeued

LEMMA AscendInvStep == CTypeInv /\ AscendInv /\ [CNext]_c_vars => AscendInv'
<1> SUFFICES ASSUME CTypeInv, AscendInv, [CNext]_c_vars PROVE AscendInv'
  OBVIOUS
<1>0. filled \in Seq(Pics) /\ taken \in Nat /\ Len(filled) \in Nat
      /\ \A i \in 1 .. Len(filled) : filled[i] \in Nat
  BY CaptureAssumption DEF CTypeInv, CTypeOK, Pics
<1>1. CASE UNCHANGED <<taken, filled>>
  BY <1>1 DEF AscendInv
<1>2. CASE CameraFrame /\ incoming = <<>>
  <2>1. taken' = taken + 1 /\ filled' = filled
    BY <1>2 DEF CameraFrame
  <2> QED BY <1>0, <2>1 DEF AscendInv
<1>3. CASE CameraFrame /\ incoming # <<>>
  <2>1. taken' = taken + 1 /\ filled' = Append(filled, taken) /\ taken \in Pics
    BY <1>3, CameraStep DEF CameraFrame
  <2>2. /\ Len(filled') = Len(filled) + 1
        /\ \A i \in 1 .. Len(filled) : filled'[i] = filled[i]
        /\ filled'[Len(filled) + 1] = taken
    BY <1>0, <2>1, AppendProperties
  <2>3. ASSUME NEW i \in 1 .. Len(filled')
        PROVE  filled'[i] < taken'
    <3>1. CASE i = Len(filled) + 1
      BY <1>0, <2>1, <2>2, <3>1
    <3>2. CASE i \in 1 .. Len(filled)
      BY <1>0, <2>1, <2>2, <3>2 DEF AscendInv
    <3> QED BY <1>0, <2>2, <2>3, <3>1, <3>2
  <2>4. ASSUME NEW i \in 1 .. Len(filled'), NEW j \in 1 .. Len(filled'), i < j
        PROVE  filled'[i] < filled'[j]
    <3>0. i \in 1 .. Len(filled)
      BY <1>0, <2>2, <2>4
    <3>1. CASE j = Len(filled) + 1
      BY <1>0, <2>2, <3>0, <3>1 DEF AscendInv
    <3>2. CASE j \in 1 .. Len(filled)
      BY <2>2, <2>4, <3>0, <3>2 DEF AscendInv
    <3> QED BY <1>0, <2>2, <2>4, <3>1, <3>2
  <2> QED BY <2>3, <2>4 DEF AscendInv
<1> QED
  BY <1>1, <1>2, <1>3
  DEF CNext, Program, InitDevice, QueueAll, StreamOn, Select, Dequeue, ReadFirst,
      ReadLast, CallbackExits, Requeue, Queue, GiveBack, WhileReading, driver,
      c_vars

LEMMA FilledInvStep ==
  CTypeInv /\ PlaceInv /\ ReadInv /\ FilledInv /\ [CNext]_c_vars => FilledInv'
<1> SUFFICES ASSUME CTypeInv, PlaceInv, ReadInv, FilledInv, [CNext]_c_vars
             PROVE  FilledInv'
  OBVIOUS
<1>0. /\ filled \in Seq(Pics) /\ seen \in Seq(Pics) /\ delivered \in Seq(Pics)
      /\ outgoing \in Seq(Indices)
      /\ Len(filled) \in Nat /\ Len(seen) \in Nat /\ Len(outgoing) \in Nat
      /\ Len(delivered) \in Nat /\ Dequeued \in 0 .. 1
  BY DEF CTypeInv, CTypeOK, Pics, Dequeued
<1>1. CASE UNCHANGED <<filled, seen, content, outgoing, Dequeued, buf>>
  BY <1>1 DEF FilledInv
<1>2. CASE /\ UNCHANGED <<filled, seen, content, outgoing>>
           /\ Dequeued = 0 /\ Dequeued' = 0
  BY <1>2 DEF FilledInv
<1>3. CASE ReadFirst
  <2>1. /\ Dequeued = 1 /\ UNCHANGED <<filled, content, outgoing, delivered>>
        /\ seen' = Append(seen, content[buf]) /\ content[buf] \in Pics
        /\ Len(seen) = Len(delivered)
    BY <1>3 DEF ReadFirst, Dequeued, WhileReading, Picture, driver, CTypeInv
  <2>2. /\ Len(seen') = Len(seen) + 1 /\ seen'[Len(seen) + 1] = content[buf]
        /\ \A i \in 1 .. Len(seen) : seen'[i] = seen[i]
    BY <1>0, <2>1, AppendProperties
  <2>3. Dequeued' = 0
    BY <1>0, <2>1, <2>2 DEF Dequeued
  <2>4. \A i \in 1 .. Len(seen') : filled[i] = seen'[i]
    <3> SUFFICES ASSUME NEW i \in 1 .. Len(seen') PROVE filled[i] = seen'[i]
      OBVIOUS
    <3>1. i \in 1 .. Len(seen) \/ i = Len(seen) + 1
      BY <1>0, <2>2
    <3> QED BY <2>1, <2>2, <3>1 DEF FilledInv
  <2>5. ASSUME NEW j \in 1 .. Len(outgoing)
        PROVE  filled[Len(seen') + Dequeued' + j] = content[outgoing[j]]
    <3>1. Len(seen') + Dequeued' + j = Len(seen) + Dequeued + j
      BY <1>0, <2>1, <2>2, <2>3
    <3> QED BY <3>1 DEF FilledInv
  <2>6. Len(filled) = Len(seen') + Dequeued' + Len(outgoing)
    <3>1. Len(filled) = Len(seen) + Dequeued + Len(outgoing)
      BY DEF FilledInv
    <3> QED BY <1>0, <2>1, <2>2, <2>3, <3>1
  <2>7. ~(Dequeued' = 1)
    BY <2>3
  <2>8. UNCHANGED <<filled, content, outgoing>>
    BY <2>1
  <2> QED BY <2>4, <2>5, <2>6, <2>7, <2>8 DEF FilledInv
<1>4. CASE Dequeue /\ buf' = Head(outgoing) /\ outgoing' = Tail(outgoing)
             /\ pc' = "callback"
  <2>1. /\ Dequeued = 0 /\ UNCHANGED <<filled, content, seen, delivered>>
        /\ outgoing # <<>> /\ seen = delivered
    BY <1>4 DEF Dequeue, Dequeued, CTypeInv, ReadInv
  <2>2. Dequeued' = 1
    BY <1>4, <2>1 DEF Dequeued
  <2>3. /\ Len(outgoing) \in Nat \ {0} /\ Len(outgoing') = Len(outgoing) - 1
        /\ \A j \in 1 .. Len(outgoing') : outgoing'[j] = outgoing[j + 1]
        /\ buf' = outgoing[1]
    BY <1>0, <1>4, <2>1, HeadTailProperties, EmptySeq
  <2>4. filled[Len(seen) + 1] = content[buf']
    BY <1>0, <2>1, <2>3 DEF FilledInv
  <2>5. ASSUME NEW j \in 1 .. Len(outgoing')
        PROVE  filled[Len(seen) + 1 + j] = content[outgoing'[j]]
    <3>1. j + 1 \in 1 .. Len(outgoing) /\ Len(seen) + 0 + (j + 1) = Len(seen) + 1 + j
      BY <1>0, <2>3
    <3>2. filled[Len(seen) + 0 + (j + 1)] = content[outgoing[j + 1]]
      BY <2>1, <3>1 DEF FilledInv
    <3> QED BY <2>3, <3>1, <3>2
  <2>6. Len(filled) = Len(seen) + 1 + Len(outgoing')
    BY <1>0, <2>1, <2>3 DEF FilledInv
  <2> QED BY <2>1, <2>2, <2>4, <2>5, <2>6 DEF FilledInv
<1>5. CASE CameraFrame /\ incoming # <<>>
  <2>1. /\ UNCHANGED <<pc, buf, seen, delivered>> /\ Head(incoming) \in Indices
        /\ outgoing' = Append(outgoing, Head(incoming))
        /\ filled' = Append(filled, taken) /\ taken \in Pics
        /\ content'[Head(incoming)] = taken
        /\ \A i \in Indices \ {Head(incoming)} : content'[i] = content[i]
    BY <1>5, CameraStep DEF CameraFrame
  <2>2. Dequeued' = Dequeued
    BY <2>1 DEF Dequeued
  <2>3. /\ Len(outgoing') = Len(outgoing) + 1
        /\ \A j \in 1 .. Len(outgoing) : outgoing'[j] = outgoing[j]
        /\ outgoing'[Len(outgoing) + 1] = Head(incoming)
    BY <1>0, <2>1, AppendProperties
  <2>4. /\ Len(filled') = Len(filled) + 1
        /\ \A i \in 1 .. Len(filled) : filled'[i] = filled[i]
        /\ filled'[Len(filled) + 1] = taken
    BY <1>0, <2>1, AppendProperties
  <2>5. Head(incoming) \in Range(incoming)
    BY <1>5, TailRange DEF CTypeInv, CTypeOK
  <2>6. \A j \in 1 .. Len(outgoing) :
          outgoing[j] \in Indices /\ content'[outgoing[j]] = content[outgoing[j]]
    <3> SUFFICES ASSUME NEW j \in 1 .. Len(outgoing)
                 PROVE  outgoing[j] \in Indices
                        /\ content'[outgoing[j]] = content[outgoing[j]]
      OBVIOUS
    <3>1. outgoing[j] \in Range(outgoing) /\ outgoing[j] \in Indices
      BY <1>0, RangeEquality, ElementOfSeq
    <3>2. outgoing[j] # Head(incoming)
      BY <2>5, <3>1 DEF PlaceInv
    <3> QED BY <2>1, <3>1, <3>2
  <2>7. Dequeued = 1 => content'[buf] = content[buf] /\ Len(seen) + 1 \in 1 .. Len(filled)
    <3>1. Dequeued = 1 => buf \in Indices \ {Head(incoming)}
      BY <2>5 DEF Dequeued, PlaceInv, CTypeInv
    <3> QED BY <1>0, <2>1, <3>1 DEF FilledInv
  <2>8. \A i \in 1 .. Len(seen) : filled'[i] = seen[i]
    BY <1>0, <2>4 DEF FilledInv
  <2>9. Dequeued = 1 => filled'[Len(seen) + 1] = content'[buf]
    BY <2>4, <2>7 DEF FilledInv
  <2>10. ASSUME NEW j \in 1 .. Len(outgoing')
         PROVE  filled'[Len(seen) + Dequeued + j] = content'[outgoing'[j]]
    <3>1. CASE j \in 1 .. Len(outgoing)
      <4>1. Len(seen) + Dequeued + j \in 1 .. Len(filled)
        BY <1>0, <3>1 DEF FilledInv
      <4> QED BY <2>3, <2>4, <2>6, <3>1, <4>1 DEF FilledInv
    <3>2. CASE j = Len(outgoing) + 1
      <4>1. Len(seen) + Dequeued + j = Len(filled) + 1
        BY <1>0, <3>2 DEF FilledInv
      <4> QED BY <2>1, <2>3, <2>4, <3>2, <4>1
    <3> QED BY <1>0, <2>3, <2>10, <3>1, <3>2
  <2>11. Len(filled') = Len(seen) + Dequeued + Len(outgoing')
    BY <1>0, <2>3, <2>4 DEF FilledInv
  <2> QED BY <2>1, <2>2, <2>8, <2>9, <2>10, <2>11 DEF FilledInv
<1>6. CASE CameraFrame /\ incoming = <<>>
  BY <1>1, <1>6 DEF CameraFrame, Dequeued
<1>7. CASE /\ pc # "callback" /\ pc' # "callback"
           /\ UNCHANGED <<filled, seen, content, outgoing>>
  BY <1>2, <1>7 DEF Dequeued
<1>8. CASE ReadLast \/ CallbackExits
  BY <1>0, <1>2, <1>8 DEF ReadLast, CallbackExits, Dequeued, Exit, driver
<1>9. CASE InitDevice \/ QueueAll \/ StreamOn \/ Select \/ Requeue
  BY <1>7, <1>9 DEF InitDevice, QueueAll, StreamOn, Select, Requeue, Queue,
                    GiveBack, Exit, Retry, driver
<1>10. CASE Dequeue
  BY <1>4, <1>7, <1>10 DEF Dequeue, Retry, Exit
<1>11. CASE UNCHANGED c_vars
  BY <1>1, <1>11 DEF c_vars, Dequeued
<1> QED BY <1>3, <1>5, <1>6, <1>8, <1>9, <1>10, <1>11 DEF CNext, Program

\* The whole invariant of the capture loop.
CaptureInv == CTypeInv /\ PlaceInv /\ ReadInv /\ FilledInv /\ AscendInv

LEMMA CaptureInvariant == CSpec => []CaptureInv
BY CTypeInvInit, CTypeInvStep, PlaceInvInit, PlaceInvStep, ReadInvInit, ReadInvStep,
   FilledInvInit, FilledInvStep, AscendInvStep, PTL DEF CSpec, CaptureInv

\* The callback gets every picture that found a buffer, in the order in which
\* they were taken, whatever the number of buffers: NoPictureForgotten.
THEOREM NoPictureEverForgotten == CSpec => []NoPictureForgotten
<1>1. CaptureInv => NoPictureForgotten
  <2> SUFFICES ASSUME CaptureInv PROVE NoPictureForgotten
    OBVIOUS
  <2> DEFINE dequeued == IF pc = "callback" /\ Len(seen) = Len(delivered)
                         THEN <<content[buf]>> ELSE <<>>
             waiting == [i \in 1 .. Len(outgoing) |-> content[outgoing[i]]]
             begun == seen \o dequeued
  <2>1. /\ filled \in Seq(Pics) /\ seen \in Seq(Pics) /\ outgoing \in Seq(Indices)
        /\ Len(filled) \in Nat /\ Len(seen) \in Nat /\ Len(outgoing) \in Nat
    BY DEF CaptureInv, CTypeInv, CTypeOK, Pics
  <2>2. dequeued \in Seq(Pics) /\ Len(dequeued) = Dequeued
        /\ (Dequeued = 1 => dequeued[1] = content[buf]) /\ Dequeued \in 0 .. 1
    <3>1. CASE pc = "callback" /\ Len(seen) = Len(delivered)
      BY <3>1 DEF CaptureInv, CTypeInv, Dequeued
    <3>2. CASE ~(pc = "callback" /\ Len(seen) = Len(delivered))
      BY <3>2 DEF Dequeued
    <3> QED BY <3>1, <3>2
  <2>3. waiting \in Seq(Pics) /\ Len(waiting) = Len(outgoing)
    <3>1. \A i \in 1 .. Len(outgoing) : content[outgoing[i]] \in Pics
      BY <2>1, RangeEquality DEF CaptureInv, CTypeInv
    <3> QED BY <2>1, <3>1
  <2>4. /\ begun \in Seq(Pics) /\ Len(begun) = Len(seen) + Dequeued
        /\ \A i \in 1 .. Len(begun) :
             begun[i] = IF i <= Len(seen) THEN seen[i] ELSE dequeued[i - Len(seen)]
    <3> HIDE DEF dequeued
    <3> QED BY <2>1, <2>2, ConcatProperties
  <2> HIDE DEF dequeued, begun
  <2>5. /\ begun \o waiting \in Seq(Pics)
        /\ Len(begun \o waiting) = Len(begun) + Len(outgoing)
        /\ \A i \in 1 .. Len(begun) + Len(outgoing) :
             (begun \o waiting)[i] = IF i <= Len(begun) THEN begun[i]
                                     ELSE content[outgoing[i - Len(begun)]]
    <3>1. \A i \in 1 .. Len(outgoing) : waiting[i] = content[outgoing[i]]
      OBVIOUS
    <3>2. Len(begun) \in Nat /\ Len(waiting) = Len(outgoing)
      BY <2>1, <2>2, <2>3, <2>4
    <3>3. begun \in Seq(Pics) /\ waiting \in Seq(Pics)
      BY <2>3, <2>4
    <3> HIDE DEF waiting
    <3>4. /\ begun \o waiting \in Seq(Pics)
          /\ Len(begun \o waiting) = Len(begun) + Len(waiting)
          /\ \A i \in 1 .. Len(begun) + Len(waiting) :
               (begun \o waiting)[i] = IF i <= Len(begun) THEN begun[i]
                                       ELSE waiting[i - Len(begun)]
      BY <3>3, ConcatProperties
    <3>5. ASSUME NEW i \in 1 .. Len(begun) + Len(outgoing), ~(i <= Len(begun))
          PROVE  waiting[i - Len(begun)] = content[outgoing[i - Len(begun)]]
      <4>1. i - Len(begun) \in 1 .. Len(outgoing)
        BY <2>1, <3>2, <3>5
      <4> QED BY <3>1, <4>1
    <3>6. ASSUME NEW i \in 1 .. Len(begun) + Len(outgoing)
          PROVE  (begun \o waiting)[i] = IF i <= Len(begun) THEN begun[i]
                                         ELSE content[outgoing[i - Len(begun)]]
      <4>1. (begun \o waiting)[i] = IF i <= Len(begun) THEN begun[i]
                                     ELSE waiting[i - Len(begun)]
        BY <3>2, <3>4
      <4> QED BY <3>5, <4>1
    <3> HIDE DEF CaptureInv
    <3> QED BY <3>2, <3>4, <3>6
  <2>6. ASSUME NEW i \in 1 .. Len(filled)
        PROVE  filled[i] = (begun \o waiting)[i]
    <3> HIDE DEF waiting
    <3>1. CASE i <= Len(seen)
      <4>1. i \in 1 .. Len(seen) /\ i \in 1 .. Len(begun) /\ i <= Len(begun)
        BY <2>1, <2>2, <2>4, <2>6, <3>1
      <4>2. (begun \o waiting)[i] = begun[i]
        BY <2>1, <2>2, <2>4, <2>5, <4>1
      <4>3. begun[i] = seen[i]
        BY <2>4, <3>1, <4>1
      <4>4. filled[i] = seen[i]
        BY <4>1 DEF CaptureInv, FilledInv
      <4> QED BY <4>2, <4>3, <4>4
    <3>2. CASE i = Len(seen) + 1 /\ Dequeued = 1
      <4>1. (begun \o waiting)[i] = begun[i]
        BY <2>1, <2>4, <2>5, <3>2
      <4>2. begun[i] = dequeued[1]
        BY <2>1, <2>4, <3>2
      <4>3. filled[i] = content[buf]
        BY <3>2 DEF CaptureInv, FilledInv
      <4>4. dequeued[1] = content[buf]
        BY <2>2, <3>2
      <4> QED BY <4>1, <4>2, <4>3, <4>4
    <3>3. CASE i > Len(begun)
      <4>1. i - Len(begun) \in 1 .. Len(outgoing)
        BY <2>1, <2>2, <2>4, <3>3 DEF CaptureInv, FilledInv
      <4>2. filled[Len(begun) + (i - Len(begun))] = content[outgoing[i - Len(begun)]]
        BY <2>4, <4>1 DEF CaptureInv, FilledInv
      <4>3. /\ i \in 1 .. Len(begun) + Len(outgoing) /\ ~(i <= Len(begun))
            /\ Len(begun) + (i - Len(begun)) = i
        BY <2>1, <2>2, <2>4, <3>3, <4>1
      <4>4. (begun \o waiting)[i] = content[outgoing[i - Len(begun)]]
        BY <2>5, <4>3
      <4> QED BY <4>2, <4>3, <4>4
    <3>4. \/ i <= Len(seen)
          \/ i = Len(seen) + 1 /\ Dequeued = 1
          \/ i > Len(begun)
      <4>1. Len(begun) = Len(seen) + Dequeued /\ Dequeued \in {0, 1} /\ i \in Nat
        BY <2>1, <2>2, <2>4
      <4> HIDE DEF CaptureInv, Dequeued
      <4> QED BY <2>1, <4>1
    <3> QED BY <3>1, <3>2, <3>3, <3>4
  <2>7. Len(filled) = Len(begun \o waiting)
    BY <2>1, <2>2, <2>4, <2>5 DEF CaptureInv, FilledInv
  <2>8. filled = begun \o waiting
    <3> HIDE DEF waiting
    <3> QED BY <2>1, <2>5, <2>6, <2>7, SeqEqual
  <2> QED BY <2>8 DEF begun, dequeued, NoPictureForgotten
<1> QED BY <1>1, CaptureInvariant, PTL

-----------------------------------------------------------------------------
(* The whole streamer.  Its two parts share steps but no variable, so what *)
(* holds of each of them alone holds of it, and the two invariants         *)
(* together give the promise from lens to screen.                          *)

LEMMA StepOfBoth == [SNext]_all_vars => [Next]_vars /\ [CNext]_c_vars
<1> SUFFICES ASSUME [SNext]_all_vars PROVE [Next]_vars /\ [CNext]_c_vars
  OBVIOUS
<1>1. CASE Device
  BY <1>1 DEF Device, CNext, Program
<1>2. CASE CallbackBegins
  BY <1>2 DEF CallbackBegins, Next, Sender, CNext, Program
<1>3. CASE CallbackSends
  BY <1>3 DEF CallbackSends, Next, Sender
<1>4. CASE SendtoFails
  BY <1>4 DEF SendtoFails, CNext, Program
<1>5. CASE CallbackReturns
  BY <1>5 DEF CallbackReturns, Next, Sender, CNext, Program
<1>6. CASE Viewing
  BY <1>6 DEF Viewing, Next
<1>7. CASE Filming
  BY <1>7 DEF Filming, CNext
<1>8. CASE UNCHANGED all_vars
  BY <1>8 DEF all_vars
<1> QED
  BY <1>1, <1>2, <1>3, <1>4, <1>5, <1>6, <1>7, <1>8 DEF SNext, Streaming

\* Every behaviour of the streamer is one of the video path, and one of the
\* capture loop: composing them adds no step to either.
THEOREM StreamerIsBoth == SSpec => Spec /\ CSpec
BY StepOfBoth, PTL DEF SSpec, SInit, Spec, CSpec

\* The callback that encodes and sends a picture reads one that nobody writes,
\* no buffer is lost when a call inside it fails, and none of the pictures that
\* found a buffer is left out.
THEOREM StreamerKeepsItsBuffers ==
  SSpec => []FrameStable /\ []BuffersConserved /\ []NoPictureForgotten
BY StreamerIsBoth, FrameAlwaysStable, BuffersAlwaysConserved,
   NoPictureEverForgotten, PTL

\* Nothing is lost between the two programs here, and JPEG frames end with a
\* marked packet: the delay shown is that of the frame on the screen, and both
\* ends count the same slices that did not fit.
THEOREM StreamerCountsAlike == SSpec => DelayOfShownFrame /\ []InvalidConserved
<1>1. MarkersArrive
  BY Undisturbed, JpgAssumption DEF MarkersArrive
<1> QED BY <1>1, StreamerIsBoth, DelayAlwaysOfShownFrame, InvalidAlwaysConserved

-----------------------------------------------------------------------------
(* From lens to screen.                                                    *)

Packed == pic + (IF s_pc = "sending" THEN 1 ELSE 0)

\* The frame number counts the callback's calls, and only frames that were
\* packed are displayed.
CallsInv == /\ Packed = Len(seen)
            /\ displayed \subseteq 0 .. Len(seen) - 1

StreamerInv == StreamInv /\ CaptureInv /\ CallsInv

\* A picture is shown in the callback's order, which is the camera's.
LEMMA SeenAscends ==
  ASSUME CaptureInv
  PROVE  /\ Len(seen) \in Nat
         /\ \A i \in 1 .. Len(seen) : seen[i] \in 0 .. taken - 1
         /\ \A i, j \in 1 .. Len(seen) : i < j => seen[i] < seen[j]
<1>1. /\ seen \in Seq(Pics) /\ filled \in Seq(Pics) /\ outgoing \in Seq(Indices)
      /\ Len(seen) \in Nat /\ Len(filled) \in Nat /\ Len(outgoing) \in Nat
      /\ taken \in Nat /\ Dequeued \in 0 .. 1
  BY DEF CaptureInv, CTypeInv, CTypeOK, Pics, Dequeued
<1>2. Len(filled) = Len(seen) + Dequeued + Len(outgoing)
  BY DEF CaptureInv, FilledInv
<1>3. \A i \in 1 .. Len(seen) : i \in 1 .. Len(filled)
  BY <1>1, <1>2
<1>4. \A i \in 1 .. Len(seen) : filled[i] = seen[i]
  BY DEF CaptureInv, FilledInv
<1>5. \A i \in 1 .. Len(seen) : seen[i] \in Nat
  <2>1. \A i \in 1 .. Len(seen) : seen[i] \in Pics
    BY <1>1, ElementOfSeq
  <2> QED BY <2>1, CaptureAssumption DEF Pics
<1>6. \A i \in 1 .. Len(filled) : filled[i] < taken
  BY DEF CaptureInv, AscendInv
<1>7. \A i, j \in 1 .. Len(filled) : i < j => filled[i] < filled[j]
  BY DEF CaptureInv, AscendInv
<1>8. \A i \in 1 .. Len(seen) : seen[i] \in 0 .. taken - 1
  BY <1>1, <1>3, <1>4, <1>5, <1>6
<1> QED BY <1>1, <1>3, <1>4, <1>7, <1>8

\* The callback's steps show nothing, and may begin on one more picture.
LEMMA StreamingStep ==
  ASSUME StreamerInv, Streaming
  PROVE  /\ UNCHANGED <<displayed, stat, taken>>
         /\ Packed' = Len(seen')
         /\ \/ seen' = seen
            \/ \E x \in Pics : seen' = Append(seen, x)
<1>0. /\ pic \in Nat /\ seen \in Seq(Pics) /\ s_pc \in {"idle", "sending"}
      /\ Packed = Len(seen)
      /\ pc = "callback" => content[buf] \in Pics
  BY DEF StreamerInv, StreamInv, TypeInv, TypeOK, CaptureInv, CTypeInv, CTypeOK,
         Pics, CallsInv
<1>1. CASE Device
  BY <1>0, <1>1
  DEF Device, vars, s_vars, r_vars, h_vars, Packed, InitDevice, QueueAll,
      StreamOn, Select, Dequeue, Requeue, Queue, GiveBack, driver
<1>2. CASE CallbackBegins
  <2>1. /\ seen' = Append(seen, content[buf]) /\ content[buf] \in Pics
        /\ UNCHANGED taken
    BY <1>0, <1>2 DEF CallbackBegins, ReadFirst, Picture, WhileReading, driver
  <2>2. Len(seen') = Len(seen) + 1
    BY <1>0, <2>1, AppendProperties
  <2>3. UNCHANGED <<displayed, stat>> /\ Packed' = Packed + 1
    BY <1>0, <1>2
    DEF CallbackBegins, EncodeFrame, SkipFrame, AdvanceFrame, r_vars, h_vars, Packed
  <2> QED BY <1>0, <2>1, <2>2, <2>3
<1>3. CASE CallbackSends
  BY <1>0, <1>3 DEF CallbackSends, SendSlice, c_vars, r_vars, h_vars, Packed
<1>4. CASE SendtoFails
  BY <1>0, <1>4 DEF SendtoFails, CallbackExits, driver, vars, s_vars, r_vars,
                    h_vars, Packed
<1>5. CASE CallbackReturns
  BY <1>0, <1>5 DEF CallbackReturns, ReadLast, driver, FinishFrame, AdvanceFrame,
                    vars, s_vars, r_vars, h_vars, Packed
<1> QED BY <1>1, <1>2, <1>3, <1>4, <1>5 DEF Streaming

\* The receiver's steps show a packed frame, younger than those it has shown,
\* or nothing.
LEMMA ViewingStep ==
  ASSUME StreamerInv, Viewing
  PROVE  /\ UNCHANGED <<seen, taken>> /\ Packed' = Len(seen)
         /\ \/ UNCHANGED <<displayed, stat.frames>>
            \/ \E f \in 0 .. Len(seen) - 1 :
                 /\ \A g \in displayed : g < f
                 /\ displayed' = displayed \cup {f}
                 /\ stat'.frames = stat.frames + 1
<1>1. UNCHANGED <<seen, taken>> /\ Packed = Len(seen) /\ Packed \in Nat
  BY DEF Viewing, c_vars, StreamerInv, CallsInv, StreamInv, TypeInv, TypeOK, Packed
<1>2. Packed' = Packed
  BY DEF Viewing, Receiver, Receive, Reuse, Show, s_vars, Packed
<1>3. [FD!DNext]_(FD!dvars)
  BY DisplayStep DEF StreamerInv, Viewing, Next
<1>4. ~FD!Capture
  BY <1>1, <1>2 DEF FD!Capture, Packed
<1>5. CASE FD!Display
  BY <1>1, <1>2, <1>5 DEF FD!Display, Packed
<1>6. CASE UNCHANGED FD!dvars
  BY <1>1, <1>2, <1>6 DEF FD!dvars
<1> QED BY <1>3, <1>4, <1>5, <1>6 DEF FD!DNext

LEMMA CallsInvStep == StreamerInv /\ [SNext]_all_vars => CallsInv'
<1> SUFFICES ASSUME StreamerInv, [SNext]_all_vars PROVE CallsInv'
  OBVIOUS
<1>0. /\ displayed \subseteq 0 .. Len(seen) - 1 /\ Packed = Len(seen)
      /\ Len(seen) \in Nat /\ seen \in Seq(Pics)
  BY DEF StreamerInv, CallsInv, CaptureInv, CTypeInv, CTypeOK, Pics
<1>1. CASE Streaming
  <2>1. Len(seen') \in {Len(seen), Len(seen) + 1}
    <3>1. CASE seen' = seen
      BY <3>1
    <3>2. CASE \E x \in Pics : seen' = Append(seen, x)
      BY <1>0, <3>2, AppendProperties
    <3> QED BY <1>1, <3>1, <3>2, StreamingStep
  <2>2. displayed' = displayed /\ Packed' = Len(seen')
    BY <1>1, StreamingStep
  <2> QED BY <1>0, <2>1, <2>2 DEF CallsInv
<1>2. CASE Viewing
  BY <1>0, <1>2, ViewingStep DEF CallsInv
<1>3. CASE Filming
  <2>1. UNCHANGED <<displayed, seen, s_pc, pic>>
    BY <1>3 DEF Filming, CameraFrame, vars, s_vars, h_vars
  <2> QED BY <1>0, <2>1 DEF CallsInv, Packed
<1>4. CASE UNCHANGED all_vars
  <2>1. UNCHANGED <<displayed, seen, s_pc, pic>>
    BY <1>4 DEF all_vars, vars, c_vars, s_vars, h_vars
  <2> QED BY <1>0, <2>1 DEF CallsInv, Packed
<1> QED BY <1>1, <1>2, <1>3, <1>4 DEF SNext

LEMMA StreamerInvariant == SSpec => []StreamerInv
<1>1. SInit => CallsInv
  BY DEF SInit, Init, SenderInit, ReceiverInit, CInit, CallsInv, Packed
<1>2. Distinct /\ Ordered
  BY Undisturbed DEF Distinct
<1>3. Spec => []StreamInv
  BY <1>2, StreamInvariant
<1> QED
  BY <1>1, <1>3, StreamerIsBoth, CaptureInvariant, CallsInvStep, PTL
  DEF SSpec, StreamerInv

\* The viewer sees what the camera took, each picture at most once and in the
\* order of taking, for every number of driver buffers, of slices and of frames
\* skipped by -S, and with failing calls anywhere in the sender.
THEOREM StreamerShowsTheCamera == SSpec => ShowsTheCamera
<1> DEFINE shown == {seen[f + 1] : f \in displayed}
<1>1. SInit => Camera!DInit
  BY DEF SInit, Init, SenderInit, ReceiverInit, CInit, Camera!DInit
<1>2. StreamerInv /\ [SNext]_all_vars => [Camera!DNext]_(Camera!dvars)
  <2> SUFFICES ASSUME StreamerInv, [SNext]_all_vars
               PROVE  [Camera!DNext]_(Camera!dvars)
    OBVIOUS
  <2>0. /\ displayed \subseteq 0 .. Len(seen) - 1 /\ Len(seen) \in Nat
        /\ seen \in Seq(Pics)
        /\ \A f \in 0 .. Len(seen) - 1 : f + 1 \in 1 .. Len(seen)
    BY DEF StreamerInv, CallsInv, CaptureInv, CTypeInv, CTypeOK, Pics
  <2>1. CASE Streaming
    <3>1. UNCHANGED <<displayed, stat, taken>>
      BY <2>1, StreamingStep
    <3>2. \A f \in displayed : seen'[f + 1] = seen[f + 1]
      <4>1. CASE seen' = seen
        BY <4>1
      <4>2. CASE \E x \in Pics : seen' = Append(seen, x)
        BY <2>0, <4>2, AppendProperties
      <4> QED BY <2>1, <4>1, <4>2, StreamingStep
    <3>3. shown' = shown
      BY <3>1, <3>2
    <3> QED BY <3>1, <3>3 DEF Camera!dvars
  <2>2. CASE Viewing
    <3>1. UNCHANGED <<seen, taken>>
      BY <2>2, ViewingStep
    <3>2. CASE UNCHANGED <<displayed, stat.frames>>
      BY <3>1, <3>2 DEF Camera!dvars
    <3>3. ASSUME NEW f \in 0 .. Len(seen) - 1,
                 \A g \in displayed : g < f,
                 displayed' = displayed \cup {f},
                 stat'.frames = stat.frames + 1
          PROVE  Camera!Display
      <4>1. seen[f + 1] \in 0 .. taken - 1
        BY <2>0, SeenAscends DEF StreamerInv
      <4>2. \A g \in displayed : seen[g + 1] < seen[f + 1]
        <5>1. ASSUME NEW g \in displayed
              PROVE  g + 1 \in 1 .. Len(seen) /\ g + 1 < f + 1
          BY <2>0, <3>3
        <5> QED BY <2>0, <5>1, SeenAscends DEF StreamerInv
      <4>3. shown' = shown \cup {seen[f + 1]}
        BY <3>1, <3>3
      <4> QED BY <3>1, <3>3, <4>1, <4>2, <4>3 DEF Camera!Display
    <3> QED BY <2>2, <3>2, <3>3, ViewingStep DEF Camera!DNext
  <2>3. CASE Filming
    <3>1. taken' = taken + 1 /\ UNCHANGED <<seen, displayed, stat>>
      BY <2>3 DEF Filming, CameraFrame, vars, r_vars, h_vars
    <3> QED BY <3>1 DEF Camera!DNext, Camera!Capture
  <2>4. CASE UNCHANGED all_vars
    BY <2>4 DEF all_vars, vars, c_vars, r_vars, h_vars, Camera!dvars
  <2> QED BY <2>1, <2>2, <2>3, <2>4 DEF SNext
<1> QED
  BY <1>1, <1>2, StreamerInvariant, PTL DEF SSpec, ShowsTheCamera, Camera!DSpec
=============================================================================
