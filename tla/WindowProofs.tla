---------------------------- MODULE WindowProofs -----------------------------
(***************************************************************************)
(* Theorems about DisplayWindow, for windows of any height, any number of  *)
(* pictures and any events: with shared memory or without, the window goes *)
(* forward only.                                                           *)
(***************************************************************************)
EXTENDS DisplayWindow, SequenceTheorems, TLAPS

Request == [frame : Nat, rows : {ByReference} \cup [Lines -> Nat]]

\* The requests that the server has not completed, wherever they wait.
Path == requests \o outbuf

WindowTypes ==
  /\ pc \in {"setup", "receive", "draw", "put", "pending", "event", "exited"}
  /\ isShared \in BOOLEAN
  /\ image \in [Lines -> Nat] /\ screen \in [Lines -> Nat]
  /\ row \in Nat /\ srow \in Lines /\ frame \in Nat /\ done \in Nat
  /\ outbuf \in Seq(Request) /\ requests \in Seq(Request)

\* The image is of the frame in work, apart from the rows not yet drawn.
ImageInv ==
  /\ pc = "setup" => Path = <<>>
  /\ \A l \in Lines : image[l] <= frame
  /\ pc = "draw" => row \in Lines /\ \A l \in Lines : l < row => image[l] = frame
  /\ pc \notin {"draw", "exited"} => \A l \in Lines : image[l] = frame

\* What a request says when the server comes to it.
Faithful(request) ==
  /\ \A l \in Lines : request.frame <= image[l]
  /\ IF isShared THEN request.rows = ByReference
     ELSE request.rows = [l \in Lines |-> request.frame]

\* The requests are of ascending pictures, the last one of the picture that was
\* put last.
PathInv ==
  /\ \A i \in 1 .. Len(Path) : Faithful(Path[i]) /\ done <= Path[i].frame
  /\ \A i, j \in 1 .. Len(Path) : i <= j => Path[i].frame <= Path[j].frame
  /\ pc \in {"receive", "pending", "event"} =>
       frame = IF Path = <<>> THEN done ELSE Path[Len(Path)].frame

\* The rows above srow are of the first request, the others of the one before.
ScreenInv ==
  /\ requests = <<>> => srow = 0
  /\ \A l \in Lines :
       LET from == IF l < srow THEN requests[1].frame ELSE done
       IN /\ from <= screen[l] /\ screen[l] <= image[l]
          /\ ~isShared => screen[l] = from

WindowInv == WindowTypes /\ ImageInv /\ PathInv /\ ScreenInv

LEMMA ConcatAppend ==
  ASSUME NEW S, NEW s \in Seq(S), NEW t \in Seq(S), NEW x \in S
  PROVE  s \o Append(t, x) = Append(s \o t, x)
<1>1. Append(t, x) = t \o <<x>> /\ s \o t \in Seq(S) /\ <<x>> \in Seq(S)
  BY AppendIsConcat, ConcatProperties
<1>2. Append(s \o t, x) = (s \o t) \o <<x>>
  BY <1>1, AppendIsConcat
<1> QED BY <1>1, <1>2, ConcatAssociative

LEMMA ConcatTail ==
  ASSUME NEW S, NEW s \in Seq(S), NEW t \in Seq(S), s # <<>>
  PROVE  /\ Tail(s) \in Seq(S) /\ Tail(s) \o t = Tail(s \o t)
         /\ (s \o t)[1] = s[1] /\ Head(s) = s[1] /\ s \o t # <<>>
<1>1. /\ Tail(s) \in Seq(S) /\ Len(s) \in Nat \ {0} /\ Len(t) \in Nat
      /\ Len(Tail(s)) = Len(s) - 1 /\ Head(s) = s[1]
      /\ \A i \in 1 .. Len(s) - 1 : Tail(s)[i] = s[i + 1]
  BY HeadTailProperties, EmptySeq
<1>2. /\ s \o t \in Seq(S) /\ Len(s \o t) = Len(s) + Len(t)
      /\ \A i \in 1 .. Len(s) + Len(t) :
           (s \o t)[i] = IF i <= Len(s) THEN s[i] ELSE t[i - Len(s)]
  BY ConcatProperties
<1>3. s \o t # <<>>
  BY <1>1, <1>2, EmptySeq
<1>4. /\ Tail(s \o t) \in Seq(S) /\ Len(Tail(s \o t)) = Len(s) + Len(t) - 1
      /\ \A i \in 1 .. Len(s) + Len(t) - 1 : Tail(s \o t)[i] = (s \o t)[i + 1]
  BY <1>2, <1>3, HeadTailProperties
<1>5. /\ Tail(s) \o t \in Seq(S) /\ Len(Tail(s) \o t) = Len(s) - 1 + Len(t)
      /\ \A i \in 1 .. Len(s) - 1 + Len(t) :
           (Tail(s) \o t)[i] = IF i <= Len(s) - 1 THEN Tail(s)[i]
                               ELSE t[i - (Len(s) - 1)]
  BY <1>1, ConcatProperties
<1>6. ASSUME NEW i \in 1 .. Len(s) - 1 + Len(t)
      PROVE  (Tail(s) \o t)[i] = Tail(s \o t)[i]
  <2>1. i + 1 \in 1 .. Len(s) + Len(t) /\ i \in 1 .. Len(s) + Len(t) - 1
    BY <1>1
  <2>2. Tail(s \o t)[i] = IF i + 1 <= Len(s) THEN s[i + 1]
                          ELSE t[i + 1 - Len(s)]
    BY <1>2, <1>4, <2>1
  <2>3. CASE i <= Len(s) - 1
    BY <1>1, <1>5, <2>2, <2>3
  <2>4. CASE i > Len(s) - 1
    <3>1. i - (Len(s) - 1) = i + 1 - Len(s) /\ ~(i + 1 <= Len(s))
      BY <1>1, <2>4
    <3> QED BY <1>1, <1>5, <2>2, <2>4, <3>1
  <2> QED BY <1>1, <2>3, <2>4
<1>7. Tail(s) \o t = Tail(s \o t)
  <2>1. Len(Tail(s) \o t) = Len(Tail(s \o t))
    BY <1>1, <1>4, <1>5
  <2>2. \A i \in 1 .. Len(Tail(s) \o t) : (Tail(s) \o t)[i] = Tail(s \o t)[i]
    BY <1>5, <1>6
  <2> QED BY <1>4, <1>5, <2>1, <2>2, SeqEqual
<1>8. (s \o t)[1] = s[1]
  BY <1>1, <1>2
<1> QED BY <1>1, <1>3, <1>7, <1>8

LEMMA RowsAreThere ==
  /\ Lines \subseteq Nat /\ 0 \in Lines
  /\ \A f \in [Lines -> Nat] : f # ByReference
<1>1. Lines \subseteq Nat /\ 0 \in Lines
  BY WindowParams DEF Lines
<1>2. DOMAIN ByReference = {}
  BY DEF ByReference
<1> QED BY <1>1, <1>2

LEMMA WindowInit == Init => WindowInv
<1> SUFFICES ASSUME Init PROVE WindowInv
  OBVIOUS
<1>1. Path = <<>> /\ requests = <<>> /\ Len(Path) = 0
  BY DEF Init, Path
<1> QED BY <1>1, RowsAreThere
        DEF Init, WindowInv, WindowTypes, ImageInv, PathInv, ScreenInv

\* A step that leaves the requests alone, while the image goes forward, keeps
\* them faithful and in order.
LEMMA PathKeeps ==
  ASSUME WindowInv, image' \in [Lines -> Nat], UNCHANGED <<isShared, Path, done>>,
         \A l \in Lines : image[l] <= image'[l]
  PROVE  /\ \A i \in 1 .. Len(Path') : Faithful(Path[i])' /\ done' <= Path'[i].frame
         /\ \A i, j \in 1 .. Len(Path') : i <= j => Path'[i].frame <= Path'[j].frame
<1>1. Path \in Seq(Request) /\ \A i \in 1 .. Len(Path) : Path[i].frame \in Nat
  <2>1. Path \in Seq(Request)
    BY DEF WindowInv, WindowTypes, Path
  <2>2. \A i \in 1 .. Len(Path) : Path[i] \in Request
    BY <2>1
  <2> QED BY <2>1, <2>2 DEF Request
<1>2. ASSUME NEW i \in 1 .. Len(Path)
      PROVE  Faithful(Path[i])' /\ done' <= Path'[i].frame
  <2>1. Faithful(Path[i]) /\ done <= Path[i].frame /\ Path[i].frame \in Nat
    BY <1>1, <1>2 DEF WindowInv, PathInv
  <2> QED BY <2>1 DEF Faithful, WindowInv, WindowTypes
<1> QED BY <1>1, <1>2 DEF WindowInv, PathInv

\* A step of the receiver leaves the screen, and does not touch the request
\* that the server is at.
LEMMA ScreenKeeps ==
  ASSUME WindowInv, image' \in [Lines -> Nat], UNCHANGED <<srow, screen, done>>,
         requests # <<>> => requests' # <<>> /\ requests'[1] = requests[1],
         UNCHANGED isShared, \A l \in Lines : image[l] <= image'[l]
  PROVE  ScreenInv'
<1>1. requests' = <<>> => srow = 0
  BY DEF WindowInv, ScreenInv
<1>2. ASSUME NEW l \in Lines
      PROVE  LET from == IF l < srow THEN requests'[1].frame ELSE done
             IN /\ from <= screen[l] /\ screen[l] <= image'[l]
                /\ ~isShared => screen[l] = from
  <2>1. /\ image[l] \in Nat /\ image'[l] \in Nat /\ screen[l] \in Nat
        /\ image[l] <= image'[l] /\ screen[l] <= image[l]
    BY DEF WindowInv, WindowTypes, ScreenInv
  <2>2. screen[l] <= image'[l]
    BY <2>1
  <2>3. l < srow => requests # <<>>
    BY RowsAreThere DEF WindowInv, ScreenInv
  <2> QED BY <2>2, <2>3 DEF WindowInv, ScreenInv
<1> QED BY <1>1, <1>2 DEF ScreenInv

LEMMA ClientStep == WindowInv /\ Client => WindowInv'
<1> SUFFICES ASSUME WindowInv, Client PROVE WindowInv'
  OBVIOUS
<1> USE RowsAreThere
<1>1. CASE Setup
  <2>1. /\ pc = "setup" /\ pc' \in {"receive", "exited"} /\ isShared' \in BOOLEAN
        /\ UNCHANGED <<image, row, frame, outbuf, events, kept, server>>
    BY <1>1 DEF Setup, WindowInv, WindowTypes
  <2>2. Path = <<>> /\ Path' = <<>> /\ requests = <<>> /\ Len(Path) = 0
    BY <2>1 DEF WindowInv, ImageInv, WindowTypes, Path, server
  <2>3. \A l \in Lines : image[l] = frame
    BY <2>1 DEF WindowInv, ImageInv
  <2> QED BY <2>1, <2>2, <2>3
          DEF WindowInv, WindowTypes, ImageInv, PathInv, ScreenInv, server
<1>2. CASE NextPicture
  <2>1. /\ pc = "receive" /\ pc' = "draw" /\ frame' = frame + 1 /\ row' = 0
        /\ image' = image
        /\ UNCHANGED <<isShared, outbuf, requests, srow, screen, done>>
    BY <1>2 DEF NextPicture, Kept, server
  <2>2. UNCHANGED Path /\ \A l \in Lines : image[l] <= image'[l]
    BY <2>1 DEF Path, WindowInv, WindowTypes
  <2>3. ImageInv'
    BY <2>1 DEF WindowInv, WindowTypes, ImageInv
  <2>4. WindowTypes'
    BY <2>1 DEF WindowInv, WindowTypes
  <2>5. PathInv' /\ ScreenInv'
    BY <2>1, <2>2, <2>4, PathKeeps, ScreenKeeps DEF WindowTypes, PathInv
  <2> QED BY <2>3, <2>4, <2>5 DEF WindowInv
<1>3. CASE DrawRow
  <2>1. /\ pc = "draw" /\ row \in Lines
        /\ UNCHANGED <<isShared, frame, outbuf, requests, srow, screen, done, Path>>
    BY <1>3 DEF DrawRow, server, Path, WindowInv, ImageInv
  <2>2. CASE drawable /\ attached
    <3>1. /\ image' = [image EXCEPT ![row] = frame] /\ row' = row + 1
          /\ pc' = IF row + 1 >= Rows THEN "put" ELSE "draw"
      BY <1>3, <2>1, <2>2 DEF DrawRow, AllDrawn
    <3>2. image' \in [Lines -> Nat] /\ \A l \in Lines : image[l] <= image'[l]
      BY <2>1, <3>1 DEF WindowInv, WindowTypes, ImageInv
    <3>3. \A l \in Lines : /\ image'[l] <= frame
                           /\ l < row + 1 => image'[l] = frame
      BY <2>1, <3>1 DEF WindowInv, WindowTypes, ImageInv
    <3>4. row + 1 >= Rows => \A l \in Lines : l < row + 1
      BY <2>1, WindowParams DEF Lines, WindowInv, WindowTypes
    <3>5. row + 1 < Rows => row + 1 \in Lines
      BY <2>1, WindowParams DEF Lines, WindowInv, WindowTypes
    <3>6. ImageInv'
      BY <2>1, <3>1, <3>3, <3>4, <3>5, WindowParams DEF ImageInv, Lines
    <3>7. WindowTypes'
      BY <2>1, <3>1, <3>2 DEF WindowInv, WindowTypes
    <3>8. PathInv' /\ ScreenInv'
      BY <2>1, <3>1, <3>2, PathKeeps, ScreenKeeps DEF PathInv
    <3> QED BY <3>6, <3>7, <3>8 DEF WindowInv
  <2>3. CASE ~(drawable /\ attached)
    <3>1. pc' = "exited" /\ UNCHANGED <<image, row>>
      BY <1>3, <2>3 DEF DrawRow
    <3>2. \A l \in Lines : image[l] <= image'[l]
      BY <3>1 DEF WindowInv, WindowTypes
    <3> QED BY <2>1, <3>1, <3>2, PathKeeps, ScreenKeeps
            DEF WindowInv, WindowTypes, ImageInv, PathInv
  <2> QED BY <2>2, <2>3
<1>4. CASE ImagePut
  <2> DEFINE request == [frame |-> frame, rows |-> RowsOfRequest]
  <2>1. /\ pc = "put" /\ pc' = "pending"
        /\ UNCHANGED <<isShared, image, row, frame, srow, screen, done>>
        /\ \/ outbuf' = Append(outbuf, request) /\ UNCHANGED requests
           \/ outbuf' = <<request>> /\ requests' = requests \o outbuf
           \/ outbuf' = <<>> /\ requests' = requests \o Append(outbuf, request)
    BY <1>4 DEF ImagePut
  <2>2. \A l \in Lines : image[l] = frame
    BY <2>1 DEF WindowInv, ImageInv
  <2>3. request \in Request
    BY DEF RowsOfRequest, Request, WindowInv, WindowTypes
  <2>4. Faithful(request)
    <3>1. image = [l \in Lines |-> frame]
      BY <2>2 DEF WindowInv, WindowTypes
    <3>2. request.rows = IF isShared THEN ByReference ELSE image
      BY DEF RowsOfRequest
    <3>3. \A l \in Lines : request.frame <= image[l]
      BY <2>2 DEF WindowInv, WindowTypes
    <3> QED BY <3>1, <3>2, <3>3 DEF Faithful
  <2> HIDE DEF request
  <2>5. outbuf \in Seq(Request) /\ requests \in Seq(Request) /\ Path \in Seq(Request)
    BY DEF WindowInv, WindowTypes, Path
  <2>6. Path' = Append(Path, request)
    <3>1. CASE outbuf' = Append(outbuf, request) /\ UNCHANGED requests
      BY <2>3, <2>5, <3>1, ConcatAppend DEF Path
    <3>2. CASE outbuf' = <<>> /\ requests' = requests \o Append(outbuf, request)
      <4>1. Path' = requests \o Append(outbuf, request)
        BY <2>3, <2>5, <3>2, ConcatEmptySeq, ConcatProperties, AppendProperties
           DEF Path
      <4> QED BY <2>3, <2>5, <4>1, ConcatAppend DEF Path
    <3>3. CASE outbuf' = <<request>> /\ requests' = requests \o outbuf
      <4>1. Append(Path, request) = (requests \o outbuf) \o <<request>>
        BY <2>3, <2>5, AppendIsConcat DEF Path
      <4> QED BY <3>3, <4>1 DEF Path
    <3> QED BY <2>1, <3>1, <3>2, <3>3
  <2>7. outbuf' \in Seq(Request) /\ requests' \in Seq(Request)
    <3>1. /\ Append(outbuf, request) \in Seq(Request) /\ <<>> \in Seq(Request)
          /\ requests \o Append(outbuf, request) \in Seq(Request)
          /\ <<request>> \in Seq(Request) /\ requests \o outbuf \in Seq(Request)
      <4>1. Append(outbuf, request) \in Seq(Request)
        BY <2>3, <2>5
      <4>2. <<request>> \in Seq(Request)
        BY <2>3
      <4> QED BY <2>5, <4>1, <4>2, ConcatProperties
    <3> QED BY <2>1, <2>5, <3>1
  <2>8. WindowTypes'
    BY <2>1, <2>7 DEF WindowInv, WindowTypes
  <2>9. ImageInv'
    BY <2>1, <2>2, RowsAreThere DEF WindowInv, WindowTypes, ImageInv
  <2>10. PathInv'
    <3> DEFINE n == Len(Path)
    <3>1. /\ n \in Nat /\ Len(Path') = n + 1 /\ Path' # <<>>
          /\ \A i \in 1 .. n : Path'[i] = Path[i] /\ Path[i] \in Request
          /\ Path'[n + 1] = request
      BY <2>3, <2>5, <2>6, AppendProperties
    <3>2. \A i \in 1 .. n : /\ Faithful(Path[i]) /\ done <= Path[i].frame
                            /\ Path[i].frame \in Nat
      BY <3>1 DEF WindowInv, PathInv, Request
    <3>3. request.frame = frame
      BY DEF request
    <3>4. \A i \in 1 .. n : Path[i].frame <= frame
      BY <2>2, <3>2, RowsAreThere DEF Faithful
    <3>5. done <= frame
      <4>1. CASE n = 0
        <5>1. requests = <<>>
          BY <2>5, <4>1, ConcatProperties, EmptySeq DEF Path
        <5>2. srow = 0 /\ 0 \in Lines /\ image[0] = frame
          BY <2>2, <5>1, RowsAreThere DEF WindowInv, ScreenInv
        <5> QED BY <5>2 DEF WindowInv, WindowTypes, ScreenInv
      <4>2. CASE n > 0
        <5>1. done <= Path[1].frame /\ Path[1].frame <= frame
              /\ Path[1].frame \in Nat
          BY <3>1, <3>2, <3>4, <4>2
        <5> QED BY <5>1 DEF WindowInv, WindowTypes
      <4> QED BY <3>1, <4>1, <4>2
    <3> HIDE DEF n
    <3>6. frame \in Nat /\ done \in Nat
      BY DEF WindowInv, WindowTypes
    <3>7. \A i \in 1 .. n + 1 : Path'[i] = IF i <= n THEN Path[i] ELSE request
      BY <3>1
    <3>8. \A i \in 1 .. n + 1 : Faithful(Path[i])' /\ done' <= Path'[i].frame
      <4> SUFFICES ASSUME NEW i \in 1 .. n + 1
                   PROVE  Faithful(Path[i])' /\ done' <= Path'[i].frame
        OBVIOUS
      <4>1. CASE i <= n
        <5>1. i \in 1 .. n /\ Path'[i] = Path[i]
          BY <3>1, <3>7, <4>1
        <5>2. Faithful(Path[i]) /\ done <= Path[i].frame
          BY <3>2, <5>1
        <5> QED BY <2>1, <5>1, <5>2 DEF Faithful
      <4>2. CASE ~(i <= n)
        <5>1. Path'[i] = request
          BY <3>7, <4>2
        <5> QED BY <2>1, <2>4, <3>3, <3>5, <5>1 DEF Faithful
      <4> QED BY <4>1, <4>2
    <3>9. \A i, j \in 1 .. n + 1 : i <= j => Path'[i].frame <= Path'[j].frame
      <4> SUFFICES ASSUME NEW i \in 1 .. n + 1, NEW j \in 1 .. n + 1, i <= j
                   PROVE  Path'[i].frame <= Path'[j].frame
        OBVIOUS
      <4>1. CASE j <= n
        BY <3>1, <3>7, <4>1 DEF WindowInv, PathInv, n
      <4>2. CASE i <= n /\ ~(j <= n)
        BY <3>1, <3>3, <3>4, <3>7, <4>2
      <4>3. CASE ~(i <= n) /\ ~(j <= n)
        BY <3>3, <3>6, <3>7, <4>3
      <4> QED BY <3>1, <4>1, <4>2, <4>3
    <3>10. Path'[Len(Path')].frame = frame
      BY <3>1, <3>3
    <3> QED BY <2>1, <3>1, <3>8, <3>9, <3>10 DEF PathInv
  <2>11. ScreenInv'
    <3>1. requests # <<>> => requests' # <<>> /\ requests'[1] = requests[1]
      <4> SUFFICES ASSUME requests # <<>>
                   PROVE  requests' # <<>> /\ requests'[1] = requests[1]
        OBVIOUS
      <4>1. CASE UNCHANGED requests
        BY <4>1
      <4>2. CASE requests' = requests \o Append(outbuf, request)
        BY <2>3, <2>5, <4>2, ConcatTail, AppendProperties
      <4>3. CASE requests' = requests \o outbuf
        BY <2>5, <4>3, ConcatTail
      <4> QED BY <2>1, <4>1, <4>2, <4>3
    <3>2. \A l \in Lines : image[l] <= image'[l]
      BY <2>1, <2>2 DEF WindowInv, WindowTypes
    <3> QED BY <2>1, <3>1, <3>2, ScreenKeeps DEF WindowInv, WindowTypes
  <2> QED BY <2>8, <2>9, <2>10, <2>11 DEF WindowInv
<1>5. CASE XPending
  <2>1. /\ pc = "pending" /\ pc' \in {"event", "receive"}
        /\ UNCHANGED <<isShared, image, row, frame, srow, screen, done>>
        /\ \/ UNCHANGED <<outbuf, requests>>
           \/ requests' = requests \o outbuf /\ outbuf' = <<>>
    BY <1>5 DEF XPending, SendAndRead
  <2>2. /\ outbuf \in Seq(Request) /\ requests \in Seq(Request)
        /\ requests \o outbuf \in Seq(Request)
    BY ConcatProperties DEF WindowInv, WindowTypes
  <2>3. Path' = Path /\ outbuf' \in Seq(Request) /\ requests' \in Seq(Request)
    <3>1. CASE UNCHANGED <<outbuf, requests>>
      BY <2>2, <3>1 DEF Path
    <3>2. CASE requests' = requests \o outbuf /\ outbuf' = <<>>
      <4>1. (requests \o outbuf) \o <<>> = requests \o outbuf
        BY <2>2, ConcatEmptySeq
      <4> QED BY <2>2, <3>2, <4>1 DEF Path
    <3> QED BY <2>1, <3>1, <3>2
  <2>4. WindowTypes' /\ ImageInv'
    BY <2>1, <2>3 DEF WindowInv, WindowTypes, ImageInv
  <2>5. \A l \in Lines : image[l] <= image'[l]
    BY <2>1 DEF WindowInv, WindowTypes
  <2>6. PathInv'
    BY <2>1, <2>3, <2>5, PathKeeps DEF WindowInv, WindowTypes, PathInv
  <2>7. ScreenInv'
    <3>1. requests # <<>> => requests' # <<>> /\ requests'[1] = requests[1]
      BY <2>1, <2>2, ConcatTail
    <3> QED BY <2>1, <2>5, <3>1, ScreenKeeps DEF WindowInv, WindowTypes
  <2> QED BY <2>4, <2>6, <2>7 DEF WindowInv
<1>6. CASE XNextEvent
  <2>1. /\ pc = "event" /\ pc' \in {"receive", "exited"}
        /\ UNCHANGED <<isShared, image, row, frame, outbuf, requests, srow,
                       screen, done, Path>>
    BY <1>6 DEF XNextEvent, server, Path
  <2>2. \A l \in Lines : image[l] <= image'[l]
    BY <2>1 DEF WindowInv, WindowTypes
  <2> QED BY <2>1, <2>2, PathKeeps, ScreenKeeps DEF WindowInv, WindowTypes, ImageInv, PathInv
<1> QED BY <1>1, <1>2, <1>3, <1>4, <1>5, <1>6 DEF Client

\* The row that the server puts is of the request, or later, and not older than
\* the one it replaces.
Put(r) == IF r.rows = ByReference THEN image[srow] ELSE r.rows[srow]

LEMMA RowPut ==
  ASSUME WindowInv, requests # <<>>
  PROVE  /\ Head(requests) = requests[1] /\ requests[1] = Path[1]
         /\ requests[1] \in Request /\ requests[1].frame \in Nat
         /\ Put(requests[1]) \in Nat
         /\ done <= requests[1].frame /\ requests[1].frame <= Put(requests[1])
         /\ screen[srow] <= Put(requests[1]) /\ Put(requests[1]) <= image[srow]
         /\ ~isShared => Put(requests[1]) = requests[1].frame
<1> DEFINE r == requests[1]
<1>1. /\ outbuf \in Seq(Request) /\ requests \in Seq(Request) /\ srow \in Lines
      /\ image[srow] \in Nat /\ screen[srow] \in Nat /\ done \in Nat
  BY DEF WindowInv, WindowTypes
<1>2. /\ Path \in Seq(Request) /\ Path # <<>> /\ Path[1] = r /\ Head(requests) = r
  BY <1>1, ConcatTail, ConcatProperties DEF Path
<1>3. Len(Path) \in Nat /\ 1 \in 1 .. Len(Path)
  BY <1>2, EmptySeq
<1>4. r \in Request
  BY <1>2, <1>3, ElementOfSeq
<1>5. Faithful(r) /\ done <= r.frame
  BY <1>2, <1>3 DEF WindowInv, PathInv
<1>6. r.frame \in Nat
  BY <1>4 DEF Request
<1> HIDE DEF r
<1>7. /\ ~isShared => screen[srow] = done
      /\ screen[srow] <= image[srow]
  BY <1>1, RowsAreThere DEF WindowInv, ScreenInv
<1>8. CASE isShared
  <2>1. Put(r) = image[srow]
    BY <1>5, <1>8 DEF Put, Faithful
  <2> QED BY <1>1, <1>2, <1>4, <1>5, <1>6, <1>7, <1>8, <2>1 DEF Faithful, r
<1>9. CASE ~isShared
  <2>1. r.rows = [l \in Lines |-> r.frame]
    BY <1>5, <1>9 DEF Faithful
  <2>2. r.rows \in [Lines -> Nat] /\ r.rows[srow] = r.frame
    BY <1>1, <1>6, <2>1
  <2>3. Put(r) = r.frame
    BY <2>2, RowsAreThere DEF Put
  <2> QED BY <1>1, <1>2, <1>4, <1>5, <1>6, <1>7, <1>9, <2>3 DEF Faithful, r
<1> QED BY <1>8, <1>9

LEMMA ServerStep == WindowInv /\ PutRow => WindowInv'
<1> SUFFICES ASSUME WindowInv, PutRow PROVE WindowInv'
  OBVIOUS
<1> DEFINE r == requests[1]
<1>1. /\ requests # <<>> /\ UNCHANGED <<pc, isShared, image, row, frame, outbuf>>
      /\ screen' = [screen EXCEPT ![srow] = Put(r)]
      /\ IF srow + 1 = Rows
         THEN srow' = 0 /\ requests' = Tail(requests) /\ done' = r.frame
         ELSE srow' = srow + 1 /\ UNCHANGED <<requests, done>>
  BY RowPut DEF PutRow, client, Put
<1>2. /\ r = Path[1] /\ r.frame \in Nat /\ Put(r) \in Nat /\ done <= r.frame
      /\ r.frame <= Put(r) /\ Put(r) <= image[srow]
      /\ ~isShared => Put(r) = r.frame
  BY <1>1, RowPut
<1>3. /\ outbuf \in Seq(Request) /\ requests \in Seq(Request) /\ srow \in Lines
      /\ image \in [Lines -> Nat] /\ screen \in [Lines -> Nat]
      /\ screen' \in [Lines -> Nat]
  BY <1>1, <1>2 DEF WindowInv, WindowTypes
<1>4. /\ Path \in Seq(Request) /\ Path # <<>> /\ Tail(requests) \in Seq(Request)
      /\ Tail(requests) \o outbuf = Tail(Path)
  BY <1>1, <1>3, ConcatTail, ConcatProperties DEF Path
<1> HIDE DEF r
<1>5. \A l \in Lines : screen'[l] <= image[l]
  <2> SUFFICES ASSUME NEW l \in Lines PROVE screen'[l] <= image[l]
    OBVIOUS
  <2>1. CASE l = srow
    BY <1>1, <1>2, <1>3, <2>1
  <2>2. CASE l # srow
    BY <1>1, <1>3, <2>2 DEF WindowInv, ScreenInv
  <2> QED BY <2>1, <2>2
\* What is on the screen above the next row is of this request.
<1>6. \A l \in Lines : l <= srow => /\ r.frame <= screen'[l]
                                    /\ ~isShared => screen'[l] = r.frame
  <2> SUFFICES ASSUME NEW l \in Lines, l <= srow
               PROVE  r.frame <= screen'[l] /\ (~isShared => screen'[l] = r.frame)
    OBVIOUS
  <2>1. CASE l = srow
    BY <1>1, <1>2, <1>3, <2>1
  <2>2. CASE l # srow
    <3>1. l < srow /\ screen'[l] = screen[l]
      BY <1>1, <1>3, <2>2, RowsAreThere
    <3> QED BY <3>1 DEF WindowInv, ScreenInv, r
  <2> QED BY <2>1, <2>2
<1>7. CASE srow + 1 # Rows
  <2>1. /\ srow' = srow + 1 /\ UNCHANGED <<requests, done, Path>>
    BY <1>1, <1>7 DEF Path
  <2>2. srow + 1 \in Lines
    BY <1>3, <1>7, WindowParams DEF Lines
  <2>3. WindowTypes' /\ ImageInv'
    BY <1>1, <1>3, <2>1, <2>2 DEF WindowInv, WindowTypes, ImageInv
  <2>4. PathInv'
    <3>1. \A l \in Lines : image[l] <= image'[l]
      BY <1>1, <1>3
    <3> QED BY <1>1, <1>3, <2>1, <3>1, PathKeeps DEF WindowInv, PathInv
  <2>5. ScreenInv'
    <3>1. ASSUME NEW l \in Lines
          PROVE  LET from == IF l < srow + 1 THEN r.frame ELSE done
                 IN from <= screen'[l] /\ (~isShared => screen'[l] = from)
      <4>1. CASE l <= srow
        <5>1. l < srow + 1
          BY <1>3, <4>1, RowsAreThere
        <5> QED BY <1>6, <4>1, <5>1
      <4>2. CASE ~(l <= srow)
        <5>1. ~(l < srow + 1) /\ ~(l < srow) /\ screen'[l] = screen[l]
          BY <1>1, <1>3, <4>2, RowsAreThere
        <5> QED BY <5>1 DEF WindowInv, ScreenInv
      <4> QED BY <4>1, <4>2
    <3> QED BY <1>1, <1>5, <2>1, <3>1 DEF ScreenInv, r
  <2> QED BY <2>3, <2>4, <2>5 DEF WindowInv
<1>8. CASE srow + 1 = Rows
  <2>1. srow' = 0 /\ requests' = Tail(requests) /\ done' = r.frame /\ Path' = Tail(Path)
    BY <1>1, <1>4, <1>8 DEF Path
  <2>2. /\ Len(Path) \in Nat \ {0} /\ Len(Path') = Len(Path) - 1
        /\ \A i \in 1 .. Len(Path) - 1 : Path'[i] = Path[i + 1]
    BY <1>4, <2>1, HeadTailProperties, EmptySeq
  <2>3. WindowTypes'
    BY <1>1, <1>2, <1>3, <1>4, <2>1, RowsAreThere DEF WindowInv, WindowTypes
  <2>4. ImageInv'
    BY <1>1, <1>4 DEF WindowInv, ImageInv
  <2>5. PathInv'
    <3>1. ASSUME NEW i \in 1 .. Len(Path')
          PROVE  /\ i + 1 \in 1 .. Len(Path) /\ Path'[i] = Path[i + 1]
                 /\ Faithful(Path[i])' /\ done' <= Path'[i].frame
      <4>1. i + 1 \in 1 .. Len(Path) /\ Path'[i] = Path[i + 1] /\ 1 \in 1 .. Len(Path)
        BY <2>2
      <4>2. Faithful(Path[i + 1]) /\ Path[1].frame <= Path[i + 1].frame
        BY <4>1 DEF WindowInv, PathInv
      <4>3. Faithful(Path[i])'
        BY <1>1, <4>1, <4>2 DEF Faithful
      <4> QED BY <1>2, <2>1, <4>1, <4>2, <4>3
    <3>2. \A i, j \in 1 .. Len(Path') : i <= j => Path'[i].frame <= Path'[j].frame
      <4> SUFFICES ASSUME NEW i \in 1 .. Len(Path'), NEW j \in 1 .. Len(Path'), i <= j
                   PROVE  Path'[i].frame <= Path'[j].frame
        OBVIOUS
      <4>1. /\ i + 1 \in 1 .. Len(Path) /\ Path'[i] = Path[i + 1]
            /\ j + 1 \in 1 .. Len(Path) /\ Path'[j] = Path[j + 1]
        BY <3>1
      <4>2. i + 1 <= j + 1
        BY <2>2
      <4> QED BY <4>1, <4>2 DEF WindowInv, PathInv
    <3>3. pc \in {"receive", "pending", "event"} =>
            frame = IF Path' = <<>> THEN done' ELSE Path'[Len(Path')].frame
      <4> SUFFICES ASSUME pc \in {"receive", "pending", "event"}
                   PROVE  frame = IF Path' = <<>> THEN done'
                                  ELSE Path'[Len(Path')].frame
        OBVIOUS
      <4>1. frame = Path[Len(Path)].frame
        BY <1>4 DEF WindowInv, PathInv
      <4>2. CASE Len(Path) = 1
        <5>1. Path' = <<>>
          BY <1>4, <2>1, <2>2, <4>2, EmptySeq, HeadTailProperties
        <5> QED BY <1>2, <2>1, <4>1, <4>2, <5>1
      <4>3. CASE Len(Path) # 1
        <5>1. Path' # <<>> /\ Len(Path') \in 1 .. Len(Path) - 1
          <6>1. Len(Path') \in 1 .. Len(Path) - 1
            BY <2>2, <4>3
          <6>2. Path' # <<>>
            <7>1. Len(<<>>) = 0 /\ Len(Path') # 0
              BY <6>1, EmptySeq
            <7> QED BY <7>1, Zenon
          <6> QED BY <6>1, <6>2
        <5>2. Path'[Len(Path')] = Path[Len(Path)]
          BY <2>2, <5>1
        <5> QED BY <4>1, <5>1, <5>2
      <4> QED BY <4>2, <4>3
    <3> QED BY <1>1, <3>1, <3>2, <3>3 DEF PathInv
  <2>6. ScreenInv'
    <3>1. \A l \in Lines : l <= srow /\ ~(l < 0)
      BY <1>3, <1>8, WindowParams DEF Lines
    <3> QED BY <1>1, <1>5, <1>6, <2>1, <3>1 DEF ScreenInv
  <2> QED BY <2>3, <2>4, <2>5, <2>6 DEF WindowInv
<1> QED BY <1>7, <1>8

LEMMA WindowInvariant == Spec => []WindowInv
<1>1. WindowInv /\ [Next]_vars => WindowInv'
  <2> SUFFICES ASSUME WindowInv, Notify \/ Quiet \/ UNCHANGED vars PROVE WindowInv'
    BY ClientStep, ServerStep DEF Next
  <2>1. UNCHANGED <<pc, isShared, image, row, frame, outbuf, requests, srow,
                    screen, done, Path>>
    BY DEF Notify, Quiet, vars, client, server, Path
  <2>2. \A i : Faithful(Path[i]) => Faithful(Path[i])'
    BY <2>1 DEF Faithful
  <2> QED BY <2>1, <2>2
          DEF WindowInv, WindowTypes, ImageInv, PathInv, ScreenInv
<1> QED BY <1>1, WindowInit, PTL DEF Spec

-----------------------------------------------------------------------------
(* The types.                                                              *)

\* The requests with pictures of the run.
PictureRequest == [frame : Pictures, rows : {ByReference} \cup [Lines -> Pictures]]

\* An event is on its way, or read, or has been taken.
EventInv == /\ events + arriving <= sentEvents
            /\ pc = "event" => events > 0

LEMMA TypeNext == WindowInv /\ TypeOK /\ EventInv /\ [Next]_vars => TypeOK' /\ EventInv'
<1> SUFFICES ASSUME WindowInv, TypeOK, EventInv, [Next]_vars
             PROVE  TypeOK' /\ EventInv'
  OBVIOUS
<1>1. /\ outbuf \in Seq(PictureRequest) /\ requests \in Seq(PictureRequest)
      /\ events \in Nat /\ arriving \in Nat /\ sentEvents \in Nat
      /\ events + arriving <= sentEvents /\ sentEvents <= MaxEvents /\ MaxEvents \in Nat
  BY WindowParams DEF TypeOK, EventInv, PictureRequest
<1>2. CASE Setup \/ XNextEvent \/ Notify \/ Quiet \/ UNCHANGED vars
  <2>1. UNCHANGED <<image, row, frame, outbuf, requests, srow, screen, done, kept>>
    BY <1>2 DEF Setup, XNextEvent, Notify, Quiet, vars, client, server
  <2>2. /\ pc' \in {"setup", "receive", "draw", "put", "pending", "event", "exited"}
        /\ isShared' \in BOOLEAN /\ drawable' \in BOOLEAN /\ attached' \in BOOLEAN
    BY <1>2 DEF Setup, XNextEvent, Notify, Quiet, vars, client, server, TypeOK
  <2>3. /\ events' \in 0 .. MaxEvents /\ arriving' \in 0 .. MaxEvents
        /\ sentEvents' \in 0 .. MaxEvents /\ EventInv'
    <3>1. CASE XNextEvent
      BY <1>1, <3>1 DEF XNextEvent, server, EventInv
    <3>2. CASE Notify
      BY <1>1, <3>2 DEF Notify, client, EventInv
    <3>3. CASE Setup \/ Quiet \/ UNCHANGED vars
      <4>1. UNCHANGED <<events, arriving, sentEvents>> /\ (pc' = "event" => pc = "event")
        BY <3>3 DEF Setup, Quiet, vars, client, server
      <4> QED BY <1>1, <4>1 DEF EventInv
    <3> QED BY <1>2, <3>1, <3>2, <3>3
  <2> QED BY <2>1, <2>2, <2>3 DEF TypeOK
<1>3. CASE NextPicture \/ DrawRow
  <2>1. UNCHANGED <<isShared, drawable, attached, outbuf, events, kept, server>>
    BY <1>3 DEF NextPicture, DrawRow
  <2>2. /\ image' \in [Lines -> Pictures] /\ frame' \in Pictures
        /\ row' \in 0 .. Rows /\ pc' \in {"draw", "put", "exited"}
    <3>1. CASE NextPicture
      BY <3>1, WindowParams DEF NextPicture, Kept, TypeOK, Pictures
    <3>2. CASE DrawRow
      <4>1. row \in Lines
        BY <3>2 DEF DrawRow, WindowInv, ImageInv
      <4> QED BY <3>2, <4>1, WindowParams DEF DrawRow, TypeOK, Lines
    <3> QED BY <1>3, <3>1, <3>2
  <2> QED BY <2>1, <2>2 DEF TypeOK, EventInv, server
<1>4. CASE ImagePut
  <2> DEFINE request == [frame |-> frame, rows |-> RowsOfRequest]
  <2>1. request \in PictureRequest
    BY DEF RowsOfRequest, TypeOK, PictureRequest
  <2>2. /\ pc' = "pending"
        /\ UNCHANGED <<isShared, drawable, attached, image, row, frame, events, kept,
                       srow, screen, arriving, sentEvents, done>>
        /\ \/ outbuf' = Append(outbuf, request) /\ UNCHANGED requests
           \/ outbuf' = <<request>> /\ requests' = requests \o outbuf
           \/ outbuf' = <<>> /\ requests' = requests \o Append(outbuf, request)
    BY <1>4 DEF ImagePut
  <2> HIDE DEF request
  <2>3. outbuf' \in Seq(PictureRequest) /\ requests' \in Seq(PictureRequest)
    <3>1. Append(outbuf, request) \in Seq(PictureRequest)
      BY <1>1, <2>1, AppendProperties
    <3>2. requests \o Append(outbuf, request) \in Seq(PictureRequest)
      BY <1>1, <3>1, ConcatProperties
    <3>3. <<>> \in Seq(PictureRequest) /\ <<request>> \in Seq(PictureRequest)
      BY <2>1, EmptySeq
    <3>4. requests \o outbuf \in Seq(PictureRequest)
      BY <1>1, ConcatProperties
    <3> QED BY <1>1, <2>2, <3>1, <3>2, <3>3, <3>4
  <2> QED BY <2>2, <2>3 DEF TypeOK, EventInv, PictureRequest
<1>5. CASE XPending
  <2>1. /\ UNCHANGED <<isShared, drawable, attached, image, row, frame, srow, screen,
                       sentEvents, done>>
        /\ kept' \in BOOLEAN /\ pc' \in {"event", "receive"}
        /\ pc' = "event" => events' > 0
        /\ \/ UNCHANGED <<events, arriving, outbuf, requests>>
           \/ /\ events = 0 /\ events' = arriving /\ arriving' = 0
              /\ requests' = requests \o outbuf /\ outbuf' = <<>>
    <3>1. CASE events > 0
      BY <1>1, <1>5, <3>1 DEF XPending, Any
    <3>2. CASE ~(events > 0)
      <4>1. /\ kept' = FALSE /\ events = 0 /\ events' = arriving /\ arriving' = 0
            /\ requests' = requests \o outbuf /\ outbuf' = <<>>
        BY <1>1, <1>5, <3>2 DEF XPending, SendAndRead
      <4> QED BY <1>5, <4>1 DEF XPending, Any
    <3> QED BY <3>1, <3>2
  <2>2. outbuf' \in Seq(PictureRequest) /\ requests' \in Seq(PictureRequest)
    <3>1. <<>> \in Seq(PictureRequest)
      BY EmptySeq
    <3>2. requests \o outbuf \in Seq(PictureRequest)
      BY <1>1, ConcatProperties
    <3> QED BY <1>1, <2>1, <3>1, <3>2
  <2>3. events' \in 0 .. MaxEvents /\ arriving' \in 0 .. MaxEvents /\ EventInv'
    BY <1>1, <2>1 DEF TypeOK, EventInv
  <2> QED BY <2>1, <2>2, <2>3 DEF TypeOK, PictureRequest
<1>6. CASE PutRow
  <2>1. /\ requests # <<>> /\ UNCHANGED client /\ UNCHANGED <<arriving, sentEvents>>
        /\ screen' = [screen EXCEPT ![srow] = Put(Head(requests))]
        /\ IF srow + 1 = Rows
           THEN srow' = 0 /\ requests' = Tail(requests) /\ done' = Head(requests).frame
           ELSE srow' = srow + 1 /\ UNCHANGED <<requests, done>>
    BY <1>6 DEF PutRow, Put
  <2>2. Head(requests) \in PictureRequest /\ Tail(requests) \in Seq(PictureRequest)
    BY <1>1, <2>1, HeadTailProperties
  <2>3. srow \in Lines /\ image[srow] \in Pictures
    BY DEF TypeOK
  <2>4. Put(Head(requests)) \in Pictures /\ Head(requests).frame \in Pictures
    BY <2>2, <2>3 DEF Put, PictureRequest
  <2>5. srow' \in Lines /\ done' \in Pictures /\ requests' \in Seq(PictureRequest)
    <3>1. srow \in 0 .. Rows - 1 /\ done \in Pictures /\ Rows \in Nat \ {0}
      BY <2>3, WindowParams DEF Lines, TypeOK
    <3>2. CASE srow + 1 = Rows
      <4>1. /\ srow' = 0 /\ requests' = Tail(requests)
            /\ done' = Head(requests).frame
        BY <2>1, <3>2
      <4>2. 0 \in Lines
        BY <3>1 DEF Lines
      <4> QED BY <2>2, <2>4, <4>1, <4>2
    <3>3. CASE srow + 1 # Rows
      BY <1>1, <2>1, <3>1, <3>3 DEF Lines
    <3> QED BY <3>2, <3>3
  <2>6. screen' \in [Lines -> Pictures]
    BY <2>1, <2>3, <2>4 DEF TypeOK
  <2> QED BY <2>1, <2>5, <2>6 DEF TypeOK, EventInv, PictureRequest, client
<1> QED BY <1>2, <1>3, <1>4, <1>5, <1>6 DEF Next, Client

\* Every variable keeps its type: the receiver writes rows of the image only, the
\* server rows of the window, and XNextEvent is called only when there is an event.
THEOREM WindowTypeCorrect == Spec => []TypeOK
<1>1. Init => TypeOK /\ EventInv
  <2> SUFFICES ASSUME Init PROVE TypeOK /\ EventInv
    OBVIOUS
  <2>1. 0 \in Pictures /\ 0 \in Lines /\ 0 \in 0 .. Rows /\ 0 \in 0 .. MaxEvents
    BY WindowParams DEF Pictures, Lines
  <2>2. image \in [Lines -> Pictures] /\ screen \in [Lines -> Pictures]
    BY <2>1 DEF Init
  <2>3. outbuf \in Seq(PictureRequest) /\ requests \in Seq(PictureRequest)
    BY EmptySeq DEF Init
  <2>4. EventInv
    BY DEF Init, EventInv
  <2>5. \A q \in {outbuf, requests} : q \in Seq(PictureRequest)
    BY <2>3
  <2> QED BY <2>1, <2>2, <2>4, <2>5 DEF Init, TypeOK, PictureRequest
<1> QED BY <1>1, WindowInvariant, TypeNext, PTL DEF Spec

-----------------------------------------------------------------------------

\* Although the server reads the rows of one picture while the receiver writes
\* those of the next, no row of the window is ever set back.
THEOREM RowsGoForward == Spec => RowsNeverOlder
<1>1. WindowInv /\ [Next]_vars => [\A l \in Lines : screen'[l] >= screen[l]]_vars
  <2> SUFFICES ASSUME WindowInv, Next
               PROVE  \A l \in Lines : screen'[l] >= screen[l]
    OBVIOUS
  <2>1. screen \in [Lines -> Nat]
    BY DEF WindowInv, WindowTypes
  <2>2. CASE PutRow
    <3>1. /\ requests # <<>> /\ screen' = [screen EXCEPT ![srow] = Put(requests[1])]
          /\ screen[srow] <= Put(requests[1]) /\ Put(requests[1]) \in Nat
      BY <2>2, RowPut DEF PutRow, Put
    <3>2. srow \in Lines /\ screen[srow] \in Nat
      BY <2>1 DEF WindowInv, WindowTypes
    <3> QED BY <2>1, <3>1, <3>2, RowsAreThere
  <2>3. CASE ~PutRow
    <3>1. screen' = screen
      BY <2>3 DEF Next, Client, Setup, NextPicture, DrawRow, ImagePut, XPending,
         XNextEvent, Notify, Quiet, vars, server
    <3> QED BY <2>1, <3>1
  <2> QED BY <2>2, <2>3
<1> QED BY <1>1, WindowInvariant, PTL DEF Spec, RowsNeverOlder

\* What the server has completed is on the screen in every row, or overtaken by
\* a later picture if the memory is shared.
THEOREM CompletedPutAlwaysHolds == Spec => []CompletedPutHolds
<1>1. WindowInv => CompletedPutHolds
  <2> SUFFICES ASSUME WindowInv, srow = 0, NEW l \in Lines
               PROVE  screen[l] >= done /\ (~isShared => screen[l] = done)
    BY DEF CompletedPutHolds
  <2>1. ~(l < srow) /\ screen[l] \in Nat /\ done \in Nat
    BY RowsAreThere DEF WindowInv, WindowTypes
  <2> QED BY <2>1 DEF WindowInv, ScreenInv
<1> QED BY <1>1, WindowInvariant, PTL

\* Once nothing is drawn or on its way the last picture is there, whole.
THEOREM LastPictureAlwaysStays == Spec => []LastPictureStays
<1>1. WindowInv => LastPictureStays
  <2> SUFFICES ASSUME WindowInv, pc = "receive", outbuf = <<>>, requests = <<>>,
                      NEW l \in Lines
               PROVE  screen[l] = frame
    BY DEF LastPictureStays
  <2>1. Path = <<>>
    BY DEF Path
  <2>2. frame = done /\ image[l] <= frame
    BY <2>1 DEF WindowInv, PathInv, ImageInv
  <2>3. done <= screen[l] /\ screen[l] <= image[l]
    BY RowsAreThere DEF WindowInv, ScreenInv
  <2> QED BY <2>2, <2>3 DEF WindowInv, WindowTypes
<1> QED BY <1>1, WindowInvariant, PTL
=============================================================================
