--------------------------- MODULE JpgSlicesProofs ---------------------------
(***************************************************************************)
(* Theorems about JpgSlices, for every grid, packet size and length that   *)
(* the encoder may produce: what is sent and decoded as valid is whole,    *)
(* and a grey picture of which all of it was gets to the window as it was  *)
(* taken.                                                                  *)
(***************************************************************************)
EXTENDS JpgSlices, FiniteSetTheorems, TLAPS

\* What encoding has made of a slice: the payload of the whole JPEG, or not
\* valid.
Sound(entry) ==
  /\ entry.valid <=> entry.fill <= MAX_PAYLOAD - HeaderLen
  /\ entry.valid => entry.size = entry.fill + HeaderLen

Entry == [size : Int, valid : BOOLEAN, first : {NoJpg, StartOfJpg}, fill : Nat]

\* During the encoding loop the slices before k are sound, and the others may
\* still be of any size: the reset before the loop is what makes it so.
SliceInv ==
  /\ pck_per_frame \in Nat \ {0} /\ k \in Slices
  /\ pc \in {"frame", "encode", "send", "show", "shown", "aborted", "exited"}
  /\ pc \in {"frame", "show", "shown"} => k = 0
  /\ list \in [Slices -> Entry]
  /\ pc = "encode" => \A s \in Slices : IF s < k THEN Sound(list[s])
                                        ELSE list[s].size = MAX_PAYLOAD
  /\ pc \in {"send", "show"} => \A s \in Slices : Sound(list[s])
  /\ pc \in {"frame", "encode"} => decoded = {}
  /\ decoded \subseteq Slices
  /\ pc \in {"send", "show"} => \A s \in decoded : list[s].valid

LEMMA PackedSound ==
  ASSUME NEW entry \in Entry, NEW fill \in Nat, entry.size = MAX_PAYLOAD
  PROVE  Packed(entry, fill) \in Entry /\ Sound(Packed(entry, fill))
<1> DEFINE room == MAX_PAYLOAD - HeaderLen
           max_fill == IF fill < room THEN fill ELSE room
<1>1. room \in Int /\ HeaderLen \in Int
  BY ParamsAssumption
<1>2. Packed(entry, fill) = [size |-> max_fill + HeaderLen, valid |-> max_fill = fill,
                             first |-> StartOfJpg, fill |-> fill]
  BY DEF Packed, Whole
<1>3. max_fill \in Int /\ (max_fill = fill <=> fill <= room)
  BY <1>1
<1> HIDE DEF max_fill
<1>4. Packed(entry, fill) \in Entry
  BY <1>1, <1>2, <1>3 DEF Entry
<1>5. /\ Packed(entry, fill).fill = fill
      /\ Packed(entry, fill).size = max_fill + HeaderLen
  BY <1>2
<1>6. Packed(entry, fill).valid <=> max_fill = fill
  <2>1. [size |-> max_fill + HeaderLen, valid |-> max_fill = fill,
         first |-> StartOfJpg, fill |-> fill].valid = (max_fill = fill)
    BY Zenon
  <2>2. Packed(entry, fill).valid = (max_fill = fill)
    BY <1>2, <2>1, Zenon
  <2> QED BY <2>2, Zenon
<1>7. Packed(entry, fill).valid <=> fill <= room
  BY <1>3, <1>6, Zenon
<1>8. Packed(entry, fill).valid => Packed(entry, fill).size = fill + HeaderLen
  BY <1>5, <1>6, Zenon
<1>9. Sound(Packed(entry, fill))
  BY <1>5, <1>7, <1>8, Zenon DEF Sound
<1> QED BY <1>4, <1>9

LEMMA SliceInvInit == Init => SliceInv
<1> SUFFICES ASSUME Init PROVE SliceInv
  OBVIOUS
<1>1. pck_per_frame \in Nat \ {0}
  BY ParamsAssumption DEF Init
<1>2. 0 \in Slices
  BY <1>1 DEF Slices
<1>3. [size |-> MAX_PAYLOAD, valid |-> FALSE, first |-> NoJpg, fill |-> 0] \in Entry
  BY ParamsAssumption DEF Entry
<1>4. list \in [Slices -> Entry]
  BY <1>3 DEF Init
<1> QED BY <1>1, <1>2, <1>4 DEF Init, SliceInv

LEMMA SliceInvStep == SliceInv /\ [Next]_vars => SliceInv'
<1> SUFFICES ASSUME SliceInv, [Next]_vars PROVE SliceInv'
  OBVIOUS
<1>0. /\ pck_per_frame \in Nat \ {0} /\ k \in Slices /\ k \in Nat
      /\ k < pck_per_frame /\ 0 \in Slices /\ list \in [Slices -> Entry]
      /\ Slices \subseteq Nat
  BY DEF SliceInv, Slices
\* Both loops go on to the next slice, or end.
<1>1. ASSUME k' = (k + 1) % pck_per_frame
      PROVE  /\ k' \in Slices
             /\ IF k + 1 = pck_per_frame THEN k' = 0 ELSE k' = k + 1
  <2>1. CASE k + 1 = pck_per_frame
    BY <1>0, <1>1, <2>1
  <2>2. CASE k + 1 # pck_per_frame
    <3>1. k + 1 \in 0 .. pck_per_frame - 1
      BY <1>0, <2>2
    <3>2. (k + 1) % pck_per_frame = k + 1
      BY <1>0, <3>1
    <3> QED BY <1>1, <2>2, <3>1, <3>2 DEF Slices
  <2> QED BY <2>1, <2>2
<1>2. CASE StartFrame
  <2>1. /\ pc = "frame" /\ pc' \in {"encode", "aborted"}
        /\ UNCHANGED <<pck_per_frame, k, decoded>>
        /\ list' = [s \in Slices |-> [list[s] EXCEPT !.size = MAX_PAYLOAD]]
    BY <1>2 DEF StartFrame, SizesReset, geometry
  <2>2. list' \in [Slices -> Entry] /\ \A s \in Slices : list'[s].size = MAX_PAYLOAD
    BY <1>0, <2>1, ParamsAssumption DEF Entry
  <2>3. k = 0 /\ decoded = {}
    BY <2>1 DEF SliceInv
  <2>4. Slices' = Slices
    BY <2>1 DEF Slices
  <2> QED BY <1>0, <2>1, <2>2, <2>3, <2>4 DEF SliceInv
<1>3. CASE EncodeSlice
  <2>1. PICK fill \in Fills :
          \/ pc' = "exited" /\ UNCHANGED <<k, list>>
          \/ /\ list' = [list EXCEPT ![k] = Packed(@, fill)]
             /\ k' = (k + 1) % pck_per_frame
             /\ pc' = IF k + 1 = pck_per_frame THEN "send" ELSE pc
    BY <1>3 DEF EncodeSlice
  <2>2. /\ pc = "encode" /\ UNCHANGED <<pck_per_frame, decoded>> /\ decoded = {}
        /\ Slices' = Slices /\ fill \in Nat
    BY <1>3, ParamsAssumption DEF EncodeSlice, geometry, Slices, SliceInv
  <2>3. CASE pc' = "exited" /\ UNCHANGED <<k, list>>
    BY <1>0, <2>2, <2>3 DEF SliceInv
  <2>4. CASE /\ list' = [list EXCEPT ![k] = Packed(@, fill)]
             /\ k' = (k + 1) % pck_per_frame
             /\ pc' = IF k + 1 = pck_per_frame THEN "send" ELSE pc
    <3>1. list[k].size = MAX_PAYLOAD
      BY <1>0, <2>2 DEF SliceInv
    <3>2. Packed(list[k], fill) \in Entry /\ Sound(Packed(list[k], fill))
      BY <1>0, <2>2, <3>1, PackedSound
    <3>3. /\ list' \in [Slices -> Entry] /\ list'[k] = Packed(list[k], fill)
          /\ \A s \in Slices : s # k => list'[s] = list[s]
      BY <1>0, <2>4, <3>2
    <3>4. \A s \in Slices : s <= k => Sound(list'[s])
      <4> SUFFICES ASSUME NEW s \in Slices, s <= k PROVE Sound(list'[s])
        OBVIOUS
      <4>1. CASE s = k
        BY <3>2, <3>3, <4>1
      <4>2. CASE s < k
        BY <1>0, <2>2, <3>3, <4>2 DEF SliceInv
      <4> QED BY <1>0, <4>1, <4>2
    <3>5. \A s \in Slices : s > k => list'[s].size = MAX_PAYLOAD
      BY <1>0, <2>2, <3>3 DEF SliceInv
    <3>6. CASE k + 1 = pck_per_frame
      <4>1. \A s \in Slices : s <= k
        BY <1>0, <3>6 DEF Slices
      <4>2. k' \in Slices /\ pc' = "send"
        BY <1>1, <2>4, <3>6
      <4> QED BY <1>0, <2>2, <3>3, <3>4, <4>1, <4>2 DEF SliceInv
    <3>7. CASE k + 1 # pck_per_frame
      <4>1. k' \in Slices /\ k' = k + 1 /\ pc' = "encode"
        BY <1>1, <2>2, <2>4, <3>7
      <4>2. \A s \in Slices : IF s < k' THEN Sound(list'[s])
                              ELSE list'[s].size = MAX_PAYLOAD
        BY <1>0, <3>4, <3>5, <4>1
      <4> QED BY <1>0, <2>2, <3>3, <4>1, <4>2 DEF SliceInv
    <3> QED BY <3>6, <3>7
  <2> QED BY <2>1, <2>3, <2>4
<1>4. CASE SendSlice
  <2>1. /\ pc = "send" /\ UNCHANGED pck_per_frame /\ Slices' = Slices
        /\ list' = [list EXCEPT ![k].first = FirstByte(list[k])]
        /\ k' = (k + 1) % pck_per_frame
        /\ pc' = IF k + 1 = pck_per_frame THEN "show" ELSE pc
    BY <1>4 DEF SendSlice, geometry, Slices
  <2>2. list[k] \in Entry /\ FirstByte(list[k]) \in {NoJpg, StartOfJpg}
    BY <1>0 DEF FirstByte, Entry
  <2>3. /\ list' \in [Slices -> Entry]
        /\ \A s \in Slices : /\ list'[s].valid = list[s].valid
                             /\ list'[s].fill = list[s].fill
                             /\ list'[s].size = list[s].size
    BY <1>0, <2>1, <2>2 DEF Entry
  <2>4. \A s \in Slices : Sound(list'[s])
    BY <2>1, <2>3 DEF SliceInv, Sound
  <2>5. decoded' \subseteq decoded \cup {k}
        /\ (k \in decoded' => k \in decoded \/ FirstByte(list[k]) # NoJpg)
    BY <1>4 DEF SendSlice
  <2>6. \A s \in decoded' : s \in Slices /\ list'[s].valid
    <3> SUFFICES ASSUME NEW s \in decoded' PROVE s \in Slices /\ list'[s].valid
      OBVIOUS
    <3>1. CASE s \in decoded
      BY <2>1, <2>3, <3>1 DEF SliceInv
    <3>2. CASE s = k /\ FirstByte(list[k]) # NoJpg
      BY <1>0, <2>3, <3>2 DEF FirstByte
    <3> QED BY <2>5, <3>1, <3>2
  <2>7. pc' \in {"send", "show"} /\ (pc' = "show" => k' = 0) /\ k' \in Slices
    BY <1>1, <2>1
  <2> QED BY <1>0, <2>1, <2>3, <2>4, <2>6, <2>7 DEF SliceInv
<1>5. CASE Show \/ NextFrame \/ UNCHANGED vars
  <2>1. UNCHANGED <<pck_per_frame, k, list>> /\ Slices' = Slices
    BY <1>5 DEF Show, NextFrame, vars, geometry, Slices
  <2>2. \/ pc = "show" /\ pc' = "shown" /\ decoded' = decoded
        \/ pc = "shown" /\ pc' = "frame" /\ decoded' = {}
        \/ UNCHANGED <<pc, decoded>>
    BY <1>5 DEF Show, NextFrame, vars
  <2> QED BY <2>1, <2>2 DEF SliceInv
<1> QED BY <1>2, <1>3, <1>4, <1>5 DEF Next

LEMMA SliceInvariant == Spec => []SliceInv
BY SliceInvInit, SliceInvStep, PTL DEF Spec

-----------------------------------------------------------------------------
(* The types.                                                              *)

SliceEntry == [size : HeaderLen .. MAX_PAYLOAD, valid : BOOLEAN,
               first : {NoJpg, StartOfJpg}, fill : Fills \cup {0}]

\* A picture is in work only below the bound.
FrameInv == pc \in {"encode", "send", "show", "shown"} => frame < MaxFrames

\* Between header and payload limit: the reset is what lets a slice be longer
\* than that of the frame before.
LEMMA PackedType ==
  ASSUME NEW entry \in SliceEntry, NEW fill \in Fills, entry.size = MAX_PAYLOAD
  PROVE  Packed(entry, fill) \in SliceEntry
<1> DEFINE max_fill == IF fill < MAX_PAYLOAD - HeaderLen THEN fill
                       ELSE MAX_PAYLOAD - HeaderLen
<1>1. fill \in Nat \ {0} /\ HeaderLen \in Nat /\ MAX_PAYLOAD \in Nat
      /\ HeaderLen <= MAX_PAYLOAD
  BY ParamsAssumption
<1>2. max_fill + HeaderLen \in HeaderLen .. MAX_PAYLOAD
  BY <1>1
<1>3. Packed(entry, fill) = [size |-> max_fill + HeaderLen, valid |-> max_fill = fill,
                             first |-> StartOfJpg, fill |-> fill]
  BY DEF Packed, Whole
<1> HIDE DEF max_fill
<1>4. (max_fill = fill) \in BOOLEAN /\ fill \in Fills \cup {0}
  OBVIOUS
<1> QED BY <1>2, <1>3, <1>4 DEF SliceEntry

LEMMA SliceTypeInit == Init => TypeOK /\ FrameInv
<1> SUFFICES ASSUME Init PROVE TypeOK /\ FrameInv
  OBVIOUS
<1>1. <<width, height, pck_per_frame, zoom>> \in Geometries
  <2>1. PICK g \in Geometries : width = g[1] /\ height = g[2]
                                /\ pck_per_frame = g[3] /\ zoom = g[4]
    BY DEF Init
  <2>2. g \in (Nat \ {0}) \X (Nat \ {0}) \X (Nat \ {0}) \X (Nat \ {0})
    BY ParamsAssumption
  <2>3. g = <<g[1], g[2], g[3], g[4]>>
    BY <2>2
  <2> QED BY <2>1, <2>3
<1>2. [size |-> MAX_PAYLOAD, valid |-> FALSE, first |-> NoJpg, fill |-> 0] \in SliceEntry
  BY ParamsAssumption DEF SliceEntry
<1>3. list \in [Slices -> SliceEntry]
  BY <1>2 DEF Init
<1>4. k \in Slices
  BY SliceInvInit DEF SliceInv
<1>5. pc = "frame" /\ frame = 0 /\ invalid = 0 /\ decoded = {}
  BY DEF Init
<1> QED BY <1>1, <1>3, <1>4, <1>5, ParamsAssumption
    DEF TypeOK, FrameInv, SliceEntry

LEMMA SliceTypeStep ==
  TypeOK /\ FrameInv /\ SliceInv /\ SliceInv' /\ [Next]_vars => TypeOK' /\ FrameInv'
<1> SUFFICES ASSUME TypeOK, FrameInv, SliceInv, SliceInv', [Next]_vars
             PROVE  TypeOK' /\ FrameInv'
  OBVIOUS
<1>1. /\ UNCHANGED geometry /\ Slices' = Slices
      /\ <<width', height', pck_per_frame', zoom'>> \in Geometries
      /\ k' \in Slices /\ decoded' \subseteq Slices
  <2>1. UNCHANGED geometry
    BY DEF Next, StartFrame, EncodeSlice, SendSlice, Show, NextFrame, vars
  <2>2. Slices' = Slices
    BY <2>1 DEF geometry, Slices
  <2> QED BY <2>1, <2>2 DEF SliceInv, TypeOK, geometry
<1>2. /\ list \in [Slices -> SliceEntry] /\ k \in Slices /\ invalid \in Nat
      /\ frame \in 0 .. MaxFrames /\ MaxFrames \in Nat
  BY ParamsAssumption DEF TypeOK, SliceEntry
<1>3. ASSUME list' \in [Slices -> SliceEntry], invalid' \in Nat,
             frame' \in 0 .. MaxFrames, FrameInv'
      PROVE  TypeOK' /\ FrameInv'
  <2>1. pc' \in {"frame", "encode", "send", "show", "shown", "aborted", "exited"}
    BY DEF SliceInv
  <2> QED BY <1>1, <1>3, <2>1 DEF TypeOK, SliceEntry
<1>4. CASE StartFrame
  <2>1. /\ list' = [s \in Slices |-> [list[s] EXCEPT !.size = MAX_PAYLOAD]]
        /\ frame < MaxFrames /\ UNCHANGED <<frame, invalid>>
    BY <1>4 DEF StartFrame, SizesReset
  <2>2. MAX_PAYLOAD \in HeaderLen .. MAX_PAYLOAD
    BY ParamsAssumption
  <2>3. list' \in [Slices -> SliceEntry]
    BY <1>2, <2>1, <2>2 DEF SliceEntry
  <2> QED BY <1>2, <1>3, <2>1, <2>3 DEF FrameInv
<1>5. CASE EncodeSlice
  <2>1. pc = "encode" /\ UNCHANGED <<frame, invalid>>
    BY <1>5 DEF EncodeSlice
  <2>2. PICK fill \in Fills :
          UNCHANGED list \/ list' = [list EXCEPT ![k] = Packed(list[k], fill)]
    BY <1>5 DEF EncodeSlice
  <2>3. list[k].size = MAX_PAYLOAD
    <3>1. k \in Nat
      BY <1>2 DEF SliceInv, Slices
    <3> QED BY <1>2, <2>1, <3>1 DEF SliceInv
  <2>4. list' \in [Slices -> SliceEntry]
    BY <1>2, <2>2, <2>3, PackedType
  <2> QED BY <1>2, <1>3, <2>1, <2>4 DEF FrameInv
<1>6. CASE SendSlice
  <2>1. /\ pc = "send" /\ UNCHANGED frame /\ (invalid' = invalid \/ invalid' = invalid + 1)
        /\ list' = [list EXCEPT ![k].first = FirstByte(list[k])]
    BY <1>6 DEF SendSlice
  <2>2. FirstByte(list[k]) \in {NoJpg, StartOfJpg}
    BY <1>2 DEF FirstByte, SliceEntry
  <2>3. list' \in [Slices -> SliceEntry]
    BY <1>2, <2>1, <2>2 DEF SliceEntry
  <2> QED BY <1>2, <1>3, <2>1, <2>3 DEF FrameInv
<1>7. CASE Show \/ UNCHANGED vars
  <2>1. UNCHANGED <<list, frame, invalid>>
        /\ (pc' = pc \/ (pc = "show" /\ pc' = "shown"))
    BY <1>7 DEF Show, vars
  <2> QED BY <1>2, <1>3, <2>1 DEF FrameInv
<1>8. CASE NextFrame
  <2>1. UNCHANGED <<list, invalid>> /\ pc = "shown" /\ pc' = "frame" /\ frame' = frame + 1
    BY <1>8 DEF NextFrame
  <2> QED BY <1>2, <1>3, <2>1 DEF FrameInv
<1> QED BY <1>4, <1>5, <1>6, <1>7, <1>8 DEF Next

\* Every variable keeps its type: in particular no packet is shorter than its
\* header or longer than the payload allows, whatever the encoder produces.
THEOREM SlicesTypeCorrect == Spec => []TypeOK
BY SliceTypeInit, SliceTypeStep, SliceInvariant, PTL DEF Spec

-----------------------------------------------------------------------------

\* A slice is called valid exactly when all of its encoding is in the packet,
\* however large the slices of the frames before were.
THEOREM AlwaysValidIffFits == Spec => []ValidIffFits
<1>1. SliceInv => ValidIffFits
  BY DEF SliceInv, Sound, ValidIffFits
<1> QED BY <1>1, SliceInvariant, PTL

\* No cut-off slice reaches the decoder, although its packet does.
THEOREM OnlyWholeEverDecoded == Spec => []OnlyWholeDecoded
<1>1. SliceInv => OnlyWholeDecoded
  BY DEF SliceInv, Sound, OnlyWholeDecoded
<1> QED BY <1>1, SliceInvariant, PTL

-----------------------------------------------------------------------------
(* Loops.                                                                  *)

\* The library has induction only with an operator for the statement; for a
\* set of numbers the order of their intervals gives a least one.
LEMMA LeastNumber ==
  ASSUME NEW S, S \subseteq Nat, S # {} PROVE \E m \in S : \A n \in S : m <= n
<1> DEFINE Below == {1 .. n : n \in S}
<1>1. Below \subseteq FiniteSubsetsOf(Nat) /\ Below # {}
  <2>1. \A n \in S : 1 .. n \subseteq Nat /\ IsFiniteSet(1 .. n)
    BY FS_Interval
  <2> QED BY <2>1 DEF FiniteSubsetsOf
<1>2. PICK X \in Below : \A Y \in Below : ~(<<Y, X>> \in StrictSubsetOrdering(Nat))
  <2> HIDE DEF Below
  <2> QED BY ONLY <1>1, FS_StrictSubsetOrderingWellFounded, WFMin
<1>3. PICK m \in S : X = 1 .. m
  OBVIOUS
<1>4. ASSUME NEW n \in S, n < m PROVE FALSE
  <2>1. <<1 .. n, 1 .. m>> \in (SUBSET Nat) \X (SUBSET Nat)
    OBVIOUS
  <2>2. 1 .. n \subseteq 1 .. m /\ m \in 1 .. m /\ m \notin 1 .. n
    BY <1>4
  <2>3. <<1 .. n, 1 .. m>> \in StrictSubsetOrdering(Nat)
    BY <2>1, <2>2 DEF StrictSubsetOrdering
  <2> QED BY <1>2, <1>3, <2>3
<1> QED BY <1>4

\* What holds before a loop and is kept by each of its rounds holds after it.
LEMMA AllRounds ==
  ASSUME NEW N \in Nat, NEW S, 0 \in S,
         \A i \in 1 .. N : i - 1 \in S => i \in S
  PROVE  0 .. N \subseteq S
<1> SUFFICES ASSUME ~(0 .. N \subseteq S) PROVE FALSE
  OBVIOUS
<1> DEFINE Missing == (0 .. N) \ S
<1>1. PICK m \in Missing : \A n \in Missing : m <= n
  <2> Missing \subseteq Nat /\ Missing # {}
    OBVIOUS
  <2> HIDE DEF Missing
  <2> QED BY LeastNumber
<1>2. m \in 1 .. N /\ m - 1 \in 0 .. N /\ ~(m <= m - 1)
  OBVIOUS
<1> QED BY <1>1, <1>2

\* The rounds of a loop over 1 .. N: state x0 before the first, and step[<<x, i>>]
\* after round i when x is the state before it.
IsLoop(f, N, x0, step) ==
  f = [i \in 0 .. N |-> IF i = 0 THEN x0 ELSE step[<<f[i - 1], i>>]]

LEMMA LoopStays ==
  ASSUME NEW N \in Nat, NEW X, NEW x0 \in X, NEW step \in [X \X (1 .. N) -> X],
         NEW f, IsLoop(f, N, x0, step)
  PROVE  f \in [0 .. N -> X]
<1> DEFINE S == {i \in 0 .. N : f[i] \in X}
<1>1. f[0] = x0 /\ \A i \in 1 .. N : f[i] = step[<<f[i - 1], i>>]
  BY DEF IsLoop
<1>2. ASSUME NEW i \in 1 .. N, i - 1 \in S PROVE i \in S
  <2>1. <<f[i - 1], i>> \in X \X (1 .. N)
    BY <1>2
  <2>2. step[<<f[i - 1], i>>] \in X
    BY <2>1
  <2> QED BY <1>1, <2>2
<1>3. 0 \in S
  BY <1>1
<1>4. 0 .. N \subseteq S
  <2> HIDE DEF S
  <2> QED BY <1>2, <1>3, AllRounds
<1> QED BY <1>4 DEF IsLoop

LEMMA LoopExists ==
  ASSUME NEW N \in Nat, NEW X, NEW x0 \in X, NEW step \in [X \X (1 .. N) -> X]
  PROVE  \E f : IsLoop(f, N, x0, step)
<1> DEFINE Rounds(n) == {f \in [0 .. n -> X] :
                           f[0] = x0 /\ \A i \in 1 .. n : f[i] = step[<<f[i - 1], i>>]}
           S == {n \in 0 .. N : Rounds(n) # {}}
<1>1. 0 \in S
  <2>1. [i \in 0 .. 0 |-> x0] \in Rounds(0)
    OBVIOUS
  <2> QED BY <2>1
<1>2. ASSUME NEW n \in 1 .. N, n - 1 \in S PROVE n \in S
  <2>1. PICK f : f \in Rounds(n - 1)
    BY <1>2
  <2> DEFINE g == [i \in 0 .. n |-> IF i = n THEN step[<<f[n - 1], n>>] ELSE f[i]]
  <2>2. n - 1 \in 0 .. (n - 1) /\ \A i \in 0 .. n : i # n => i \in 0 .. (n - 1)
    OBVIOUS
  <2>3. f[n - 1] \in X /\ step[<<f[n - 1], n>>] \in X
    BY <2>1, <2>2
  <2>4. g \in [0 .. n -> X] /\ g[0] = x0
    BY <2>1, <2>2, <2>3
  <2>5. ASSUME NEW i \in 1 .. n PROVE g[i] = step[<<g[i - 1], i>>]
    <3>1. i - 1 \in 0 .. n /\ i - 1 # n /\ g[i - 1] = f[i - 1]
      OBVIOUS
    <3>2. CASE i = n
      BY <3>1, <3>2
    <3>3. CASE i # n
      <4>1. i \in 1 .. (n - 1)
        BY <3>3
      <4> QED BY <2>1, <3>1, <3>3, <4>1
    <3> QED BY <3>2, <3>3
  <2>6. g \in Rounds(n)
    <3> HIDE DEF g
    <3> QED BY <2>4, <2>5
  <2> HIDE DEF g, Rounds
  <2> QED BY <2>6
<1>3. N \in S
  <2> HIDE DEF S
  <2> QED BY <1>1, <1>2, AllRounds
<1>4. PICK f : f \in Rounds(N)
  BY <1>3
<1> QED BY <1>4 DEF IsLoop

-----------------------------------------------------------------------------
(* The expansion, pixel by pixel from the last to the first.               *)

\* After i of n rounds the last i pixels are spread and nothing before them is
\* touched, so that the next pixel's value is still there.
SpreadFrom(v, w, n, i) ==
  /\ w \in [0 .. 3 * n - 1 -> {v[b] : b \in 0 .. 3 * n - 1}]
  /\ \A b \in 0 .. 3 * (n - i) - 1 : w[b] = v[b]
  /\ \A p \in n - i .. n - 1, c \in 0 .. 2 : w[3 * p + c] = v[p]

LEMMA SpreadRound ==
  ASSUME NEW n \in Nat, NEW v, DOMAIN v = 0 .. 3 * n - 1,
         NEW i \in 1 .. n, NEW w, SpreadFrom(v, w, n, i - 1)
  PROVE  SpreadFrom(v, Spread(w, n - i), n, i)
<1> DEFINE q == n - i
           u == Spread(w, q)
           B == 0 .. 3 * n - 1
           Values == {v[b] : b \in B}
<1>1. /\ q \in 0 .. n - 1 /\ n - (i - 1) = q + 1
      /\ {q, 3 * q, 3 * q + 1, 3 * q + 2} \subseteq B
  OBVIOUS
<1>2. w \in [B -> Values] /\ w[q] = v[q] /\ v[q] \in Values
  <2>1. q \in 0 .. 3 * (q + 1) - 1
    BY <1>1
  <2> HIDE DEF q
  <2> QED BY <1>1, <2>1 DEF SpreadFrom
<1>3. u = [b \in B |-> IF b = 3 * q \/ b = 3 * q + 1 \/ b = 3 * q + 2 THEN v[q] ELSE w[b]]
  <2> HIDE DEF q, B, Values
  <2>0. q \in Int
    BY <1>1
  <2>1. u = [w EXCEPT ![3 * q + 2] = w[q], ![3 * q + 1] = w[q], ![3 * q] = w[q]]
    BY DEF Spread
  <2> QED BY <1>1, <1>2, <2>0, <2>1
<1> HIDE DEF u
<1>4. u \in [B -> Values]
  <2> HIDE DEF q, B, Values
  <2> QED BY <1>2, <1>3
<1>5. ASSUME NEW b \in 0 .. 3 * q - 1 PROVE u[b] = v[b]
  <2>1. b \in B /\ b \in 0 .. 3 * (q + 1) - 1
    BY <1>1
  <2>2. w[b] = v[b]
    BY <1>1, <2>1 DEF SpreadFrom
  <2>3. b # 3 * q /\ b # 3 * q + 1 /\ b # 3 * q + 2
    BY <1>1
  <2> HIDE DEF q, B
  <2> QED BY <1>3, <2>1, <2>2, <2>3
<1>6. ASSUME NEW p \in q .. n - 1, NEW c \in 0 .. 2 PROVE u[3 * p + c] = v[p]
  <2>1. 3 * p + c \in B
    BY <1>1
  <2>2. CASE p = q
    <3>1. 3 * p + c = 3 * q \/ 3 * p + c = 3 * q + 1 \/ 3 * p + c = 3 * q + 2
      BY <2>2
    <3> HIDE DEF q, B
    <3> QED BY <1>3, <2>1, <2>2, <3>1
  <2>3. CASE p # q
    <3>1. p \in n - (i - 1) .. n - 1
      BY <2>3
    <3>2. w[3 * p + c] = v[p]
      BY <3>1 DEF SpreadFrom
    <3>3. 3 * p + c # 3 * q /\ 3 * p + c # 3 * q + 1 /\ 3 * p + c # 3 * q + 2
      BY <1>1, <3>1
    <3> HIDE DEF q, B
    <3> QED BY <1>3, <2>1, <3>2, <3>3
  <2> QED BY <2>2, <2>3
<1> QED BY <1>4, <1>5, <1>6 DEF SpreadFrom, u

\* An image of three bytes per pixel.
IsPicture(v) == v = [b \in 0 .. width * height * 3 - 1 |-> v[b]]

\* The expansion of a grey picture: every pixel three times its value.
LEMMA ExpandSpreads ==
  ASSUME width \in Nat, height \in Nat, NEW v, IsPicture(v)
  PROVE  /\ IsPicture(Expand(v))
         /\ \A p \in 0 .. width * height - 1, c \in 0 .. 2 : Expand(v)[3 * p + c] = v[p]
<1> DEFINE n == width * height
           B == 0 .. 3 * n - 1
           X == [B -> {v[b] : b \in B}]
           step == [x \in X \X (1 .. n) |-> Spread(x[1], n - x[2])]
           Rounds(f) == f = [i \in 0 .. n |->
                               IF i = 0 THEN v ELSE Spread(f[i - 1], n - i)]
<1>0. n \in Nat
  OBVIOUS
<1>1. n \in Nat /\ v = [b \in B |-> v[b]]
  BY <1>0 DEF IsPicture
<1> HIDE DEF n
<1>2. v \in X
  <2> QED BY <1>1
<1>3. step \in [X \X (1 .. n) -> X]
  <2> SUFFICES ASSUME NEW w \in X, NEW i \in 1 .. n PROVE Spread(w, n - i) \in X
    OBVIOUS
  <2>1. n - i \in B /\ 3 * (n - i) \in B /\ 3 * (n - i) + 1 \in B /\ 3 * (n - i) + 2 \in B
    BY <1>0
  <2> HIDE DEF B
  <2> QED BY <2>1 DEF Spread
<1>4. PICK f : IsLoop(f, n, v, step)
  <2> HIDE DEF X, step
  <2> QED BY <1>1, <1>2, <1>3, LoopExists
<1>5. ASSUME NEW g, IsLoop(g, n, v, step) PROVE Rounds(g)
  <2>1. g \in [0 .. n -> X]
    <3> HIDE DEF X, step
    <3> QED BY <1>1, <1>2, <1>3, <1>5, LoopStays
  <2>2. g = [i \in 0 .. n |-> IF i = 0 THEN v ELSE step[<<g[i - 1], i>>]]
    BY <1>5 DEF IsLoop
  <2>3. ASSUME NEW i \in 1 .. n PROVE step[<<g[i - 1], i>>] = Spread(g[i - 1], n - i)
    <3>1. i - 1 \in 0 .. n
      BY <1>1
    <3>2. <<g[i - 1], i>> \in X \X (1 .. n)
      <4> HIDE DEF X
      <4> QED BY <2>1, <3>1
    <3> HIDE DEF X
    <3> QED BY <3>2
  <2>4. \A i \in 0 .. n : i # 0 => i \in 1 .. n
    BY <1>1
  <2> HIDE DEF step
  <2> QED BY <2>2, <2>3, <2>4
<1>6. Rounds(f)
  BY <1>4, <1>5
<1>7. PICK h : Rounds(h) /\ Expand(v) = h[n]
  <2>1. \A i \in 0 .. n : i # 0 => PixelsLastToFirst(n)[i] = n - i
    BY <1>1 DEF PixelsLastToFirst
  <2> QED BY <1>6, <2>1 DEF Expand, n
<1> DEFINE S == {i \in 0 .. n : SpreadFrom(v, h[i], n, i)}
<1>8. 0 \in S
  <2>1. h[0] = v
    BY <1>1, <1>7
  <2> QED BY <1>1, <1>2, <2>1 DEF SpreadFrom
<1>9. ASSUME NEW i \in 1 .. n, i - 1 \in S PROVE i \in S
  <2>1. h[i] = Spread(h[i - 1], n - i)
    <3>1. i \in 0 .. n /\ i # 0
      BY <1>0
    <3>2. h = [j \in 0 .. n |-> IF j = 0 THEN v ELSE Spread(h[j - 1], n - j)]
      BY <1>7
    <3> QED BY <3>1, <3>2
  <2> QED BY <1>1, <1>9, <2>1, SpreadRound
<1>10. n \in S
  <2> HIDE DEF S
  <2>1. 0 .. n \subseteq S
    BY <1>1, <1>8, <1>9, AllRounds
  <2> QED BY <1>1, <2>1
<1>11. /\ Expand(v) = [b \in B |-> Expand(v)[b]]
       /\ \A p \in 0 .. n - 1, c \in 0 .. 2 : Expand(v)[3 * p + c] = v[p]
  <2>1. SpreadFrom(v, Expand(v), n, n) /\ n - n = 0
    BY <1>1, <1>7, <1>10
  <2> QED BY <2>1 DEF SpreadFrom
<1>12. B = 0 .. width * height * 3 - 1
  BY DEF n
<1> HIDE DEF B
<1> QED BY <1>11, <1>12 DEF IsPicture, n

-----------------------------------------------------------------------------
(* Rows and columns.                                                       *)

\* q * m + r is r places into the q-th stretch of m.
LEMMA Places ==
  ASSUME NEW m \in Nat \ {0}, NEW q \in Nat, NEW r \in 0 .. m - 1
  PROVE  /\ q * m + r \in Nat
         /\ (q * m + r) \div m = q /\ (q * m + r) % m = r
<1>1. q * m \in Nat
  OBVIOUS
<1> QED BY <1>1

LEMMA PlaceOf ==
  ASSUME NEW m \in Nat \ {0}, NEW b \in Nat
  PROVE  /\ b \div m \in Nat /\ b % m \in 0 .. m - 1 /\ (b \div m) * m \in Nat
         /\ b = (b \div m) * m + (b % m)
OBVIOUS

\* Fewer than n stretches of m are fewer than n * m.
LEMMA FewStretches ==
  ASSUME NEW m \in Nat, NEW n \in Nat, NEW q \in 0 .. n - 1
  PROVE  q * m + m <= n * m /\ q * m \in Nat /\ n * m \in Nat
<1>1. PICK d \in Nat : n = q + 1 + d
  <2>1. n - (q + 1) \in Nat /\ n = q + 1 + (n - (q + 1))
    OBVIOUS
  <2> QED BY <2>1
<1>2. n * m = q * m + m + d * m
  BY <1>1
<1>3. d * m \in Nat /\ q * m \in Nat /\ n * m \in Nat
  OBVIOUS
<1> QED BY <1>2, <1>3

LEMMA StretchOf ==
  ASSUME NEW m \in Nat \ {0}, NEW n \in Nat, NEW b \in 0 .. n * m - 1
  PROVE  b \div m \in 0 .. n - 1
<1> DEFINE q == b \div m
<1>0. n * m \in Nat /\ b \in Nat
  OBVIOUS
<1>1. q \in Nat /\ q * m <= b /\ q * m \in Nat
  BY <1>0, PlaceOf
<1>2. CASE q >= n
  <2>1. n \in 0 .. (q + 1) - 1 /\ q + 1 \in Nat
    BY <1>1, <1>2
  <2> HIDE DEF q
  <2>2. n * m + m <= (q + 1) * m
    BY <2>1, FewStretches
  <2>3. (q + 1) * m = q * m + m
    BY <1>1
  <2> QED BY <1>0, <1>1, <2>2, <2>3
<1> QED BY <1>1, <1>2

-----------------------------------------------------------------------------
(* The grid.                                                               *)

LEMMA IntSqrtExists ==
  ASSUME NEW n \in Nat
  PROVE  IntSqrt(n) \in Nat /\ IntSqrt(n) * IntSqrt(n) <= n
<1> DEFINE Above == {s \in Nat : n < (s + 1) * (s + 1)}
<1>1. n \in Above
  <2>1. (n + 1) * (n + 1) = n * n + n + n + 1 /\ n * n \in Nat
    OBVIOUS
  <2> QED BY <2>1
<1>2. PICK s \in Above : \A r \in Above : s <= r
  <2> Above \subseteq Nat
    OBVIOUS
  <2> HIDE DEF Above
  <2> QED BY <1>1, LeastNumber
<1>3. s \in 0 .. n
  BY <1>1, <1>2
<1>4. s * s <= n
  <2>1. CASE s = 0
    BY <2>1
  <2>2. CASE s # 0
    <3>1. s - 1 \in Nat /\ ~(s <= s - 1) /\ (s - 1) + 1 = s
      BY <2>2
    <3>2. ~(n < s * s)
      BY <1>2, <3>1
    <3>3. s * s \in Nat
      OBVIOUS
    <3> QED BY <3>2, <3>3
  <2> QED BY <2>1, <2>2
<1>5. \E r \in 0 .. n : r * r <= n /\ n < (r + 1) * (r + 1)
  BY <1>2, <1>3, <1>4
<1>6. IntSqrt(n) \in 0 .. n /\ IntSqrt(n) * IntSqrt(n) <= n
  BY <1>5, Zenon DEF IntSqrt
<1> QED BY <1>6

\* What the assertions of create_jpg_packets_from_buf establish: the picture is
\* n times n slices of mw times mh pixels.
Grid(n, mw, mh) ==
  /\ n \in Nat \ {0} /\ mw \in Nat \ {0} /\ mh \in Nat \ {0}
  /\ width \in Nat \ {0} /\ height \in Nat \ {0} /\ zoom \in Nat \ {0}
  /\ n * n = pck_per_frame /\ n * mw = width /\ n * mh = height

LEMMA GridOf ==
  ASSUME <<width, height, pck_per_frame, zoom>> \in Geometries, Divisible
  PROVE  Grid(sqrt_n_pck, mb_width, mb_height)
<1>1. /\ width \in Nat \ {0} /\ height \in Nat \ {0}
      /\ pck_per_frame \in Nat \ {0} /\ zoom \in Nat \ {0}
  BY ParamsAssumption
<1> DEFINE n == sqrt_n_pck
<1>2. n \in Nat
  BY <1>1, IntSqrtExists DEF sqrt_n_pck
<1>3. n * n = pck_per_frame /\ n * mb_width = width /\ n * mb_height = height
  BY DEF Divisible
<1> HIDE DEF n
<1>4. n # 0
  BY <1>1, <1>3
<1>5. mb_width = width \div n /\ mb_height = height \div n
  BY DEF mb_width, mb_height, n
<1>6. mb_width \in Nat /\ mb_height \in Nat
  BY <1>1, <1>2, <1>4, <1>5, PlaceOf
<1>7. mb_width # 0 /\ mb_height # 0
  BY <1>1, <1>2, <1>3, <1>6
<1> QED BY <1>1, <1>2, <1>3, <1>4, <1>6, <1>7 DEF Grid, n

\* The bytes of a grey picture that a slice is decoded to.
Covers(slice, b) ==
  LET off == b - Position(slice)
  IN off >= 0 /\ off % width < mb_width /\ off \div width < mb_height

LEMMA PositionType ==
  ASSUME Grid(sqrt_n_pck, mb_width, mb_height), NEW s \in Slices
  PROVE  Position(s) \in Nat
<1>1. s \in Nat
  BY DEF Slices, Grid
<1>2. Row(s) \in Nat /\ Col(s) \in Nat
  <2>1. sqrt_n_pck \in Nat \ {0}
    BY DEF Grid
  <2>2. /\ s \div sqrt_n_pck \in Nat
        /\ s % sqrt_n_pck \in 0 .. sqrt_n_pck - 1
    BY ONLY <1>1, <2>1, PlaceOf
  <2> QED BY <2>1, <2>2 DEF Row, Col
<1>3. Row(s) * mb_height \in Nat /\ Col(s) * mb_width \in Nat
  BY <1>2 DEF Grid
<1>4. Row(s) * mb_height * width \in Nat
  BY <1>3 DEF Grid
<1> QED BY <1>3, <1>4 DEF Position

\* Every pixel is in a slice.
LEMMA SlicesCover ==
  ASSUME Grid(sqrt_n_pck, mb_width, mb_height), NEW b \in 0 .. width * height - 1
  PROVE  \E s \in Slices : Covers(s, b)
<1> DEFINE n == sqrt_n_pck  mw == mb_width  mh == mb_height
<1>1. /\ n \in Nat \ {0} /\ mw \in Nat \ {0} /\ mh \in Nat \ {0}
      /\ width \in Nat \ {0} /\ height \in Nat \ {0}
      /\ n * n = pck_per_frame /\ n * mw = width /\ n * mh = height
  BY DEF Grid
<1> HIDE DEF n, mw, mh
<1> DEFINE y == b \div width  x == b % width
<1>2. y \in 0 .. height - 1 /\ x \in 0 .. width - 1 /\ b = y * width + x
  <2>1. width * height = height * width /\ width * height \in Nat
    BY <1>1
  <2>2. b \in 0 .. height * width - 1 /\ b \in Nat
    BY <2>1
  <2> QED BY <1>1, <2>2, StretchOf, PlaceOf
<1> HIDE DEF y, x
<1> DEFINE row == y \div mh  col == x \div mw  dy == y % mh  dx == x % mw
<1>3. row \in 0 .. n - 1 /\ dy \in 0 .. mh - 1 /\ y = row * mh + dy
  <2>1. y \in 0 .. n * mh - 1 /\ y \in Nat
    BY <1>1, <1>2
  <2>2. row \in 0 .. n - 1
    BY <1>1, <2>1, StretchOf
  <2>3. dy \in 0 .. mh - 1 /\ y = row * mh + dy
    BY <1>1, <2>1, PlaceOf
  <2> QED BY <2>2, <2>3
<1>4. col \in 0 .. n - 1 /\ dx \in 0 .. mw - 1 /\ x = col * mw + dx
  <2>1. x \in 0 .. n * mw - 1 /\ x \in Nat
    BY <1>1, <1>2
  <2>2. col \in 0 .. n - 1
    BY <1>1, <2>1, StretchOf
  <2>3. dx \in 0 .. mw - 1 /\ x = col * mw + dx
    BY <1>1, <2>1, PlaceOf
  <2> QED BY <2>2, <2>3
<1> HIDE DEF row, col, dy, dx
<1> DEFINE s == row * n + col
<1>5. s \in Slices /\ s \div n = row /\ s % n = col
  <2>1. s \in Nat /\ s \div n = row /\ s % n = col
    BY <1>1, <1>3, <1>4, Places
  <2>2. row * n + n <= n * n /\ row * n \in Nat /\ n * n \in Nat
    BY <1>1, <1>3, FewStretches
  <2>3. s < n * n
    BY <1>1, <1>4, <2>2
  <2> HIDE DEF s
  <2> QED BY <1>1, <2>1, <2>2, <2>3 DEF Slices
<1> HIDE DEF s
<1>6. Row(s) = row /\ Col(s) = col
  BY <1>5 DEF Row, Col, n
<1>7. b - Position(s) = dy * width + dx
  <2>1. Position(s) = row * mh * width + col * mw
    BY <1>6 DEF Position, mh, mw
  <2>2. y * width = row * mh * width + dy * width
    BY <1>1, <1>3
  <2>3. /\ row * mh \in Nat /\ row * mh * width \in Nat /\ col * mw \in Nat
        /\ dy * width \in Nat
    BY <1>1, <1>3, <1>4
  <2> QED BY <1>2, <1>4, <2>1, <2>2, <2>3
<1>8. dx \in 0 .. width - 1
  BY <1>2, <1>4, <1>1
<1>9. /\ dy * width + dx \in Nat
      /\ (dy * width + dx) \div width = dy /\ (dy * width + dx) % width = dx
  BY <1>1, <1>3, <1>8, Places
<1> DEFINE off == dy * width + dx
<1>10. off >= 0 /\ off % width < mb_width /\ off \div width < mb_height
  <2>1. dx < mw /\ dy < mh
    BY <1>1, <1>3, <1>4
  <2> HIDE DEF off
  <2>2. off \in Nat /\ off \div width = dy /\ off % width = dx
    BY <1>9 DEF off
  <2> QED BY <2>1, <2>2 DEF mw, mh
<1> HIDE DEF off
<1>11. Covers(s, b)
  BY <1>7, <1>10 DEF Covers, off
<1> QED BY <1>5, <1>11

-----------------------------------------------------------------------------
(* Decoding.                                                               *)

\* The luma of the p-th pixel of picture f.
Luma(f, p) == <<f, "Y", p>>

LEMMA GreyPixel ==
  ASSUME Grey, NEW f, NEW p \in Nat, NEW c
  PROVE  DecodedByte(Pixel(f, p), c) = Luma(f, p)
<1>1. DecodedByte(Pixel(f, p), c) = Buffer(f, p)
  <2>1. Pixel(f, p) = [j \in 1 .. 1 |-> Buffer(f, 1 * p + j - 1)]
    BY DEF Pixel, BpP
  <2>2. 1 * p + 1 - 1 = p
    OBVIOUS
  <2> QED BY <2>1, <2>2 DEF DecodedByte
<1>2. Buffer(f, p) = Camera(f, 2 * p)
  BY DEF Buffer
<1>3. (2 * p) % 2 = 0 /\ (2 * p) \div 2 = p /\ (2 * p) % 4 # 1 /\ (2 * p) % 4 # 3
  OBVIOUS
<1>4. Camera(f, 2 * p) = Luma(f, p)
  BY <1>3 DEF Camera, Luma
<1> QED BY <1>1, <1>2, <1>4

\* A slice is decoded to its pixels and to nothing else.
LEMMA DecodePlaces ==
  ASSUME Grey, Grid(sqrt_n_pck, mb_width, mb_height),
         NEW f, NEW s \in Slices, NEW v, IsPicture(v)
  PROVE  /\ IsPicture(Decode(f, s, v))
         /\ \A b \in 0 .. width * height * 3 - 1 :
              Decode(f, s, v)[b] = IF Covers(s, b) THEN Luma(f, b) ELSE v[b]
<1> DEFINE B == 0 .. width * height * 3 - 1
           off(b) == b - Position(s)
           x(b) == (off(b) % (width * BpP)) \div BpP
           y(b) == off(b) \div (width * BpP)
<1>1. BpP = 1 /\ width \in Nat \ {0} /\ Position(s) \in Nat /\ DOMAIN v = B
  BY PositionType DEF BpP, Grid, IsPicture
<1>2. Decode(f, s, v) =
        [b \in B |->
           IF off(b) >= 0 /\ x(b) < mb_width /\ y(b) < mb_height
           THEN DecodedByte(Pixel(f, Position(s) + y(b) * width + x(b)), off(b) % BpP)
           ELSE v[b]]
  BY <1>1 DEF Decode, Position
<1>3. ASSUME NEW b \in B, off(b) >= 0
      PROVE  /\ x(b) = off(b) % width /\ y(b) = off(b) \div width
             /\ Position(s) + y(b) * width + x(b) = b
  <2>1. b \in Int /\ off(b) \in Nat
    BY <1>1, <1>3
  <2>2. width * 1 = width /\ off(b) % width \in Int
    BY <1>1, <2>1
  <2>3. x(b) = off(b) % width /\ y(b) = off(b) \div width
    BY <1>1, <2>2
  <2>4. off(b) = (off(b) \div width) * width + (off(b) % width)
    BY <1>1, <2>1, PlaceOf
  <2>5. (off(b) \div width) * width \in Nat
    BY <1>1, <2>1, PlaceOf
  <2>6. y(b) * width + x(b) = off(b) /\ y(b) * width \in Nat /\ x(b) \in Int
    <3> HIDE DEF x, y, off
    <3> QED BY <2>2, <2>3, <2>4, <2>5
  <2>7. Position(s) + y(b) * width + x(b) = b
    <3> HIDE DEF x, y
    <3> QED BY <1>1, <2>1, <2>6
  <2> QED BY <2>3, <2>7
<1>4. ASSUME NEW b \in B
      PROVE  Decode(f, s, v)[b] = IF Covers(s, b) THEN Luma(f, b) ELSE v[b]
  <2>1. CASE off(b) >= 0
    <3>1. DecodedByte(Pixel(f, b), off(b) % BpP) = Luma(f, b)
      <4> b \in Nat
        OBVIOUS
      <4> QED BY GreyPixel
    <3> HIDE DEF x, y
    <3> QED BY <1>2, <1>3, <2>1, <3>1 DEF Covers
  <2>2. CASE ~(off(b) >= 0)
    BY <1>2, <2>2 DEF Covers
  <2> QED BY <2>1, <2>2
<1> HIDE DEF B
<1>5. Decode(f, s, v) = [b \in B |-> Decode(f, s, v)[b]]
  <2> HIDE DEF x, y, off
  <2> QED BY <1>2
<1> QED BY <1>4, <1>5 DEF IsPicture, B

-----------------------------------------------------------------------------
(* Drawing.                                                                *)

LEMMA ShownColours ==
  ASSUME width \in Nat, height \in Nat, NEW v, IsPicture(v)
  PROVE  /\ IsPicture(Shown(v))
         /\ \A p \in 0 .. width * height - 1, c \in 0 .. 2 :
              Shown(v)[3 * p + c] = IF p \in Squares THEN Black ELSE v[p]
<1> DEFINE w == Expand(v)
           B == 0 .. width * height * 3 - 1
<1>1. IsPicture(w)
  BY ExpandSpreads
<1>2. DOMAIN w = B
  BY <1>1 DEF IsPicture
<1>3. Shown(v) = [b \in B |-> IF b \div 3 \in Squares THEN Black ELSE w[b]]
  <2> HIDE DEF B
  <2> QED BY <1>2 DEF Shown
<1>4. IsPicture(Shown(v))
  <2> HIDE DEF w
  <2>1. Shown(v) = [b \in B |-> Shown(v)[b]]
    <3> HIDE DEF B
    <3> QED BY <1>3
  <2> QED BY <2>1 DEF IsPicture
<1>5. ASSUME NEW p \in 0 .. width * height - 1, NEW c \in 0 .. 2
      PROVE  Shown(v)[3 * p + c] = IF p \in Squares THEN Black ELSE v[p]
  <2>1. w[3 * p + c] = v[p]
    BY ExpandSpreads
  <2>2. (3 * p + c) \div 3 = p /\ 3 * p + c \in B
    <3> DEFINE n == width * height
    <3>1. n \in Nat
      OBVIOUS
    <3> HIDE DEF n
    <3>2. p \in 0 .. n - 1
      BY DEF n
    <3>3. (3 * p + c) \div 3 = p /\ 3 * p + c \in 0 .. n * 3 - 1
      BY <3>1, <3>2
    <3> QED BY <3>3 DEF n
  <2> HIDE DEF w, B
  <2> QED BY <1>3, <2>1, <2>2
<1> QED BY <1>4, <1>5

\* The colour of the pixel in column x of row y of the window.
WindowOf(col) ==
  {<<y * bpl + x, col[width * (y \div zoom) + (x \div zoom)]>> :
     x \in 0 .. width * zoom - 1, y \in 0 .. height * zoom - 1}

\* imageLine and the loops of the zoom put the picture into the window.
LEMMA ZoomDraws ==
  ASSUME width \in Nat \ {0}, height \in Nat \ {0}, zoom \in Nat \ {0},
         NEW v, NEW col,
         \A p \in 0 .. width * height - 1 :
           <<v[3 * p], v[3 * p + 1], v[3 * p + 2]>> = col[p]
  PROVE  Zoomed(imageLine(v)) = WindowOf(col)
<1> DEFINE line == imageLine(v)
           Index == {bpl * y + x : x \in 0 .. width - 1, y \in 0 .. height - 1}
           P(i) == width * (i \div bpl) + (i % bpl)
<1>1. bpl \in Nat \ {0} /\ bpl = width * zoom /\ width <= bpl
  <2>1. zoom = 1 + (zoom - 1) /\ zoom - 1 \in Nat
    OBVIOUS
  <2>2. width * zoom = width + width * (zoom - 1) /\ width * (zoom - 1) \in Nat
    BY <2>1
  <2> QED BY <2>2 DEF bpl
<1>2. ASSUME NEW j \in 0 .. height - 1, NEW i \in 0 .. width - 1
      PROVE  line[j * bpl + i] = col[width * j + i]
  <2> DEFINE at == j * bpl + i
  <2>1. i \in 0 .. bpl - 1 /\ j \in Nat
    BY <1>1
  <2>2. at \div bpl = j /\ at % bpl = i
    BY <1>1, <2>1, Places
  <2>3. at \in Index
    <3>1. bpl * j = j * bpl
      BY <1>1
    <3> QED BY <3>1
  <2> HIDE DEF at, Index
  <2>4. line = [n \in Index |-> <<v[3 * P(n)], v[3 * P(n) + 1], v[3 * P(n) + 2]>>]
    BY DEF imageLine, Index
  <2>5. P(at) = width * j + i
    BY <2>2
  <2>6. width * j + i \in 0 .. width * height - 1
    <3>1. j * width + width <= height * width
      BY FewStretches
    <3>2. /\ width * j = j * width /\ width * height = height * width
          /\ j * width \in Nat /\ height * width \in Nat
      BY <2>1
    <3> QED BY <3>1, <3>2
  <2> DEFINE q == width * j + i
  <2>7. line[at] = <<v[3 * q], v[3 * q + 1], v[3 * q + 2]>>
    BY <2>3, <2>4, <2>5
  <2> HIDE DEF q
  <2>8. q \in 0 .. width * height - 1
    BY <2>6 DEF q
  <2>9. line[at] = col[q]
    BY <2>7, <2>8
  <2> QED BY <2>9 DEF at, q
<1> HIDE DEF line, Index, P
\* Column or row j * zoom + m of the window is of column or row j of the picture.
<1>3. ASSUME NEW n \in Nat \ {0}, NEW j \in 0 .. n - 1, NEW m \in 0 .. zoom - 1
      PROVE  j * zoom + m \in 0 .. n * zoom - 1 /\ (j * zoom + m) \div zoom = j
  <2>1. j * zoom + zoom <= n * zoom /\ j * zoom \in Nat /\ n * zoom \in Nat
    BY <1>3, FewStretches
  <2>2. (j * zoom + m) \div zoom = j
    BY <1>3, Places
  <2> QED BY <2>1, <2>2
<1>4. ASSUME NEW n \in Nat \ {0}, NEW y \in 0 .. n * zoom - 1
      PROVE  /\ y \div zoom \in 0 .. n - 1 /\ y % zoom \in 0 .. zoom - 1
             /\ y = (y \div zoom) * zoom + (y % zoom)
  <2>1. y \in Nat
    OBVIOUS
  <2>2. y \div zoom \in 0 .. n - 1
    BY <1>4, StretchOf
  <2> QED BY <2>1, <2>2, PlaceOf
<1> DEFINE Put(j, i, kk, m) == <<(j * zoom + m) * bpl + i * zoom + kk, line[j * bpl + i]>>
           Dot(x, y) == <<y * bpl + x, col[width * (y \div zoom) + (x \div zoom)]>>
<1>5. Zoomed(line) = {Put(j, i, kk, m) :
                        j \in 0 .. height - 1, i \in 0 .. width - 1,
                        kk \in 0 .. zoom - 1, m \in 0 .. zoom - 1}
  BY DEF Zoomed
<1>6. WindowOf(col) = {Dot(x, y) :
                         x \in 0 .. width * zoom - 1, y \in 0 .. height * zoom - 1}
  BY DEF WindowOf
<1>7. ASSUME NEW j \in 0 .. height - 1, NEW i \in 0 .. width - 1,
             NEW kk \in 0 .. zoom - 1, NEW m \in 0 .. zoom - 1
      PROVE  Put(j, i, kk, m) \in WindowOf(col)
  <2> DEFINE y == j * zoom + m  x == i * zoom + kk
  <2>1. /\ y \in 0 .. height * zoom - 1 /\ y \div zoom = j
        /\ x \in 0 .. width * zoom - 1 /\ x \div zoom = i
    BY <1>3
  <2>2. (j * zoom + m) * bpl + i * zoom + kk = y * bpl + x
    <3>1. i * zoom \in Nat /\ y \in Nat
      BY <2>1
    <3> HIDE DEF y
    <3>2. y * bpl \in Nat
      BY <1>1, <3>1
    <3>3. y * bpl + i * zoom + kk = y * bpl + (i * zoom + kk)
      BY <3>1, <3>2
    <3> QED BY <3>3 DEF y
  <2> HIDE DEF y, x
  <2>3. Dot(x, y) \in WindowOf(col)
    <3> HIDE DEF Dot
    <3> QED BY <1>5, <1>6, <2>1
  <2>4. Dot(x, y) = Put(j, i, kk, m)
    <3>1. line[j * bpl + i] = col[width * j + i]
      BY <1>2
    <3> QED BY <2>1, <2>2, <3>1 DEF y, x
  <2> HIDE DEF Dot, Put
  <2> QED BY <2>3, <2>4
<1>8. ASSUME NEW x \in 0 .. width * zoom - 1, NEW y \in 0 .. height * zoom - 1
      PROVE  Dot(x, y) \in Zoomed(line)
  <2> DEFINE j == y \div zoom  i == x \div zoom  m == y % zoom  kk == x % zoom
  <2>1. /\ j \in 0 .. height - 1 /\ m \in 0 .. zoom - 1 /\ y = j * zoom + m
        /\ i \in 0 .. width - 1 /\ kk \in 0 .. zoom - 1 /\ x = i * zoom + kk
    BY <1>4
  <2> HIDE DEF j, i, m, kk
  <2>2. Put(j, i, kk, m) \in Zoomed(line)
    <3> HIDE DEF Put
    <3> QED BY <1>5, <1>6, <2>1
  <2>3. (j * zoom + m) * bpl + i * zoom + kk = y * bpl + x
    <3>1. i * zoom \in Nat /\ y * bpl \in Nat
      BY <1>1, <2>1
    <3>2. y * bpl + i * zoom + kk = y * bpl + (i * zoom + kk)
      BY <2>1, <3>1
    <3> QED BY <2>1, <3>2
  <2>4. line[j * bpl + i] = col[width * j + i]
    BY <1>2, <2>1
  <2>5. Dot(x, y) = Put(j, i, kk, m)
    BY <2>3, <2>4 DEF j, i
  <2> HIDE DEF Dot, Put
  <2> QED BY <2>2, <2>5
<1> HIDE DEF Put, Dot
<1>9. Zoomed(line) \subseteq WindowOf(col)
  BY <1>5, <1>7, <1>6
<1>10. WindowOf(col) \subseteq Zoomed(line)
  BY <1>5, <1>8, <1>6
<1> QED BY <1>9, <1>10 DEF line

-----------------------------------------------------------------------------
(* The picture in the window.                                              *)

\* The bytes of the slices decoded so far are the camera's, later ones do not
\* disturb them, and after the expansion and the squares each pixel of a
\* complete picture has its colour.
PictureInv ==
  /\ <<width, height, pck_per_frame, zoom>> \in Geometries
  /\ IsPicture(videoFrame)
  /\ pc \in {"encode", "send", "show", "shown"} => Divisible
  /\ pc \in {"send", "show"} =>
       \A s \in decoded, b \in 0 .. width * height * 3 - 1 :
         Covers(s, b) => videoFrame[b] = Luma(frame, b)
  /\ pc = "shown" /\ decoded = Slices =>
       \A p \in 0 .. width * height - 1, c \in 0 .. 2 :
         videoFrame[3 * p + c] = IF p \in Squares THEN Black ELSE Luma(frame, p)

LEMMA PictureInvInit == Init => PictureInv
<1> SUFFICES ASSUME Init PROVE PictureInv
  OBVIOUS
<1>1. <<width, height, pck_per_frame, zoom>> \in Geometries
  BY SliceTypeInit DEF TypeOK
<1>2. IsPicture(videoFrame)
  BY DEF Init, IsPicture
<1>3. pc = "frame"
  BY DEF Init
<1> QED BY <1>1, <1>2, <1>3 DEF PictureInv

\* The grid does not change.
LEMMA SameGrid ==
  ASSUME UNCHANGED geometry
  PROVE  /\ UNCHANGED <<width, height, pck_per_frame, zoom>>
         /\ Slices' = Slices /\ Squares' = Squares /\ Divisible' = Divisible
         /\ \A v : IsPicture(v)' <=> IsPicture(v)
         /\ \A s, b : Covers(s, b)' <=> Covers(s, b)
<1>1. UNCHANGED <<width, height, pck_per_frame, zoom>>
  BY DEF geometry
<1>2. UNCHANGED <<sqrt_n_pck, mb_width, mb_height>>
  BY <1>1 DEF sqrt_n_pck, mb_width, mb_height
<1>3. Slices' = Slices
  BY <1>1 DEF Slices
<1>4. Squares' = Squares
  BY <1>1, <1>2 DEF Squares
<1>5. Divisible' = Divisible
  BY <1>1, <1>2 DEF Divisible
<1>6. \A v : IsPicture(v)' <=> IsPicture(v)
  BY <1>1 DEF IsPicture
<1>7. \A s, b : Covers(s, b)' <=> Covers(s, b)
  BY <1>1, <1>2 DEF Covers, Position, Row, Col
<1> QED BY <1>1, <1>3, <1>4, <1>5, <1>6, <1>7

LEMMA PictureInvStep ==
  ASSUME Grey
  PROVE  PictureInv /\ SliceInv /\ [Next]_vars => PictureInv'
<1> SUFFICES ASSUME PictureInv, SliceInv, [Next]_vars PROVE PictureInv'
  OBVIOUS
<1> DEFINE B == 0 .. width * height * 3 - 1
<1>1. UNCHANGED geometry
  BY DEF Next, StartFrame, EncodeSlice, SendSlice, Show, NextFrame, vars
<1>2. /\ UNCHANGED <<width, height, pck_per_frame, zoom>>
      /\ Slices' = Slices /\ Squares' = Squares /\ Divisible' = Divisible
      /\ \A s, b : Covers(s, b)' <=> Covers(s, b)
  BY <1>1, SameGrid
<1>3. /\ <<width', height', pck_per_frame', zoom'>> \in Geometries
      /\ B' = B
  BY <1>2 DEF PictureInv
<1>4. CASE StartFrame
  <2>1. /\ pc' = "aborted" \/ (pc' = "encode" /\ Divisible)
        /\ videoFrame' = videoFrame
    BY <1>4 DEF StartFrame
  <2>2. IsPicture(videoFrame)'
    BY <1>2, <2>1 DEF PictureInv, IsPicture
  <2> QED BY <1>2, <1>3, <2>1, <2>2 DEF PictureInv
<1>5. CASE EncodeSlice
  <2>1. /\ pc = "encode" /\ pc' \in {"exited", "encode", "send"}
        /\ UNCHANGED <<videoFrame, decoded>>
    BY <1>5 DEF EncodeSlice
  <2>2. IsPicture(videoFrame)'
    BY <1>2, <2>1 DEF PictureInv, IsPicture
  <2>3. Divisible' /\ decoded' = {}
    BY <1>2, <2>1 DEF PictureInv, SliceInv
  <2> QED BY <1>3, <2>1, <2>2, <2>3 DEF PictureInv
<1>6. CASE SendSlice
  <2>1. /\ pc = "send" /\ pc' \in {"send", "show"} /\ frame' = frame
        /\ \/ UNCHANGED <<videoFrame, decoded>>
           \/ /\ videoFrame' = Decode(frame, k, videoFrame)
              /\ decoded' = decoded \cup {k}
    BY <1>6 DEF SendSlice
  <2>2. Divisible /\ Divisible'
    BY <1>2, <2>1 DEF PictureInv
  <2>3. ASSUME IsPicture(videoFrame'),
               \A s \in decoded', b \in B : Covers(s, b) => videoFrame'[b] = Luma(frame, b)
        PROVE  PictureInv'
    <3>1. IsPicture(videoFrame)'
      BY <1>2, <2>3 DEF IsPicture
    <3>2. \A s \in decoded', b \in B' : Covers(s, b)' => videoFrame'[b] = Luma(frame', b)
      BY <1>2, <1>3, <2>1, <2>3
    <3> QED BY <1>3, <2>1, <2>2, <3>1, <3>2 DEF PictureInv, Luma
  <2>4. CASE UNCHANGED <<videoFrame, decoded>>
    BY <2>1, <2>3, <2>4 DEF PictureInv
  <2>5. CASE videoFrame' = Decode(frame, k, videoFrame) /\ decoded' = decoded \cup {k}
    <3>1. k \in Slices /\ IsPicture(videoFrame)
      BY DEF SliceInv, PictureInv
    <3>2. Grid(sqrt_n_pck, mb_width, mb_height)
      BY <2>2, GridOf DEF PictureInv
    <3>3. /\ IsPicture(videoFrame')
          /\ \A b \in B : videoFrame'[b] = IF Covers(k, b) THEN Luma(frame, b)
                                           ELSE videoFrame[b]
      BY <2>5, <3>1, <3>2, DecodePlaces
    <3>4. ASSUME NEW s \in decoded', NEW b \in B, Covers(s, b)
          PROVE  videoFrame'[b] = Luma(frame, b)
      <4>1. CASE Covers(k, b)
        BY <3>3, <4>1
      <4>2. CASE ~Covers(k, b)
        <5>1. s \in decoded
          BY <2>5, <3>4, <4>2
        <5> QED BY <2>1, <3>3, <3>4, <4>2, <5>1 DEF PictureInv
      <4> QED BY <4>1, <4>2
    <3> QED BY <2>3, <3>3, <3>4
  <2> QED BY <2>1, <2>4, <2>5
<1>7. CASE Show
  <2>1. /\ pc = "show" /\ pc' = "shown" /\ UNCHANGED <<frame, decoded>>
        /\ videoFrame' = Shown(videoFrame)
    BY <1>7 DEF Show
  <2>2. Divisible /\ Divisible'
    BY <1>2, <2>1 DEF PictureInv
  <2>3. Grid(sqrt_n_pck, mb_width, mb_height)
    BY <2>2, GridOf DEF PictureInv
  <2>4. /\ IsPicture(videoFrame')
        /\ \A p \in 0 .. width * height - 1, c \in 0 .. 2 :
             videoFrame'[3 * p + c] = IF p \in Squares THEN Black ELSE videoFrame[p]
    <3>1. width \in Nat /\ height \in Nat /\ IsPicture(videoFrame)
      BY <2>3 DEF Grid, PictureInv
    <3> QED BY <2>1, <3>1, ShownColours
  <2>5. ASSUME decoded = Slices, NEW p \in 0 .. width * height - 1
        PROVE  videoFrame[p] = Luma(frame, p)
    <3>1. p \in B
      <4>1. width * height \in Nat
        BY <2>3 DEF Grid
      <4> QED BY <4>1
    <3>2. PICK s \in Slices : Covers(s, p)
      BY <2>3, SlicesCover
    <3> QED BY <2>1, <2>5, <3>1, <3>2 DEF PictureInv
  <2>6. IsPicture(videoFrame)'
    BY <1>2, <2>4 DEF IsPicture
  <2>7. decoded' = Slices' =>
          \A p \in 0 .. width' * height' - 1, c \in 0 .. 2 :
            videoFrame'[3 * p + c] = IF p \in Squares' THEN Black ELSE Luma(frame', p)
    BY <1>2, <2>1, <2>4, <2>5
  <2> QED BY <1>3, <2>1, <2>2, <2>6, <2>7 DEF PictureInv, Luma
<1>8. CASE NextFrame
  <2>1. pc' = "frame" /\ videoFrame' = videoFrame
    BY <1>8 DEF NextFrame
  <2>2. IsPicture(videoFrame)'
    BY <1>2, <2>1 DEF PictureInv, IsPicture
  <2> QED BY <1>3, <2>1, <2>2 DEF PictureInv
<1>9. CASE UNCHANGED vars
  <2>1. UNCHANGED <<pc, videoFrame, frame, decoded>>
    BY <1>9 DEF vars
  <2>2. IsPicture(videoFrame)'
    BY <1>2, <2>1 DEF PictureInv, IsPicture
  <2>3. pc \in {"send", "show"} =>
          \A s \in decoded, b \in B' : Covers(s, b)' => videoFrame[b] = Luma(frame, b)
    BY <1>2, <1>3 DEF PictureInv
  <2>4. pc = "shown" /\ decoded = Slices' =>
          \A p \in 0 .. width' * height' - 1, c \in 0 .. 2 :
            videoFrame[3 * p + c] = IF p \in Squares' THEN Black ELSE Luma(frame, p)
    BY <1>2 DEF PictureInv
  <2>5. pc \in {"encode", "send", "show", "shown"} => Divisible'
    BY <1>2 DEF PictureInv
  <2> QED BY <1>3, <2>1, <2>2, <2>3, <2>4, <2>5 DEF PictureInv, Luma
<1> QED BY <1>4, <1>5, <1>6, <1>7, <1>8, <1>9 DEF Next

\* A grey picture whose slices were all decoded is in the window as the camera
\* took it, pixel by pixel and zoomed, for every size, grid and zoom that the
\* assertions admit; the black squares alone are the receiver's.  Of colour
\* pictures it is not true.
THEOREM GreyAlwaysReproduced == ASSUME Grey PROVE Spec => []PictureReproduced
<1>1. PictureInv => PictureReproduced
  <2> DEFINE colour(p) == [j \in 1 .. 3 |->
                             IF p \in Squares THEN Black
                             ELSE DecodedByte(Pixel(frame, p), j - 1)]
             N == width * height
             col == [p \in 0 .. N - 1 |-> colour(p)]
  <2> SUFFICES ASSUME PictureInv, pc = "shown", decoded = Slices
               PROVE  Zoomed(imageLine(videoFrame)) =
                        {<<y * bpl + x, colour(width * (y \div zoom) + x \div zoom)>> :
                           x \in 0 .. width * zoom - 1, y \in 0 .. height * zoom - 1}
    BY DEF PictureReproduced
  <2>1. Grid(sqrt_n_pck, mb_width, mb_height)
    BY GridOf DEF PictureInv
  <2>2. width \in Nat \ {0} /\ height \in Nat \ {0} /\ zoom \in Nat \ {0}
    BY <2>1 DEF Grid
  <2>3. ASSUME NEW p \in 0 .. N - 1
        PROVE  <<videoFrame[3 * p], videoFrame[3 * p + 1], videoFrame[3 * p + 2]>> = col[p]
    <3>1. \A c \in 0 .. 2 :
            videoFrame[3 * p + c] = IF p \in Squares THEN Black ELSE Luma(frame, p)
      BY <2>3 DEF PictureInv
    <3>2. p \in Nat /\ 3 * p + 0 = 3 * p
      BY <2>3
    <3>3. \A c : DecodedByte(Pixel(frame, p), c) = Luma(frame, p)
      BY <3>2, GreyPixel
    <3> DEFINE a == IF p \in Squares THEN Black ELSE Luma(frame, p)
    <3>4. /\ videoFrame[3 * p] = a /\ videoFrame[3 * p + 1] = a
          /\ videoFrame[3 * p + 2] = a
      BY <3>1, <3>2
    <3>5. col[p] = [j \in 1 .. 3 |-> a]
      BY <3>3
    <3> HIDE DEF a, col
    <3> QED BY <3>4, <3>5
  <2>4. Zoomed(imageLine(videoFrame)) = WindowOf(col)
    <3> HIDE DEF col
    <3> QED BY <2>2, <2>3, ZoomDraws
  <2>5. ASSUME NEW x \in 0 .. width * zoom - 1, NEW y \in 0 .. height * zoom - 1
        PROVE  col[width * (y \div zoom) + (x \div zoom)]
                 = colour(width * (y \div zoom) + (x \div zoom))
    <3>1. y \div zoom \in 0 .. height - 1 /\ x \div zoom \in 0 .. width - 1
      BY <2>2, StretchOf
    <3> DEFINE j == y \div zoom  i == x \div zoom
    <3>2. width * j + i \in 0 .. N - 1
      <4> HIDE DEF j, i
      <4>1. j * width + width <= height * width /\ j * width \in Nat
        BY <2>2, <3>1, FewStretches DEF j
      <4>2. width * j = j * width /\ width * height = height * width
        BY <2>2, <3>1 DEF j
      <4>3. i \in 0 .. width - 1
        BY <3>1 DEF i
      <4> QED BY <2>2, <4>1, <4>2, <4>3
    <3> HIDE DEF j, i, colour
    <3>3. col[width * j + i] = colour(width * j + i)
      BY <3>2
    <3> QED BY <3>3 DEF j, i
  <2> HIDE DEF colour, col
  <2> QED BY <2>4, <2>5 DEF WindowOf
<1> QED BY <1>1, PictureInvInit, PictureInvStep, SliceInvariant, PTL DEF Spec
=============================================================================
