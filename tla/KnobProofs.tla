------------------------------ MODULE KnobProofs -----------------------------
(***************************************************************************)
(* QualityControl implements Knob, for any receivers, any keys and any     *)
(* size of a read: the keys of a receiver lie on their way in the order in *)
(* which they were typed, and those of a patient user one by one.          *)
(***************************************************************************)
EXTENDS QualityControl, SequenceTheorems, FiniteSetTheorems, TLAPS

LastObeyed(c) == Abstract!LastObeyed(c)

\* The keys in seq are some of those typed, in order, after the lo-th and up to
\* the hi-th; newlines may lie between them.
Between(keys, seq, lo, hi) ==
  /\ \A i \in 1 .. Len(seq) :
       seq[i] # Newline =>
         /\ seq[i].id \in Nat /\ lo < seq[i].id /\ seq[i].id <= hi
         /\ seq[i] = keys[seq[i].id]
  /\ \A i, j \in 1 .. Len(seq) :
       i < j /\ seq[i] # Newline /\ seq[j] # Newline => seq[i].id < seq[j].id

\* The way of the keys of one receiver, of which the obeyed-th was the last to
\* act: bytes in the connection, in stdin's buffer and in the terminal.  The
\* m-th key is the last before those in the buffer, the n-th the last before
\* those in the terminal.
Way(keys, obeyed, bytes, buffer, terminal) ==
  /\ \A i \in 1 .. Len(keys) : keys[i].id = i
  /\ \E m, n \in Nat :
       /\ obeyed <= m /\ m <= n /\ n <= Len(keys)
       /\ Between(keys, bytes, obeyed, m)
       /\ Between(keys, buffer, m, n)
       /\ Between(keys, terminal, n, Len(keys))

\* A patient user has at most one key on its way.
OneByOne(keys, obeyed, bytes, buffer, terminal) ==
  /\ buffer = <<>> /\ Len(terminal) <= 1
  /\ terminal # <<>> => bytes = <<>>
  /\ \A i \in 2 .. Len(bytes) : bytes[i] = Newline
  /\ Len(keys) <= obeyed + 1
  /\ terminal = <<>> /\ (bytes = <<>> \/ bytes[1] = Newline) => obeyed = Len(keys)

KnobTypes ==
  /\ ctrl_jpg_quality \in Int
  /\ client \in [Clients -> ClientStates] /\ accepted \in [Clients -> BOOLEAN]
  /\ tty \in [Clients -> Seq(Keys)] /\ stdio \in [Clients -> Seq(Keys)]
  /\ wire \in [Clients -> Seq(Bytes)] /\ typed \in [Clients -> Seq(Keys)]
  /\ applied \in [Clients -> Seq(Nat \ {0})]

WayInv == \A c \in Clients :
  Way(typed[c], LastObeyed(c), wire[c], stdio[c], tty[c])

\* The connection holds bytes only while the receiver is connected to this
\* sender, or was when it was closed.
LinkInv == \A c \in Clients :
  wire[c] # <<>> => client[c] \in {"connected", "closed"}

PatientInv == patient => \A c \in Clients :
  /\ client[c] # "closed"
  /\ client[c] \in {"starting", "connected"} =>
       OneByOne(typed[c], LastObeyed(c), wire[c], stdio[c], tty[c])

KnobInv == KnobTypes /\ WayInv /\ LinkInv /\ PatientInv

-----------------------------------------------------------------------------
(* The keys on their way.                                                  *)

LEMMA NewlineIsNoKey ==
  /\ Newline \notin Keys /\ Newline \in Bytes /\ Keys \subseteq Bytes
  /\ \A b \in Bytes : b # Newline => b \in Keys
  /\ \A b \in Keys : b.id \in Nat \ {0} /\ b.key \in {"+", "-", "other"}
BY DEF Newline, Keys, Bytes

\* part is what seq has behind its first d elements, or some of that.
Behind(part, seq, d) ==
  /\ Len(seq) \in Nat /\ Len(part) \in Nat
  /\ \A i \in 1 .. Len(part) : i + d \in 1 .. Len(seq) /\ part[i] = seq[i + d]

\* more is seq, then b, and then nothing or a newline.
Joined(more, seq, b) ==
  /\ Len(more) \in Nat
  /\ \A i \in 1 .. Len(more) :
       more[i] = IF i <= Len(seq) THEN seq[i]
                 ELSE IF i = Len(seq) + 1 THEN b ELSE Newline

\* What is left of a sequence is still between the same keys.
LEMMA BetweenPart ==
  ASSUME NEW keys, NEW seq, NEW lo \in Nat, NEW hi \in Nat,
         Between(keys, seq, lo, hi), NEW part, NEW d \in Nat, Behind(part, seq, d)
  PROVE  Between(keys, part, lo, hi)
<1> USE DEF Behind
<1>1. ASSUME NEW i \in 1 .. Len(part), part[i] # Newline
      PROVE  /\ part[i].id \in Nat /\ lo < part[i].id /\ part[i].id <= hi
             /\ part[i] = keys[part[i].id]
  BY <1>1 DEF Between
<1>2. ASSUME NEW i \in 1 .. Len(part), NEW j \in 1 .. Len(part), i < j,
             part[i] # Newline, part[j] # Newline
      PROVE  part[i].id < part[j].id
  <2>1. /\ i + d \in 1 .. Len(seq) /\ j + d \in 1 .. Len(seq) /\ i + d < j + d
        /\ part[i] = seq[i + d] /\ part[j] = seq[j + d]
    BY <1>2
  <2> QED BY <1>2, <2>1 DEF Between
<1> QED BY <1>1, <1>2 DEF Between

\* Without its first key it begins after that.
LEMMA BetweenRest ==
  ASSUME NEW keys, NEW seq, NEW lo \in Nat, NEW hi \in Nat,
         Between(keys, seq, lo, hi), NEW part, NEW d \in Nat \ {0}, Behind(part, seq, d),
         Len(seq) > 0, seq[1] # Newline
  PROVE  /\ seq[1].id \in Nat /\ lo < seq[1].id /\ seq[1].id <= hi
         /\ seq[1] = keys[seq[1].id]
         /\ Between(keys, part, seq[1].id, hi)
<1>0. Between(keys, part, lo, hi)
  BY BetweenPart
<1> USE DEF Behind
<1>1. 1 \in 1 .. Len(seq)
  OBVIOUS
<1>2. /\ seq[1].id \in Nat /\ lo < seq[1].id /\ seq[1].id <= hi
      /\ seq[1] = keys[seq[1].id]
  BY <1>1 DEF Between
<1>4. ASSUME NEW i \in 1 .. Len(part), part[i] # Newline
      PROVE  seq[1].id < part[i].id
  <2>1. i + d \in 1 .. Len(seq) /\ 1 < i + d /\ part[i] = seq[i + d]
    BY <1>4
  <2> QED BY <1>1, <1>4, <2>1 DEF Between
<1> QED BY <1>0, <1>2, <1>4 DEF Between

LEMMA BetweenNone ==
  ASSUME NEW keys, NEW lo, NEW hi PROVE Between(keys, <<>>, lo, hi)
BY DEF Between

LEMMA BetweenWider ==
  ASSUME NEW keys, NEW seq, NEW lo \in Nat, NEW hi \in Nat, NEW low \in Nat,
         NEW high \in Nat, Between(keys, seq, lo, hi), low <= lo, hi <= high
  PROVE  Between(keys, seq, low, high)
<1>1. ASSUME NEW i \in 1 .. Len(seq), seq[i] # Newline
      PROVE  /\ seq[i].id \in Nat /\ low < seq[i].id /\ seq[i].id <= high
             /\ seq[i] = keys[seq[i].id]
  BY <1>1 DEF Between
<1> QED BY <1>1 DEF Between

\* A key is typed.
LEMMA BetweenMoreKeys ==
  ASSUME NEW keys \in Seq(Keys), NEW b \in Keys, NEW seq, NEW lo \in Nat,
         NEW hi \in Nat, hi <= Len(keys), Between(keys, seq, lo, hi)
  PROVE  Between(Append(keys, b), seq, lo, hi)
<1>1. ASSUME NEW i \in 1 .. Len(keys) PROVE Append(keys, b)[i] = keys[i]
  BY AppendProperties
<1>2. ASSUME NEW i \in 1 .. Len(seq), seq[i] # Newline
      PROVE  /\ seq[i].id \in Nat /\ lo < seq[i].id /\ seq[i].id <= hi
             /\ seq[i] = Append(keys, b)[seq[i].id]
  <2>1. /\ seq[i].id \in Nat /\ lo < seq[i].id /\ seq[i].id <= hi
        /\ seq[i] = keys[seq[i].id]
    BY <1>2 DEF Between
  <2>2. seq[i].id \in 1 .. Len(keys)
    BY <2>1, LenProperties
  <2> QED BY <1>1, <2>1, <2>2
<1> QED BY <1>2 DEF Between

\* A key joins a sequence at its end, with a newline or without.
LEMMA BetweenAppend ==
  ASSUME NEW keys, NEW seq \in Seq(Bytes), NEW lo \in Nat, NEW hi \in Nat,
         NEW b \in Keys, NEW more, Joined(more, seq, b),
         Between(keys, seq, lo, hi), b = keys[b.id], hi < b.id, lo <= hi
  PROVE  Between(keys, more, lo, b.id)
<1> USE DEF Joined
<1>1. Len(seq) \in Nat /\ b.id \in Nat
  BY LenProperties, NewlineIsNoKey
<1>2. ASSUME NEW i \in 1 .. Len(more), more[i] # Newline
      PROVE  /\ more[i].id \in Nat /\ lo < more[i].id /\ more[i].id <= b.id
             /\ more[i] = keys[more[i].id]
             /\ i \in 1 .. Len(seq) => more[i].id <= hi /\ more[i] = seq[i]
             /\ i \notin 1 .. Len(seq) => i = Len(seq) + 1 /\ more[i] = b
  <2>1. CASE i <= Len(seq)
    <3>1. i \in 1 .. Len(seq) /\ more[i] = seq[i]
      BY <1>1, <2>1
    <3>2. /\ seq[i].id \in Nat /\ lo < seq[i].id /\ seq[i].id <= hi
          /\ seq[i] = keys[seq[i].id]
      BY <1>2, <3>1 DEF Between
    <3> QED BY <1>1, <3>1, <3>2
  <2>2. CASE ~(i <= Len(seq))
    <3>1. i = Len(seq) + 1 /\ more[i] = b /\ i \notin 1 .. Len(seq)
      BY <1>1, <1>2, <2>2
    <3> QED BY <1>1, <3>1
  <2> QED BY <2>1, <2>2
<1>3. ASSUME NEW i \in 1 .. Len(more), NEW j \in 1 .. Len(more), i < j,
             more[i] # Newline, more[j] # Newline
      PROVE  more[i].id < more[j].id
  <2>1. i \in 1 .. Len(seq)
    BY <1>1, <1>2, <1>3
  <2>2. CASE j \in 1 .. Len(seq)
    BY <1>2, <1>3, <2>1, <2>2 DEF Between
  <2>3. CASE j \notin 1 .. Len(seq)
    BY <1>1, <1>2, <1>3, <2>1, <2>3
  <2> QED BY <2>2, <2>3
<1> QED BY <1>2, <1>3 DEF Between

-----------------------------------------------------------------------------
(* One receiver: what each operation does to the way of its keys.          *)

\* The user types a key.
LEMMA WayTyped ==
  ASSUME NEW keys \in Seq(Keys), NEW obeyed \in Nat, NEW bytes, NEW buffer,
         NEW terminal \in Seq(Keys), NEW b \in Keys, b.id = Len(keys) + 1,
         Way(keys, obeyed, bytes, buffer, terminal)
  PROVE  Way(Append(keys, b), obeyed, bytes, buffer, Append(terminal, b))
<1> DEFINE more == Append(keys, b)
<1>1. /\ more \in Seq(Keys) /\ Len(more) = Len(keys) + 1 /\ Len(keys) \in Nat
      /\ more[Len(keys) + 1] = b /\ \A i \in 1 .. Len(keys) : more[i] = keys[i]
  BY AppendProperties, LenProperties
<1>2. \A i \in 1 .. Len(more) : more[i].id = i
  BY <1>1 DEF Way
<1>3. PICK m \in Nat, n \in Nat :
        /\ obeyed <= m /\ m <= n /\ n <= Len(keys)
        /\ Between(keys, bytes, obeyed, m) /\ Between(keys, buffer, m, n)
        /\ Between(keys, terminal, n, Len(keys))
  BY DEF Way
<1>4. /\ Between(more, bytes, obeyed, m) /\ Between(more, buffer, m, n)
      /\ Between(more, terminal, n, Len(keys))
  BY <1>1, <1>3, BetweenMoreKeys
<1>5. Between(more, Append(terminal, b), n, b.id)
  <2>1. /\ terminal \in Seq(Bytes) /\ Len(terminal) \in Nat
        /\ Len(Append(terminal, b)) = Len(terminal) + 1
        /\ \A i \in 1 .. Len(terminal) : Append(terminal, b)[i] = terminal[i]
        /\ Append(terminal, b)[Len(terminal) + 1] = b
    BY AppendProperties, LenProperties, NewlineIsNoKey
  <2>2. Joined(Append(terminal, b), terminal, b)
    BY <2>1 DEF Joined
  <2>3. b = more[b.id] /\ Len(keys) < b.id
    BY <1>1
  <2> HIDE DEF more
  <2> QED BY <1>1, <1>3, <1>4, <2>1, <2>2, <2>3, BetweenAppend
<1> HIDE DEF more
<1>6. obeyed <= m /\ m <= n /\ n <= Len(more) /\ b.id = Len(more)
  BY <1>1, <1>3
<1> QED BY <1>2, <1>4, <1>5, <1>6 DEF Way, more

\* fgetc: stdin is what there was to take from, rest and left what remains of it
\* and of the terminal.
Fetched(buffer, terminal, stdin, rest, left) ==
  /\ stdin = IF buffer = <<>> THEN terminal ELSE buffer
  /\ rest = Tail(stdin)
  /\ left = IF buffer = <<>> THEN <<>> ELSE terminal

Written(bytes, stdin, sent) == sent \in {bytes, bytes \o <<Head(stdin), Newline>>}

\* The control thread forwards a key: the connection takes it, or it is lost.
LEMMA WayForwarded ==
  ASSUME NEW keys \in Seq(Keys), NEW obeyed \in Nat, NEW bytes \in Seq(Bytes),
         NEW buffer \in Seq(Keys), NEW terminal \in Seq(Keys), terminal # <<>>,
         NEW stdin, NEW rest, NEW left, Fetched(buffer, terminal, stdin, rest, left),
         NEW sent, Written(bytes, stdin, sent),
         Way(keys, obeyed, bytes, buffer, terminal)
  PROVE  Way(keys, obeyed, sent, rest, left)
<1> DEFINE h == Head(stdin)
<1>0. /\ stdin = IF buffer = <<>> THEN terminal ELSE buffer
      /\ rest = Tail(stdin) /\ left = IF buffer = <<>> THEN <<>> ELSE terminal
      /\ sent \in {bytes, bytes \o <<Head(stdin), Newline>>}
  BY DEF Fetched, Written
<1>1. PICK m \in Nat, n \in Nat :
        /\ obeyed <= m /\ m <= n /\ n <= Len(keys)
        /\ Between(keys, bytes, obeyed, m) /\ Between(keys, buffer, m, n)
        /\ Between(keys, terminal, n, Len(keys))
  BY DEF Way
<1>2. stdin \in Seq(Keys) /\ stdin # <<>> /\ Len(keys) \in Nat
  BY <1>0, LenProperties
<1>3. /\ Len(stdin) \in Nat \ {0} /\ Len(rest) \in Nat /\ Len(rest) = Len(stdin) - 1
      /\ Behind(rest, stdin, 1)
      /\ h = stdin[1] /\ h \in Keys /\ h # Newline
  <2>1. /\ Len(stdin) \in Nat \ {0} /\ Len(rest) = Len(stdin) - 1 /\ h \in Keys
        /\ \A i \in 1 .. Len(rest) : rest[i] = stdin[i + 1]
    BY <1>0, <1>2, HeadTailProperties, EmptySeq
  <2>2. h = stdin[1]
    BY <1>2
  <2> QED BY <2>1, <2>2, NewlineIsNoKey DEF Behind
<1> HIDE DEF h
\* Where stdin ends, and where the terminal will begin.
<1>4. PICK e \in Nat :
        /\ n <= e /\ e <= Len(keys) /\ Between(keys, stdin, m, e)
        /\ Between(keys, left, e, Len(keys))
  <2>1. CASE buffer = <<>>
    <3>1. Between(keys, terminal, m, Len(keys))
      BY <1>1, <1>2, BetweenWider
    <3>2. Between(keys, <<>>, Len(keys), Len(keys))
      BY BetweenNone
    <3>3. /\ n <= Len(keys) /\ Len(keys) <= Len(keys)
          /\ Between(keys, stdin, m, Len(keys)) /\ Between(keys, left, Len(keys), Len(keys))
      BY <1>0, <1>1, <1>2, <2>1, <3>1, <3>2
    <3> QED BY ONLY <1>2, <3>3
  <2>2. CASE buffer # <<>>
    BY <1>0, <1>1, <2>2
  <2> QED BY <2>1, <2>2
<1>5. /\ h.id \in Nat /\ m < h.id /\ h.id <= e /\ h = keys[h.id]
      /\ Between(keys, rest, h.id, e)
  <2>1. /\ Between(keys, stdin, m, e) /\ Behind(rest, stdin, 1) /\ Len(stdin) > 0
        /\ stdin[1] # Newline /\ m \in Nat /\ e \in Nat /\ 1 \in Nat \ {0}
    BY <1>3, <1>4
  <2>2. /\ stdin[1].id \in Nat /\ m < stdin[1].id /\ stdin[1].id <= e
        /\ stdin[1] = keys[stdin[1].id] /\ Between(keys, rest, stdin[1].id, e)
    BY ONLY <2>1, BetweenRest
  <2> QED BY <1>3, <2>2
<1>6. Between(keys, sent, obeyed, h.id)
  <2>1. CASE sent = bytes
    BY <1>1, <1>5, <2>1, BetweenWider
  <2>2. CASE sent = bytes \o <<h, Newline>>
    <3>1. <<h, Newline>> \in Seq(Bytes) /\ Len(<<h, Newline>>) = 2
      BY <1>3, NewlineIsNoKey
    <3>2. /\ Len(bytes) \in Nat /\ Len(sent) = Len(bytes) + 2
          /\ \A i \in 1 .. Len(bytes) + 2 :
               sent[i] = IF i <= Len(bytes) THEN bytes[i]
                         ELSE <<h, Newline>>[i - Len(bytes)]
      BY <2>2, <3>1, ConcatProperties, LenProperties
    <3> DEFINE two == <<h, Newline>>
    <3>0. two[1] = h /\ two[2] = Newline
      OBVIOUS
    <3> HIDE DEF two
    <3>5. \A i \in 1 .. Len(bytes) + 2 :
            sent[i] = IF i <= Len(bytes) THEN bytes[i] ELSE two[i - Len(bytes)]
      BY <3>2 DEF two
    <3>3. ASSUME NEW i \in 1 .. Len(sent)
          PROVE  sent[i] = IF i <= Len(bytes) THEN bytes[i]
                           ELSE IF i = Len(bytes) + 1 THEN h ELSE Newline
      <4>1. CASE i <= Len(bytes)
        BY <3>2, <4>1
      <4>2. CASE i = Len(bytes) + 1
        <5>1. i - Len(bytes) = 1 /\ ~(i <= Len(bytes))
          BY <3>2, <4>2
        <5> QED BY <3>0, <3>2, <3>5, <4>2, <5>1
      <4>3. CASE i > Len(bytes) + 1
        <5>1. i - Len(bytes) = 2 /\ ~(i <= Len(bytes))
          BY <3>2, <4>3
        <5> QED BY <3>0, <3>2, <3>5, <4>3, <5>1
      <4> QED BY <3>2, <4>1, <4>2, <4>3
    <3>4. Joined(sent, bytes, h)
      BY <3>2, <3>3 DEF Joined
    <3> QED BY <1>1, <1>3, <1>5, <3>4, BetweenAppend
  <2> QED BY <1>0, <2>1, <2>2 DEF h
<1>7. obeyed <= h.id
  BY <1>1, <1>5
<1> QED BY <1>4, <1>5, <1>6, <1>7 DEF Way

\* Keys are lost with the end of a connection or of the receiver.
LEMMA WayCut ==
  ASSUME NEW keys \in Seq(Keys), NEW obeyed \in Nat, NEW bytes \in Seq(Bytes),
         NEW buffer, NEW terminal, NEW n \in 0 .. Len(bytes),
         Way(keys, obeyed, bytes, buffer, terminal)
  PROVE  /\ Way(keys, obeyed, SubSeq(bytes, 1, n), <<>>, <<>>)
         /\ Way(keys, obeyed, <<>>, buffer, terminal)
<1>1. PICK m \in Nat, e \in Nat :
        /\ obeyed <= m /\ m <= e /\ e <= Len(keys)
        /\ Between(keys, bytes, obeyed, m) /\ Between(keys, buffer, m, e)
        /\ Between(keys, terminal, e, Len(keys))
  BY DEF Way
<1>2. /\ Len(bytes) \in Nat /\ Len(SubSeq(bytes, 1, n)) = n
      /\ \A i \in 1 .. n : SubSeq(bytes, 1, n)[i] = bytes[i]
  BY LenProperties, SubSeqProperties
<1>3. Between(keys, SubSeq(bytes, 1, n), obeyed, m)
  <2>1. Behind(SubSeq(bytes, 1, n), bytes, 0)
    BY <1>2 DEF Behind
  <2> QED BY <1>1, <1>2, <2>1, BetweenPart
<1>4. Between(keys, <<>>, obeyed, m) /\ Between(keys, <<>>, m, e)
      /\ Between(keys, <<>>, e, Len(keys))
  BY BetweenNone
<1>5. \A i \in 1 .. Len(keys) : keys[i].id = i
  BY DEF Way
<1> QED BY <1>1, <1>3, <1>4, <1>5 DEF Way

\* The sender reads n bytes, and looks at the first.
LEMMA WayRead ==
  ASSUME NEW keys \in Seq(Keys), NEW obeyed \in Nat, NEW bytes \in Seq(Bytes),
         NEW buffer, NEW terminal, NEW n \in 1 .. Len(bytes),
         Way(keys, obeyed, bytes, buffer, terminal)
  PROVE  /\ Way(keys, IF bytes[1] = Newline THEN obeyed ELSE bytes[1].id,
                SubSeq(bytes, n + 1, Len(bytes)), buffer, terminal)
         /\ bytes[1] # Newline => /\ bytes[1].id \in obeyed + 1 .. Len(keys)
                                  /\ bytes[1] = keys[bytes[1].id]
<1> DEFINE rest == SubSeq(bytes, n + 1, Len(bytes))
<1>1. PICK m \in Nat, e \in Nat :
        /\ obeyed <= m /\ m <= e /\ e <= Len(keys)
        /\ Between(keys, bytes, obeyed, m) /\ Between(keys, buffer, m, e)
        /\ Between(keys, terminal, e, Len(keys))
  BY DEF Way
<1>2. Len(bytes) \in Nat \ {0} /\ n \in Nat \ {0} /\ Behind(rest, bytes, n)
  <2>1. Len(bytes) \in Nat /\ Len(rest) = Len(bytes) - n
        /\ \A i \in 1 .. Len(bytes) - n : rest[i] = bytes[i + n]
    BY LenProperties, SubSeqProperties
  <2> QED BY <2>1 DEF Behind
<1> HIDE DEF rest
<1>3. Len(keys) \in Nat /\ \A i \in 1 .. Len(keys) : keys[i].id = i
  BY LenProperties DEF Way
<1>4. CASE bytes[1] = Newline
  <2>1. Between(keys, rest, obeyed, m)
    BY <1>1, <1>2, BetweenPart
  <2> QED BY <1>1, <1>3, <1>4, <2>1 DEF Way, rest
<1>5. CASE bytes[1] # Newline
  <2>1. /\ bytes[1].id \in Nat /\ obeyed < bytes[1].id /\ bytes[1].id <= m
        /\ bytes[1] = keys[bytes[1].id] /\ Between(keys, rest, bytes[1].id, m)
    <3>1. /\ Between(keys, bytes, obeyed, m) /\ Behind(rest, bytes, n)
          /\ Len(bytes) > 0 /\ bytes[1] # Newline /\ obeyed \in Nat /\ m \in Nat
          /\ n \in Nat \ {0}
      BY <1>1, <1>2, <1>5
    <3> QED BY ONLY <3>1, BetweenRest
  <2>2. bytes[1].id \in obeyed + 1 .. Len(keys)
    BY <1>1, <1>3, <2>1
  <2> QED BY <1>1, <1>3, <1>5, <2>1, <2>2 DEF Way, rest
<1> QED BY <1>4, <1>5

\* The same for a patient user, who types when nothing is on its way.
LEMMA PatientTyped ==
  ASSUME NEW keys \in Seq(Keys), NEW obeyed \in Nat, NEW b \in Keys,
         OneByOne(keys, obeyed, <<>>, <<>>, <<>>)
  PROVE  OneByOne(Append(keys, b), obeyed, <<>>, <<>>, Append(<<>>, b))
<1>1. /\ Append(<<>>, b) # <<>> /\ Len(Append(<<>>, b)) = 1
      /\ Len(Append(keys, b)) = Len(keys) + 1
  <2>1. <<>> \in Seq(Keys) /\ Len(<<>>) = 0
    BY EmptySeq
  <2> QED BY <2>1, AppendProperties
<1>2. obeyed = Len(keys)
  BY DEF OneByOne
<1> QED BY <1>1, <1>2 DEF OneByOne

LEMMA PatientForwarded ==
  ASSUME NEW keys \in Seq(Keys), NEW obeyed \in Nat, NEW bytes \in Seq(Bytes),
         NEW terminal \in Seq(Keys), terminal # <<>>,
         OneByOne(keys, obeyed, bytes, <<>>, terminal)
  PROVE  OneByOne(keys, obeyed, bytes \o <<Head(terminal), Newline>>,
                  Tail(terminal), <<>>)
<1> DEFINE h == Head(terminal)
           two == <<h, Newline>>
<1>1. Len(terminal) = 1 /\ bytes = <<>>
  <2>1. Len(terminal) <= 1 /\ bytes = <<>>
    BY DEF OneByOne
  <2>2. Len(terminal) \in Nat /\ Len(terminal) # 0
    BY LenProperties, EmptySeq
  <2> QED BY ONLY <2>1, <2>2
<1>2. h \in Keys /\ h # Newline /\ two \in Seq(Bytes)
  BY HeadTailProperties, NewlineIsNoKey
<1>3. Tail(terminal) = <<>>
  <2>1. Tail(terminal) \in Seq(Keys) /\ Len(Tail(terminal)) = 0
    BY <1>1, HeadTailProperties
  <2> QED BY <2>1, EmptySeq
<1>4. bytes \o two = two
  BY <1>1, <1>2, ConcatEmptySeq
<1>5. Len(two) = 2 /\ two[1] = h /\ two[2] = Newline /\ two # <<>>
  BY EmptySeq
<1> HIDE DEF two, h
<1>6. \A i \in 2 .. Len(two) : two[i] = Newline
  BY <1>5
<1>7. Len(keys) <= obeyed + 1 /\ Len(<<>>) <= 1
  BY EmptySeq DEF OneByOne
<1>8. OneByOne(keys, obeyed, two, <<>>, <<>>)
  BY <1>2, <1>5, <1>6, <1>7 DEF OneByOne
<1> QED BY <1>3, <1>4, <1>8 DEF two, h

LEMMA PatientRead ==
  ASSUME NEW keys \in Seq(Keys), NEW obeyed \in Nat, NEW bytes \in Seq(Bytes),
         NEW buffer, NEW terminal, NEW n \in 1 .. Len(bytes),
         Way(keys, obeyed, bytes, buffer, terminal),
         OneByOne(keys, obeyed, bytes, buffer, terminal)
  PROVE  /\ OneByOne(keys, IF bytes[1] = Newline THEN obeyed ELSE bytes[1].id,
                     SubSeq(bytes, n + 1, Len(bytes)), buffer, terminal)
         /\ bytes[1] # Newline => bytes[1].id = obeyed + 1
<1> DEFINE rest == SubSeq(bytes, n + 1, Len(bytes))
           next == IF bytes[1] = Newline THEN obeyed ELSE bytes[1].id
<1>1. Len(keys) \in Nat /\ Len(bytes) \in Nat /\ Len(rest) \in Nat
      /\ \A i \in 1 .. Len(rest) : i + n \in 2 .. Len(bytes) /\ rest[i] = bytes[i + n]
  <2>1. Len(bytes) \in Nat /\ Len(rest) = Len(bytes) - n
        /\ \A i \in 1 .. Len(bytes) - n : rest[i] = bytes[i + n]
    BY LenProperties, SubSeqProperties
  <2> QED BY <2>1, LenProperties
<1> HIDE DEF rest
<1>2. bytes # <<>> /\ terminal = <<>> /\ buffer = <<>>
  BY EmptySeq DEF OneByOne
<1>3. \A i \in 1 .. Len(rest) : rest[i] = Newline
  BY <1>1 DEF OneByOne
<1>4. /\ bytes[1] = Newline => obeyed = Len(keys)
      /\ bytes[1] # Newline => /\ bytes[1].id = Len(keys)
                               /\ bytes[1].id = obeyed + 1
  <2>1. bytes[1] # Newline => bytes[1].id \in obeyed + 1 .. Len(keys)
    BY WayRead
  <2>2. Len(keys) <= obeyed + 1
    BY DEF OneByOne
  <2>3. bytes[1] = Newline => obeyed = Len(keys)
    BY <1>2 DEF OneByOne
  <2> QED BY <1>1, <2>1, <2>2, <2>3
<1>5. next = Len(keys)
  BY <1>4
<1> HIDE DEF next
<1>6. OneByOne(keys, next, rest, buffer, terminal)
  BY <1>1, <1>2, <1>3, <1>5, EmptySeq DEF OneByOne
<1> QED BY <1>4, <1>6 DEF next, rest

-----------------------------------------------------------------------------
(* The invariant.                                                          *)

LEMMA AppendedLast ==
  ASSUME NEW S, NEW seq \in Seq(S), NEW elt \in S
  PROVE  /\ Append(seq, elt) \in Seq(S) /\ Append(seq, elt) # <<>>
         /\ Append(seq, elt)[Len(Append(seq, elt))] = elt
<1>1. Len(Append(seq, elt)) = Len(seq) + 1 /\ Append(seq, elt)[Len(seq) + 1] = elt
  BY AppendProperties
<1> QED BY <1>1, AppendProperties

LEMMA ObeyedLast ==
  ASSUME NEW c \in Clients, applied[c] \in Seq(Nat \ {0})
  PROVE  /\ LastObeyed(c) \in Nat
         /\ LastObeyed(c) = IF applied[c] = <<>> THEN 0 ELSE applied[c][Len(applied[c])]
<1>1. applied[c] # <<>> => applied[c][Len(applied[c])] \in Nat
  <2>1. applied[c] # <<>> => Len(applied[c]) \in 1 .. Len(applied[c])
    BY EmptySeq
  <2> QED BY <2>1, ElementOfSeq
<1>2. LastObeyed(c) = IF applied[c] = <<>> THEN 0 ELSE applied[c][Len(applied[c])]
  BY DEF LastObeyed, Abstract!LastObeyed, Abstract!Last
<1> QED BY <1>1, <1>2

LEMMA Types ==
  ASSUME KnobInv, NEW c \in Clients
  PROVE  /\ typed[c] \in Seq(Keys) /\ LastObeyed(c) \in Nat /\ wire[c] \in Seq(Bytes)
         /\ stdio[c] \in Seq(Keys) /\ tty[c] \in Seq(Keys)
         /\ applied[c] \in Seq(Nat \ {0}) /\ client[c] \in ClientStates
         /\ Way(typed[c], LastObeyed(c), wire[c], stdio[c], tty[c])
BY ObeyedLast DEF KnobInv, KnobTypes, WayInv

LEMMA ObeyedSame ==
  ASSUME NEW c, applied'[c] = applied[c] PROVE LastObeyed(c)' = LastObeyed(c)
BY DEF LastObeyed, Abstract!LastObeyed, Abstract!Last

LEMMA KnobInit == Init => KnobInv
<1> SUFFICES ASSUME Init PROVE KnobInv
  OBVIOUS
<1>1. \A S : <<>> \in Seq(S) /\ Len(<<>>) = 0
  BY EmptySeq
<1>2. KnobTypes
  BY <1>1, ParamsAssumption DEF Init, KnobTypes, ClientStates
<1>3. ASSUME NEW c \in Clients
      PROVE  /\ LastObeyed(c) = 0 /\ typed[c] = <<>> /\ wire[c] = <<>>
             /\ stdio[c] = <<>> /\ tty[c] = <<>> /\ client[c] = "starting"
  <2>1. applied[c] = <<>>
    BY DEF Init
  <2> QED BY <1>1, <2>1, ObeyedLast DEF Init
<1>4. Way(<<>>, 0, <<>>, <<>>, <<>>)
  <2>1. Between(<<>>, <<>>, 0, 0)
    BY BetweenNone
  <2> QED BY <1>1, <2>1 DEF Way
<1>5. OneByOne(<<>>, 0, <<>>, <<>>, <<>>)
  BY <1>1 DEF OneByOne
<1> QED BY <1>2, <1>3, <1>4, <1>5 DEF KnobInv, WayInv, LinkInv, PatientInv

\* A step that leaves the keys where they are.
LEMMA KeysStay ==
  ASSUME KnobInv, UNCHANGED <<patient, tty, stdio, wire, typed, applied>>,
         KnobTypes',
         \A c \in Clients :
           /\ client'[c] = client[c]
                \/ (client[c] = "starting" /\ client'[c] \in {"connected", "refused"})
  PROVE  KnobInv'
<1>1. \A c \in Clients : LastObeyed(c)' = LastObeyed(c)
  BY ObeyedSame
<1>2. WayInv'
  BY <1>1 DEF KnobInv, WayInv
<1>3. LinkInv'
  BY DEF KnobInv, LinkInv
<1>4. PatientInv'
  BY <1>1 DEF KnobInv, PatientInv
<1> QED BY <1>2, <1>3, <1>4 DEF KnobInv

\* A step that moves the keys of one receiver.
LEMMA KeysMove ==
  ASSUME KnobInv, KnobTypes', UNCHANGED patient, NEW c \in Clients,
         \A d \in Clients : d # c =>
           /\ tty'[d] = tty[d] /\ stdio'[d] = stdio[d] /\ wire'[d] = wire[d]
           /\ typed'[d] = typed[d] /\ applied'[d] = applied[d]
           /\ client'[d] = client[d],
         Way(typed[c], LastObeyed(c), wire[c], stdio[c], tty[c])',
         (wire[c] # <<>> => client[c] \in {"connected", "closed"})',
         (patient =>
            /\ client[c] # "closed"
            /\ client[c] \in {"starting", "connected"} =>
                 OneByOne(typed[c], LastObeyed(c), wire[c], stdio[c], tty[c]))'
  PROVE  KnobInv'
<1>1. \A d \in Clients : d # c => LastObeyed(d)' = LastObeyed(d)
  BY ObeyedSame
<1>2. WayInv'
  <2> SUFFICES ASSUME NEW d \in Clients
               PROVE  Way(typed[d], LastObeyed(d), wire[d], stdio[d], tty[d])'
    BY DEF WayInv
  <2>1. CASE d = c
    BY <2>1
  <2>2. CASE d # c
    BY <1>1, <2>2 DEF KnobInv, WayInv
  <2> QED BY <2>1, <2>2
<1>3. LinkInv'
  <2> SUFFICES ASSUME NEW d \in Clients
               PROVE  (wire[d] # <<>> => client[d] \in {"connected", "closed"})'
    BY DEF LinkInv
  <2>1. CASE d = c
    BY <2>1
  <2>2. CASE d # c
    BY <2>2 DEF KnobInv, LinkInv
  <2> QED BY <2>1, <2>2
<1>4. PatientInv'
  <2> SUFFICES ASSUME patient', NEW d \in Clients
               PROVE  (/\ client[d] # "closed"
                       /\ client[d] \in {"starting", "connected"} =>
                            OneByOne(typed[d], LastObeyed(d), wire[d], stdio[d],
                                     tty[d]))'
    BY DEF PatientInv
  <2>1. CASE d = c
    BY <2>1
  <2>2. CASE d # c
    BY <1>1, <2>2 DEF KnobInv, PatientInv
  <2> QED BY <2>1, <2>2
<1> QED BY <1>2, <1>3, <1>4 DEF KnobInv

LEMMA TypeStep ==
  ASSUME KnobInv, NEW c \in Clients, Type(c) PROVE KnobInv'
<1>1. PICK b \in Keys :
        /\ b.id = Len(typed[c]) + 1
        /\ tty' = [tty EXCEPT ![c] = Append(tty[c], b)]
        /\ typed' = [typed EXCEPT ![c] = Append(typed[c], b)]
  <2>1. PICK key \in {"+", "-", "other"} :
          LET b == [key |-> key, id |-> Len(typed[c]) + 1]
          IN /\ tty' = [tty EXCEPT ![c] = Append(tty[c], b)]
             /\ typed' = [typed EXCEPT ![c] = Append(typed[c], b)]
    BY DEF Type
  <2> DEFINE b == [key |-> key, id |-> Len(typed[c]) + 1]
  <2>2. Len(typed[c]) \in Nat
    BY Types, LenProperties
  <2>3. b \in Keys /\ b.id = Len(typed[c]) + 1
    BY <2>2 DEF Keys
  <2> QED BY <2>1, <2>3
<1>2. /\ client[c] \in {"connected", "orphan", "broken"} /\ (patient => Drained(c))
      /\ UNCHANGED <<patient, listening, ctrl_jpg_quality, accepted, restarted,
                     applied, jpg_quality, client, stdio, wire>>
  BY DEF Type, s_vars
<1>3. /\ Append(tty[c], b) \in Seq(Keys) /\ Append(typed[c], b) \in Seq(Keys)
  BY Types, AppendProperties
<1>4. tty \in [Clients -> Seq(Keys)] /\ typed \in [Clients -> Seq(Keys)]
  BY DEF KnobInv, KnobTypes
<1>5. KnobTypes'
  BY <1>1, <1>2, <1>3, <1>4 DEF KnobInv, KnobTypes
<1>6. /\ tty'[c] = Append(tty[c], b) /\ typed'[c] = Append(typed[c], b)
      /\ \A d \in Clients : d # c => tty'[d] = tty[d] /\ typed'[d] = typed[d]
  BY <1>1, <1>4
<1>7. LastObeyed(c)' = LastObeyed(c)
  BY <1>2, ObeyedSame
<1>8. Way(typed[c], LastObeyed(c), wire[c], stdio[c], tty[c])'
  BY <1>1, <1>2, <1>6, <1>7, Types, WayTyped
<1>9. ASSUME patient, client[c] = "connected"
      PROVE  OneByOne(typed[c], LastObeyed(c), wire[c], stdio[c], tty[c])'
  <2>1. tty[c] = <<>> /\ stdio[c] = <<>> /\ wire[c] = <<>>
    BY <1>2, <1>9 DEF Drained
  <2>2. OneByOne(typed[c], LastObeyed(c), <<>>, <<>>, <<>>)
    BY <1>9, <2>1 DEF KnobInv, PatientInv
  <2> QED BY <1>2, <1>6, <1>7, <2>1, <2>2, Types, PatientTyped
<1>10. wire[c] # <<>> => client[c] \in {"connected", "closed"}
  BY DEF KnobInv, LinkInv
<1> QED BY <1>2, <1>5, <1>6, <1>8, <1>9, <1>10, KeysMove

LEMMA ForwardStep ==
  ASSUME KnobInv, NEW c \in Clients, ForwardKey(c) PROVE KnobInv'
<1> DEFINE stdin == Stdin(c)
           two == <<Head(stdin), Newline>>
           left == IF stdio[c] = <<>> THEN <<>> ELSE tty[c]
<1>1. /\ tty[c] # <<>> /\ Write(c, two)
      /\ stdio' = [stdio EXCEPT ![c] = Tail(stdin)]
      /\ tty' = [tty EXCEPT ![c] = left]
      /\ UNCHANGED <<patient, ctrl_jpg_quality, accepted, applied, typed>>
  BY DEF ForwardKey, s_vars
<1>2. /\ tty \in [Clients -> Seq(Keys)] /\ stdio \in [Clients -> Seq(Keys)]
      /\ wire \in [Clients -> Seq(Bytes)] /\ client \in [Clients -> ClientStates]
  BY DEF KnobInv, KnobTypes
<1>3. /\ stdin \in Seq(Keys) /\ stdin # <<>>
      /\ stdin = IF stdio[c] = <<>> THEN tty[c] ELSE stdio[c]
  BY <1>1, <1>2 DEF Stdin
<1>4. /\ Tail(stdin) \in Seq(Keys) /\ two \in Seq(Bytes) /\ left \in Seq(Keys)
      /\ wire[c] \o two \in Seq(Bytes)
  <2>1. Head(stdin) \in Keys /\ Tail(stdin) \in Seq(Keys)
    BY <1>3, HeadTailProperties
  <2>2. two \in Seq(Bytes)
    BY <2>1, NewlineIsNoKey
  <2> QED BY <1>2, <2>1, <2>2, EmptySeq, ConcatProperties
\* What becomes of the two bytes.
<1>5. \/ /\ client[c] = "connected" /\ client' = client
         /\ wire' = [wire EXCEPT ![c] = wire[c] \o two]
      \/ /\ client[c] \in {"orphan", "broken"} /\ wire' = wire
         /\ \E state \in {"orphan", "broken", "killed"} :
              client' = [client EXCEPT ![c] = state]
  BY <1>1 DEF Write
<1> HIDE DEF stdin, two, left
<1>6. /\ wire'[c] \in {wire[c], wire[c] \o two} /\ wire' \in [Clients -> Seq(Bytes)]
      /\ client' \in [Clients -> ClientStates]
      /\ \A d \in Clients : d # c => wire'[d] = wire[d] /\ client'[d] = client[d]
  BY <1>2, <1>4, <1>5 DEF ClientStates
<1>7. /\ stdio'[c] = Tail(stdin) /\ tty'[c] = left
      /\ \A d \in Clients : d # c => stdio'[d] = stdio[d] /\ tty'[d] = tty[d]
  BY <1>1, <1>2
<1>8. KnobTypes'
  BY <1>1, <1>2, <1>4, <1>6 DEF KnobInv, KnobTypes
<1>9. LastObeyed(c)' = LastObeyed(c)
  BY <1>1, ObeyedSame
<1>10. Way(typed[c], LastObeyed(c), wire[c], stdio[c], tty[c])'
  <2>1. Written(wire[c], stdin, wire'[c])
    BY <1>6 DEF two, Written
  <2>2. Fetched(stdio[c], tty[c], stdin, Tail(stdin), left)
    BY <1>3 DEF Fetched, left
  <2>3. Way(typed[c], LastObeyed(c), wire'[c], Tail(stdin), left)
    BY <1>1, <2>1, <2>2, Types, WayForwarded
  <2> QED BY <1>1, <1>7, <1>9, <2>3
<1>11. wire'[c] # <<>> => client'[c] \in {"connected", "closed"}
  BY <1>2, <1>5 DEF KnobInv, LinkInv
<1>12. ASSUME patient
       PROVE  /\ client'[c] # "closed"
              /\ client'[c] \in {"starting", "connected"} =>
                   OneByOne(typed[c], LastObeyed(c), wire[c], stdio[c], tty[c])'
  <2>1. CASE /\ client[c] = "connected" /\ client' = client
             /\ wire' = [wire EXCEPT ![c] = wire[c] \o two]
    <3>1. OneByOne(typed[c], LastObeyed(c), wire[c], stdio[c], tty[c])
      BY <1>12, <2>1 DEF KnobInv, PatientInv
    <3>2. stdio[c] = <<>> /\ stdin = tty[c] /\ left = <<>>
      BY <1>3, <3>1 DEF OneByOne, left
    <3>3. OneByOne(typed[c], LastObeyed(c), wire[c] \o two, Tail(stdin), <<>>)
      BY <1>1, <3>1, <3>2, Types, PatientForwarded DEF two
    <3>4. wire'[c] = wire[c] \o two
      BY <1>2, <2>1
    <3> QED BY <1>1, <1>7, <1>9, <2>1, <3>2, <3>3, <3>4
  <2>2. CASE \E state \in {"orphan", "broken", "killed"} :
               client' = [client EXCEPT ![c] = state]
    BY <1>2, <2>2
  <2> QED BY <1>5, <2>1, <2>2
<1> QED BY <1>1, <1>6, <1>7, <1>8, <1>10, <1>11, <1>12, KeysMove

LEMMA QuitStep ==
  ASSUME KnobInv, NEW c \in Clients, Quit(c) PROVE KnobInv'
<1>1. PICK n \in 0 .. Len(wire[c]) : wire' = [wire EXCEPT ![c] = SubSeq(wire[c], 1, n)]
  BY DEF Quit
<1>2. /\ ~patient /\ client' = [client EXCEPT ![c] = "closed"]
      /\ tty' = [tty EXCEPT ![c] = <<>>] /\ stdio' = [stdio EXCEPT ![c] = <<>>]
      /\ UNCHANGED <<patient, ctrl_jpg_quality, accepted, applied, typed>>
  BY DEF Quit, s_vars
<1>3. /\ tty \in [Clients -> Seq(Keys)] /\ stdio \in [Clients -> Seq(Keys)]
      /\ wire \in [Clients -> Seq(Bytes)] /\ client \in [Clients -> ClientStates]
  BY DEF KnobInv, KnobTypes
<1>4. SubSeq(wire[c], 1, n) \in Seq(Bytes) /\ <<>> \in Seq(Keys)
  <2>1. \A i \in 1 .. n : wire[c][i] \in Bytes
    BY <1>3, LenProperties, ElementOfSeq
  <2> QED BY <2>1, EmptySeq, SubSeqProperties
<1>5. /\ wire'[c] = SubSeq(wire[c], 1, n) /\ tty'[c] = <<>> /\ stdio'[c] = <<>>
      /\ client'[c] = "closed"
      /\ \A d \in Clients : d # c => /\ wire'[d] = wire[d] /\ tty'[d] = tty[d]
                                     /\ stdio'[d] = stdio[d] /\ client'[d] = client[d]
  BY <1>1, <1>2, <1>3
<1>6. KnobTypes'
  BY <1>1, <1>2, <1>3, <1>4 DEF KnobInv, KnobTypes, ClientStates
<1>7. Way(typed[c], LastObeyed(c), wire[c], stdio[c], tty[c])'
  <2>1. Way(typed[c], LastObeyed(c), SubSeq(wire[c], 1, n), <<>>, <<>>)
    BY Types, WayCut
  <2>2. LastObeyed(c)' = LastObeyed(c)
    BY <1>2, ObeyedSame
  <2> QED BY <1>2, <1>5, <2>1, <2>2
<1> QED BY <1>2, <1>5, <1>6, <1>7, KeysMove

LEMMA ReadStep ==
  ASSUME KnobInv, NEW c \in Clients, ReadClient(c)
  PROVE  /\ KnobInv'
         /\ \/ UNCHANGED <<ctrl_jpg_quality, applied>>
            \/ \E i \in LastObeyed(c) + 1 .. Len(typed[c]) :
                 /\ patient => i = LastObeyed(c) + 1
                 /\ applied' = [applied EXCEPT ![c] = Append(applied[c], i)]
                 /\ ctrl_jpg_quality' =
                      ctrl_jpg_quality + Adjustment(typed[c][i].key)
                 /\ typed[c][i].key \in {"+", "-", "other"}
<1> DEFINE first == wire[c][1]
<1>1. PICK n \in 1 .. Len(wire[c]) :
        /\ wire' = [wire EXCEPT ![c] = SubSeq(wire[c], n + 1, Len(wire[c]))]
        /\ ctrl_jpg_quality' = ctrl_jpg_quality + Adjustment(first.key)
        /\ applied' = [applied EXCEPT ![c] = Seen(applied[c], first)]
  BY DEF ReadClient, Rest, Msg0
<1>2. UNCHANGED <<accepted, patient, client, tty, stdio, typed>>
  BY DEF ReadClient, c_vars
<1>3. /\ wire \in [Clients -> Seq(Bytes)] /\ applied \in [Clients -> Seq(Nat \ {0})]
      /\ ctrl_jpg_quality \in Int
  BY DEF KnobInv, KnobTypes
<1>4. /\ first \in Bytes /\ wire[c] # <<>>
      /\ SubSeq(wire[c], n + 1, Len(wire[c])) \in Seq(Bytes)
  <2>1. Len(wire[c]) \in Nat /\ \A i \in 1 .. Len(wire[c]) : wire[c][i] \in Bytes
    BY <1>3, LenProperties, ElementOfSeq
  <2>2. \A i \in n + 1 .. Len(wire[c]) : wire[c][i] \in Bytes
    BY <2>1
  <2>3. wire[c] # <<>>
    BY EmptySeq
  <2> QED BY <2>1, <2>2, <2>3, SubSeqProperties
<1> DEFINE next == IF first = Newline THEN LastObeyed(c) ELSE first.id
<1>5. /\ Way(typed[c], next, SubSeq(wire[c], n + 1, Len(wire[c])), stdio[c], tty[c])
      /\ first # Newline => /\ first.id \in LastObeyed(c) + 1 .. Len(typed[c])
                            /\ first = typed[c][first.id]
  BY Types, WayRead
<1> HIDE DEF first
<1>6. first # Newline => first.id \in Nat \ {0} /\ first.key \in {"+", "-", "other"}
  BY <1>4, NewlineIsNoKey
<1>7. /\ Seen(applied[c], first) \in Seq(Nat \ {0})
      /\ Adjustment(first.key) \in Int
      /\ first = Newline => Adjustment(first.key) = 0
  BY <1>3, <1>6, AppendProperties DEF Seen, Adjustment, Newline
<1>8. KnobTypes'
  BY <1>1, <1>2, <1>3, <1>4, <1>7 DEF KnobInv, KnobTypes
<1>9. /\ wire'[c] = SubSeq(wire[c], n + 1, Len(wire[c]))
      /\ applied'[c] = Seen(applied[c], first)
      /\ \A d \in Clients : d # c => wire'[d] = wire[d] /\ applied'[d] = applied[d]
  BY <1>1, <1>3
<1>10. LastObeyed(c)' = next
  <2>1. CASE first = Newline
    <3>1. applied'[c] = applied[c]
      BY <1>9, <2>1 DEF Seen
    <3> QED BY <2>1, <3>1, ObeyedSame
  <2>2. CASE first # Newline
    <3>1. /\ applied'[c] = Append(applied[c], first.id) /\ applied'[c] # <<>>
          /\ applied'[c][Len(applied'[c])] = first.id
      <4>1. applied'[c] = Append(applied[c], first.id) /\ applied[c] \in Seq(Nat \ {0})
        BY <1>3, <1>9, <2>2 DEF Seen
      <4>2. /\ Append(applied[c], first.id) # <<>>
            /\ Append(applied[c], first.id)[Len(Append(applied[c], first.id))] = first.id
        <5> DEFINE ids == applied[c]
                   id == first.id
        <5>1. ids \in Seq(Nat \ {0}) /\ id \in Nat \ {0}
          BY <1>6, <2>2, <4>1
        <5> HIDE DEF ids, id
        <5>2. Append(ids, id) # <<>> /\ Append(ids, id)[Len(Append(ids, id))] = id
          BY ONLY <5>1, AppendedLast
        <5> QED BY <5>2 DEF ids, id
      <4> QED BY <4>1, <4>2
    <3>2. LastObeyed(c)' = IF applied'[c] = <<>> THEN 0
                           ELSE applied'[c][Len(applied'[c])]
      BY DEF LastObeyed, Abstract!LastObeyed, Abstract!Last
    <3> QED BY <2>2, <3>1, <3>2
  <2> QED BY <2>1, <2>2
<1>11. client[c] \in {"connected", "closed"}
  BY <1>4 DEF KnobInv, LinkInv
<1>12. ASSUME patient
       PROVE  /\ client[c] = "connected"
              /\ OneByOne(typed[c], LastObeyed(c), wire[c], stdio[c], tty[c])'
              /\ first # Newline => first.id = LastObeyed(c) + 1
  <2>1. client[c] = "connected"
    BY <1>11, <1>12 DEF KnobInv, PatientInv
  <2>2. OneByOne(typed[c], LastObeyed(c), wire[c], stdio[c], tty[c])
    BY <1>12, <2>1 DEF KnobInv, PatientInv
  <2>3. /\ OneByOne(typed[c], next, SubSeq(wire[c], n + 1, Len(wire[c])),
                    stdio[c], tty[c])
        /\ first # Newline => first.id = LastObeyed(c) + 1
    BY <2>2, Types, PatientRead DEF first
  <2> QED BY <1>2, <1>9, <1>10, <2>1, <2>3
<1> HIDE DEF next
<1>13. KnobInv'
  BY <1>2, <1>5, <1>8, <1>9, <1>10, <1>11, <1>12, KeysMove
<1>14. CASE first = Newline
  <2>1. applied' = applied /\ ctrl_jpg_quality' = ctrl_jpg_quality
    BY <1>1, <1>3, <1>7, <1>14 DEF Seen
  <2> QED BY <1>13, <2>1
<1>15. CASE first # Newline
  <2>1. applied' = [applied EXCEPT ![c] = Append(applied[c], first.id)]
    BY <1>1, <1>15 DEF Seen
  <2> QED BY <1>1, <1>5, <1>6, <1>12, <1>13, <1>15, <2>1
<1> QED BY <1>14, <1>15

LEMMA RestartStep ==
  ASSUME KnobInv, Restart PROVE KnobInv'
<1>1. /\ ctrl_jpg_quality' = Quality0 /\ accepted' = [c \in Clients |-> FALSE]
      /\ wire' = [c \in Clients |-> <<>>]
      /\ client' = [c \in Clients |-> Orphaned(client[c])]
      /\ UNCHANGED <<patient, tty, stdio, typed, applied>>
  BY DEF Restart
<1>2. ASSUME NEW c \in Clients
      PROVE  /\ wire'[c] = <<>> /\ LastObeyed(c)' = LastObeyed(c)
             /\ client'[c] \in ClientStates \ {"connected", "closed"}
             /\ client'[c] = "starting" => client[c] = "starting"
  <2>1. client'[c] = Orphaned(client[c]) /\ client[c] \in ClientStates
    BY <1>1, Types
  <2> QED BY <1>1, <2>1, ObeyedSame DEF Orphaned, ClientStates
<1>3. KnobTypes'
  <2>1. client' \in [Clients -> ClientStates]
    BY <1>1, <1>2
  <2> QED BY <1>1, <2>1, EmptySeq, ParamsAssumption DEF KnobInv, KnobTypes
<1>4. WayInv'
  <2> SUFFICES ASSUME NEW c \in Clients
               PROVE  Way(typed[c], LastObeyed(c), wire[c], stdio[c], tty[c])'
    BY DEF WayInv
  <2>1. 0 \in 0 .. Len(wire[c])
    BY Types, LenProperties
  <2>2. Way(typed[c], LastObeyed(c), <<>>, stdio[c], tty[c])
    BY <2>1, Types, WayCut
  <2> QED BY <1>1, <1>2, <2>2
<1>5. LinkInv'
  BY <1>2 DEF LinkInv
<1>6. PatientInv'
  <2> SUFFICES ASSUME patient', NEW c \in Clients
               PROVE  (/\ client[c] # "closed"
                       /\ client[c] \in {"starting", "connected"} =>
                            OneByOne(typed[c], LastObeyed(c), wire[c], stdio[c],
                                     tty[c]))'
    BY DEF PatientInv
  <2>1. client'[c] # "closed" /\ client'[c] # "connected"
    BY <1>2
  <2>2. CASE client'[c] = "starting"
    <3>1. client[c] = "starting" /\ wire[c] = <<>>
      BY <1>2, <2>2 DEF KnobInv, LinkInv
    <3>2. OneByOne(typed[c], LastObeyed(c), wire[c], stdio[c], tty[c])
      BY <1>1, <3>1 DEF KnobInv, PatientInv
    <3>3. wire'[c] = wire[c]
      BY <1>2, <3>1
    <3> QED BY <1>1, <1>2, <2>1, <3>2, <3>3
  <2> QED BY <2>1, <2>2
<1> QED BY <1>3, <1>4, <1>5, <1>6 DEF KnobInv

\* The steps that move no key on its way.
LEMMA OtherSteps ==
  ASSUME KnobInv,
         \/ Listen \/ ReadFrame \/ UNCHANGED vars
         \/ \E c \in Clients : Connect(c) \/ Accept(c)
  PROVE  /\ KnobInv'
         /\ UNCHANGED <<patient, typed, applied, ctrl_jpg_quality>>
<1> USE DEF s_vars, c_vars, vars
<1>1. CASE Listen \/ ReadFrame \/ UNCHANGED vars
  <2>1. UNCHANGED <<patient, tty, stdio, wire, typed, applied, client, accepted,
                    ctrl_jpg_quality>>
    BY <1>1 DEF Listen, ReadFrame
  <2>2. KnobTypes'
    BY <2>1 DEF KnobInv, KnobTypes
  <2> QED BY <2>1, <2>2, KeysStay
<1>2. ASSUME NEW c \in Clients, Connect(c)
      PROVE  /\ KnobInv'
             /\ UNCHANGED <<patient, typed, applied, ctrl_jpg_quality>>
  <2>1. /\ client[c] = "starting"
        /\ client' = [client EXCEPT
                        ![c] = IF listening = "yes" THEN "connected" ELSE "refused"]
        /\ UNCHANGED <<patient, tty, stdio, wire, typed, applied, accepted,
                       ctrl_jpg_quality>>
    BY <1>2 DEF Connect
  <2>2. client \in [Clients -> ClientStates]
    BY DEF KnobInv, KnobTypes
  <2>3. KnobTypes'
    BY <2>1, <2>2 DEF KnobInv, KnobTypes, ClientStates
  <2>4. \A d \in Clients :
          /\ client'[d] = client[d]
               \/ (client[d] = "starting" /\ client'[d] \in {"connected", "refused"})
    BY <2>1, <2>2
  <2> QED BY <2>1, <2>3, <2>4, KeysStay
<1>3. ASSUME NEW c \in Clients, Accept(c)
      PROVE  /\ KnobInv'
             /\ UNCHANGED <<patient, typed, applied, ctrl_jpg_quality>>
  <2>1. /\ accepted' = [accepted EXCEPT ![c] = TRUE]
        /\ UNCHANGED <<patient, tty, stdio, wire, typed, applied, client,
                       ctrl_jpg_quality>>
    BY <1>3 DEF Accept
  <2>2. KnobTypes'
    BY <2>1 DEF KnobInv, KnobTypes
  <2> QED BY <2>1, <2>2, KeysStay
<1> QED BY <1>1, <1>2, <1>3

LEMMA NextCases ==
  ASSUME [Next]_vars
  PROVE  \/ \/ Listen \/ ReadFrame \/ UNCHANGED vars
            \/ \E c \in Clients : Connect(c) \/ Accept(c)
         \/ Restart
         \/ \E c \in Clients : Type(c) \/ ForwardKey(c) \/ Quit(c) \/ ReadClient(c)
BY DEF Next, ServerThread, ClientThread

LEMMA KnobNext == KnobInv /\ [Next]_vars => KnobInv'
BY NextCases, OtherSteps, RestartStep, TypeStep, ForwardStep, QuitStep, ReadStep

LEMMA KnobInvariant == Spec => []KnobInv
BY KnobInit, KnobNext, PTL DEF Spec

-----------------------------------------------------------------------------
(* The types, and the keys of patient users.                               *)

LEMMA TypeNext == KnobInv /\ TypeOK /\ [Next]_vars => TypeOK'
<1> SUFFICES ASSUME KnobInv, TypeOK, [Next]_vars PROVE TypeOK'
  OBVIOUS
<1>1. KnobTypes'
  BY KnobNext DEF KnobInv
<1>2. /\ patient' = patient /\ listening' \in {"no", "yes", "failed"}
      /\ jpg_quality' \in Int /\ restarted' \in BOOLEAN
  BY NextCases, ParamsAssumption
  DEF TypeOK, Listen, ReadFrame, Connect, Accept, Restart, Type, ForwardKey, Quit,
      ReadClient, vars, s_vars, c_vars
<1> QED BY <1>1, <1>2 DEF TypeOK, KnobTypes

\* Every variable keeps its type, for any receivers and keys: what lies in the
\* terminal and in stdin's buffer are keys, what lies in a connection keys and newlines.
THEOREM QualityTypeCorrect == Spec => []TypeOK
<1>1. Init => TypeOK
  <2> SUFFICES ASSUME Init PROVE TypeOK
    OBVIOUS
  <2>1. KnobTypes
    BY KnobInit DEF KnobInv
  <2>2. /\ patient \in BOOLEAN /\ restarted \in BOOLEAN /\ jpg_quality \in Int
        /\ listening \in {"no", "yes", "failed"}
    BY ParamsAssumption DEF Init
  <2> QED BY <2>1, <2>2 DEF TypeOK, KnobTypes
<1> QED BY <1>1, KnobInvariant, TypeNext, PTL DEF Spec

\* The keys of the receivers connected to this sender that it has obeyed.
Taken(key) ==
  {p \in Clients \X Nat :
     /\ client[p[1]] = "connected" /\ p[2] \in 1 .. Len(typed[p[1]])
     /\ p[2] <= LastObeyed(p[1]) /\ typed[p[1]][p[2]].key = key}

\* The quality of a sender with patient users is its option and what they took
\* effect with; who has not connected has typed nothing.
TakenInv ==
  /\ \A c \in Clients : client[c] = "starting" => typed[c] = <<>>
  /\ patient => ctrl_jpg_quality =
                  Quality0 + Cardinality(Taken("+")) - Cardinality(Taken("-"))

LEMMA PressesFinite ==
  ASSUME KnobInv, NEW key
  PROVE  /\ IsFiniteSet(Presses(key)) /\ Taken(key) \subseteq Presses(key)
         /\ IsFiniteSet(Taken(key)) /\ Cardinality(Taken(key)) \in Nat
<1> DEFINE Of(c) == {c} \X {i \in 1 .. Len(typed[c]) : typed[c][i].key = key}
           Connected == {c \in Clients : client[c] = "connected"}
<1>1. ASSUME NEW c \in Clients PROVE IsFiniteSet(Of(c))
  <2> DEFINE S == {i \in 1 .. Len(typed[c]) : typed[c][i].key = key}
  <2>0. Len(typed[c]) \in Nat
    BY Types, LenProperties
  <2>1. IsFiniteSet(1 .. Len(typed[c]))
    BY <2>0, FS_Interval
  <2>5. IsFiniteSet({c})
    BY FS_Singleton
  <2>2. S \in SUBSET (1 .. Len(typed[c]))
    OBVIOUS
  <2>3. IsFiniteSet(S)
    BY <2>1, <2>2, FS_Subset
  <2> HIDE DEF S
  <2>4. IsFiniteSet({c} \X S)
    BY <2>3, <2>5, FS_Product
  <2> QED BY <2>4 DEF S
<1>2. IsFiniteSet(Connected)
  <2>1. Connected \in SUBSET Clients
    OBVIOUS
  <2> QED BY <2>1, ParamsAssumption, FS_Subset
<1>3. IsFiniteSet({Of(c) : c \in Connected})
  <2> DEFINE f == [c \in Connected |-> Of(c)]
  <2> HIDE DEF Connected, Of
  <2>1. f \in Surjection(Connected, {Of(c) : c \in Connected})
    BY DEF Surjection
  <2> QED BY ONLY <1>2, <2>1, FS_Surjection
<1>4. Presses(key) = UNION {Of(c) : c \in Connected}
  BY DEF Presses
<1>5. IsFiniteSet(Presses(key))
  <2> DEFINE All == {Of(c) : c \in Connected}
  <2> HIDE DEF Of
  <2>1. IsFiniteSet(All) /\ \A T \in All : IsFiniteSet(T)
    BY <1>1, <1>3
  <2> HIDE DEF All
  <2>2. IsFiniteSet(UNION All)
    BY <2>1, FS_UNION
  <2> QED BY <1>4, <2>2 DEF All
<1>6. Taken(key) \in SUBSET Presses(key)
  BY DEF Taken, Presses
<1>7. IsFiniteSet(Taken(key))
  BY <1>5, <1>6, FS_Subset
<1> QED BY <1>5, <1>6, <1>7, FS_CardinalityType

\* A step that obeys nothing and ends or begins no connection of a receiver that
\* has typed.
LEMMA TakenSame ==
  ASSUME KnobInv, NEW key,
         \A c \in Clients :
           /\ LastObeyed(c)' = LastObeyed(c)
           /\ \/ client'[c] = client[c]
              \/ {client[c], client'[c]} \cap {"connected"} = {}
              \/ typed[c] = <<>> /\ typed'[c] = <<>>
           /\ Len(typed'[c]) \in Nat /\ Len(typed[c]) <= Len(typed'[c])
           /\ \A i \in 1 .. Len(typed[c]) : typed'[c][i] = typed[c][i]
  PROVE  Taken(key)' = Taken(key)
<1>1. ASSUME NEW c \in Clients, NEW i \in Nat
      PROVE  <<c, i>> \in Taken(key)' <=> <<c, i>> \in Taken(key)
  <2>1. LastObeyed(c) \in Nat /\ LastObeyed(c) <= Len(typed[c]) /\ Len(typed[c]) \in Nat
    BY Types, LenProperties DEF Way
  <2>2. <<c, i>> \in Taken(key) <=>
          /\ client[c] = "connected" /\ i \in 1 .. Len(typed[c])
          /\ i <= LastObeyed(c) /\ typed[c][i].key = key
    BY DEF Taken
  <2>3. <<c, i>> \in Taken(key)' <=>
          /\ client'[c] = "connected" /\ i \in 1 .. Len(typed'[c])
          /\ i <= LastObeyed(c)' /\ typed'[c][i].key = key
    BY DEF Taken
  <2>4. i <= LastObeyed(c) => (i \in 1 .. Len(typed'[c]) <=> i \in 1 .. Len(typed[c]))
    BY <2>1
  <2> DEFINE Obeyed == i \in 1 .. Len(typed[c]) /\ i <= LastObeyed(c)
                      /\ typed[c][i].key = key
  <2>5. Obeyed' <=> Obeyed
    <3>1. LastObeyed(c)' = LastObeyed(c)
      OBVIOUS
    <3>2. CASE i <= LastObeyed(c) /\ i \in 1 .. Len(typed[c])
      <4>1. typed'[c][i] = typed[c][i] /\ i \in 1 .. Len(typed'[c])
        BY <2>4, <3>2
      <4> QED BY <3>1, <3>2, <4>1
    <3>3. CASE ~(i <= LastObeyed(c) /\ i \in 1 .. Len(typed[c]))
      BY <2>4, <3>1, <3>3
    <3> QED BY <3>2, <3>3
  <2>6. typed[c] = <<>> => ~Obeyed
    BY EmptySeq
  <2>7. <<c, i>> \in Taken(key) <=> client[c] = "connected" /\ Obeyed
    BY <2>2
  <2>8. <<c, i>> \in Taken(key)' <=> client'[c] = "connected" /\ Obeyed'
    BY <2>3
  <2> HIDE DEF Obeyed
  <2> QED BY <2>5, <2>6, <2>7, <2>8
<1>2. Taken(key) \subseteq Clients \X Nat /\ Taken(key)' \subseteq Clients \X Nat
  BY DEF Taken
<1> QED BY <1>1, <1>2

\* A key is obeyed, the next one of a receiver that is connected.
LEMMA TakenMore ==
  ASSUME KnobInv, NEW key, NEW c \in Clients, client[c] = "connected",
         LastObeyed(c) + 1 \in 1 .. Len(typed[c]),
         applied' = [applied EXCEPT ![c] = Append(applied[c], LastObeyed(c) + 1)],
         UNCHANGED <<client, typed>>
  PROVE  Taken(key)' = IF typed[c][LastObeyed(c) + 1].key = key
                       THEN Taken(key) \cup {<<c, LastObeyed(c) + 1>>}
                       ELSE Taken(key)
<1> DEFINE next == LastObeyed(c) + 1
<1>1. next \in Nat \ {0} /\ LastObeyed(c) \in Nat
  BY Types
<1>2. LastObeyed(c)' = next
  <2>1. applied \in [Clients -> Seq(Nat \ {0})]
    BY DEF KnobInv, KnobTypes
  <2>2. applied'[c] = Append(applied[c], next) /\ applied[c] \in Seq(Nat \ {0})
    BY <2>1
  <2> HIDE DEF next
  <2>3. /\ Append(applied[c], next) # <<>>
        /\ Append(applied[c], next)[Len(Append(applied[c], next))] = next
    BY <1>1, <2>2, AppendedLast
  <2> QED BY <2>2, <2>3 DEF LastObeyed, Abstract!LastObeyed, Abstract!Last
<1>3. \A d \in Clients : d # c => LastObeyed(d)' = LastObeyed(d)
  <2>1. \A d \in Clients : d # c => applied'[d] = applied[d]
    BY DEF KnobInv, KnobTypes
  <2> QED BY <2>1, ObeyedSame
<1>4. ASSUME NEW d \in Clients, NEW i \in Nat
      PROVE  <<d, i>> \in Taken(key)' <=>
               \/ <<d, i>> \in Taken(key)
               \/ d = c /\ i = next /\ typed[c][next].key = key
  <2>1. <<d, i>> \in Taken(key) <=>
          /\ client[d] = "connected" /\ i \in 1 .. Len(typed[d])
          /\ i <= LastObeyed(d) /\ typed[d][i].key = key
    BY DEF Taken
  <2>2. <<d, i>> \in Taken(key)' <=>
          /\ client[d] = "connected" /\ i \in 1 .. Len(typed[d])
          /\ i <= LastObeyed(d)' /\ typed[d][i].key = key
    BY DEF Taken
  <2>3. CASE d # c
    BY <1>3, <2>1, <2>2, <2>3
  <2>4. CASE d = c
    <3>1. i <= next <=> i <= LastObeyed(c) \/ i = next
      BY <1>1
    <3> QED BY <1>2, <2>1, <2>2, <2>4, <3>1
  <2> QED BY <2>3, <2>4
<1>5. Taken(key) \subseteq Clients \X Nat /\ Taken(key)' \subseteq Clients \X Nat
  BY DEF Taken
<1> HIDE DEF next
<1>6. CASE typed[c][next].key = key
  <2>1. Taken(key)' = Taken(key) \cup {<<c, next>>}
    BY <1>1, <1>4, <1>5, <1>6
  <2> QED BY <1>6, <2>1 DEF next
<1>7. CASE typed[c][next].key # key
  <2>1. \A d \in Clients, i \in Nat :
          <<d, i>> \in Taken(key)' <=> <<d, i>> \in Taken(key)
    BY <1>4, <1>7
  <2>2. Taken(key)' = Taken(key)
    <3> DEFINE now == Taken(key)
               then == Taken(key)'
    <3>1. now \subseteq Clients \X Nat /\ then \subseteq Clients \X Nat
      BY <1>5
    <3> HIDE DEF now, then
    <3> QED BY ONLY <2>1, <3>1 DEF now, then
  <2> QED BY <1>7, <2>2 DEF next
<1> QED BY <1>6, <1>7

\* What the sender makes of one read.
LEMMA TakenRead ==
  ASSUME KnobInv, TakenInv, patient, NEW c \in Clients, ReadClient(c)
  PROVE  TakenInv'
<1>1. UNCHANGED <<patient, client, typed>> /\ Quality0 \in Int /\ ctrl_jpg_quality \in Int
  BY ParamsAssumption DEF ReadClient, c_vars, KnobInv, KnobTypes
<1>2. \A d \in Clients : client'[d] = "starting" => typed'[d] = <<>>
  BY <1>1 DEF TakenInv
<1>3. ASSUME UNCHANGED <<ctrl_jpg_quality, applied>> PROVE TakenInv'
  <2>1. \A d \in Clients : LastObeyed(d)' = LastObeyed(d)
    BY <1>3, ObeyedSame
  <2>2. ASSUME NEW sign PROVE Taken(sign)' = Taken(sign)
    <3>1. \A d \in Clients : Len(typed[d]) \in Nat
      BY Types, LenProperties
    <3> QED BY <1>1, <2>1, <3>1, TakenSame
  <2> QED BY <1>1, <1>2, <1>3, <2>2 DEF TakenInv
<1> DEFINE next == LastObeyed(c) + 1
           key == typed[c][next].key
<1>4. ASSUME next \in next .. Len(typed[c]),
             applied' = [applied EXCEPT ![c] = Append(applied[c], next)],
             ctrl_jpg_quality' = ctrl_jpg_quality + Adjustment(key),
             key \in {"+", "-", "other"}
      PROVE  TakenInv'
  <2>1. client[c] = "connected"
    <3>1. wire[c] # <<>>
      <4>1. PICK n \in 1 .. Len(wire[c]) : TRUE
        BY DEF ReadClient
      <4> QED BY <4>1, EmptySeq
    <3> QED BY <3>1 DEF KnobInv, LinkInv, PatientInv
  <2>2. next \in 1 .. Len(typed[c]) /\ next \in Nat /\ LastObeyed(c) \in Nat
    <3>1. LastObeyed(c) \in Nat /\ Len(typed[c]) \in Nat
      BY Types, LenProperties
    <3> QED BY <1>4, <3>1
  <2>3. \A sign : Taken(sign)' = IF key = sign THEN Taken(sign) \cup {<<c, next>>}
                                 ELSE Taken(sign)
    BY <1>1, <1>4, <2>1, <2>2, TakenMore
  <2>4. \A sign : <<c, next>> \notin Taken(sign)
    BY <2>2 DEF Taken
  <2>5. \A sign : IsFiniteSet(Taken(sign)) /\ Cardinality(Taken(sign)) \in Nat
    BY PressesFinite
  <2> HIDE DEF next, key
  <2>6. \A sign : Cardinality(Taken(sign)') =
                    Cardinality(Taken(sign)) + (IF key = sign THEN 1 ELSE 0)
    <3> SUFFICES ASSUME NEW sign
                 PROVE  Cardinality(Taken(sign)') =
                          Cardinality(Taken(sign)) + (IF key = sign THEN 1 ELSE 0)
      OBVIOUS
    <3>1. CASE key = sign
      <4>1. Cardinality(Taken(sign) \cup {<<c, next>>}) = Cardinality(Taken(sign)) + 1
        BY <2>4, <2>5, FS_AddElement
      <4> QED BY <2>3, <3>1, <4>1
    <3>2. CASE key # sign
      BY <2>3, <2>5, <3>2
    <3> QED BY <3>1, <3>2
  <2>7. Adjustment(key) = (IF key = "+" THEN 1 ELSE 0) - (IF key = "-" THEN 1 ELSE 0)
    BY DEF Adjustment
  <2> QED BY <1>1, <1>2, <1>4, <2>5, <2>6, <2>7 DEF TakenInv
<1>5. \/ UNCHANGED <<ctrl_jpg_quality, applied>>
      \/ \E i \in LastObeyed(c) + 1 .. Len(typed[c]) :
           /\ patient => i = LastObeyed(c) + 1
           /\ applied' = [applied EXCEPT ![c] = Append(applied[c], i)]
           /\ ctrl_jpg_quality' = ctrl_jpg_quality + Adjustment(typed[c][i].key)
           /\ typed[c][i].key \in {"+", "-", "other"}
  BY ReadStep
<1> QED BY <1>3, <1>4, <1>5

\* What the other steps make of it.
LEMMA TakenElse ==
  ASSUME KnobInv, KnobInv', TakenInv,
         UNCHANGED <<patient, applied, ctrl_jpg_quality>>,
         \A c \in Clients :
           /\ \/ client'[c] = client[c]
              \/ {client[c], client'[c]} \cap {"connected"} = {}
                 /\ client'[c] # "starting"
              \/ client[c] = "starting" /\ typed'[c] = typed[c]
                 /\ client'[c] # "starting"
           /\ \/ typed'[c] = typed[c]
              \/ client[c] # "starting"
                 /\ \E b \in Keys : typed'[c] = Append(typed[c], b)
  PROVE  TakenInv'
<1>1. \A c \in Clients : LastObeyed(c)' = LastObeyed(c)
  BY ObeyedSame
<1>2. ASSUME NEW c \in Clients
      PROVE  /\ Len(typed'[c]) \in Nat /\ Len(typed[c]) <= Len(typed'[c])
             /\ \A i \in 1 .. Len(typed[c]) : typed'[c][i] = typed[c][i]
             /\ client'[c] = "starting" => typed'[c] = <<>>
             /\ \/ client'[c] = client[c]
                \/ {client[c], client'[c]} \cap {"connected"} = {}
                \/ typed[c] = <<>> /\ typed'[c] = <<>>
  <2>1. typed[c] \in Seq(Keys) /\ Len(typed[c]) \in Nat
    BY Types, LenProperties
  <2>2. CASE typed'[c] = typed[c]
    BY <2>1, <2>2 DEF TakenInv
  <2>3. ASSUME NEW b \in Keys, typed'[c] = Append(typed[c], b), client[c] # "starting"
        PROVE  /\ Len(typed'[c]) \in Nat /\ Len(typed[c]) <= Len(typed'[c])
               /\ \A i \in 1 .. Len(typed[c]) : typed'[c][i] = typed[c][i]
               /\ client'[c] # "starting"
    <3>1. /\ Len(typed'[c]) = Len(typed[c]) + 1
          /\ \A i \in 1 .. Len(typed[c]) : typed'[c][i] = typed[c][i]
      BY <2>1, <2>3, AppendProperties
    <3> QED BY <2>1, <2>3, <3>1
  <2> QED BY <2>1, <2>2, <2>3
<1>3. \A key : Taken(key)' = Taken(key)
  BY <1>1, <1>2, TakenSame
<1> QED BY <1>2, <1>3 DEF TakenInv

LEMMA TakenNext == KnobInv /\ KnobInv' /\ TakenInv /\ [Next]_vars => TakenInv'
<1> SUFFICES ASSUME KnobInv, KnobInv', TakenInv, [Next]_vars PROVE TakenInv'
  OBVIOUS
<1>0. /\ client \in [Clients -> ClientStates] /\ typed \in [Clients -> Seq(Keys)]
  BY DEF KnobInv, KnobTypes
<1>1. CASE \/ Listen \/ ReadFrame \/ UNCHANGED vars
           \/ \E c \in Clients : Connect(c) \/ Accept(c)
  <2>1. UNCHANGED <<patient, typed, applied, ctrl_jpg_quality>>
    BY <1>1, OtherSteps
  <2>2. ASSUME NEW c \in Clients
        PROVE  \/ client'[c] = client[c]
               \/ client[c] = "starting" /\ client'[c] # "starting"
    BY <1>0, <1>1 DEF Listen, ReadFrame, Connect, Accept, vars, c_vars
  <2> QED BY <2>1, <2>2, TakenElse
<1>2. CASE Restart
  <2>1. /\ ctrl_jpg_quality' = Quality0 /\ typed' = typed
        /\ client' = [c \in Clients |-> Orphaned(client[c])]
    BY <1>2 DEF Restart
  <2>2. ASSUME NEW c \in Clients
        PROVE  /\ client'[c] # "connected"
               /\ client'[c] = "starting" => client[c] = "starting"
    BY <2>1 DEF Orphaned
  <2>3. Taken("+")' = {} /\ Taken("-")' = {}
    BY <2>2 DEF Taken
  <2>4. Cardinality(Taken("+")') = 0 /\ Cardinality(Taken("-")') = 0
    BY <2>3, FS_EmptySet
  <2>5. \A c \in Clients : client'[c] = "starting" => typed'[c] = <<>>
    BY <2>1, <2>2 DEF TakenInv
  <2> QED BY <2>1, <2>4, <2>5, ParamsAssumption DEF TakenInv
<1>3. ASSUME NEW c \in Clients, Type(c) PROVE TakenInv'
  <2>1. /\ client[c] # "starting" /\ client' = client
        /\ UNCHANGED <<patient, applied, ctrl_jpg_quality>>
    BY <1>3 DEF Type, s_vars
  <2>2. PICK key \in {"+", "-", "other"} :
          typed' = [typed EXCEPT ![c] =
                      Append(typed[c], [key |-> key, id |-> Len(typed[c]) + 1])]
    BY <1>3 DEF Type
  <2>3. [key |-> key, id |-> Len(typed[c]) + 1] \in Keys
    <3>1. Len(typed[c]) \in Nat
      BY Types, LenProperties
    <3> QED BY <3>1 DEF Keys
  <2> DEFINE b == [key |-> key, id |-> Len(typed[c]) + 1]
  <2> HIDE DEF b
  <2>4. typed' = [typed EXCEPT ![c] = Append(typed[c], b)] /\ b \in Keys
    BY <2>2, <2>3 DEF b
  <2>5. \A d \in Clients : IF d = c THEN typed'[d] = Append(typed[d], b)
                           ELSE typed'[d] = typed[d]
    BY <1>0, <2>4
  <2> QED BY <2>1, <2>4, <2>5, TakenElse
<1>4. ASSUME NEW c \in Clients, ForwardKey(c) PROVE TakenInv'
  <2>1. UNCHANGED <<patient, typed, applied, ctrl_jpg_quality>>
    BY <1>4 DEF ForwardKey, s_vars
  <2>2. \/ client' = client
        \/ /\ client[c] \in {"orphan", "broken"}
           /\ \E state \in {"orphan", "broken", "killed"} :
                client' = [client EXCEPT ![c] = state]
    BY <1>4 DEF ForwardKey, Write
  <2>3. ASSUME NEW d \in Clients
        PROVE  \/ client'[d] = client[d]
               \/ {client[d], client'[d]} \cap {"connected"} = {}
                  /\ client'[d] # "starting"
    BY <1>0, <2>2
  <2> QED BY <2>1, <2>3, TakenElse
<1>5. ASSUME NEW c \in Clients, Quit(c) \/ ReadClient(c) PROVE TakenInv'
  <2>1. CASE ReadClient(c) /\ patient
    BY <2>1, TakenRead
  <2>2. CASE ~patient \/ Quit(c)
    <3>1. ~patient /\ patient' = patient /\ typed' = typed
      BY <1>5, <2>2 DEF Quit, ReadClient, c_vars
    <3>2. \A d \in Clients : client'[d] = "starting" => client[d] = "starting"
      BY <1>0, <1>5 DEF Quit, ReadClient, c_vars
    <3> QED BY <3>1, <3>2 DEF TakenInv
  <2> QED BY <1>5, <2>1, <2>2
<1> QED BY <1>1, <1>2, <1>3, <1>4, <1>5, NextCases

\* However reads divide the keys, however many receivers feed the one variable and
\* whenever the sender is restarted: once nothing of patient users is on its way,
\* the quality is the option of the running sender and every key of the receivers
\* connected to it.
THEOREM NoKeyEverLost == Spec => []NoKeyLost
<1>1. Init => TakenInv
  <2> SUFFICES ASSUME Init PROVE TakenInv
    OBVIOUS
  <2>1. /\ \A c \in Clients : client[c] = "starting" /\ typed[c] = <<>>
        /\ ctrl_jpg_quality = Quality0
    BY DEF Init
  <2>2. Taken("+") = {} /\ Taken("-") = {}
    BY <2>1 DEF Taken
  <2>3. Cardinality(Taken("+")) = 0 /\ Cardinality(Taken("-")) = 0
    BY <2>2, FS_EmptySet
  <2> QED BY <2>1, <2>3, ParamsAssumption DEF TakenInv
<1>2. KnobInv /\ TakenInv => NoKeyLost
  <2> SUFFICES ASSUME KnobInv, TakenInv, patient, \A c \in Clients : Drained(c)
               PROVE  ctrl_jpg_quality = Quality0 + Asked
    BY DEF NoKeyLost
  <2>1. ASSUME NEW key PROVE Presses(key) \subseteq Taken(key)
    <3> SUFFICES ASSUME NEW c \in Clients, client[c] = "connected",
                        NEW i \in 1 .. Len(typed[c]), typed[c][i].key = key
                 PROVE  <<c, i>> \in Taken(key)
      BY DEF Presses
    <3>1. OneByOne(typed[c], LastObeyed(c), <<>>, <<>>, <<>>)
      BY DEF Drained, KnobInv, PatientInv
    <3>2. LastObeyed(c) = Len(typed[c]) /\ Len(typed[c]) \in Nat
      BY <3>1, Types, LenProperties DEF OneByOne
    <3> QED BY <3>2 DEF Taken
  <2>2. ASSUME NEW key
        PROVE  Presses(key) = Taken(key) /\ Cardinality(Taken(key)) \in Nat
    <3>1. Presses(key) \subseteq Taken(key)
      BY <2>1
    <3>2. Taken(key) \subseteq Presses(key) /\ Cardinality(Taken(key)) \in Nat
      BY PressesFinite
    <3> QED BY <3>1, <3>2
  <2>3. /\ Asked = Cardinality(Taken("+")) - Cardinality(Taken("-"))
        /\ Cardinality(Taken("+")) \in Nat /\ Cardinality(Taken("-")) \in Nat
    BY <2>2 DEF Asked
  <2>4. ctrl_jpg_quality = Quality0 + Cardinality(Taken("+")) - Cardinality(Taken("-"))
    BY DEF TakenInv
  <2> QED BY <2>3, <2>4, ParamsAssumption
<1>3. KnobInv /\ [Next]_vars => KnobInv'
  BY KnobNext
<1> QED BY <1>1, <1>2, <1>3, KnobInit, TakenNext, PTL DEF Spec

-----------------------------------------------------------------------------
(* The refinement.                                                         *)

\* Typing presses a key of the knob; what a read does to the quality is nothing
\* or obeys a key; and the rest of the code leaves the knob alone.
LEMMA KnobSteps ==
  ASSUME KnobInv, [Next]_vars PROVE [Abstract!Next]_(Abstract!vars)
<1>1. ASSUME NEW c \in Clients, Type(c) PROVE Abstract!Press(c)
  BY <1>1 DEF Type, s_vars, Abstract!Press
<1>2. ASSUME NEW c \in Clients, ForwardKey(c) \/ Quit(c) PROVE UNCHANGED Abstract!vars
  BY <1>2 DEF ForwardKey, Quit, s_vars, Abstract!vars
<1>3. ASSUME NEW c \in Clients, ReadClient(c)
      PROVE  Abstract!Obey(c) \/ UNCHANGED Abstract!vars
  <2>1. UNCHANGED <<patient, typed>>
    BY <1>3 DEF ReadClient, c_vars
  <2>2. CASE UNCHANGED <<ctrl_jpg_quality, applied>>
    BY <2>1, <2>2 DEF Abstract!vars
  <2>3. ASSUME NEW i \in LastObeyed(c) + 1 .. Len(typed[c]),
               patient => i = LastObeyed(c) + 1,
               applied' = [applied EXCEPT ![c] = Append(applied[c], i)],
               ctrl_jpg_quality' = ctrl_jpg_quality + Adjustment(typed[c][i].key),
               typed[c][i].key \in {"+", "-", "other"}
        PROVE  Abstract!Obey(c)
    <3>1. Abstract!Turn[typed[c][i].key] = Adjustment(typed[c][i].key)
      BY <2>3 DEF Abstract!Turn, Adjustment
    <3> QED BY <2>1, <2>3, <3>1 DEF Abstract!Obey, LastObeyed
  <2> QED BY <1>3, <2>2, <2>3, ReadStep
<1>4. ASSUME Restart PROVE Abstract!Restart
  BY <1>4 DEF Restart, Abstract!Restart
<1>5. UNCHANGED <<patient, typed, applied, ctrl_jpg_quality>> => UNCHANGED Abstract!vars
  BY DEF Abstract!vars
<1> QED BY <1>1, <1>2, <1>3, <1>4, <1>5, NextCases, OtherSteps DEF Abstract!Next

\* For any receivers, whatever they type, however reads divide it and whenever one
\* is closed or the sender restarted, the quality is the knob of Knob: a key acts
\* at most once, keys of a receiver act in order, and those of patient users
\* without a gap.
THEOREM QualityRefinesKnob == Spec => ImplementsKnob
<1>1. Init => Abstract!Init
  BY DEF Init, Abstract!Init
<1>2. KnobInv /\ [Next]_vars => [Abstract!Next]_(Abstract!vars)
  BY KnobSteps
<1> QED BY <1>1, <1>2, KnobInvariant, PTL DEF Spec, ImplementsKnob, Abstract!Spec
=============================================================================
