-------------------------- MODULE RtpHeaderProofs ---------------------------
(***************************************************************************)
(* The bytes of the header implement a record of fields, for all values.   *)
(***************************************************************************)
EXTENDS RtpHeader, TLAPS

LEMMA Small == ASSUME NEW v \in Bits16 PROVE v \in Nat /\ v % Word = v
BY DEF Bits16, Word

\* A 16-bit field written at a place is read back there, cut to its width, and
\* nothing else is written.
LEMMA Put16Get16 ==
  ASSUME NEW b \in Buffer, NEW i \in 0 .. 18, NEW v \in Nat
  PROVE  /\ Put16(b, i, v) \in Buffer
         /\ Get16(Put16(b, i, v), i) = v % Word
         /\ \A j \in 0 .. 19 : j # i /\ j # i + 1 => Put16(b, i, v)[j] = b[j]
<1> DEFINE c == Put16(b, i, v)
<1>1. (v \div 256) % 256 \in 0 .. 255 /\ v % 256 \in 0 .. 255
  OBVIOUS
<1>2. c \in Buffer
  BY <1>1 DEF Put16, Buffer, RTP_HEADER_LEN_EXT_FAROS_POLITO_IMG, Bytes
<1>3. c[i] = (v \div 256) % 256 /\ c[i + 1] = v % 256
  BY DEF Put16, Buffer, RTP_HEADER_LEN_EXT_FAROS_POLITO_IMG
<1>4. ((v \div 256) % 256) * 256 + (v % 256) = v % Word
  BY DEF Word
<1>5. \A j \in 0 .. 19 : j # i /\ j # i + 1 => c[j] = b[j]
  BY DEF Put16, Buffer, RTP_HEADER_LEN_EXT_FAROS_POLITO_IMG
<1>6. Get16(c, i) = v % Word
  BY <1>3, <1>4 DEF Get16
<1> QED BY <1>2, <1>5, <1>6

\* The same for a field of 32 bits, given as its halves.
LEMMA Put32Get32 ==
  ASSUME NEW b \in Buffer, NEW i \in 0 .. 16, NEW v \in Bits16 \X Bits16
  PROVE  /\ Put32(b, i, v) \in Buffer
         /\ Get32(Put32(b, i, v), i) = v
         /\ \A j \in 0 .. 19 : j < i \/ i + 3 < j => Put32(b, i, v)[j] = b[j]
<1> DEFINE hi == v[1]
           lo == v[2]
           c == Put16(b, i, hi)
           d == Put16(c, i + 2, lo)
<1>1. Put32(b, i, v) = d
  BY DEF Put32
<1>2. hi \in Bits16 /\ lo \in Bits16 /\ v = <<hi, lo>>
  OBVIOUS
<1> HIDE DEF hi, lo
<1>3. /\ c \in Buffer /\ Get16(c, i) = hi
      /\ \A j \in 0 .. 19 : j # i /\ j # i + 1 => c[j] = b[j]
  <2>1. i \in 0 .. 18
    OBVIOUS
  <2> QED BY <1>2, <2>1, Small, Put16Get16
<1> HIDE DEF c
<1>4. /\ d \in Buffer /\ Get16(d, i + 2) = lo
      /\ \A j \in 0 .. 19 : j # i + 2 /\ j # i + 3 => d[j] = c[j]
  <2>1. i + 2 \in 0 .. 18 /\ (i + 2) + 1 = i + 3
    OBVIOUS
  <2> QED BY <1>2, <1>3, <2>1, Small, Put16Get16
<1> HIDE DEF d
<1>5. d[i] = c[i] /\ d[i + 1] = c[i + 1]
  <2>1. i \in 0 .. 19 /\ i + 1 \in 0 .. 19
    OBVIOUS
  <2>2. i # i + 2 /\ i # i + 3 /\ i + 1 # i + 2 /\ i + 1 # i + 3
    OBVIOUS
  <2> QED BY <1>4, <2>1, <2>2
<1>6. Get16(d, i) = hi
  BY <1>3, <1>5 DEF Get16
<1>7. \A j \in 0 .. 19 : j < i \/ i + 3 < j => d[j] = b[j]
  BY <1>3, <1>4
<1>8. Get32(d, i) = v
  BY <1>2, <1>4, <1>6 DEF Get32
<1> QED BY <1>1, <1>4, <1>7, <1>8

\* Two headers with the same bytes outside a place agree on the other fields.
LEMMA SameBytes ==
  ASSUME NEW b \in Buffer, NEW c \in Buffer
  PROVE  /\ b[0] = c[0] => /\ RTP_get_version(b) = RTP_get_version(c)
                          /\ RTP_get_extension(b) = RTP_get_extension(c)
         /\ b[1] = c[1] => /\ RTP_get_marker(b) = RTP_get_marker(c)
                          /\ b[1] % 128 = c[1] % 128
         /\ \A i \in 0 .. 18 : b[i] = c[i] /\ b[i + 1] = c[i + 1]
                               => Get16(b, i) = Get16(c, i)
BY DEF RTP_get_version, RTP_get_extension, RTP_get_marker, Get16

\* memset and the four calls that follow it.
LEMMA InitBytes ==
  LET h == RTP_init_header_v2_ext_faros_polito_IMG
  IN /\ h \in Buffer
     /\ h[0] = 144 /\ h[12] = 238 /\ h[13] = 238 /\ h[14] = 0 /\ h[15] = 1
     /\ \A j \in 0 .. 19 : j \notin {0, 12, 13, 14, 15} => h[j] = 0
<1> DEFINE zero == [i \in 0 .. 19 |-> 0]
           v2   == RTP_set_version(zero, 2)
           ext  == RTP_set_extension(v2, 1)
           typ  == RTP_set_extension_type(ext, 61166)
           h    == RTP_set_extension_len(typ, 1)
<1> USE DEF Buffer, Bytes
<1>1. v2 = [i \in 0 .. 19 |-> IF i = 0 THEN 128 ELSE 0]
  BY DEF RTP_set_version
<1>2. ext = [i \in 0 .. 19 |-> IF i = 0 THEN 144 ELSE 0]
  <2>1. ext = [v2 EXCEPT ![0] = 144]
    BY <1>1 DEF RTP_set_extension
  <2> QED BY <1>1, <2>1
<1>3. typ = [i \in 0 .. 19 |-> IF i = 0 THEN 144
                               ELSE IF i \in {12, 13} THEN 238 ELSE 0]
  BY <1>2 DEF RTP_set_extension_type, Put16
<1>4. h = [i \in 0 .. 19 |-> IF i = 0 THEN 144
                             ELSE IF i \in {12, 13} THEN 238
                             ELSE IF i = 15 THEN 1 ELSE 0]
  BY <1>3 DEF RTP_set_extension_len, Put16
<1>5. RTP_init_header_v2_ext_faros_polito_IMG = h
  BY DEF RTP_init_header_v2_ext_faros_polito_IMG,
         RTP_HEADER_LEN_EXT_FAROS_POLITO_IMG
<1> HIDE DEF h
<1> QED BY <1>4, <1>5 DEF RTP_HEADER_LEN_EXT_FAROS_POLITO_IMG

LEMMA InitFields == /\ RTP_init_header_v2_ext_faros_polito_IMG \in Buffer
                    /\ Fields(RTP_init_header_v2_ext_faros_polito_IMG) = HF!Cleared
<1> DEFINE h == RTP_init_header_v2_ext_faros_polito_IMG
<1>1. /\ h[0] = 144 /\ h[1] = 0
      /\ h[12] = 238 /\ h[13] = 238 /\ h[14] = 0 /\ h[15] = 1
      /\ \A j \in 2 .. 11 : h[j] = 0
      /\ h[16] = 0 /\ h[17] = 0 /\ h[18] = 0 /\ h[19] = 0
  BY InitBytes
<1> HIDE DEF h
<1>2. /\ RTP_get_version(h) = 2 /\ RTP_get_extension(h) = 1
      /\ RTP_get_marker(h) = 0 /\ h[1] % 128 = 0
  BY <1>1 DEF RTP_get_version, RTP_get_extension, RTP_get_marker
<1>3. /\ RTP_get_seq_num(h) = 0 /\ RTP_get_timestamp(h) = <<0, 0>>
      /\ RTP_get_ssrc(h) = <<0, 0>>
      /\ RTP_get_framenum(h) = 0 /\ RTP_get_slicenum(h) = 0
  BY <1>1 DEF RTP_get_seq_num, RTP_get_timestamp, RTP_get_ssrc,
              RTP_get_framenum, RTP_get_slicenum, Get16, Get32
<1>4. RTP_get_extension_type(h) = 61166 /\ RTP_get_extension_len(h) = 4
  BY <1>1 DEF RTP_get_extension_type, RTP_get_extension_len, Get16
<1>5. RTP_get_header_len(h) = 20
  BY <1>2, <1>4 DEF RTP_get_header_len, RTP_HEADER_LEN_BASE
<1>6. Fields(h) = HF!Cleared
  BY <1>2, <1>3, <1>4, <1>5 DEF Fields, HF!Cleared
<1> QED BY <1>6, InitBytes DEF h

\* c is b with the field of that name set to v, as far as the field holds it.
Sets(b, c, name, v) == /\ c \in Buffer
                       /\ Fields(c) = [Fields(b) EXCEPT ![name] = HF!Cut(name, v)]

SameElsewhere(b, c, from, to) ==
  \A j \in 0 .. 19 : j < from \/ to < j => c[j] = b[j]

\* A field depends on its own bytes only.
LEMMA FieldBytes ==
  ASSUME NEW b \in Buffer, NEW c \in Buffer
  PROVE
    /\ b[0] = c[0] => /\ RTP_get_version(c) = RTP_get_version(b)
                     /\ RTP_get_extension(c) = RTP_get_extension(b)
    /\ b[1] = c[1] => /\ RTP_get_marker(c) = RTP_get_marker(b)
                     /\ c[1] % 128 = b[1] % 128
    /\ b[2] = c[2] /\ b[3] = c[3] => RTP_get_seq_num(c) = RTP_get_seq_num(b)
    /\ b[4] = c[4] /\ b[5] = c[5] /\ b[6] = c[6] /\ b[7] = c[7]
         => RTP_get_timestamp(c) = RTP_get_timestamp(b)
    /\ b[8] = c[8] /\ b[9] = c[9] /\ b[10] = c[10] /\ b[11] = c[11]
         => RTP_get_ssrc(c) = RTP_get_ssrc(b)
    /\ b[12] = c[12] /\ b[13] = c[13]
         => RTP_get_extension_type(c) = RTP_get_extension_type(b)
    /\ b[0] = c[0] /\ b[14] = c[14] /\ b[15] = c[15]
         => RTP_get_header_len(c) = RTP_get_header_len(b)
    /\ b[16] = c[16] /\ b[17] = c[17]
         => RTP_get_framenum(c) = RTP_get_framenum(b)
    /\ b[18] = c[18] /\ b[19] = c[19]
         => RTP_get_slicenum(c) = RTP_get_slicenum(b)
BY DEF RTP_get_version, RTP_get_extension, RTP_get_marker, RTP_get_seq_num,
       RTP_get_timestamp, RTP_get_ssrc, RTP_get_extension_type,
       RTP_get_extension_len, RTP_get_header_len, RTP_get_framenum,
       RTP_get_slicenum, Get16, Get32

\* Rewriting the bytes of one field leaves the other fields alone.
LEMMA FieldAlone ==
  ASSUME NEW b \in Buffer, NEW c \in Buffer
  PROVE  /\ SameElsewhere(b, c, 2, 3) =>
              Fields(c) = [Fields(b) EXCEPT !["seq_num"] = Fields(c)["seq_num"]]
         /\ SameElsewhere(b, c, 4, 7) =>
              Fields(c) = [Fields(b) EXCEPT !["timestamp"] = Fields(c)["timestamp"]]
         /\ SameElsewhere(b, c, 8, 11) =>
              Fields(c) = [Fields(b) EXCEPT !["ssrc"] = Fields(c)["ssrc"]]
         /\ SameElsewhere(b, c, 16, 17) =>
              Fields(c) = [Fields(b) EXCEPT !["framenum"] = Fields(c)["framenum"]]
         /\ SameElsewhere(b, c, 18, 19) =>
              Fields(c) = [Fields(b) EXCEPT !["slicenum"] = Fields(c)["slicenum"]]
<1>1. SameElsewhere(b, c, 2, 3) =>
        Fields(c) = [Fields(b) EXCEPT !["seq_num"] = Fields(c)["seq_num"]]
  BY FieldBytes DEF SameElsewhere, Fields
<1>2. SameElsewhere(b, c, 4, 7) =>
        Fields(c) = [Fields(b) EXCEPT !["timestamp"] = Fields(c)["timestamp"]]
  BY FieldBytes DEF SameElsewhere, Fields
<1>3. SameElsewhere(b, c, 8, 11) =>
        Fields(c) = [Fields(b) EXCEPT !["ssrc"] = Fields(c)["ssrc"]]
  BY FieldBytes DEF SameElsewhere, Fields
<1>4. SameElsewhere(b, c, 16, 17) =>
        Fields(c) = [Fields(b) EXCEPT !["framenum"] = Fields(c)["framenum"]]
  BY FieldBytes DEF SameElsewhere, Fields
<1>5. SameElsewhere(b, c, 18, 19) =>
        Fields(c) = [Fields(b) EXCEPT !["slicenum"] = Fields(c)["slicenum"]]
  BY FieldBytes DEF SameElsewhere, Fields
<1> QED BY <1>1, <1>2, <1>3, <1>4, <1>5

LEMMA CutFields ==
  /\ \A v \in Nat : /\ HF!Cut("seq_num", v) = v % 65536
                    /\ HF!Cut("framenum", v) = v % 65536
                    /\ HF!Cut("slicenum", v) = v % 65536
                    /\ HF!Cut("payload_type", v) = v % 128
  /\ \A v : /\ HF!Cut("timestamp", v) = v /\ HF!Cut("ssrc", v) = v
           /\ HF!Cut("marker", v) = v
BY DEF HF!Cut

\* The setters of 16 bits, and those of 32.
LEMMA Set16Fields ==
  ASSUME NEW b \in Buffer, NEW v \in Nat
  PROVE  /\ Sets(b, RTP_set_seq_num(b, v), "seq_num", v)
         /\ Sets(b, RTP_set_framenum(b, v), "framenum", v)
         /\ Sets(b, RTP_set_slicenum(b, v), "slicenum", v)
<1>1. ASSUME NEW i \in 0 .. 18
      PROVE  /\ Put16(b, i, v) \in Buffer /\ Get16(Put16(b, i, v), i) = v % 65536
             /\ SameElsewhere(b, Put16(b, i, v), i, i + 1)
  <2> DEFINE c == Put16(b, i, v)
  <2>1. /\ c \in Buffer /\ Get16(c, i) = v % Word
        /\ \A j \in 0 .. 19 : j # i /\ j # i + 1 => c[j] = b[j]
    BY Put16Get16
  <2> HIDE DEF c
  <2>2. SameElsewhere(b, c, i, i + 1)
    BY <2>1 DEF SameElsewhere
  <2>3. Get16(c, i) = v % 65536
    BY <2>1 DEF Word
  <2> QED BY <2>1, <2>2, <2>3 DEF c
<1>2. Sets(b, RTP_set_seq_num(b, v), "seq_num", v)
  <2> DEFINE c == Put16(b, 2, v)
  <2>1. c \in Buffer /\ SameElsewhere(b, c, 2, 3) /\ Get16(c, 2) = v % 65536
    BY <1>1
  <2> HIDE DEF c
  <2>2. Fields(c) = [Fields(b) EXCEPT !["seq_num"] = Fields(c)["seq_num"]]
    BY <2>1, FieldAlone
  <2>3. Fields(c)["seq_num"] = v % 65536
    BY <2>1 DEF Fields, RTP_get_seq_num
  <2>4. Fields(c) = [Fields(b) EXCEPT !["seq_num"] = HF!Cut("seq_num", v)]
    BY <2>2, <2>3, CutFields
  <2>5. Sets(b, c, "seq_num", v)
    BY <2>1, <2>4 DEF Sets
  <2> QED BY <2>5 DEF RTP_set_seq_num, c
<1>3. Sets(b, RTP_set_framenum(b, v), "framenum", v)
  <2> DEFINE c == Put16(b, 16, v)
  <2>1. c \in Buffer /\ SameElsewhere(b, c, 16, 17) /\ Get16(c, 16) = v % 65536
    BY <1>1
  <2> HIDE DEF c
  <2>2. Fields(c) = [Fields(b) EXCEPT !["framenum"] = Fields(c)["framenum"]]
    BY <2>1, FieldAlone
  <2>3. Fields(c)["framenum"] = v % 65536
    BY <2>1 DEF Fields, RTP_get_framenum
  <2>4. Fields(c) = [Fields(b) EXCEPT !["framenum"] = HF!Cut("framenum", v)]
    BY <2>2, <2>3, CutFields
  <2>5. Sets(b, c, "framenum", v)
    BY <2>1, <2>4 DEF Sets
  <2> QED BY <2>5 DEF RTP_set_framenum, c
<1>4. Sets(b, RTP_set_slicenum(b, v), "slicenum", v)
  <2> DEFINE c == Put16(b, 18, v)
  <2>1. c \in Buffer /\ SameElsewhere(b, c, 18, 19) /\ Get16(c, 18) = v % 65536
    BY <1>1
  <2> HIDE DEF c
  <2>2. Fields(c) = [Fields(b) EXCEPT !["slicenum"] = Fields(c)["slicenum"]]
    BY <2>1, FieldAlone
  <2>3. Fields(c)["slicenum"] = v % 65536
    BY <2>1 DEF Fields, RTP_get_slicenum
  <2>4. Fields(c) = [Fields(b) EXCEPT !["slicenum"] = HF!Cut("slicenum", v)]
    BY <2>2, <2>3, CutFields
  <2>5. Sets(b, c, "slicenum", v)
    BY <2>1, <2>4 DEF Sets
  <2> QED BY <2>5 DEF RTP_set_slicenum, c
<1> QED BY <1>2, <1>3, <1>4

LEMMA Set32Fields ==
  ASSUME NEW b \in Buffer, NEW v \in Bits16 \X Bits16
  PROVE  /\ Sets(b, RTP_set_timestamp(b, v), "timestamp", v)
         /\ Sets(b, RTP_set_ssrc(b, v), "ssrc", v)
<1>1. Sets(b, RTP_set_timestamp(b, v), "timestamp", v)
  <2> DEFINE c == Put32(b, 4, v)
  <2>1. /\ c \in Buffer /\ Get32(c, 4) = v
        /\ \A j \in 0 .. 19 : j < 4 \/ 4 + 3 < j => c[j] = b[j]
    <3>1. 4 \in 0 .. 16
      OBVIOUS
    <3> QED BY <3>1, Put32Get32
  <2> HIDE DEF c
  <2>2. SameElsewhere(b, c, 4, 7)
    BY <2>1 DEF SameElsewhere
  <2>3. Fields(c) = [Fields(b) EXCEPT !["timestamp"] = Fields(c)["timestamp"]]
    BY <2>1, <2>2, FieldAlone
  <2>4. Fields(c)["timestamp"] = v
    BY <2>1 DEF Fields, RTP_get_timestamp
  <2>5. Fields(c) = [Fields(b) EXCEPT !["timestamp"] = HF!Cut("timestamp", v)]
    BY <2>3, <2>4, CutFields
  <2>6. Sets(b, c, "timestamp", v)
    BY <2>1, <2>5 DEF Sets
  <2> QED BY <2>6 DEF RTP_set_timestamp, c
<1>2. Sets(b, RTP_set_ssrc(b, v), "ssrc", v)
  <2> DEFINE c == Put32(b, 8, v)
  <2>1. /\ c \in Buffer /\ Get32(c, 8) = v
        /\ \A j \in 0 .. 19 : j < 8 \/ 8 + 3 < j => c[j] = b[j]
    <3>1. 8 \in 0 .. 16
      OBVIOUS
    <3> QED BY <3>1, Put32Get32
  <2> HIDE DEF c
  <2>2. SameElsewhere(b, c, 8, 11)
    BY <2>1 DEF SameElsewhere
  <2>3. Fields(c) = [Fields(b) EXCEPT !["ssrc"] = Fields(c)["ssrc"]]
    BY <2>1, <2>2, FieldAlone
  <2>4. Fields(c)["ssrc"] = v
    BY <2>1 DEF Fields, RTP_get_ssrc
  <2>5. Fields(c) = [Fields(b) EXCEPT !["ssrc"] = HF!Cut("ssrc", v)]
    BY <2>3, <2>4, CutFields
  <2>6. Sets(b, c, "ssrc", v)
    BY <2>1, <2>5 DEF Sets
  <2> QED BY <2>6 DEF RTP_set_ssrc, c
<1> QED BY <1>1, <1>2

\* The two fields that share byte 1.
LEMMA SetByte1Fields ==
  ASSUME NEW b \in Buffer
  PROVE  /\ \A v \in {0, 1} : Sets(b, RTP_set_marker(b, v), "marker", v)
         /\ \A v \in Nat :
              Sets(b, RTP_set_payload_type(b, v), "payload_type", v)
<1>1. \A j \in 0 .. 19 : b[j] \in 0 .. 255
  BY DEF Buffer, RTP_HEADER_LEN_EXT_FAROS_POLITO_IMG, Bytes
<1>2. ASSUME NEW v \in {0, 1} PROVE Sets(b, RTP_set_marker(b, v), "marker", v)
  <2> DEFINE c == RTP_set_marker(b, v)
  <2>1. /\ c \in Buffer /\ c[1] = (b[1] % 128) + 128 * v
        /\ \A j \in 0 .. 19 : j # 1 => c[j] = b[j]
    BY <1>1 DEF RTP_set_marker, Buffer, RTP_HEADER_LEN_EXT_FAROS_POLITO_IMG, Bytes
  <2> HIDE DEF c
  <2>2. RTP_get_marker(c) = v /\ c[1] % 128 = b[1] % 128
    BY <1>1, <2>1 DEF RTP_get_marker
  <2>3. Fields(c) = [Fields(b) EXCEPT !["marker"] = v]
    BY <2>1, <2>2, FieldBytes DEF Fields
  <2>4. Fields(c) = [Fields(b) EXCEPT !["marker"] = HF!Cut("marker", v)]
    <3>1. HF!Cut("marker", v) = v
      BY CutFields
    <3> QED BY ONLY <2>3, <3>1
  <2>5. Sets(b, c, "marker", v)
    BY <2>1, <2>4 DEF Sets
  <2> QED BY <2>5 DEF c
<1>3. ASSUME NEW v \in Nat
      PROVE  Sets(b, RTP_set_payload_type(b, v), "payload_type", v)
  <2> DEFINE c == RTP_set_payload_type(b, v)
  <2>1. /\ c \in Buffer /\ c[1] = 128 * (b[1] \div 128) + (v % 128)
        /\ \A j \in 0 .. 19 : j # 1 => c[j] = b[j]
    BY <1>1
    DEF RTP_set_payload_type, Buffer, RTP_HEADER_LEN_EXT_FAROS_POLITO_IMG, Bytes
  <2> HIDE DEF c
  <2>2. RTP_get_marker(c) = RTP_get_marker(b) /\ c[1] % 128 = v % 128
    BY <1>1, <2>1 DEF RTP_get_marker
  <2>3. Fields(c) = [Fields(b) EXCEPT !["payload_type"] = v % 128]
    BY <2>1, <2>2, FieldBytes DEF Fields
  <2>4. Fields(c) = [Fields(b) EXCEPT !["payload_type"] = HF!Cut("payload_type", v)]
    <3>1. HF!Cut("payload_type", v) = v % 128
      BY CutFields
    <3> QED BY ONLY <2>3, <3>1
  <2>5. Sets(b, c, "payload_type", v)
    BY <2>1, <2>4 DEF Sets
  <2> QED BY <2>5 DEF c
<1> QED BY <1>2, <1>3

\* A call of any setter leaves bytes in the buffer and is a step of the record.
LEMMA HeaderStep == TypeOK /\ [Next]_p => TypeOK' /\ [HF!FNext]_(Fields(p))
<1> SUFFICES ASSUME TypeOK, [Next]_p
             PROVE  TypeOK' /\ [HF!FNext]_(Fields(p))
  OBVIOUS
<1> USE DEF TypeOK, HF!FNext
<1>1. CASE InitHeader
  BY <1>1, InitFields DEF InitHeader, HF!Clear
<1>2. ASSUME NEW n \in DOMAIN Inputs, NEW v \in Inputs[n], Sets(p, p', n, v)
      PROVE  TypeOK' /\ HF!Set(n)
  BY <1>2 DEF Sets, HF!Set
<1>3. {"marker", "payload_type", "seq_num", "timestamp", "ssrc", "framenum",
       "slicenum"} = DOMAIN Inputs
  BY DEF Inputs
<1>4. CASE SetSeqNum \/ SetFramenum \/ SetSlicenum
  <2>1. \E n \in {"seq_num", "framenum", "slicenum"} :
          \E v \in Inputs[n] : Sets(p, p', n, v)
    BY <1>4, Set16Fields, ValuesAssumption
    DEF SetSeqNum, SetFramenum, SetSlicenum, Inputs
  <2> QED BY <1>2, <1>3, <2>1
<1>5. CASE SetTimestamp \/ SetSsrc
  <2>1. \E n \in {"timestamp", "ssrc"} : \E v \in Inputs[n] : Sets(p, p', n, v)
    BY <1>5, Set32Fields, ValuesAssumption DEF SetTimestamp, SetSsrc, Inputs
  <2> QED BY <1>2, <1>3, <2>1
<1>6. CASE SetMarker \/ SetPayloadType
  <2>1. \E n \in {"marker", "payload_type"} :
          \E v \in Inputs[n] : Sets(p, p', n, v)
    BY <1>6, SetByte1Fields, ValuesAssumption DEF SetMarker, SetPayloadType, Inputs
  <2> QED BY <1>2, <1>3, <2>1
<1>7. CASE p' = p
  BY <1>7
<1> QED BY <1>1, <1>4, <1>5, <1>6, <1>7 DEF Next

\* What a setter writes fits the byte it writes it to, for every value of the field.
THEOREM HeaderTypeCorrect == Spec => []TypeOK
<1>1. Init => TypeOK
  BY InitFields DEF Init, TypeOK
<1> QED BY <1>1, HeaderStep, PTL DEF Spec

\* In whatever order the setters are called, the bytes of the header are those
\* of a record of independent fields, each of which holds the value it was set
\* to last, cut to its width.
THEOREM HeaderRefinesFields == Spec => ImplementsHeaderFields
<1>1. Init => TypeOK /\ HF!FInit
  BY InitFields DEF Init, TypeOK, HF!FInit
<1> QED BY <1>1, HeaderStep, PTL DEF Spec, ImplementsHeaderFields, HF!FSpec
=============================================================================
