----------------------------- MODULE RtpHeader ------------------------------
(***************************************************************************)
(* The header of a packet, byte by byte (faros_polito_IMG_rtp.c): a buffer *)
(* that the packing loops initialise and then fill field after field.      *)
(* A number of 32 bits is the pair of its 16-bit halves, because TLC's     *)
(* integers are signed and of 32 bits.                                     *)
(***************************************************************************)
EXTENDS Integers

Word == 65536
Bits16 == {v \in Nat : v < Word}

CONSTANTS Seqs, Stamps, Types, Sources, Framenums, Slicenums
                       \* the values the fields are set to

ASSUME ValuesAssumption ==
  /\ Seqs \subseteq Nat /\ Types \subseteq Nat
  /\ Framenums \subseteq Nat /\ Slicenums \subseteq Nat
  /\ Stamps \subseteq Bits16 \X Bits16
  /\ Sources \subseteq Bits16 \X Bits16

RTP_HEADER_LEN_BASE == 12
RTP_HEADER_LEN_EXT_FAROS_POLITO_IMG == 20

Bytes == 0 .. 255
Buffer == [0 .. RTP_HEADER_LEN_EXT_FAROS_POLITO_IMG - 1 -> Bytes]

VARIABLE p             \* the first bytes of pckbuf

-----------------------------------------------------------------------------
(* The accessors.                                                          *)

Get16(b, i) == b[i] * 256 + b[i + 1]

\* mutant: the high byte not cut to its 8 bits
Put16Unmasked(b, i, v) == [b EXCEPT ![i] = v \div 256, ![i + 1] = v % 256]

Put16(b, i, v) == [b EXCEPT ![i] = (v \div 256) % 256, ![i + 1] = v % 256]
Get32(b, i) == <<Get16(b, i), Get16(b, i + 2)>>
Put32(b, i, v) == Put16(Put16(b, i, v[1]), i + 2, v[2])

RTP_get_version(b) == b[0] \div 64
RTP_get_extension(b) == (b[0] \div 16) % 2
RTP_get_marker(b) == b[1] \div 128
RTP_get_seq_num(b) == Get16(b, 2)
RTP_get_timestamp(b) == Get32(b, 4)
RTP_get_ssrc(b) == Get32(b, 8)
RTP_get_extension_type(b) == Get16(b, 12)
RTP_get_extension_len(b) == 4 * Get16(b, 14)
RTP_get_framenum(b) == Get16(b, 16)
RTP_get_slicenum(b) == Get16(b, 18)

RTP_get_header_len(b) ==
  RTP_HEADER_LEN_BASE
    + IF RTP_get_extension(b) = 0 THEN 0 ELSE 4 + RTP_get_extension_len(b)

\* Bits outside the field keep their values: p[0] & 0x3f and so on.  The shift
\* cuts the version and the marker to their width; the extension bit is not cut,
\* and is only ever set to 1.
RTP_set_version(b, v) == [b EXCEPT ![0] = (@ % 64) + 64 * (v % 4)]
RTP_set_extension(b, v) ==
  [b EXCEPT ![0] = 32 * (@ \div 32) + 16 * v + (@ % 16)]

\* mutant: the payload type in the same byte is not masked in
SetMarkerUnmasked(b, v) == [b EXCEPT ![1] = 128 * (v % 2)]

RTP_set_marker(b, v) == [b EXCEPT ![1] = (@ % 128) + 128 * (v % 2)]
RTP_set_payload_type(b, v) == [b EXCEPT ![1] = 128 * (@ \div 128) + (v % 128)]

\* mutant: the high byte is left 0
SetSeqNumLowByte(b, v) == Put16(b, 2, v % 256)

RTP_set_seq_num(b, v) == Put16(b, 2, v)
RTP_set_timestamp(b, v) == Put32(b, 4, v)
RTP_set_ssrc(b, v) == Put32(b, 8, v)
RTP_set_extension_type(b, v) == Put16(b, 12, v)
RTP_set_extension_len(b, v) == Put16(b, 14, v)
RTP_set_framenum(b, v) == Put16(b, 16, v)
RTP_set_slicenum(b, v) == Put16(b, 18, v)

\* memset, version 2, an extension of type 0xEEEE and of one word.
RTP_init_header_v2_ext_faros_polito_IMG ==
  LET zero == [i \in 0 .. RTP_HEADER_LEN_EXT_FAROS_POLITO_IMG - 1 |-> 0]
      v2   == RTP_set_version(zero, 2)
      ext  == RTP_set_extension(v2, 1)
  IN RTP_set_extension_len(RTP_set_extension_type(ext, 61166), 1)

-----------------------------------------------------------------------------
(* A packing loop at work on the buffer, in whatever order it sets fields. *)

Init == p = RTP_init_header_v2_ext_faros_polito_IMG

InitHeader == p' = RTP_init_header_v2_ext_faros_polito_IMG
SetSeqNum == \E v \in Seqs : p' = RTP_set_seq_num(p, v)
SetTimestamp == \E v \in Stamps : p' = RTP_set_timestamp(p, v)
SetPayloadType == \E v \in Types : p' = RTP_set_payload_type(p, v)
SetMarker == \E v \in {0, 1} : p' = RTP_set_marker(p, v)
SetSsrc == \E v \in Sources : p' = RTP_set_ssrc(p, v)
SetFramenum == \E v \in Framenums : p' = RTP_set_framenum(p, v)
SetSlicenum == \E v \in Slicenums : p' = RTP_set_slicenum(p, v)

Next == \/ InitHeader \/ SetSeqNum \/ SetTimestamp \/ SetPayloadType
        \/ SetMarker \/ SetSsrc \/ SetFramenum \/ SetSlicenum

Spec == Init /\ [][Next]_p

-----------------------------------------------------------------------------
(* Properties.                                                             *)

TypeOK == p \in Buffer

\* What the receiver reads.  The payload type is read as it is laid out in the
\* header: the code never calls RTP_get_payload_type, which looks elsewhere.
Fields(b) ==
  [version |-> RTP_get_version(b), extension |-> RTP_get_extension(b),
   marker |-> RTP_get_marker(b), payload_type |-> b[1] % 128,
   seq_num |-> RTP_get_seq_num(b), timestamp |-> RTP_get_timestamp(b),
   ssrc |-> RTP_get_ssrc(b), extension_type |-> RTP_get_extension_type(b),
   header_len |-> RTP_get_header_len(b),
   framenum |-> RTP_get_framenum(b), slicenum |-> RTP_get_slicenum(b)]

\* The values each field is set to.
Inputs == [marker |-> {0, 1}, payload_type |-> Types, seq_num |-> Seqs,
           timestamp |-> Stamps, ssrc |-> Sources, framenum |-> Framenums,
           slicenum |-> Slicenums]

\* The bytes implement a record of fields: whatever the order of the calls, the
\* getter of a field returns what its setter was given last, cut to the field's
\* width, no other getter's result changes, and the payload always starts at
\* byte 20.
HF == INSTANCE HeaderFields WITH field <- Fields(p), Inputs <- Inputs
ImplementsHeaderFields == HF!FSpec
=============================================================================
