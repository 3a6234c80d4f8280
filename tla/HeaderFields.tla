---------------------------- MODULE HeaderFields ----------------------------
(***************************************************************************)
(* What the accessors of faros_polito_IMG_rtp.h promise: a header is a     *)
(* record of fields of fixed widths; initialising it clears all of them    *)
(* but the constant ones, setting a field changes that field only, and the *)
(* field then holds the value it was set to, cut to its width.             *)
(* A number of 32 bits is the pair of its halves.                          *)
(***************************************************************************)
EXTENDS Naturals

CONSTANT Inputs   \* for each field that is set, the values it is set to

VARIABLE field

\* What a field keeps of a value: its lowest bits.  A marker is one bit, a
\* timestamp and an ssrc keep all their 32.
Cut(name, v) == IF name \in {"seq_num", "framenum", "slicenum"} THEN v % 65536
                ELSE IF name = "payload_type" THEN v % 128 ELSE v

\* RTP version 2, one extension word of type 0xEEEE: 12 + 4 + 4 bytes.
Cleared == [version |-> 2, extension |-> 1, marker |-> 0, payload_type |-> 0,
            seq_num |-> 0, timestamp |-> <<0, 0>>, ssrc |-> <<0, 0>>,
            extension_type |-> 61166, header_len |-> 20,
            framenum |-> 0, slicenum |-> 0]

Clear == field' = Cleared

Set(name) ==
  \E v \in Inputs[name] : field' = [field EXCEPT ![name] = Cut(name, v)]

FInit == field = Cleared

FNext == Clear \/ \E name \in DOMAIN Inputs : Set(name)

FSpec == FInit /\ [][FNext]_field
=============================================================================
