-------------------------- MODULE MCQualityControl --------------------------
(***************************************************************************)
(* Three bytes per read instead of ten: a read may end inside a key's pair *)
(* of bytes and may take two keys, as ten bytes may take five.             *)
(***************************************************************************)
EXTENDS QualityControl

MCMsgSize == 3
MCQuality0 == 40             \* -Q 40, as in command.sh
CONSTANTS r1, r2
MCClients == {r1, r2}
MCMaxKeys == [c \in MCClients |-> IF c = r1 THEN 3 ELSE 1]
=============================================================================
