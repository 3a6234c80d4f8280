-------------------------------- MODULE Knob --------------------------------
(***************************************************************************)
(* What the users are promised of the feedback path: the sender's quality  *)
(* is a knob that the keys typed at all receivers turn.                    *)
(***************************************************************************)
EXTENDS Integers, Sequences, SequencesExt

CONSTANTS Clients, Quality0

VARIABLES
  patient,  \* do the users wait until a key is taken
  typed,    \* the keys each has typed, as records with a field key
  applied,  \* per receiver, the positions in typed of the keys obeyed
  quality   \* the position of the knob

vars == <<patient, typed, applied, quality>>

Init ==
  /\ patient \in BOOLEAN /\ quality = Quality0
  /\ typed = [c \in Clients |-> <<>>] /\ applied = [c \in Clients |-> <<>>]

Press(c) ==
  /\ \E key \in {"+", "-", "other"} :
       typed' = [typed EXCEPT ![c] =
                   Append(@, [key |-> key, id |-> Len(@) + 1])]
  /\ UNCHANGED <<patient, applied, quality>>

Turn == [key \in {"+", "-", "other"} |->
           CASE key = "+" -> 1 [] key = "-" -> -1 [] OTHER -> 0]

LastObeyed(c) == IF applied[c] = <<>> THEN 0 ELSE Last(applied[c])

\* A key is obeyed: one typed after the last that was, and with patient users
\* the very next.
Obey(c) ==
  /\ \E i \in LastObeyed(c) + 1 .. Len(typed[c]) :
       /\ patient => i = LastObeyed(c) + 1
       /\ applied' = [applied EXCEPT ![c] = Append(@, i)]
       /\ quality' = quality + Turn[typed[c][i].key]
  /\ UNCHANGED <<patient, typed>>

\* The sender is started again.
Restart == quality' = Quality0 /\ UNCHANGED <<patient, typed, applied>>

Next == Restart \/ \E c \in Clients : Press(c) \/ Obey(c)

Spec == Init /\ [][Next]_vars
=============================================================================
