--------------------------- MODULE QualityControl ---------------------------
(***************************************************************************)
(* The feedback path: a key typed at a receiver changes the JPEG quality   *)
(* of the sender.  A receiver's control thread (mysender_thread.c) reads   *)
(* keys from its terminal and writes them to a TCP connection; the         *)
(* sender's control thread (myreceiver_thread.c) accepts the connections,  *)
(* reads the keys and updates ctrl_jpg_quality, which the sender's capture *)
(* thread copies once per frame (read_frame).  The sender may be killed    *)
(* and started again while receivers stay connected to the old one.        *)
(***************************************************************************)
EXTENDS Integers, Sequences, FiniteSets

CONSTANTS
  Clients,   \* the receivers on this host
  MSG_SIZE,  \* 10: most bytes that the server takes with one read
  Quality0,  \* -Q of the sender
  MaxKeys    \* bound: keys typed at each receiver

ASSUME ParamsAssumption ==
  /\ MSG_SIZE \in Nat \ {0} /\ Quality0 \in Int /\ MaxKeys \in [Clients -> Nat]
  /\ IsFiniteSet(Clients)

Newline == [key |-> "\n", id |-> 0]
\* The id-th key typed; "other" is any but these two and NUL (Ctrl-@), which the
\* users are taken not to type: strlen finds nothing of it, so nothing is written.
Keys == [key : {"+", "-", "other"}, id : Nat \ {0}]
Bytes == Keys \cup {Newline}

VARIABLES
  patient,          \* history: do the users wait until a key is taken
  listening,        \* of server_sockfd: "no", "yes", or "failed"
  ctrl_jpg_quality, \* the variable the sender's two threads share
  jpg_quality,      \* net_par.st.jpg_quality
  client,           \* what becomes of a receiver, one of ClientStates
  accepted,         \* has the server the connection in readfds
  tty,              \* keys that the receiver's terminal holds
  stdio,            \* keys in the buffer of the receiver's stdin
  wire,             \* bytes of the connection that the server has not read
  restarted,        \* has the sender been killed and started again
  typed,            \* history: keys typed so far
  applied           \* history: ids of the keys that the server saw

vars == <<patient, listening, ctrl_jpg_quality, jpg_quality, client, accepted,
          tty, stdio, wire, restarted, typed, applied>>

\* refused: it exits; closed: by its user; orphan: its sender has died;
\* broken: the connection is known to be reset; killed: by SIGPIPE; gone: a
\* closed one that the next sender never hears of.
ClientStates == {"starting", "connected", "refused", "closed", "orphan",
                 "broken", "killed", "gone"}

c_vars == <<patient, client, tty, stdio, typed>>              \* of the receivers
s_vars == <<listening, ctrl_jpg_quality, accepted, restarted, applied>>

Init ==
  /\ patient \in BOOLEAN /\ restarted = FALSE
  /\ listening = "no" /\ ctrl_jpg_quality = Quality0 /\ jpg_quality = Quality0
  /\ client = [c \in Clients |-> "starting"]
  /\ accepted = [c \in Clients |-> FALSE]
  /\ tty = [c \in Clients |-> <<>>] /\ stdio = [c \in Clients |-> <<>>]
  /\ wire = [c \in Clients |-> <<>>] /\ typed = [c \in Clients |-> <<>>]
  /\ applied = [c \in Clients |-> <<>>]

-----------------------------------------------------------------------------
(* The receiver's control thread, and its user.                            *)

\* connect; when nobody listens the thread ends the whole receiver.
Connect(c) ==
  /\ client[c] = "starting"
  /\ client' = [client EXCEPT
                  ![c] = IF listening = "yes" THEN "connected" ELSE "refused"]
  /\ UNCHANGED <<patient, s_vars, jpg_quality, tty, stdio, wire, typed>>

Drained(c) == tty[c] = <<>> /\ stdio[c] = <<>> /\ wire[c] = <<>>

\* A key reaches the terminal; canonical mode and echo are off.
Type(c) ==
  /\ client[c] \in {"connected", "orphan", "broken"}
  /\ Len(typed[c]) < MaxKeys[c]
  /\ patient => Drained(c)
  /\ \E key \in {"+", "-", "other"} :
       LET b == [key |-> key, id |-> Len(typed[c]) + 1]
       IN /\ tty' = [tty EXCEPT ![c] = Append(@, b)]
          /\ typed' = [typed EXCEPT ![c] = Append(@, b)]
  /\ UNCHANGED <<patient, s_vars, jpg_quality, client, stdio, wire>>

\* mutant: fgetc takes the terminal's keys before those it holds
StdinNewestFirst(c) == tty[c] \o stdio[c]

\* fgetc takes all that the terminal has when its own buffer is empty.
Stdin(c) == IF stdio[c] = <<>> THEN tty[c] ELSE stdio[c]

\* What write does: a connection whose sender has died takes the first bytes,
\* which are lost and answered by a reset; the next write raises SIGPIPE, which
\* nobody handles, and ends the receiver.
Write(c, bytes) ==
  \/ /\ client[c] = "connected"
     /\ wire' = [wire EXCEPT ![c] = @ \o bytes] /\ UNCHANGED client
  \/ /\ client[c] = "orphan" /\ UNCHANGED wire
     /\ \E state \in {"orphan", "broken"} : client' = [client EXCEPT ![c] = state]
  \/ /\ client[c] = "broken" /\ UNCHANGED wire
     /\ client' = [client EXCEPT ![c] = "killed"]

\* mutant: every fgetc takes what the terminal has
ForwardKeyFetchingAll(c) ==
  /\ tty[c] # <<>> /\ tty' = [tty EXCEPT ![c] = <<>>]
  /\ Write(c, <<Head(Stdin(c)), Newline>>)
  /\ stdio' = [stdio EXCEPT ![c] = Tail(@ \o tty[c])]
  /\ UNCHANGED <<patient, s_vars, jpg_quality, typed>>

\* select returns because the terminal has a key: fgetc and write.  Keys that
\* only stdin's buffer holds do not make select return.
ForwardKey(c) ==
  /\ tty[c] # <<>>
  /\ Write(c, <<Head(Stdin(c)), Newline>>)
  /\ stdio' = [stdio EXCEPT ![c] = Tail(Stdin(c))]
  /\ tty' = [tty EXCEPT ![c] = IF stdio[c] = <<>> THEN <<>> ELSE @]
  /\ UNCHANGED <<patient, s_vars, jpg_quality, typed>>

\* A hasty user closes the receiver.  It has never read the greeting, so its end is
\* reset, and what the server has not read yet may be lost.
Quit(c) ==
  /\ ~patient /\ client[c] = "connected"
  /\ client' = [client EXCEPT ![c] = "closed"]
  /\ \E n \in 0 .. Len(wire[c]) :
       wire' = [wire EXCEPT ![c] = SubSeq(@, 1, n)]
  /\ tty' = [tty EXCEPT ![c] = <<>>] /\ stdio' = [stdio EXCEPT ![c] = <<>>]
  /\ UNCHANGED <<patient, s_vars, jpg_quality, typed>>

-----------------------------------------------------------------------------
(* The sender's control thread.                                            *)

\* bind and listen, whose results nobody looks at: bind fails while the port
\* lingers in connections of an earlier sender.
Listen ==
  /\ listening = "no"
  /\ listening' \in {"yes", "failed"}
  /\ UNCHANGED <<ctrl_jpg_quality, accepted, restarted, applied, jpg_quality,
                 wire, c_vars>>

\* accept, FD_SET and the greeting.  The connection may be closed already.
Accept(c) ==
  /\ listening = "yes" /\ ~accepted[c]
  /\ client[c] \in {"connected", "closed"}
  /\ accepted' = [accepted EXCEPT ![c] = TRUE]
  /\ UNCHANGED <<listening, ctrl_jpg_quality, restarted, applied, jpg_quality,
                 wire, c_vars>>

\* mutant: any key but '+' lowers the quality
AdjustmentOtherwiseDown(key) == IF key = "+" THEN 1 ELSE -1

Adjustment(key) == CASE key = "+" -> 1 [] key = "-" -> -1 [] OTHER -> 0

\* mutant: the bytes read stay in the connection (recv with MSG_PEEK)
NothingTaken(bytes, n) == bytes

\* What read leaves of a connection, having taken n bytes.
Rest(bytes, n) == SubSeq(bytes, n + 1, Len(bytes))

\* mutant: the last byte of the message decides
LastByte(bytes, n) == bytes[n]

\* msg[0] of the n bytes read: the only one the server looks at.
Msg0(bytes, n) == bytes[1]

\* mutant: a newline is taken for a key
SeenNewline(ids, byte) == Append(ids, byte.id)

\* The keys among the bytes looked at.
Seen(ids, byte) == IF byte = Newline THEN ids ELSE Append(ids, byte.id)

\* read takes any number of the bytes there are, up to MSG_SIZE.
ReadClient(c) ==
  /\ accepted[c]
  /\ \E n \in 1 .. Len(wire[c]) :
       LET msg0 == Msg0(wire[c], n)
       IN /\ n <= MSG_SIZE
          /\ wire' = [wire EXCEPT ![c] = Rest(@, n)]
          /\ ctrl_jpg_quality' = ctrl_jpg_quality + Adjustment(msg0.key)
          /\ applied' = [applied EXCEPT ![c] = Seen(@, msg0)]
  /\ UNCHANGED <<listening, accepted, restarted, jpg_quality, c_vars>>

-----------------------------------------------------------------------------
(* The sender's capture thread.                                            *)

\* mutant: the quality is not copied, as in read_frame_actua
ReadFrameActua == UNCHANGED vars

\* read_frame copies the quality first thing.
ReadFrame ==
  /\ jpg_quality' = ctrl_jpg_quality
  /\ UNCHANGED <<s_vars, wire, c_vars>>

\* The sender is killed and started again.  Its connections end, with what
\* they held; the receivers do not notice until they write.
Orphaned(state) ==
  CASE state = "connected" -> "orphan" [] state = "closed" -> "gone"
    [] OTHER -> state

Restart ==
  /\ ~restarted /\ restarted' = TRUE
  /\ listening' = "no" /\ ctrl_jpg_quality' = Quality0 /\ jpg_quality' = Quality0
  /\ accepted' = [c \in Clients |-> FALSE] /\ wire' = [c \in Clients |-> <<>>]
  /\ client' = [c \in Clients |-> Orphaned(client[c])]
  /\ UNCHANGED <<patient, tty, stdio, typed, applied>>

-----------------------------------------------------------------------------
ClientThread(c) == Connect(c) \/ ForwardKey(c)
ServerThread == Listen \/ \E c \in Clients : Accept(c) \/ ReadClient(c)

Next == \/ ServerThread \/ ReadFrame \/ Restart
        \/ \E c \in Clients : ClientThread(c) \/ Type(c) \/ Quit(c)

Spec == Init /\ [][Next]_vars

\* The server's loop handles every ready descriptor of a round, and the
\* camera goes on delivering frames; users need not type.
FairSpec ==
  /\ Spec
  /\ WF_vars(Listen) /\ WF_vars(ReadFrame)
  /\ \A c \in Clients : /\ WF_vars(ClientThread(c))
                        /\ WF_vars(Accept(c)) /\ WF_vars(ReadClient(c))

-----------------------------------------------------------------------------
(* Properties.                                                             *)

TypeOK ==
  /\ patient \in BOOLEAN
  /\ listening \in {"no", "yes", "failed"}
  /\ ctrl_jpg_quality \in Int /\ jpg_quality \in Int
  /\ client \in [Clients -> ClientStates] /\ restarted \in BOOLEAN
  /\ accepted \in [Clients -> BOOLEAN]
  /\ tty \in [Clients -> Seq(Keys)] /\ stdio \in [Clients -> Seq(Keys)]
  /\ wire \in [Clients -> Seq(Bytes)] /\ typed \in [Clients -> Seq(Keys)]
  /\ applied \in [Clients -> Seq(Nat \ {0})]

\* However the terminal, stdin's buffer and the connection divide the keys,
\* whenever a receiver is closed and the sender restarted, the path is a knob:
\* each key of a receiver acts at most once and in the order they were typed,
\* none is passed over when the users are patient, and a restarted sender
\* begins again with its option.
Abstract == INSTANCE Knob WITH quality <- ctrl_jpg_quality
ImplementsKnob == Abstract!Spec

\* What the users of the receivers connected to this sender asked for.
Presses(key) ==
  UNION {{c} \X {i \in 1 .. Len(typed[c]) : typed[c][i].key = key} :
           c \in {d \in Clients : client[d] = "connected"}}
Asked == Cardinality(Presses("+")) - Cardinality(Presses("-"))

\* When the users wait for each key to be taken, the sender has obeyed every key
\* of the receivers connected to it once nothing is on its way, whatever the
\* pieces that read returned and although several receivers feed one variable.
NoKeyLost ==
  patient /\ (\A c \in Clients : Drained(c)) =>
    ctrl_jpg_quality = Quality0 + Asked

\* Keys typed ahead wait in stdin's buffer, which select does not see; but when
\* one more key is typed all of them go out, without waiting for a key each,
\* unless the receiver is killed meanwhile.
BufferedKeysGoOut ==
  \A c \in Clients :
    (stdio[c] # <<>> /\ tty[c] # <<>>) ~> (stdio[c] = <<>> \/ client[c] = "killed")

\* What patient users asked for reaches the encoder.
EncoderFollows == <>[](patient => jpg_quality = Quality0 + Asked)
=============================================================================
