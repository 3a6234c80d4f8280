----------------------------- MODULE Statistics -----------------------------
(***************************************************************************)
(* The line that each program prints about every second (update_stat of    *)
(* faros_polito_IMG_sender.c and of faros_polito_IMG_receiver.c), computed *)
(* from counters in a struct that both share (sender_stat_t of             *)
(* faros_polito_IMG_net.h) and that are reset after each line.  The delay  *)
(* of the receiver is a difference of 32-bit clocks.                       *)
(***************************************************************************)
EXTENDS Integers, Sequences, FiniteSetsExt

CONSTANTS
  Second,      \* ticks of the clock in a second
  ClockMod,    \* 2^32: get_abs_clock_usec_32bit
  IntMod,      \* 2^32: an int is IntMod values, half of them negative
  NPck,        \* st.pck_per_frame
  Pcks,        \* [bytes, valid] that a packet of the sender may have
  Gaps,        \* ticks from one frame to the next
  Encodings,   \* ticks that encoding and sending a frame may take
  MaxDelay,    \* bound: ticks from camera to screen
  MaxInvalid,  \* bound: invalid slices of one frame at the receiver
  MaxFrames,   \* bound: frames counted
  Starts,      \* times at which the program starts
  NoMin, NoMinDelay \* 1000000 and 2100000000, larger than any value

ASSUME StatParams ==
  /\ {Second, ClockMod, IntMod, NPck, MaxFrames} \subseteq Nat \ {0}
  /\ IntMod % 2 = 0 /\ {NoMin, NoMinDelay} \subseteq Nat
  /\ Gaps \subseteq Nat \ {0} /\ Encodings \subseteq Nat /\ Starts \subseteq Nat \ {0}
  /\ MaxDelay \in Nat /\ MaxInvalid \in Nat
  /\ Pcks \subseteq [bytes : Nat \ {0}, valid : BOOLEAN]
  /\ \A p \in Pcks : p.bytes < NoMin

\* -T needs delays that a signed 32-bit number holds: 35 minutes.
ASSUME DelaysFit == MaxDelay < ClockMod \div 2 /\ MaxDelay < NoMinDelay

\* The runs considered are shorter than an overflow of pck_num.all: with 25
\* packets in a frame and 15 frames in a second that is two months.
ASSUME CountersFit == NPck * MaxFrames < IntMod \div 2

\* A line is of at most so many frames: the last comes a second after the line
\* before, or after the first frame of all.  Their sums fit an int; that of the
\* delays does for delays of two minutes at 15 frames in a second.
MostFrames == (Second - 1) \div Min(Gaps) + 2
ASSUME WindowFits ==
  LET Fits(n) == n < IntMod \div 2
  IN /\ \A p \in Pcks : Fits(MostFrames * NPck * p.bytes)
     /\ Fits(MostFrames * MaxDelay) /\ Fits(MostFrames * MaxInvalid)

VARIABLES
  program,   \* "sender" or "receiver"
  now,       \* the clock of the host; both hosts agree (NTP)
  s,         \* net_par.stat
  \* history
  window,    \* the frames counted since the last line
  report,    \* the last line, and the frames it should be about
  printed    \* frames in all lines

vars == <<program, now, s, window, report, printed>>

NoReport == [line |-> <<>>, of |-> <<>>]

\* static: the struct is all zero.
Zero == [all |-> 0, last |-> 0]
Init ==
  /\ program \in {"sender", "receiver"} /\ now \in Starts
  /\ s = [time_start |-> 0, time_last |-> 0, pck_num |-> Zero,
          pck_bytes |-> Zero, frames |-> Zero, pck_max |-> Zero,
          pck_min |-> Zero, pck_avg |-> Zero, pck_invalid |-> Zero,
          enc |-> 0, delay |-> 0, delay_min |-> 0, delay_max |-> 0]
  /\ window = <<>> /\ report = NoReport /\ printed = 0

-----------------------------------------------------------------------------
(* Arithmetic of int.                                                      *)

\* mutant: a wider type
Wide(n) == n

\* An overflowing sum wraps in the builds in use.
Int32(n) == ((n + IntMod \div 2) % IntMod) - IntMod \div 2

\* Division rounds towards zero.
Quotient(a, b) == IF a >= 0 THEN a \div b ELSE -((-a) \div b)

Plus(counter, n) == [all |-> Int32(counter.all + n), last |-> Int32(counter.last + n)]
Larger(a, b) == IF a > b THEN a ELSE b
Smaller(a, b) == IF a < b THEN a ELSE b
Highest(counter, n) == [all |-> Larger(counter.all, n), last |-> Larger(counter.last, n)]
Lowest(counter, n) == [all |-> Smaller(counter.all, n), last |-> Smaller(counter.last, n)]

-----------------------------------------------------------------------------
(* update_stat of the sender, with the time time_before_enc and the list.  *)

\* The first call sets the times and the minima.
Started(t) ==
  IF s.time_start # 0 THEN s
  ELSE [s EXCEPT !.time_start = t, !.time_last = t, !.enc = 0,
                 !.pck_min = IF program = "sender" THEN [all |-> NoMin, last |-> NoMin]
                             ELSE @,
                 !.delay_min = IF program = "sender" THEN @ ELSE NoMinDelay]

\* One round of the loop over the list: the counters and tot_bytes.
CountPck(c, p) ==
  [stat |-> [c.stat EXCEPT !.pck_max = Highest(@, p.bytes),
                           !.pck_min = Lowest(@, p.bytes),
                           !.pck_invalid = IF p.valid THEN @ ELSE Plus(@, 1)],
   tot |-> c.tot + p.bytes]

\* The loop.
CountList(st, list) ==
  LET counted[i \in 0 .. NPck] ==
        IF i = 0 THEN [stat |-> st, tot |-> 0]
        ELSE CountPck(counted[i - 1], list[i])
  IN counted[NPck]

Average(num, bytes) == [all  |-> Quotient(bytes.all, num.all),
                        last |-> Quotient(bytes.last, num.last)]

CountSent(t, list, took) ==
  LET c     == CountList(Started(t), list)
      num   == Plus(c.stat.pck_num, NPck)
      bytes == Plus(c.stat.pck_bytes, c.tot)
  IN [c.stat EXCEPT !.pck_num = num, !.pck_bytes = bytes,
                    !.frames = Plus(@, 1), !.pck_avg = Average(num, bytes),
                    !.enc = @ + took]

SenderLine(st) == [pck |-> st.pck_num.last, bytes |-> st.pck_bytes.last,
                   min |-> st.pck_min.last, max |-> st.pck_max.last,
                   avg |-> st.pck_avg.last, fps |-> st.frames.last,
                   enc |-> st.enc, invalid |-> st.pck_invalid.last]

\* mutant: the largest size of a packet is not reset
SenderResetKeepsMax(st, t) ==
  [st EXCEPT !.pck_num.last = 0, !.pck_bytes.last = 0, !.frames.last = 0,
             !.pck_min.last = NoMin, !.pck_avg.last = 0, !.pck_invalid.last = 0,
             !.time_last = t, !.enc = 0]

SenderReset(st, t) ==
  [st EXCEPT !.pck_num.last = 0, !.pck_bytes.last = 0, !.frames.last = 0,
             !.pck_max.last = 0, !.pck_min.last = NoMin, !.pck_avg.last = 0,
             !.pck_invalid.last = 0, !.time_last = t, !.enc = 0]

-----------------------------------------------------------------------------
(* That of the receiver, with the delay its caller computes.               *)

Clock32(t) == t % ClockMod

\* A difference of two unsigned numbers, stored in an int.
Delay(timestamp, t) ==
  LET d == (Clock32(t) - timestamp) % ClockMod
  IN IF d < ClockMod \div 2 THEN d ELSE d - ClockMod

CountShown(t, delay) ==
  [Started(t) EXCEPT !.frames = Plus(@, 1), !.delay = Int32(@ + delay),
                     !.delay_max = Larger(@, delay),
                     !.delay_min = Smaller(@, delay)]

ReceiverLine(st) == [min |-> st.delay_min, max |-> st.delay_max,
                     avg |-> Quotient(st.delay, st.frames.last),
                     fps |-> st.frames.last, invalid |-> st.pck_invalid.last]

\* mutant: the slices found invalid are counted on
ReceiverResetKeepsInvalid(st, t) ==
  [st EXCEPT !.frames.last = 0, !.time_last = t, !.delay = 0,
             !.delay_min = NoMinDelay, !.delay_max = 0]

ReceiverReset(st, t) ==
  [st EXCEPT !.frames.last = 0, !.time_last = t, !.delay = 0,
             !.delay_min = NoMinDelay, !.delay_max = 0, !.pck_invalid.last = 0]

-----------------------------------------------------------------------------
\* mutant: a second must have gone by, not just be reached
DueLate(st, t) == t - st.time_last > Second

Due(st, t) == t - st.time_last >= Second

\* A second after the last line: print another, of the frames since then.
LineIfDue(st, t, frames, line, reset) ==
  IF Due(st, t)
  THEN /\ s' = reset
       /\ report' = [line |-> line, of |-> frames]
       /\ printed' = printed + st.frames.last
       /\ window' = <<>>
  ELSE s' = st /\ window' = frames /\ UNCHANGED <<report, printed>>

\* A frame was encoded and sent, between time_before_enc and now; before that the
\* sender has waited for the camera.
SenderStat ==
  /\ program = "sender" /\ s.frames.all < MaxFrames
  /\ \E gap \in Gaps, took \in Encodings, list \in [1 .. NPck -> Pcks] :
       LET t  == now + gap
           st == CountSent(t, list, took)
       IN /\ took <= gap /\ now' = t
          /\ LineIfDue(st, t, Append(window, [list |-> list, took |-> took]),
                   SenderLine(st), SenderReset(st, t))
  /\ UNCHANGED program

\* A frame of the receiver: slices of it were found invalid, it was put on the
\* screen, and its delay d is read off its timestamp.
ReceiverStat ==
  /\ program = "receiver" /\ s.frames.all < MaxFrames
  /\ \E gap \in Gaps, d \in 0 .. MaxDelay, n \in 0 .. MaxInvalid :
       LET t  == now + gap
           st == [CountShown(t, Delay(Clock32(t - d), t))
                    EXCEPT !.pck_invalid = Plus(@, n)]
       IN /\ now' = t
          /\ LineIfDue(st, t, Append(window, [delay |-> d, invalid |-> n]),
                   ReceiverLine(st), ReceiverReset(st, t))
  /\ UNCHANGED program

Next == \/ SenderStat \/ ReceiverStat
        \/ s.frames.all = MaxFrames /\ UNCHANGED vars

Spec == Init /\ [][Next]_vars

-----------------------------------------------------------------------------
(* Properties.                                                             *)

Counter == [all : Int, last : Int]
Ints == -(IntMod \div 2) .. IntMod \div 2 - 1

TypeOK ==
  /\ program \in {"sender", "receiver"} /\ now \in Nat /\ printed \in Nat
  /\ {s.pck_num, s.pck_bytes, s.frames, s.pck_invalid} \subseteq [all : Ints, last : Ints]
  /\ {s.pck_max, s.pck_min, s.pck_avg} \subseteq Counter
  /\ {s.time_start, s.time_last, s.enc, s.delay_min, s.delay_max} \subseteq Nat
  /\ s.delay \in Ints

\* v[1] + .. + v[n]
Total(v, n) ==
  LET sum[i \in 0 .. n] == IF i = 0 THEN 0 ELSE sum[i - 1] + v[i] IN sum[n]

Bytes(f) == Total([j \in 1 .. NPck |-> f.list[j].bytes], NPck)
Invalid(f) == Total([j \in 1 .. NPck |-> IF f.list[j].valid THEN 0 ELSE 1], NPck)
Sizes(w) == {w[i].list[j].bytes : i \in 1 .. Len(w), j \in 1 .. NPck}
Delays(w) == {w[i].delay : i \in 1 .. Len(w)}

\* What the sender's line should say of the frames w.
SenderTruth(w) ==
  LET n == Len(w)
      bytes == Total([i \in 1 .. n |-> Bytes(w[i])], n)
  IN [pck |-> NPck * n, bytes |-> bytes, min |-> Min(Sizes(w)), max |-> Max(Sizes(w)),
      avg |-> bytes \div (NPck * n), fps |-> n,
      enc |-> Total([i \in 1 .. n |-> w[i].took], n),
      invalid |-> Total([i \in 1 .. n |-> Invalid(w[i])], n)]

\* And the receiver's: the delays are those on an unlimited clock.
ReceiverTruth(w) ==
  LET n == Len(w)
  IN [min |-> Min(Delays(w)), max |-> Max(Delays(w)),
      avg |-> Total([i \in 1 .. n |-> w[i].delay], n) \div n, fps |-> n,
      invalid |-> Total([i \in 1 .. n |-> w[i].invalid], n)]

\* A line is about the frames since the line before it and about no others:
\* sizes, rates, delays and invalid slices are theirs, although the totals may
\* have overflowed and the 32-bit clock may have wrapped between a frame's
\* capture and its display.
LineIsOfItsWindow ==
  report # NoReport =>
    report.line = IF program = "sender" THEN SenderTruth(report.of)
                                        ELSE ReceiverTruth(report.of)

\* Every frame is in exactly one line: the frames printed and those since are
\* all, and those since are of less than a second.
FrameInOneLine ==
  /\ printed + Len(window) = s.frames.all
  /\ Len(window) > 0 => now - s.time_last < Second
=============================================================================
