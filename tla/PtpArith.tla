------------------------------ MODULE PtpArith ------------------------------
(***************************************************************************)
(* The times of the PTP daemon (PTPv2/src/arith.c) and what the servo      *)
(* computes from them before its filters (updateOffset, updateDelay and    *)
(* updatePeerDelay of dep/servo.c).                                        *)
(*                                                                         *)
(* A TimeInternal is a number of seconds and one of nanoseconds, each a    *)
(* signed word, and a correction is a signed long word.  The sizes are     *)
(* constants, so that small ones can be checked; in the code a second has  *)
(* 10^9 nanoseconds, and a word and a long word have half of their 2^32    *)
(* and 2^64 values on either side of zero.  C leaves open what an overflow *)
(* gives; here a word wraps.                                               *)
(***************************************************************************)
EXTENDS Integers

CONSTANTS
  Second,     \* nanoseconds in a second
  HalfRange,  \* half of the values of a word
  HalfLong    \* half of the values of a long word

\* Two numbers of nanoseconds below a second can be added.
ASSUME WidthAssumption ==
  Second \in Nat \ {0} /\ HalfRange \in Nat /\ 2 * Second <= HalfRange

Words == -HalfRange .. HalfRange - 1
Time  == [seconds : Words, nanoseconds : Words]
At(s, n) == [seconds |-> s, nanoseconds |-> n]

Word(v) == ((v + HalfRange) % (2 * HalfRange)) - HalfRange
Long(v) == ((v + HalfLong) % (2 * HalfLong)) - HalfLong

\* The division and the remainder of C, towards zero.
Quotient(a, b)  == IF a >= 0 THEN a \div b ELSE -((-a) \div b)
Remainder(a, b) == a - Quotient(a, b) * b

Nanos(t) == t.seconds * Second + t.nanoseconds

\* What every operation has to deliver: less than a second of nanoseconds, and no
\* two signs.
Normal ==
  {t \in Time : /\ t.nanoseconds \in -(Second - 1) .. Second - 1
                /\ t.seconds > 0 => t.nanoseconds >= 0
                /\ t.seconds < 0 => t.nanoseconds <= 0}

\* t is the time of n nanoseconds; the seconds of sums that fit in a word, and the
\* carry with them.
Is(t, n) == t \in Normal /\ Nanos(t) = n
Fits(n)  == n \in -((HalfRange - 3) * Second) .. (HalfRange - 3) * Second

-----------------------------------------------------------------------------
\* normalizeTime: whole seconds are carried, then the signs are made equal.
Carried(r) ==
  LET q == Quotient(r.nanoseconds, Second)
  IN  At(Word(r.seconds + q), Word(r.nanoseconds - Word(q * Second)))

OneSign(r) ==
  CASE r.seconds > 0 /\ r.nanoseconds < 0 ->
         At(Word(r.seconds - 1), Word(r.nanoseconds + Second))
    [] r.seconds < 0 /\ r.nanoseconds > 0 ->
         At(Word(r.seconds + 1), Word(r.nanoseconds - Second))
    [] OTHER -> r

normalizeTime(r) == OneSign(Carried(r))

addTime(x, y) ==
  normalizeTime(At(Word(x.seconds + y.seconds), Word(x.nanoseconds + y.nanoseconds)))
subTime(x, y) ==
  normalizeTime(At(Word(x.seconds - y.seconds), Word(x.nanoseconds - y.nanoseconds)))

div2Time(r) ==
  LET n == Word(r.nanoseconds + Word(Remainder(r.seconds, 2) * Second))
  IN  normalizeTime(At(Quotient(r.seconds, 2), Quotient(n, 2)))

\* scaledNanosecondsToInternalTime: the long word v counts 2^-16 of a nanosecond; the
\* fraction of the magnitude is dropped, by a shift that rounds down.  The least long
\* word has no magnitude.
Scale == 65536

\* The seconds of every long word fit in a word.
ASSUME LongAssumption ==
  HalfLong \in Nat \ {0} /\ HalfLong <= Scale * (HalfRange * Second)

scaledNanosecondsToInternalTime(v) ==
  LET sign == IF v < 0 THEN -1 ELSE 1
      n    == (IF v < 0 THEN Long(-v) ELSE v) \div Scale
  IN  At(Word(sign * Quotient(n, Second)), Word(sign * Remainder(n, Second)))

-----------------------------------------------------------------------------
\* updateOffset and updateDelay: from a Sync message sent at t1 and received at t2,
\* and a Delay_Req sent at t3 and received at t4, with what clocks on the way add.
Tms(t1, t2, correction) == subTime(subTime(t2, t1), correction)
Tsm(t3, t4, correction) == subTime(subTime(t4, t3), correction)
meanPathDelay(ms, sm)        == div2Time(addTime(ms, sm))
offsetFromMaster(ms, delay)  == subTime(ms, delay)

\* updatePeerDelay, with and without the times of the peer.
peerMeanPathDelay(t1, t2, t3, t4, correction) ==
  div2Time(subTime(addTime(subTime(t2, t1), subTime(t4, t3)), correction))
peerMeanPathDelayOneStep(t1, t4, correction) ==
  div2Time(subTime(subTime(t4, t1), correction))
=============================================================================
