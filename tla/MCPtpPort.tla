----------------------------- MODULE MCPtpPort -----------------------------
(***************************************************************************)
(* PtpPort with three other clocks around a clock 2: clock 1 is better,    *)
(* clock 3 is worse, and clock 4 is a boundary clock one step from 1.      *)
(* The arithmetic of times is compared with that of numbers, for seconds   *)
(* of a few nanoseconds and small words.                                   *)
(***************************************************************************)
EXTENDS PtpPort, PtpArith

OwnDS == [src |-> 2, gm |-> 2, prio |-> 5, steps |-> 0]
AnnouncedDS == {[src |-> 1, gm |-> 1, prio |-> 1, steps |-> 0],
                [src |-> 3, gm |-> 3, prio |-> 9, steps |-> 0],
                [src |-> 4, gm |-> 1, prio |-> 1, steps |-> 1]}

-----------------------------------------------------------------------------
Small == {t \in Normal : t.seconds \in -2 .. 2}

\* addTime, subTime and div2Time compute with numbers of nanoseconds.
ASSUME SmallSumsAreExact ==
  \A x, y \in Small : /\ Is(addTime(x, y), Nanos(x) + Nanos(y))
                      /\ Is(subTime(x, y), Nanos(x) - Nanos(y))
ASSUME SmallHalvesAreExact ==
  \A x \in Small : Is(div2Time(x), Quotient(Nanos(x), 2))

\* scaledNanosecondsToInternalTime drops the fraction, for either sign; the least long
\* word alone, which wraps when it is negated, comes out with the other sign.
ASSUME SmallCorrectionsAreExact ==
  /\ \A n \in 0 .. HalfLong \div Scale - 1, f \in {0, 1, Scale - 1} :
       \A v \in {n * Scale + f} :
         /\ Is(scaledNanosecondsToInternalTime(v), n)
         /\ Is(scaledNanosecondsToInternalTime(-v), -n)
  /\ Is(scaledNanosecondsToInternalTime(-HalfLong), HalfLong \div Scale)

\* Two clocks o nanoseconds apart and d from each other, the messages sent at a and b.
TimeOf(n) == At(Quotient(n, Second), Remainder(n, Second))
ASSUME SmallPathIsMeasured ==
  \A o \in -7 .. 7, d \in 0 .. 4, a, b \in {0, 3, 9}, k \in 0 .. 2 :
    LET ms    == Tms(TimeOf(a), TimeOf(a + d + o + k), TimeOf(k))
        sm    == Tsm(TimeOf(b + o), TimeOf(b + d + k), TimeOf(k))
        delay == meanPathDelay(ms, sm)
    IN  Is(delay, d) /\ Is(offsetFromMaster(ms, delay), o)
=============================================================================
