--------------------------- MODULE PtpArithProofs ---------------------------
(***************************************************************************)
(* The arithmetic of times is that of numbers of nanoseconds, and the      *)
(* servo measures what it is meant to, for every size of a second and of   *)
(* a word in which two numbers of nanoseconds can be added.                *)
(***************************************************************************)
EXTENDS PtpArith, TLAPS

\* What the assumption says of the two sizes.
LEMMA Sizes ==
  /\ Second \in Nat /\ Second > 0 /\ HalfRange \in Nat
  /\ 2 * Second <= HalfRange /\ HalfRange >= 2
  BY WidthAssumption, SMT

\* What the remainder is near zero.
LEMMA ModBelow == ASSUME NEW n \in Nat \ {0}, NEW x \in 0 .. n - 1 PROVE x % n = x
  BY SMT

\* A number that fits in a word is its own word.
LEMMA WordIs == ASSUME NEW v \in Words PROVE Word(v) = v
<1>1. 2 * HalfRange \in Nat \ {0} /\ v + HalfRange \in 0 .. 2 * HalfRange - 1 /\ v \in Int
  BY Sizes, SMT DEF Words
<1>2. (v + HalfRange) % (2 * HalfRange) = v + HalfRange BY <1>1, ModBelow, Zenon
<1> QED BY <1>1, <1>2, Sizes, SMT DEF Word

\* So does one that fits in a long word.
LEMMA LongIs == ASSUME NEW v \in -HalfLong .. HalfLong - 1 PROVE Long(v) = v
<1>1. 2 * HalfLong \in Nat \ {0} /\ v + HalfLong \in 0 .. 2 * HalfLong - 1 /\ v \in Int
  BY LongAssumption, SMT DEF Scale
<1>2. (v + HalfLong) % (2 * HalfLong) = v + HalfLong BY <1>1, ModBelow, Zenon
<1> QED BY <1>1, <1>2, LongAssumption, SMT DEF Long, Scale

\* Numbers below two seconds of nanoseconds fit in a word.
LEMMA TwoSecondsFit ==
  ASSUME NEW n \in -(2 * Second - 1) .. 2 * Second - 1
  PROVE  n \in Words /\ n \in Int
  BY Sizes, SMT DEF Words

\* Below two seconds, the quotient by a second is at most one.
LEMMA Carries ==
  ASSUME NEW n \in -(2 * Second - 1) .. 2 * Second - 1
  PROVE  Quotient(n, Second) = IF n >= Second THEN 1 ELSE IF n <= -Second THEN -1 ELSE 0
<1>1. \A k, m \in Nat : k > 0 /\ m < k => m \div k = 0 BY SMT
<1>2. \A k, m \in Nat : k > 0 /\ k <= m /\ m < 2 * k => m \div k = 1 BY SMT
<1> QED BY <1>1, <1>2, Sizes, SMT DEF Quotient

\* What a time in normal form is, by its two numbers.
LEMMA NormalParts ==
  ASSUME NEW s \in Words, NEW n \in -(Second - 1) .. Second - 1,
         s > 0 => n >= 0, s < 0 => n <= 0
  PROVE  At(s, n) \in Normal /\ Nanos(At(s, n)) = s * Second + n
<1>1. At(s, n).seconds = s /\ At(s, n).nanoseconds = n BY SMT DEF At
<1>2. n \in Words BY TwoSecondsFit, Sizes, SMT
<1>3. At(s, n) \in Time BY <1>2, SMT DEF At, Time
<1> QED BY <1>1, <1>3, SMT DEF Normal, Nanos

\* The two numbers of a time in normal form.
LEMMA NormalFields ==
  ASSUME NEW t \in Normal
  PROVE  /\ t.seconds \in Words /\ t.seconds \in Int /\ t.nanoseconds \in Int
         /\ t.nanoseconds \in -(Second - 1) .. Second - 1
         /\ t.seconds > 0 => t.nanoseconds >= 0
         /\ t.seconds < 0 => t.nanoseconds <= 0
         /\ Nanos(t) = t.seconds * Second + t.nanoseconds /\ Nanos(t) \in Int
<1>1. /\ t \in Time /\ t.nanoseconds \in -(Second - 1) .. Second - 1
      /\ t.seconds > 0 => t.nanoseconds >= 0
      /\ t.seconds < 0 => t.nanoseconds <= 0
  BY Zenon DEF Normal
<1>2. t.seconds \in Words BY <1>1, Zenon DEF Time
<1>3. t.seconds \in Int /\ t.nanoseconds \in Int BY <1>1, <1>2, Sizes, SMT DEF Words
<1>4. \A a, b, c \in Int : a * b + c \in Int BY SMT
<1>5. Nanos(t) \in Int BY <1>3, <1>4, Sizes, SMT DEF Nanos
<1> QED BY <1>1, <1>2, <1>3, <1>5, Zenon DEF Nanos

-----------------------------------------------------------------------------
\* normalizeTime gives the normal form of what it is handed, while the nanoseconds are
\* below two seconds and there is room for the carry.
LEMMA NormalizeIs ==
  ASSUME NEW s \in -(HalfRange - 1) .. HalfRange - 2,
         NEW n \in -(2 * Second - 1) .. 2 * Second - 1
  PROVE  Is(normalizeTime(At(s, n)), s * Second + n)
<1> DEFINE q == Quotient(n, Second)
           m == n - q * Second
<1>1. q = IF n >= Second THEN 1 ELSE IF n <= -Second THEN -1 ELSE 0 BY Carries, Zenon
<1> HIDE DEF q
<1>2. /\ q \in {-1, 0, 1} /\ q * Second \in {-Second, 0, Second}
      /\ m \in -(Second - 1) .. Second - 1 /\ s + q \in Words
      /\ q * Second \in -(2 * Second - 1) .. 2 * Second - 1
      /\ (s + q) * Second + m = s * Second + n
  <2>1. CASE n >= Second BY <1>1, <2>1, Sizes, SMT DEF Words
  <2>2. CASE n <= -Second BY <1>1, <2>2, Sizes, SMT DEF Words
  <2>3. CASE -Second < n /\ n < Second BY <1>1, <2>3, Sizes, SMT DEF Words
  <2> QED BY <2>1, <2>2, <2>3, Sizes, SMT
<1> HIDE DEF m
<1>3. Carried(At(s, n)) = At(s + q, m)
  <2>1. At(s, n).seconds = s /\ At(s, n).nanoseconds = n BY SMT DEF At
  <2>2. Word(q * Second) = q * Second /\ Word(s + q) = s + q
    BY <1>2, TwoSecondsFit, WordIs, Zenon
  <2>3. m \in -(2 * Second - 1) .. 2 * Second - 1 BY <1>2, Sizes, SMT
  <2>4. Word(n - q * Second) = n - q * Second
    BY <2>3, TwoSecondsFit, WordIs, Zenon DEF m
  <2> QED BY <2>1, <2>2, <2>4, Zenon DEF Carried, q, m
<1>4. At(s + q, m).seconds = s + q /\ At(s + q, m).nanoseconds = m BY SMT DEF At
<1> DEFINE x == s + q
<1>5. x \in Words /\ x \in Int /\ m \in Int /\ x * Second + m = s * Second + n
  BY <1>2, Sizes, SMT DEF Words
<1> HIDE DEF x
<1>6. normalizeTime(At(s, n)) = OneSign(At(x, m)) /\ At(x, m).seconds = x
      /\ At(x, m).nanoseconds = m
  BY <1>3, <1>4, Zenon DEF normalizeTime, x
<1>7. CASE x > 0 /\ m < 0
  <2>1. /\ x - 1 \in Words /\ x - 1 >= 0 /\ m + Second > 0
        /\ m + Second \in -(Second - 1) .. Second - 1
        /\ m + Second \in -(2 * Second - 1) .. 2 * Second - 1
        /\ (x - 1) * Second + (m + Second) = x * Second + m
    BY <1>2, <1>5, <1>7, Sizes, SMT DEF Words
  <2>2. normalizeTime(At(s, n)) = At(x - 1, m + Second)
    <3>1. Word(x - 1) = x - 1 /\ Word(m + Second) = m + Second
      BY <2>1, TwoSecondsFit, WordIs, Zenon
    <3>2. ~(x < 0 /\ m > 0) BY <1>5, <1>7, SMT
    <3> QED BY <1>6, <1>7, <3>1, <3>2, SMT DEF OneSign
  <2>3. At(x - 1, m + Second) \in Normal
        /\ Nanos(At(x - 1, m + Second)) = (x - 1) * Second + (m + Second)
    <3>1. (x - 1 > 0 => m + Second >= 0) /\ (x - 1 < 0 => m + Second <= 0)
      BY <1>2, <1>5, <2>1, Sizes, SMT
    <3> QED BY <2>1, <3>1, NormalParts
  <2> QED BY <1>5, <2>1, <2>2, <2>3, Zenon DEF Is
<1>8. CASE x < 0 /\ m > 0
  <2>1. /\ x + 1 \in Words /\ x + 1 <= 0 /\ m - Second < 0
        /\ m - Second \in -(Second - 1) .. Second - 1
        /\ m - Second \in -(2 * Second - 1) .. 2 * Second - 1
        /\ (x + 1) * Second + (m - Second) = x * Second + m
    BY <1>2, <1>5, <1>8, Sizes, SMT DEF Words
  <2>2. normalizeTime(At(s, n)) = At(x + 1, m - Second)
    <3>1. Word(x + 1) = x + 1 /\ Word(m - Second) = m - Second
      BY <2>1, TwoSecondsFit, WordIs, Zenon
    <3>2. ~(x > 0 /\ m < 0) BY <1>5, <1>8, SMT
    <3> QED BY <1>6, <1>8, <3>1, <3>2, SMT DEF OneSign
  <2>3. At(x + 1, m - Second) \in Normal
        /\ Nanos(At(x + 1, m - Second)) = (x + 1) * Second + (m - Second)
    <3>1. (x + 1 > 0 => m - Second >= 0) /\ (x + 1 < 0 => m - Second <= 0)
      BY <1>2, <1>5, <2>1, Sizes, SMT
    <3> QED BY <2>1, <3>1, NormalParts
  <2> QED BY <1>5, <2>1, <2>2, <2>3, Zenon DEF Is
<1>9. CASE ~(x > 0 /\ m < 0) /\ ~(x < 0 /\ m > 0)
  <2>1. normalizeTime(At(s, n)) = At(x, m) BY <1>6, <1>9, SMT DEF OneSign
  <2>2. (x > 0 => m >= 0) /\ (x < 0 => m <= 0) BY <1>2, <1>5, <1>9, SMT
  <2>3. At(x, m) \in Normal /\ Nanos(At(x, m)) = x * Second + m
    BY <1>2, <1>5, <2>2, NormalParts
  <2> QED BY <1>5, <2>1, <2>3, Zenon DEF Is
<1> QED BY <1>7, <1>8, <1>9

\* If the nanoseconds of a sum fit, so do its seconds.
LEMMA SecondsFit ==
  ASSUME NEW s \in Int, NEW n \in -(2 * Second - 1) .. 2 * Second - 1,
         Fits(s * Second + n)
  PROVE  s \in -(HalfRange - 1) .. HalfRange - 2 /\ s \in Words
<1> DEFINE big == (HalfRange - 3) * Second
<1>1. /\ s * Second + n >= -big /\ s * Second + n <= big
      /\ big = HalfRange * Second - 3 * Second
      /\ s * Second \in Int /\ HalfRange * Second \in Int /\ n \in Int
  BY Sizes, SMT DEF Fits
<1> HIDE DEF big
<1>2. s * Second < HalfRange * Second - Second /\ s * Second > -(HalfRange * Second) + Second
  BY <1>1, Sizes, SMT
<1>3. ASSUME NEW a \in Int, NEW b \in Int, a * Second < b * Second PROVE a < b
  BY <1>3, Sizes, SMT
<1>4. /\ (HalfRange - 1) * Second = HalfRange * Second - Second
      /\ (-(HalfRange - 1)) * Second = -(HalfRange * Second) + Second
  BY Sizes, SMT
<1>5. s < HalfRange - 1
  <2>1. HalfRange - 1 \in Int /\ s * Second < (HalfRange - 1) * Second
    BY <1>1, <1>2, <1>4, Sizes, SMT
  <2> QED BY <1>3, <2>1
<1>6. -(HalfRange - 1) < s
  <2>1. -(HalfRange - 1) \in Int /\ (-(HalfRange - 1)) * Second < s * Second
    BY <1>1, <1>2, <1>4, Sizes, SMT
  <2> QED BY <1>3, <2>1
<1> QED BY <1>5, <1>6, Sizes, SMT DEF Words

-----------------------------------------------------------------------------
\* arith.c:75-106: as long as the result fits, the sum and the difference of two times
\* are those of their nanoseconds, in normal form; no word overflows on the way.
THEOREM SumsAreExact ==
  ASSUME NEW x \in Normal, NEW y \in Normal
  PROVE  /\ Fits(Nanos(x) + Nanos(y)) => Is(addTime(x, y), Nanos(x) + Nanos(y))
         /\ Fits(Nanos(x) - Nanos(y)) => Is(subTime(x, y), Nanos(x) - Nanos(y))
<1> DEFINE a == x.seconds
           b == y.seconds
           m == x.nanoseconds
           n == y.nanoseconds
<1>1. /\ a \in Int /\ b \in Int /\ m \in Int /\ n \in Int
      /\ m \in -(Second - 1) .. Second - 1 /\ n \in -(Second - 1) .. Second - 1
      /\ Nanos(x) = a * Second + m /\ Nanos(y) = b * Second + n
  BY NormalFields
<1> HIDE DEF a, b, m, n
<1>2. ASSUME Fits(Nanos(x) + Nanos(y))
      PROVE  Is(addTime(x, y), Nanos(x) + Nanos(y))
  <2> DEFINE s == a + b
             k == m + n
  <2>1. /\ s \in Int /\ k \in -(2 * Second - 1) .. 2 * Second - 1
        /\ s * Second + k = Nanos(x) + Nanos(y)
    BY <1>1, Sizes, SMT
  <2> HIDE DEF s, k
  <2>2. Fits(s * Second + k) BY <1>2, <2>1, Zenon
  <2>3. s \in -(HalfRange - 1) .. HalfRange - 2 /\ s \in Words
    BY <2>1, <2>2, SecondsFit
  <2>4. Word(s) = s /\ Word(k) = k BY <2>1, <2>3, TwoSecondsFit, WordIs, Zenon
  <2>5. addTime(x, y) = normalizeTime(At(s, k))
    BY <2>4, Zenon DEF addTime, s, k, a, b, m, n
  <2> QED BY <2>1, <2>3, <2>5, NormalizeIs, Zenon
<1>3. ASSUME Fits(Nanos(x) - Nanos(y))
      PROVE  Is(subTime(x, y), Nanos(x) - Nanos(y))
  <2> DEFINE s == a - b
             k == m - n
  <2>1. /\ s \in Int /\ k \in -(2 * Second - 1) .. 2 * Second - 1
        /\ s * Second + k = Nanos(x) - Nanos(y)
    BY <1>1, Sizes, SMT
  <2> HIDE DEF s, k
  <2>2. Fits(s * Second + k) BY <1>3, <2>1, Zenon
  <2>3. s \in -(HalfRange - 1) .. HalfRange - 2 /\ s \in Words
    BY <2>1, <2>2, SecondsFit
  <2>4. Word(s) = s /\ Word(k) = k BY <2>1, <2>3, TwoSecondsFit, WordIs, Zenon
  <2>5. subTime(x, y) = normalizeTime(At(s, k))
    BY <2>4, Zenon DEF subTime, s, k, a, b, m, n
  <2> QED BY <2>1, <2>3, <2>5, NormalizeIs, Zenon
<1> QED BY <1>2, <1>3

\* arith.c:108-115: half of a time is half of its nanoseconds, rounded towards zero, for
\* either sign: what the odd second leaves over goes into the nanoseconds.
THEOREM HalvesAreExact ==
  ASSUME NEW x \in Normal
  PROVE  Is(div2Time(x), Quotient(Nanos(x), 2))
<1> DEFINE s == x.seconds
           n == x.nanoseconds
           h == Quotient(s, 2)
           r == Remainder(s, 2)
           k == n + r * Second
           l == Quotient(k, 2)
<1>1. /\ s \in Int /\ n \in Int /\ s \in Words /\ n \in -(Second - 1) .. Second - 1
      /\ s > 0 => n >= 0
      /\ s < 0 => n <= 0
      /\ Nanos(x) = s * Second + n
  BY NormalFields
<1> HIDE DEF s, n
<1>2. /\ h \in Int /\ r \in {-1, 0, 1} /\ s = 2 * h + r
      /\ r > 0 => s > 0 /\ h >= 0
      /\ r < 0 => s < 0 /\ h <= 0
      /\ h > 0 => s > 0
      /\ h < 0 => s < 0
      /\ r = 0 => (s > 0 => h > 0) /\ (s < 0 => h < 0)
      /\ h \in -(HalfRange - 1) .. HalfRange - 2
  BY <1>1, Sizes, SMT DEF Quotient, Remainder, Words
<1> HIDE DEF h, r
<1>3. /\ k \in -(2 * Second - 1) .. 2 * Second - 1 /\ k \in Int
      /\ h > 0 => k >= 0
      /\ h < 0 => k <= 0
      /\ r * Second \in -(2 * Second - 1) .. 2 * Second - 1
      /\ Nanos(x) = 2 * (h * Second) + k
  <2>1. CASE r = -1 BY <1>1, <1>2, <2>1, Sizes, SMT
  <2>2. CASE r = 0 BY <1>1, <1>2, <2>2, Sizes, SMT
  <2>3. CASE r = 1 BY <1>1, <1>2, <2>3, Sizes, SMT
  <2> QED BY <1>2, <2>1, <2>2, <2>3
<1>4. Word(r * Second) = r * Second /\ Word(k) = k
  BY <1>3, TwoSecondsFit, WordIs, Zenon
<1>5. div2Time(x) = normalizeTime(At(h, l))
  BY <1>4, Zenon DEF div2Time, s, n, h, r, k, l
<1> HIDE DEF k
<1>6. l \in -(Second - 1) .. Second - 1 BY <1>3, Sizes, SMT DEF Quotient
<1>7. h * Second + l = Quotient(Nanos(x), 2)
  <2> DEFINE z == h * Second
  <2>1. z \in Int /\ (z > 0 => k >= 0) /\ (z < 0 => k <= 0)
    BY <1>2, <1>3, Sizes, SMT
  <2> HIDE DEF z
  <2>2. Nanos(x) = 2 * z + k BY <1>3 DEF z
  <2>3. Quotient(2 * z + k, 2) = z + Quotient(k, 2)
    BY <1>3, <2>1, SMT DEF Quotient
  <2> QED BY <2>2, <2>3, Zenon DEF z, l
<1> HIDE DEF l
<1>8. l \in -(2 * Second - 1) .. 2 * Second - 1 BY <1>6, Sizes, SMT
<1> QED BY <1>2, <1>5, <1>7, <1>8, NormalizeIs, Zenon

\* The seconds and the rest of a number of nanoseconds that is not negative.
LEMMA PartsOf ==
  ASSUME NEW n \in Nat, n < HalfRange * Second
  PROVE  /\ Quotient(n, Second) \in 0 .. HalfRange - 1
         /\ Remainder(n, Second) \in 0 .. Second - 1
         /\ Quotient(n, Second) * Second + Remainder(n, Second) = n
<1>1. Quotient(n, Second) = n \div Second BY SMT DEF Quotient
<1>2. ASSUME NEW a \in Nat, NEW b \in Nat, b > 0
      PROVE  /\ a \div b \in Nat
             /\ (a \div b) * b <= a
             /\ a < b * ((a \div b) + 1)
             /\ \A c \in Nat : a < c * b => a \div b < c
  <2>1. a \div b \in Nat BY <1>2, SMT
  <2>2. (a \div b) * b <= a BY <1>2, SMT
  <2>3. a < b * ((a \div b) + 1) BY <1>2, SMT
  <2>4. \A c \in Nat : a < c * b => a \div b < c BY <1>2, SMT
  <2> QED BY <2>1, <2>2, <2>3, <2>4
<1> DEFINE q == Quotient(n, Second)
<1>3. /\ q \in Nat /\ q * Second <= n /\ n < Second * (q + 1) /\ q < HalfRange
  BY <1>1, <1>2, Sizes
<1> HIDE DEF q
<1>4. q * Second \in Int /\ Second * (q + 1) = q * Second + Second
  BY <1>3, Sizes, SMT
<1>5. n - q * Second \in 0 .. Second - 1 /\ q * Second + (n - q * Second) = n
      /\ q \in 0 .. HalfRange - 1
  BY <1>3, <1>4, Sizes, SMT
<1> QED BY <1>5, Zenon DEF q, Remainder

\* arith.c:5-29: a correction of a message is taken without its fraction, rounded
\* towards zero for either sign, and its seconds fit; but for the least long word, whose
\* negation (arith.c:13-15) overflows.
THEOREM CorrectionsAreExact ==
  ASSUME NEW v \in -(HalfLong - 1) .. HalfLong - 1
  PROVE  Is(scaledNanosecondsToInternalTime(v), Quotient(v, Scale))
<1>0. /\ v \in Int /\ -v \in -HalfLong .. HalfLong - 1
      /\ v < Scale * (HalfRange * Second) /\ -v < Scale * (HalfRange * Second)
  <2> DEFINE most == Scale * (HalfRange * Second)
  <2>1. most \in Int BY Sizes, SMT DEF Scale
  <2>2. HalfLong \in Nat /\ HalfLong <= most BY LongAssumption, Zenon
  <2> HIDE DEF most
  <2>3. v \in Int /\ -v \in -HalfLong .. HalfLong - 1 /\ v < most /\ -v < most
    BY <2>1, <2>2, SMT
  <2> QED BY <2>3, Zenon DEF most
<1>1. ASSUME NEW size \in Nat, size < Scale * (HalfRange * Second)
      PROVE  size \div Scale \in Nat /\ size \div Scale < HalfRange * Second
  <2>1. HalfRange * Second \in Nat BY Sizes, SMT
  <2>2. ASSUME NEW t \in Nat, NEW a \in Nat, a < Scale * t
        PROVE  a \div Scale \in Nat /\ a \div Scale < t
    BY <2>2, SMT DEF Scale
  <2> QED BY <1>1, <2>1, <2>2, Zenon
<1>2. CASE v >= 0
  <2> DEFINE n == v \div Scale
             q == Quotient(n, Second)
             r == Remainder(n, Second)
  <2>1. n \in Nat /\ n < HalfRange * Second
    <3>1. v \in Nat BY <1>0, <1>2, SMT
    <3> QED BY <1>0, <1>1, <3>1, Zenon
  <2>2. Quotient(v, Scale) = n BY <1>2, Zenon DEF Quotient
  <2>3. scaledNanosecondsToInternalTime(v) = At(Word(1 * q), Word(1 * r))
    <3>1. ~(v < 0) BY <1>0, <1>2, SMT
    <3> QED BY <3>1, Zenon DEF scaledNanosecondsToInternalTime
  <2> HIDE DEF n
  <2>4. q \in 0 .. HalfRange - 1 /\ r \in 0 .. Second - 1 /\ q * Second + r = n
    BY <2>1, PartsOf, Zenon
  <2> HIDE DEF q, r
  <2>5. /\ 1 * q = q /\ 1 * r = r /\ q \in Words
        /\ r \in -(Second - 1) .. Second - 1
        /\ r \in -(2 * Second - 1) .. 2 * Second - 1
        /\ q > 0 => r >= 0
        /\ q < 0 => r <= 0
    BY <2>4, Sizes, SMT DEF Words
  <2>6. Word(q) = q /\ Word(r) = r BY <2>5, TwoSecondsFit, WordIs, Zenon
  <2>7. At(q, r) \in Normal /\ Nanos(At(q, r)) = q * Second + r BY <2>5, NormalParts
  <2> QED BY <2>2, <2>3, <2>4, <2>5, <2>6, <2>7, Zenon DEF Is
<1>3. CASE v < 0
  <2> DEFINE n == (-v) \div Scale
             q == Quotient(n, Second)
             r == Remainder(n, Second)
  <2>1. n \in Nat /\ n < HalfRange * Second
    <3>1. -v \in Nat BY <1>0, <1>3, SMT
    <3> QED BY <1>0, <1>1, <3>1, Zenon
  <2>2. Quotient(v, Scale) = -n
    <3>1. ~(v >= 0) BY <1>0, <1>3, SMT
    <3> QED BY <3>1, Zenon DEF Quotient
  <2>3. scaledNanosecondsToInternalTime(v) = At(Word((-1) * q), Word((-1) * r))
    <3>1. Long(-v) = -v BY <1>0, LongIs, Zenon
    <3> QED BY <1>3, <3>1, Zenon DEF scaledNanosecondsToInternalTime
  <2> HIDE DEF n
  <2>4. q \in 0 .. HalfRange - 1 /\ r \in 0 .. Second - 1 /\ q * Second + r = n
    BY <2>1, PartsOf, Zenon
  <2> HIDE DEF q, r
  <2> DEFINE a == (-1) * q
             b == (-1) * r
  <2>5. /\ a = -q /\ b = -r /\ a \in Words
        /\ b \in -(Second - 1) .. Second - 1
        /\ b \in -(2 * Second - 1) .. 2 * Second - 1
        /\ a > 0 => b >= 0
        /\ a < 0 => b <= 0
    BY <2>4, Sizes, SMT DEF Words
  <2> HIDE DEF a, b
  <2>6. a * Second + b = -n
    <3>1. a * Second = -(q * Second) /\ q * Second \in Int BY <2>4, <2>5, Sizes, SMT
    <3> QED BY <2>1, <2>4, <2>5, <3>1, Sizes, SMT
  <2>7. Word(a) = a /\ Word(b) = b BY <2>5, TwoSecondsFit, WordIs, Zenon
  <2>8. At(a, b) \in Normal /\ Nanos(At(a, b)) = a * Second + b BY <2>5, NormalParts
  <2>9. scaledNanosecondsToInternalTime(v) = At(a, b) BY <2>3, <2>7, Zenon DEF a, b
  <2> QED BY <2>2, <2>6, <2>8, <2>9, Zenon DEF Is
<1> QED BY <1>0, <1>2, <1>3, SMT

\* Without seconds the nanoseconds of a normal time are the whole of it.
LEMMA SecondsOf ==
  ASSUME NEW t \in Normal
  PROVE  /\ t.seconds = 0 <=> Nanos(t) \in -(Second - 1) .. Second - 1
         /\ t.seconds = 0 => t.nanoseconds = Nanos(t)
<1> DEFINE s == t.seconds
           n == t.nanoseconds
<1>1. /\ s \in Int /\ n \in Int /\ n \in -(Second - 1) .. Second - 1
      /\ s > 0 => n >= 0
      /\ s < 0 => n <= 0
      /\ Nanos(t) = s * Second + n
  BY NormalFields
<1> HIDE DEF s, n
<1>2. CASE s = 0 BY <1>1, <1>2, Sizes, SMT DEF s, n
<1>3. CASE s > 0
  <2>1. s * Second >= Second BY <1>1, <1>3, Sizes, SMT
  <2>2. Nanos(t) >= Second
    <3>1. s * Second \in Int BY <1>1, Sizes, SMT
    <3> QED BY <1>1, <1>3, <2>1, <3>1, Sizes, SMT
  <2> QED BY <1>3, <2>2, Sizes, SMT DEF s
<1>4. CASE s < 0
  <2>1. s * Second <= -Second BY <1>1, <1>4, Sizes, SMT
  <2>2. Nanos(t) <= -Second
    <3>1. s * Second \in Int BY <1>1, Sizes, SMT
    <3> QED BY <1>1, <1>4, <2>1, <3>1, Sizes, SMT
  <2> QED BY <1>4, <2>2, Sizes, SMT DEF s
<1> QED BY <1>1, <1>2, <1>3, <1>4

\* servo.c:139-175: updateOffset takes the delay from what it has measured, gives up when
\* the result has seconds, and then looks at the nanoseconds alone.  It gives up exactly
\* when the two are a second or more apart, and otherwise has the whole difference:
\* normalizeTime leaves no seconds that the nanoseconds take back.
THEOREM SecondsAreSeen ==
  ASSUME NEW ms \in Normal, NEW delay \in Normal, Fits(Nanos(ms) - Nanos(delay))
  PROVE  LET offset == offsetFromMaster(ms, delay)
             n      == Nanos(ms) - Nanos(delay)
         IN  /\ offset.seconds = 0 <=> n \in -(Second - 1) .. Second - 1
             /\ offset.seconds = 0 => offset.nanoseconds = n
<1> DEFINE offset == offsetFromMaster(ms, delay)
           n == Nanos(ms) - Nanos(delay)
<1>1. Is(offset, n) BY SumsAreExact, Zenon DEF offsetFromMaster
<1> HIDE DEF offset, n
<1>2. offset \in Normal /\ Nanos(offset) = n BY <1>1, Zenon DEF Is
<1>3. /\ offset.seconds = 0 <=> n \in -(Second - 1) .. Second - 1
      /\ offset.seconds = 0 => offset.nanoseconds = n
  BY <1>2, SecondsOf, Zenon
<1> QED BY <1>3, Zenon DEF offset, n

-----------------------------------------------------------------------------
\* Twice a number, halved.
LEMMA TwiceHalved == ASSUME NEW n \in Int PROVE Quotient(2 * n, 2) = n
  BY SMT DEF Quotient

\* servo.c:127-149 and 189-204: with a path that takes as long in both directions, the
\* servo computes, from the four times of a Sync and a Delay_Req and the two
\* corrections, exactly how long it takes and how far the clock is off.
THEOREM PathIsMeasured ==
  ASSUME NEW t1 \in Normal, NEW t2 \in Normal, NEW t3 \in Normal, NEW t4 \in Normal,
         NEW cs \in Normal, NEW cr \in Normal, NEW path \in Int, NEW offset \in Int,
         \* the slave's clock is ahead by offset
         Nanos(t2) = Nanos(t1) + path + Nanos(cs) + offset,
         Nanos(t4) = Nanos(t3) + path + Nanos(cr) - offset,
         Fits(path + Nanos(cs) + offset), Fits(path + offset),
         Fits(path + Nanos(cr) - offset), Fits(path - offset),
         Fits(2 * path), Fits(offset)
  PROVE  LET ms    == Tms(t1, t2, cs)
             sm    == Tsm(t3, t4, cr)
             delay == meanPathDelay(ms, sm)
         IN  Is(delay, path) /\ Is(offsetFromMaster(ms, delay), offset)
<1> DEFINE there == subTime(t2, t1)
           back  == subTime(t4, t3)
           ms    == Tms(t1, t2, cs)
           sm    == Tsm(t3, t4, cr)
           both  == addTime(ms, sm)
           delay == meanPathDelay(ms, sm)
<1>0. /\ Nanos(t1) \in Int /\ Nanos(t2) \in Int /\ Nanos(t3) \in Int /\ Nanos(t4) \in Int
      /\ Nanos(cs) \in Int /\ Nanos(cr) \in Int
  BY NormalFields
<1>1. Is(there, path + Nanos(cs) + offset) /\ Is(back, path + Nanos(cr) - offset)
  <2>1. /\ Nanos(t2) - Nanos(t1) = path + Nanos(cs) + offset
        /\ Nanos(t4) - Nanos(t3) = path + Nanos(cr) - offset
    BY <1>0, SMT
  <2>2. Is(there, Nanos(t2) - Nanos(t1)) BY <2>1, SumsAreExact, Zenon
  <2>3. Is(back, Nanos(t4) - Nanos(t3)) BY <2>1, SumsAreExact, Zenon
  <2> QED BY <2>1, <2>2, <2>3, Zenon
<1> HIDE DEF there, back
<1>2. Is(ms, path + offset) /\ Is(sm, path - offset)
  <2>1. there \in Normal /\ back \in Normal BY <1>1, Zenon DEF Is
  <2>2. Nanos(there) - Nanos(cs) = path + offset /\ Nanos(back) - Nanos(cr) = path - offset
    <3>1. /\ Nanos(there) = path + Nanos(cs) + offset
          /\ Nanos(back) = path + Nanos(cr) - offset
      BY <1>1, Zenon DEF Is
    <3> QED BY <1>0, <3>1, SMT
  <2>3. Is(subTime(there, cs), path + offset) BY <2>1, <2>2, SumsAreExact, Zenon
  <2>4. Is(subTime(back, cr), path - offset) BY <2>1, <2>2, SumsAreExact, Zenon
  <2> QED BY <2>3, <2>4, Zenon DEF Tms, Tsm, there, back
<1> HIDE DEF ms, sm
<1>3. /\ ms \in Normal /\ Nanos(ms) = path + offset
      /\ sm \in Normal /\ Nanos(sm) = path - offset
  BY <1>2, Zenon DEF Is
<1>4. Is(both, 2 * path)
  <2>1. Nanos(ms) + Nanos(sm) = 2 * path BY <1>3, SMT
  <2> QED BY <1>3, <2>1, SumsAreExact, Zenon
<1> HIDE DEF both
<1>5. Is(delay, path)
  <2>1. both \in Normal /\ Nanos(both) = 2 * path BY <1>4, Zenon DEF Is
  <2>2. Is(div2Time(both), path) BY <2>1, HalvesAreExact, TwiceHalved, Zenon
  <2> QED BY <2>2, Zenon DEF meanPathDelay, both
<1> HIDE DEF delay
<1>6. Is(offsetFromMaster(ms, delay), offset)
  <2>1. delay \in Normal /\ Nanos(delay) = path BY <1>5, Zenon DEF Is
  <2>2. Nanos(ms) - Nanos(delay) = offset BY <1>3, <2>1, SMT
  <2>3. Is(subTime(ms, delay), offset) BY <1>3, <2>1, <2>2, SumsAreExact, Zenon
  <2> QED BY <2>3, Zenon DEF offsetFromMaster
<1> QED BY <1>5, <1>6 DEF ms, sm, delay

\* servo.c:217-238: the same for the path to the peer, which needs no clocks in
\* agreement: from the times of both ends, or, when the peer puts the time it took to
\* answer into the correction, from those of this end alone.
THEOREM PeerPathIsMeasured ==
  ASSUME NEW t1 \in Normal, NEW t2 \in Normal, NEW t3 \in Normal, NEW t4 \in Normal,
         NEW c \in Normal, NEW path \in Int, NEW offset \in Int
  PROVE  \* what is left in the correction is the delay in the clocks on the way
         /\ /\ Nanos(t2) = Nanos(t1) + path + offset
            /\ Nanos(t4) = Nanos(t3) + path + Nanos(c) - offset
            /\ Fits(path + offset) /\ Fits(path + Nanos(c) - offset)
            /\ Fits(2 * path + Nanos(c)) /\ Fits(2 * path)
            => Is(peerMeanPathDelay(t1, t2, t3, t4, c), path)
         /\ /\ Nanos(t4) = Nanos(t1) + 2 * path + Nanos(c)
            /\ Fits(2 * path + Nanos(c)) /\ Fits(2 * path)
            => Is(peerMeanPathDelayOneStep(t1, t4, c), path)
<1>0. /\ Nanos(t1) \in Int /\ Nanos(t2) \in Int /\ Nanos(t3) \in Int /\ Nanos(t4) \in Int
      /\ Nanos(c) \in Int
  BY NormalFields
\* Both variants end with the same two steps.
<1>1. ASSUME NEW d, Is(d, 2 * path + Nanos(c)), Fits(2 * path)
      PROVE  Is(div2Time(subTime(d, c)), path)
  <2>1. d \in Normal /\ Nanos(d) = 2 * path + Nanos(c) BY <1>1, Zenon DEF Is
  <2>2. Nanos(d) - Nanos(c) = 2 * path BY <1>0, <2>1, SMT
  <2>3. Is(subTime(d, c), 2 * path) BY <1>1, <2>1, <2>2, SumsAreExact, Zenon
  <2>4. subTime(d, c) \in Normal /\ Nanos(subTime(d, c)) = 2 * path
    BY <2>3, Zenon DEF Is
  <2> QED BY <2>4, HalvesAreExact, TwiceHalved, Zenon
<1>2. ASSUME Nanos(t2) = Nanos(t1) + path + offset,
             Nanos(t4) = Nanos(t3) + path + Nanos(c) - offset,
             Fits(path + offset), Fits(path + Nanos(c) - offset),
             Fits(2 * path + Nanos(c)), Fits(2 * path)
      PROVE  Is(peerMeanPathDelay(t1, t2, t3, t4, c), path)
  <2> DEFINE ab == subTime(t2, t1)
             ba == subTime(t4, t3)
  <2>1. /\ Nanos(t2) - Nanos(t1) = path + offset
        /\ Nanos(t4) - Nanos(t3) = path + Nanos(c) - offset
    BY <1>0, <1>2, SMT
  <2>2. Is(ab, path + offset) BY <1>2, <2>1, SumsAreExact, Zenon
  <2>3. Is(ba, path + Nanos(c) - offset) BY <1>2, <2>1, SumsAreExact, Zenon
  <2> HIDE DEF ab, ba
  <2>4. /\ ab \in Normal /\ Nanos(ab) = path + offset
        /\ ba \in Normal /\ Nanos(ba) = path + Nanos(c) - offset
    BY <2>2, <2>3, Zenon DEF Is
  <2>5. Nanos(ab) + Nanos(ba) = 2 * path + Nanos(c) BY <1>0, <2>4, SMT
  <2>6. Is(addTime(ab, ba), 2 * path + Nanos(c))
    BY <1>2, <2>4, <2>5, SumsAreExact, Zenon
  <2> QED BY <1>1, <1>2, <2>6, Zenon DEF peerMeanPathDelay, ab, ba
<1>3. ASSUME Nanos(t4) = Nanos(t1) + 2 * path + Nanos(c),
             Fits(2 * path + Nanos(c)), Fits(2 * path)
      PROVE  Is(peerMeanPathDelayOneStep(t1, t4, c), path)
  <2>1. Nanos(t4) - Nanos(t1) = 2 * path + Nanos(c) BY <1>0, <1>3, SMT
  <2>2. Is(subTime(t4, t1), 2 * path + Nanos(c)) BY <1>3, <2>1, SumsAreExact, Zenon
  <2> QED BY <1>1, <1>3, <2>2, Zenon DEF peerMeanPathDelayOneStep
<1> QED BY <1>2, <1>3
=============================================================================
