----------------------------- MODULE TimeProofs -----------------------------
(***************************************************************************)
(* What is proved of time-stamps, of the periodic counter, of the converter *)
(* and of the sampling handlers: TimeArith computes on seconds and          *)
(* nanoseconds what integers give, for every number of nanoseconds in a     *)
(* second, and prints numbers in groups of three; the log of a periodic     *)
(* counter is a complete time line; the converter turns every log into      *)
(* ASCII tuple by tuple; the sampling handlers log the tuples they promise. *)
(* All are about values that a recursive function gives, and rest on        *)
(* SetInduction.                                                            *)
(***************************************************************************)
EXTENDS PeriodicCounter, SamplingHandlers, LogConverter, SequenceFacts

-----------------------------------------------------------------------------
(* Time-stamps. *)

\* A product with a larger number of seconds is larger by a second at least.
LEMMA SecondsApart ==
  ASSUME NEW a \in Int, NEW b \in Int, NEW n \in Nat, a < b
  PROVE  a * n + n <= b * n
<1>1. PICK k \in Nat : b = (a + 1) + k
  <2>1. b - (a + 1) \in Nat /\ b = (a + 1) + (b - (a + 1))
    OBVIOUS
  <2> QED
    BY <2>1
<1>2. b * n = (a + 1) * n + k * n
  BY <1>1
<1>3. (a + 1) * n = a * n + n
  OBVIOUS
<1>4. k * n \in Nat /\ a * n \in Int
  OBVIOUS
<1> QED
  BY <1>2, <1>3, <1>4

\* A time-stamp of a number of nanoseconds is that number.
LEMMA FromNsExact ==
  ASSUME NEW n \in Int
  PROVE  fromNs(n) \in Timespec /\ inNs(fromNs(n)) = n
<1>1. PICK m \in Nat \ {0} : m = NANO_S_PER_S
  BY TimeAssumption
<1>2. n \div m \in Int /\ n % m \in 0 .. m - 1 /\ n = m * (n \div m) + (n % m)
  OBVIOUS
<1>3. fromNs(n).sec = n \div m /\ fromNs(n).nsec = n % m
  BY <1>1 DEF fromNs, ts
<1>4. fromNs(n) \in Timespec
  BY <1>1, <1>2 DEF fromNs, ts, Timespec
<1>5. inNs(fromNs(n)) = (n \div m) * m + (n % m)
  BY <1>1, <1>3 DEF inNs
<1>6. (n \div m) * m = m * (n \div m)
  BY <1>2
<1> QED
  BY <1>2, <1>4, <1>5, <1>6

\* The parts of a time-stamp.
LEMMA TimespecParts ==
  ASSUME NEW t \in Timespec
  PROVE  /\ t.sec \in Int /\ t.nsec \in 0 .. NANO_S_PER_S - 1 /\ t.nsec \in Nat
         /\ t.sec * NANO_S_PER_S \in Int /\ inNs(t) \in Int
<1>1. t.sec \in Int /\ t.nsec \in 0 .. NANO_S_PER_S - 1 /\ NANO_S_PER_S \in Nat
  BY TimeAssumption DEF Timespec
<1>2. t.nsec \in Nat /\ t.sec * NANO_S_PER_S \in Int
  BY <1>1
<1> QED
  BY <1>1, <1>2 DEF inNs

\* addTS adds, and its result is normal.
LEMMA AddExact ==
  ASSUME NEW t1 \in Timespec, NEW t2 \in Timespec
  PROVE  addTS(t1, t2) \in Timespec /\ inNs(addTS(t1, t2)) = inNs(t1) + inNs(t2)
<1>1. PICK m \in Nat \ {0} : m = NANO_S_PER_S
  BY TimeAssumption
<1>2. PICK a \in Int, b \in Int : a = t1.sec /\ b = t2.sec
  BY TimespecParts
<1>3. PICK x \in 0 .. m - 1, y \in 0 .. m - 1 : x = t1.nsec /\ y = t2.nsec
  BY <1>1, TimespecParts
<1>4. inNs(t1) = a * m + x /\ inNs(t2) = b * m + y
  BY <1>1, <1>2, <1>3 DEF inNs
<1>5. (a + b) * m = a * m + b * m /\ (a + b + 1) * m = a * m + b * m + m
      /\ a * m \in Int /\ b * m \in Int
  OBVIOUS
<1>6. CASE x + y >= m
  <2>1. addTS(t1, t2) = ts(a + b + 1, x + y - m)
    BY <1>1, <1>2, <1>3, <1>6 DEF addTS, carry
  <2>2. addTS(t1, t2) \in Timespec
    BY <1>1, <1>6, <2>1 DEF Timespec, ts
  <2>3. inNs(addTS(t1, t2)) = (a + b + 1) * m + (x + y - m)
    BY <1>1, <2>1 DEF inNs, ts
  <2> QED
    BY <1>4, <1>5, <2>2, <2>3
<1>7. CASE ~(x + y >= m)
  <2>1. addTS(t1, t2) = ts(a + b, x + y)
    BY <1>1, <1>2, <1>3, <1>7 DEF addTS, carry
  <2>2. addTS(t1, t2) \in Timespec
    BY <1>1, <1>7, <2>1 DEF Timespec, ts
  <2>3. inNs(addTS(t1, t2)) = (a + b) * m + (x + y)
    BY <1>1, <2>1 DEF inNs, ts
  <2> QED
    BY <1>4, <1>5, <2>2, <2>3
<1> QED
  BY <1>6, <1>7

\* subtractTS subtracts, and its result is normal.
LEMMA SubtractExact ==
  ASSUME NEW t1 \in Timespec, NEW t2 \in Timespec
  PROVE  subtractTS(t1, t2) \in Timespec /\ inNs(subtractTS(t1, t2)) = inNs(t2) - inNs(t1)
<1>1. PICK m \in Nat \ {0} : m = NANO_S_PER_S
  BY TimeAssumption
<1>2. PICK a \in Int, b \in Int : a = t1.sec /\ b = t2.sec
  BY TimespecParts
<1>3. PICK x \in 0 .. m - 1, y \in 0 .. m - 1 : x = t1.nsec /\ y = t2.nsec
  BY <1>1, TimespecParts
<1>4. inNs(t1) = a * m + x /\ inNs(t2) = b * m + y
  BY <1>1, <1>2, <1>3 DEF inNs
<1>5. (b - a) * m = b * m - a * m /\ (b - a - 1) * m = b * m - a * m - m
      /\ a * m \in Int /\ b * m \in Int
  OBVIOUS
<1>6. CASE y - x < 0
  <2>1. subtractTS(t1, t2) = ts(b - a - 1, y - x + m)
    BY <1>1, <1>2, <1>3, <1>6 DEF subtractTS, borrow
  <2>2. subtractTS(t1, t2) \in Timespec
    BY <1>1, <1>6, <2>1 DEF Timespec, ts
  <2>3. inNs(subtractTS(t1, t2)) = (b - a - 1) * m + (y - x + m)
    BY <1>1, <2>1 DEF inNs, ts
  <2> QED
    BY <1>4, <1>5, <2>2, <2>3
<1>7. CASE ~(y - x < 0)
  <2>1. subtractTS(t1, t2) = ts(b - a, y - x)
    BY <1>1, <1>2, <1>3, <1>7 DEF subtractTS, borrow
  <2>2. subtractTS(t1, t2) \in Timespec
    BY <1>1, <1>7, <2>1 DEF Timespec, ts
  <2>3. inNs(subtractTS(t1, t2)) = (b - a) * m + (y - x)
    BY <1>1, <2>1 DEF inNs, ts
  <2> QED
    BY <1>4, <1>5, <2>2, <2>3
<1> QED
  BY <1>6, <1>7

\* compareTS orders normal time-stamps as their times.
LEMMA CompareExact ==
  ASSUME NEW t1 \in Timespec, NEW t2 \in Timespec
  PROVE  compareTS(t1, t2) = sign(inNs(t1) - inNs(t2))
<1>1. PICK m \in Nat \ {0} : m = NANO_S_PER_S
  BY TimeAssumption
<1>2. PICK a \in Int, b \in Int : a = t1.sec /\ b = t2.sec
  BY TimespecParts
<1>3. PICK x \in 0 .. m - 1, y \in 0 .. m - 1 : x = t1.nsec /\ y = t2.nsec
  BY <1>1, TimespecParts
<1>4. inNs(t1) = a * m + x /\ inNs(t2) = b * m + y /\ a * m \in Int /\ b * m \in Int
  BY <1>1, <1>2, <1>3 DEF inNs
<1>5. t1 = t2 <=> a = b /\ x = y
  BY <1>2, <1>3 DEF Timespec
<1>6. compareTS(t1, t2) = IF a = b /\ x = y THEN 0
                          ELSE IF a < b \/ (a = b /\ x < y) THEN -1 ELSE 1
  BY <1>2, <1>3, <1>5 DEF compareTS
<1>7. CASE a < b
  <2>1. a * m + m <= b * m
    BY <1>7, SecondsApart
  <2> QED
    BY <1>4, <1>6, <1>7, <2>1 DEF sign
<1>8. CASE b < a
  <2>1. b * m + m <= a * m
    BY <1>8, SecondsApart
  <2> QED
    BY <1>4, <1>6, <1>8, <2>1 DEF sign
<1>9. CASE a = b
  BY <1>4, <1>6, <1>9 DEF sign
<1> QED
  BY <1>7, <1>8, <1>9

\* A number below the modulus is not changed by it.
LEMMA BelowModulus == ASSUME NEW w \in Nat \ {0}, NEW x \in Nat, x < w PROVE x % w = x
<1>1. PICK q \in Int : q = x \div w
  OBVIOUS
<1>2. PICK r \in 0 .. w - 1 : r = x % w
  OBVIOUS
<1>3. x = w * q + r
  BY <1>1, <1>2
<1>4. q = 0
  <2>1. CASE q > 0
    <3>1. 0 * w + w <= q * w
      BY <2>1, SecondsApart
    <3>2. q * w = w * q /\ q * w \in Int /\ 0 * w = 0
      OBVIOUS
    <3> QED
      BY <1>3, <3>1, <3>2
  <2>2. CASE q < 0
    <3>1. q * w + w <= 0 * w
      BY <2>2, SecondsApart
    <3>2. q * w = w * q /\ q * w \in Int /\ 0 * w = 0
      OBVIOUS
    <3> QED
      BY <1>3, <3>1, <3>2
  <2> QED
    BY <2>1, <2>2
<1> QED
  BY <1>2, <1>3, <1>4

\* Half of a sum, in seconds for which divideTS does not wrap around.
LEMMA HalfExact ==
  ASSUME NEW t \in Timespec, t.sec >= 0, t.sec < (WORD - 2) \div NANO_S_PER_S
  PROVE  divideTS(t, 2) = fromNs(inNs(t) \div 2)
<1>1. PICK m \in Nat \ {0} : m = NANO_S_PER_S
  BY TimeAssumption
<1>2. PICK w \in Nat \ {0} : w = WORD
  BY TimeAssumption
<1>3. PICK a \in Nat : a = t.sec
  BY TimespecParts
<1>4. PICK q \in Int : q = (w - 2) \div m
  OBVIOUS
<1>5. PICK r \in 0 .. m - 1 : r = (w - 2) % m
  OBVIOUS
<1>6. w - 2 = m * q + r
  BY <1>4, <1>5
<1>7. a * m + m <= q * m
  BY <1>1, <1>2, <1>3, <1>4, SecondsApart
<1>8. q * m = m * q /\ q * m \in Int /\ a * m \in Nat
  OBVIOUS
<1>9. inNs(t) = a * m + t.nsec /\ t.nsec \in 0 .. m - 1
  BY <1>1, <1>3, TimespecParts DEF inNs
<1>10. inNs(t) \in Nat /\ inNs(t) < w
  BY <1>6, <1>7, <1>8, <1>9
<1>11. inNs(t) % w = inNs(t)
  BY <1>10, BelowModulus
<1> QED
  BY <1>2, <1>11 DEF divideTS

-----------------------------------------------------------------------------
(* TimeArith. *)

TimeInv ==
  /\ clock \in Timespec /\ clock.sec >= 0
  /\ inc \in Timespec /\ inc.sec >= 0
  /\ printed \in Int

\* Sums of times that are not negative are not.
LEMMA AddNotNegative ==
  ASSUME NEW t1 \in Timespec, NEW t2 \in Timespec, t1.sec >= 0, t2.sec >= 0
  PROVE  addTS(t1, t2).sec >= 0
<1>1. t1.sec \in Int /\ t2.sec \in Int
  BY TimespecParts
<1>2. addTS(t1, t2).sec = t1.sec + t2.sec \/ addTS(t1, t2).sec = t1.sec + t2.sec + 1
  BY DEF addTS, ts
<1> QED
  BY <1>1, <1>2

\* The clock starts as a time-stamp.
LEMMA TimeInitInv == TimeInit => TimeInv
  BY TimeAssumption DEF TimeInit, TimeInv, Timespec, ts

\* Adding the increment keeps it one.
LEMMA TimeStepInv == TimeInv /\ [TimeNext]_timeVars => TimeInv'
<1> SUFFICES ASSUME TimeInv, [TimeNext]_timeVars PROVE TimeInv'
  OBVIOUS
<1>1. CASE Advance
  <2>1. clock' \in Timespec /\ clock'.sec >= 0
    BY <1>1, AddExact, AddNotNegative DEF Advance, TimeInv
  <2> QED
    BY <1>1, <2>1 DEF Advance, TimeInv
<1>2. CASE PrintNext
  BY <1>2, TimeAssumption DEF PrintNext, TimeInv
<1>3. CASE UNCHANGED timeVars
  BY <1>3 DEF timeVars, TimeInv
<1> QED
  BY <1>1, <1>2, <1>3 DEF TimeNext

\* Times computed on seconds and nanoseconds are exact.
LEMMA TimeInvExact == TimeInv => ClockNormal /\ TimeExact
<1> SUFFICES ASSUME TimeInv PROVE ClockNormal /\ TimeExact
  OBVIOUS
<1> USE DEF TimeInv
<1>1. ClockNormal
  BY TimespecParts DEF ClockNormal
<1>2. subtractTS(inc, clock) \in Timespec /\ inNs(subtractTS(inc, clock)) = inNs(clock) - inNs(inc)
  BY SubtractExact
<1>3. subtractTS(inc, clock).nsec \in 0 .. NANO_S_PER_S - 1
  BY <1>2, TimespecParts
<1>4. compareTS(clock, inc) = sign(inNs(clock) - inNs(inc))
  BY CompareExact
<1>5. addTS(inc, clock) \in Timespec /\ inNs(addTS(inc, clock)) = inNs(inc) + inNs(clock)
  BY AddExact
<1>6. inNs(clock) \in Int /\ inNs(inc) \in Int
  BY TimespecParts
<1>7. inNs(addTS(inc, clock)) = inNs(clock) + inNs(inc)
  BY <1>5, <1>6
<1>8. addTS(inc, clock).sec >= 0
  BY AddNotNegative
<1>9. addTS(inc, clock).sec < (WORD - 2) \div NANO_S_PER_S =>
        divideTS(addTS(inc, clock), 2) = fromNs((inNs(clock) + inNs(inc)) \div 2)
  BY <1>5, <1>7, <1>8, HalfExact
<1> QED
  BY <1>1, <1>2, <1>3, <1>4, <1>7, <1>9 DEF TimeExact

\* Quotient and remainder.
LEMMA DivMod ==
  ASSUME NEW n \in Nat, NEW m \in Nat \ {0}
  PROVE  /\ n \div m \in Nat /\ n % m \in 0 .. m - 1
         /\ n = m * (n \div m) + (n % m)
<1>1. n \div m \in Int /\ n % m \in 0 .. m - 1 /\ n = m * (n \div m) + (n % m)
  OBVIOUS
<1>2. PICK q \in Int : q = n \div m
  BY <1>1
<1>3. CASE q < 0
  <2>1. q * m + m <= 0 * m
    BY <1>3, SecondsApart
  <2>2. q * m = m * q /\ q * m \in Int /\ 0 * m = 0
    OBVIOUS
  <2> QED
    BY <1>1, <1>2, <2>1, <2>2
<1> QED
  BY <1>1, <1>2, <1>3

\* The parts formatDuration prints add up to the duration.
LEMMA DurationExact == TimeInv => DurationReadable
<1> SUFFICES ASSUME TimeInv, printed >= 0 PROVE DurationReadable
  BY DEF DurationReadable
<1>1. PICK t \in Nat : t = printed
  BY DEF TimeInv
<1> USE DEF S_PER_DAY, S_PER_HOUR, S_PER_MIN
<1>2. CASE t > 86400
  <2>1. PICK d \in Nat, h \in Nat, m \in Nat, s \in Nat :
          /\ formatDuration(t) = <<d, h, m, s>> /\ t = d * 86400 + h * 3600 + m * 60 + s
    <3>1. PICK d \in Nat, u \in Nat :
            /\ u < 86400 /\ d = t \div 86400 /\ u = t % 86400 /\ t = 86400 * d + u
      <4>1. PICK k \in Nat \ {0} : k = 86400
        OBVIOUS
      <4>2. t \div k \in Nat /\ t % k \in 0 .. k - 1 /\ t = k * (t \div k) + (t % k)
        BY DivMod
      <4>3. t % k \in Nat /\ t % k < k /\ t \div k \in Nat /\ t = k * (t \div k) + (t % k)
        BY <4>2
      <4> QED
        BY <4>1, <4>3
    <3>2. PICK h \in Nat, v \in Nat :
            /\ v < 3600 /\ h = u \div 3600 /\ v = u % 3600 /\ u = 3600 * h + v
      <4>1. PICK k \in Nat \ {0} : k = 3600
        OBVIOUS
      <4>2. u \div k \in Nat /\ u % k \in 0 .. k - 1 /\ u = k * (u \div k) + (u % k)
        BY DivMod
      <4>3. u % k \in Nat /\ u % k < k /\ u \div k \in Nat /\ u = k * (u \div k) + (u % k)
        BY <4>2
      <4> QED
        BY <4>1, <4>3
    <3>3. PICK m \in Nat, s \in Nat :
            /\ s < 60 /\ m = v \div 60 /\ s = v % 60 /\ v = 60 * m + s
      <4>1. PICK k \in Nat \ {0} : k = 60
        OBVIOUS
      <4>2. v \div k \in Nat /\ v % k \in 0 .. k - 1 /\ v = k * (v \div k) + (v % k)
        BY DivMod
      <4>3. v % k \in Nat /\ v % k < k /\ v \div k \in Nat /\ v = k * (v \div k) + (v % k)
        BY <4>2
      <4> QED
        BY <4>1, <4>3
    <3>4. h <= 23 /\ m <= 59
      BY <3>1, <3>2, <3>3
    <3>5. uint8(h) = h /\ uint8(m) = m /\ uint8(s) = s
      <4>1. PICK k \in Nat \ {0} : k = 256
        OBVIOUS
      <4>2. h % k = h /\ m % k = m /\ s % k = s
        BY <3>3, <3>4, <4>1, BelowModulus
      <4> QED
        BY <4>1, <4>2 DEF uint8
    <3>6. formatDuration(t) = <<d, uint8(h), uint8(m), uint8(s)>>
      BY <1>2, <3>1, <3>2, <3>3 DEF formatDuration, secs
    <3>7. t = d * 86400 + h * 3600 + m * 60 + s
      BY <3>1, <3>2, <3>3
    <3> QED
      BY <3>5, <3>6, <3>7
  <2> QED
    BY <1>1, <2>1 DEF DurationReadable
<1>3. CASE ~(t > 86400) /\ t > 3600
  <2>1. PICK h \in Nat, m \in Nat, s \in Nat :
          /\ formatDuration(t) = <<h, m, s>> /\ t = h * 3600 + m * 60 + s
    <3> DEFINE v == t % 3600
    <3>2. t = (t \div 3600) * 3600 + v /\ v \in 0 .. 3599 /\ t \div 3600 \in 0 .. 24
      BY <1>3
    <3>3. v = (v \div 60) * 60 + (v % 60) /\ v % 60 \in 0 .. 59 /\ v \div 60 \in 0 .. 59
      BY <3>2
    <3>4. /\ uint8(t \div 3600) = t \div 3600 /\ uint8(v \div 60) = v \div 60
          /\ uint8(v % 60) = v % 60
      BY <3>2, <3>3 DEF uint8
    <3>5. formatDuration(t) = <<uint8(t \div 3600), uint8(v \div 60), uint8(v % 60)>>
      BY <1>3 DEF formatDuration, secs
    <3> HIDE DEF v
    <3> QED
      BY <3>2, <3>3, <3>4, <3>5
  <2> QED
    BY <1>1, <2>1 DEF DurationReadable
<1>4. CASE ~(t > 3600) /\ t > 60
  <2>1. PICK m \in Nat, s \in Nat : formatDuration(t) = <<m, s>> /\ t = m * 60 + s
    <3>3. t = (t \div 60) * 60 + (t % 60) /\ t % 60 \in 0 .. 59 /\ t \div 60 \in 0 .. 60
      BY <1>4
    <3>4. uint8(t \div 60) = t \div 60 /\ uint8(t % 60) = t % 60
      BY <3>3 DEF uint8
    <3>5. formatDuration(t) = <<uint8(t \div 60), uint8(t % 60)>>
      BY <1>4 DEF formatDuration, secs
    <3> QED
      BY <3>3, <3>4, <3>5
  <2> QED
    BY <1>1, <2>1 DEF DurationReadable
<1>5. CASE ~(t > 60) /\ t > 0
  <2>1. formatDuration(t) = <<t>>
    BY <1>5 DEF formatDuration, uint8
  <2> QED
    BY <1>1, <2>1 DEF DurationReadable
<1>6. CASE t = 0
  <2>1. formatDuration(t) = <<>>
    BY <1>6 DEF formatDuration
  <2> QED
    BY <1>1, <1>6, <2>1 DEF DurationReadable
<1> QED
  BY <1>2, <1>3, <1>4, <1>5, <1>6

-----------------------------------------------------------------------------
(* Text of numbers: what digits gives for every number is found by         *)
(* induction, over the set of the numbers for which it holds.              *)

\* What the loop of l2aCommas prints from a digit on, given what it prints from the
\* next one on.
Piece(n, k, rest) ==
  IF n < 10 THEN <<n>>
  ELSE <<n % 10>> \o (IF groupEnd(k) THEN <<Comma>> ELSE <<>>) \o rest

\* It is a text.
LEMMA PieceText ==
  ASSUME NEW n \in Nat, NEW k \in Nat, NEW rest \in Seq(Int)
  PROVE  Piece(n, k, rest) \in Seq(Int)
BY DEF Piece, Comma

\* f is digits, up to a number.
DigitsTo(f, m) ==
  /\ f \in [0 .. m -> [Nat -> Seq(Int)]]
  /\ \A n \in 0 .. m : \A k \in Nat : f[n][k] = Piece(n, k, f[n \div 10][k + 1])

\* A digit less is a smaller number.
LEMMA Shorter ==
  ASSUME NEW n \in Nat PROVE n \div 10 \in 0 .. n /\ (n >= 10 => n \div 10 \in 0 .. n - 1)
OBVIOUS

\* The rest does not matter to the last digit.
LEMMA LastPiece ==
  ASSUME NEW n \in Nat, n < 10, NEW k, NEW x PROVE Piece(n, k, x) = <<n>>
BY DEF Piece

\* There is such an f for every number.
LEMMA DigitsExist ==
  ASSUME NEW m \in Nat PROVE \E f : DigitsTo(f, m)
<1> DEFINE S == {j \in Nat : \E f : DigitsTo(f, j)}
<1>1. 0 \in S
  <2> DEFINE f == [n \in 0 .. 0 |-> [k \in Nat |-> <<0>>]]
  <2>1. ASSUME NEW n \in 0 .. 0, NEW k \in Nat PROVE f[n][k] = Piece(n, k, f[n \div 10][k + 1])
    BY LastPiece
  <2>2. f \in [0 .. 0 -> [Nat -> Seq(Int)]]
    OBVIOUS
  <2>3. DigitsTo(f, 0)
    BY <2>1, <2>2 DEF DigitsTo
  <2> QED
    BY <2>3
<1>2. ASSUME NEW j \in S PROVE j + 1 \in S
  <2>1. PICK f : DigitsTo(f, j)
    BY <1>2
  <2> DEFINE q == (j + 1) \div 10
             h == [k \in Nat |-> Piece(j + 1, k, IF j + 1 < 10 THEN <<>> ELSE f[q][k + 1])]
             g == [n \in 0 .. j + 1 |-> IF n = j + 1 THEN h ELSE f[n]]
  <2>2. j + 1 >= 10 => q \in 0 .. j
    BY Shorter
  <2>3. h \in [Nat -> Seq(Int)]
    <3>1. ASSUME NEW k \in Nat
          PROVE  Piece(j + 1, k, IF j + 1 < 10 THEN <<>> ELSE f[q][k + 1]) \in Seq(Int)
      <4>1. (IF j + 1 < 10 THEN <<>> ELSE f[q][k + 1]) \in Seq(Int)
        BY <2>1, <2>2 DEF DigitsTo
      <4>2. j + 1 \in Nat
        OBVIOUS
      <4> HIDE DEF q, S
      <4> QED
        BY <4>1, <4>2, PieceText
    <3> HIDE DEF q
    <3> QED
      BY <3>1
  <2>4. \A k \in Nat : h[k] = Piece(j + 1, k, IF j + 1 < 10 THEN <<>> ELSE f[q][k + 1])
    OBVIOUS
  <2> HIDE DEF h
  <2>5. g \in [0 .. j + 1 -> [Nat -> Seq(Int)]]
    <3>1. \A n \in 0 .. j : f[n] \in [Nat -> Seq(Int)]
      BY <2>1 DEF DigitsTo
    <3>2. \A n \in 0 .. j + 1 : n # j + 1 => n \in 0 .. j
      OBVIOUS
    <3>3. \A n \in 0 .. j + 1 : (IF n = j + 1 THEN h ELSE f[n]) \in [Nat -> Seq(Int)]
      BY <2>3, <3>1, <3>2
    <3> QED
      BY <3>3
  <2>6. g[j + 1] = h /\ \A n \in 0 .. j : g[n] = f[n]
    OBVIOUS
  <2> HIDE DEF g
  <2>7. ASSUME NEW n \in 0 .. j + 1, NEW k \in Nat
        PROVE  g[n][k] = Piece(n, k, g[n \div 10][k + 1])
    <3>1. CASE n < 10
      <4>1. g[n][k] = <<n>>
        <5>1. CASE n = j + 1
          <6>1. g[n][k] = Piece(n, k, IF n < 10 THEN <<>> ELSE f[q][k + 1])
            BY <2>4, <2>6, <5>1
          <6> QED
            BY <3>1, <6>1, LastPiece
        <5>2. CASE n # j + 1
          <6>1. n \in 0 .. j
            BY <5>2
          <6>2. g[n][k] = Piece(n, k, f[n \div 10][k + 1])
            BY <2>1, <2>6, <6>1 DEF DigitsTo
          <6> QED
            BY <3>1, <6>2, LastPiece
        <5> QED
          BY <5>1, <5>2
      <4> QED
        BY <3>1, <4>1, LastPiece
    <3>2. CASE n >= 10 /\ n = j + 1
      <4>1. g[n][k] = Piece(n, k, f[q][k + 1])
        BY <2>4, <2>6, <3>2
      <4>2. n \div 10 = q /\ q \in 0 .. j
        BY <2>2, <3>2
      <4>3. g[q] = f[q]
        BY <2>6, <4>2
      <4> QED
        BY <4>1, <4>2, <4>3
    <3>3. CASE n >= 10 /\ n # j + 1
      <4>1. n \in 0 .. j /\ n \div 10 \in 0 .. j
        BY <3>3, Shorter
      <4> QED
        BY <2>1, <2>6, <4>1 DEF DigitsTo
    <3> QED
      BY <3>1, <3>2, <3>3
  <2>8. DigitsTo(g, j + 1)
    BY <2>5, <2>7 DEF DigitsTo
  <2> QED
    BY <2>8
<1>3. S = Nat
  <2> HIDE DEF S
  <2>1. S \in SUBSET Nat
    BY DEF S
  <2> QED
    BY <1>1, <1>2, <2>1, SetInduction
<1> QED
  BY <1>3

\* Two of them agree.
LEMMA DigitsAgree ==
  ASSUME NEW m \in Nat, NEW f, DigitsTo(f, m), NEW p \in Nat, NEW g, DigitsTo(g, p)
  PROVE  \A n \in Nat : n <= m /\ n <= p => f[n] = g[n]
<1> DEFINE S == {j \in Nat : \A n \in 0 .. j : n <= m /\ n <= p => f[n] = g[n]}
<1>0. ASSUME NEW n \in Nat, n <= m, n <= p, n >= 10 => f[n \div 10] = g[n \div 10]
      PROVE  f[n] = g[n]
  <2>0. n \in 0 .. m /\ n \in 0 .. p
    BY <1>0
  <2>1. ASSUME NEW k \in Nat PROVE f[n][k] = g[n][k]
    <3>1. /\ f[n][k] = Piece(n, k, f[n \div 10][k + 1])
          /\ g[n][k] = Piece(n, k, g[n \div 10][k + 1])
      BY <2>0 DEF DigitsTo
    <3>2. CASE n < 10
      BY <3>1, <3>2, LastPiece
    <3>3. CASE n >= 10
      BY <1>0, <3>1, <3>3
    <3> QED
      BY <3>2, <3>3
  <2>2. f[n] \in [Nat -> Seq(Int)] /\ g[n] \in [Nat -> Seq(Int)]
    BY <2>0 DEF DigitsTo
  <2>3. f[n] = [k \in Nat |-> f[n][k]] /\ g[n] = [k \in Nat |-> g[n][k]]
    BY <2>2
  <2> QED
    BY <2>1, <2>3
<1>1. 0 \in S
  BY <1>0
<1>2. ASSUME NEW j \in S PROVE j + 1 \in S
  <2>1. SUFFICES ASSUME NEW n \in 0 .. j + 1, n <= m, n <= p PROVE f[n] = g[n]
    OBVIOUS
  <2>2. ASSUME n >= 10 PROVE f[n \div 10] = g[n \div 10]
    <3>1. n \div 10 \in 0 .. n - 1
      BY <2>2, Shorter
    <3> QED
      BY <1>2, <2>1, <3>1
  <2> QED
    BY <1>0, <2>1, <2>2
<1>3. S = Nat
  <2> HIDE DEF S
  <2>1. S \in SUBSET Nat
    BY DEF S
  <2> QED
    BY <1>1, <1>2, <2>1, SetInduction
<1> QED
  BY <1>3

\* What digits is.
LEMMA DigitsAre ==
  ASSUME NEW n \in Nat, NEW k \in Nat
  PROVE  digits[n][k] = Piece(n, k, digits[n \div 10][k + 1])
<1> DEFINE To(m) == CHOOSE f : DigitsTo(f, m)
           G == [m \in Nat |-> To(m)[m]]
<1>1. \A m \in Nat : DigitsTo(To(m), m)
  BY DigitsExist
<1> HIDE DEF To
<1>2. ASSUME NEW m \in Nat, NEW j \in Nat
      PROVE  G[m][j] = Piece(m, j, G[m \div 10][j + 1])
  <2>0. m \in 0 .. m /\ DigitsTo(To(m), m)
    BY <1>1
  <2>1. To(m)[m][j] = Piece(m, j, To(m)[m \div 10][j + 1])
    BY <2>0 DEF DigitsTo
  <2>2. PICK d \in Nat : d = m \div 10 /\ d <= m
    BY Shorter
  <2>3. To(m)[d] = To(d)[d]
    BY <1>1, <2>2, DigitsAgree
  <2>4. G[d] = To(m)[d]
    BY <2>3
  <2> QED
    BY <2>1, <2>2, <2>4
<1>3. ASSUME NEW m \in Nat PROVE G[m] \in [Nat -> Seq(Int)]
  <2>1. m \in 0 .. m /\ DigitsTo(To(m), m)
    BY <1>1
  <2>2. To(m)[m] \in [Nat -> Seq(Int)]
    BY <2>1 DEF DigitsTo
  <2> QED
    BY <2>2
<1>4. DOMAIN G = Nat /\ G = [m \in Nat |-> G[m]]
  OBVIOUS
<1> HIDE DEF G
<1>5. \A m \in Nat : G[m] = [j \in Nat |-> Piece(m, j, G[m \div 10][j + 1])]
  <2> SUFFICES ASSUME NEW m \in Nat
               PROVE  G[m] = [j \in Nat |-> Piece(m, j, G[m \div 10][j + 1])]
    OBVIOUS
  <2>1. G[m] \in [Nat -> Seq(Int)]
    BY <1>3
  <2>2. \A j \in Nat : G[m][j] = Piece(m, j, G[m \div 10][j + 1])
    BY <1>2
  <2> QED
    BY <2>1, <2>2
<1>6. G = [m \in Nat |-> [j \in Nat |-> Piece(m, j, G[m \div 10][j + 1])]]
  BY <1>4, <1>5
<1>7. digits = CHOOSE f : f = [m \in Nat |-> [j \in Nat |-> Piece(m, j, f[m \div 10][j + 1])]]
  BY DEF digits, Piece
<1>8. digits = [m \in Nat |-> [j \in Nat |-> Piece(m, j, digits[m \div 10][j + 1])]]
  BY <1>6, <1>7
<1>9. digits[n] = [j \in Nat |-> Piece(n, j, digits[n \div 10][j + 1])]
  BY <1>8
<1> QED
  BY <1>9

\* s is printed from a digit on that has q digits of its group to its right.
Grouped(s, q) ==
  /\ s \in Seq(Int) /\ Len(s) > 0 /\ s[Len(s)] # Comma
  /\ \A j \in 1 .. Len(s) : s[j] = Comma <=> (q + j) % 4 = 0

\* A digit in front of what is printed from the next one on, in the same group or not.
LEMMA GroupedPiece ==
  ASSUME NEW n \in Nat, NEW k \in Nat, NEW q \in 0 .. 2, k % 3 = (q + 1) % 3,
         NEW rest, n >= 10 => Grouped(rest, (q + 1) % 3)
  PROVE  Grouped(Piece(n, k, rest), q)
<1>1. CASE n < 10
  <2>1. Piece(n, k, rest) = <<n>> /\ n # Comma
    BY <1>1, LastPiece DEF Comma
  <2>2. <<n>> \in Seq(Int) /\ Len(<<n>>) = 1 /\ <<n>>[1] = n
    OBVIOUS
  <2> QED
    BY <2>1, <2>2 DEF Grouped
<1>2. CASE n >= 10 /\ q = 2
  <2>1. PICK d \in Int : d = n % 10 /\ d # Comma
    BY DEF Comma
  <2>2. rest \in Seq(Int) /\ Comma \in Int
    BY <1>2 DEF Grouped, Comma
  <2> DEFINE s == <<d>> \o <<Comma>> \o rest
  <2>3. Piece(n, k, rest) = s
    BY <1>2, <2>1 DEF Piece, groupEnd
  <2>4. /\ s \in Seq(Int) /\ Len(s) = Len(rest) + 2 /\ s[1] = d /\ s[2] = Comma
        /\ \A j \in 1 .. Len(rest) : s[j + 2] = rest[j]
    BY <2>2
  <2> HIDE DEF s
  <2>5. Grouped(rest, 0)
    BY <1>2
  <2>6. Len(s) > 0 /\ s[Len(s)] # Comma
    <3>1. Len(rest) \in 1 .. Len(rest) /\ rest[Len(rest)] # Comma /\ Len(rest) \in Nat
      BY <2>2, <2>5 DEF Grouped
    <3> QED
      BY <2>4, <3>1
  <2>7. ASSUME NEW j \in 1 .. Len(s) PROVE s[j] = Comma <=> (2 + j) % 4 = 0
    <3>1. CASE j \in {1, 2}
      <4>1. (2 + 1) % 4 # 0 /\ (2 + 2) % 4 = 0
        OBVIOUS
      <4> QED
        BY <2>1, <2>4, <3>1, <4>1
    <3>2. CASE j \notin {1, 2}
      <4>1. PICK i \in 1 .. Len(rest) : j = i + 2
        BY <2>2, <2>4, <3>2
      <4>2. s[j] = rest[i] /\ (rest[i] = Comma <=> i % 4 = 0)
        BY <2>4, <2>5, <4>1 DEF Grouped
      <4>3. (2 + j) % 4 = i % 4
        BY <4>1
      <4> QED
        BY <4>2, <4>3
    <3> QED
      BY <3>1, <3>2
  <2> QED
    BY <1>2, <2>3, <2>4, <2>6, <2>7 DEF Grouped
<1>3. CASE n >= 10 /\ q # 2
  <2>1. PICK d \in Int : d = n % 10 /\ d # Comma
    BY DEF Comma
  <2>2. rest \in Seq(Int)
    BY <1>3 DEF Grouped
  <2> DEFINE s == <<d>> \o <<>> \o rest
  <2>3. Piece(n, k, rest) = s
    BY <1>3, <2>1 DEF Piece, groupEnd
  <2>4. /\ s \in Seq(Int) /\ Len(s) = Len(rest) + 1 /\ s[1] = d
        /\ \A j \in 1 .. Len(rest) : s[j + 1] = rest[j]
    BY <2>2
  <2> HIDE DEF s
  <2>5. Grouped(rest, q + 1)
    BY <1>3
  <2>6. Len(s) > 0 /\ s[Len(s)] # Comma
    BY <2>4, <2>5 DEF Grouped
  <2>7. ASSUME NEW j \in 1 .. Len(s) PROVE s[j] = Comma <=> (q + j) % 4 = 0
    <3>1. CASE j = 1
      <4>1. (q + 1) % 4 # 0
        BY <1>3
      <4> QED
        BY <2>1, <2>4, <3>1, <4>1
    <3>2. CASE j # 1
      <4>1. PICK i \in 1 .. Len(rest) : j = i + 1
        BY <2>2, <2>4, <3>2
      <4>2. s[j] = rest[i] /\ (rest[i] = Comma <=> ((q + 1) + i) % 4 = 0)
        BY <2>4, <2>5, <4>1 DEF Grouped
      <4>3. q + j = (q + 1) + i
        BY <4>1
      <4> QED
        BY <4>2, <4>3
    <3> QED
      BY <3>1, <3>2
  <2> QED
    BY <2>3, <2>4, <2>6, <2>7 DEF Grouped
<1> QED
  BY <1>1, <1>2, <1>3

\* So is every number printed, from any of its digits on.
LEMMA DigitsGrouped ==
  ASSUME NEW n \in Nat, NEW k \in Nat \ {0}
  PROVE  Grouped(digits[n][k], (k - 1) % 3)
<1> DEFINE S == {m \in Nat : \A x \in 0 .. m : \A i \in Nat \ {0} :
                    Grouped(digits[x][i], (i - 1) % 3)}
<1>0. ASSUME NEW x \in Nat, NEW i \in Nat \ {0},
             x >= 10 => Grouped(digits[x \div 10][i + 1], i % 3)
      PROVE  Grouped(digits[x][i], (i - 1) % 3)
  <2>1. PICK q \in 0 .. 2 : q = (i - 1) % 3
    OBVIOUS
  <2>2. (q + 1) % 3 = i % 3
    BY <2>1
  <2>3. x >= 10 => Grouped(digits[x \div 10][i + 1], (q + 1) % 3)
    BY <1>0, <2>2
  <2>4. Grouped(Piece(x, i, digits[x \div 10][i + 1]), q)
    BY <2>2, <2>3, GroupedPiece
  <2> QED
    BY <2>1, <2>4, DigitsAre
<1>1. 0 \in S
  <2>1. ASSUME NEW i \in Nat \ {0} PROVE Grouped(digits[0][i], (i - 1) % 3)
    <3>1. PICK z \in Nat : z = 0
      OBVIOUS
    <3>2. z >= 10 => Grouped(digits[z \div 10][i + 1], i % 3)
      BY <3>1
    <3>3. Grouped(digits[z][i], (i - 1) % 3)
      BY <1>0, <3>2
    <3> QED
      BY <3>1, <3>3
  <2>2. \A x \in 0 .. 0 : x = 0
    OBVIOUS
  <2> QED
    BY <2>1, <2>2
<1>2. ASSUME NEW m \in S PROVE m + 1 \in S
  <2>1. SUFFICES ASSUME NEW x \in 0 .. m + 1, NEW i \in Nat \ {0}
                 PROVE  Grouped(digits[x][i], (i - 1) % 3)
    OBVIOUS
  <2>2. ASSUME x >= 10 PROVE Grouped(digits[x \div 10][i + 1], i % 3)
    <3>1. x \div 10 \in 0 .. m
      BY <2>2, Shorter
    <3>2. i + 1 \in Nat \ {0} /\ (i + 1) - 1 = i
      OBVIOUS
    <3>3. Grouped(digits[x \div 10][i + 1], ((i + 1) - 1) % 3)
      BY <1>2, <3>1, <3>2
    <3> QED
      BY <3>2, <3>3
  <2> QED
    BY <1>0, <2>2
<1>3. S = Nat
  <2> HIDE DEF S
  <2>1. S \in SUBSET Nat
    BY DEF S
  <2> QED
    BY <1>1, <1>2, <2>1, SetInduction
<1>4. n \in S /\ n \in 0 .. n
  BY <1>3
<1> QED
  BY <1>4

\* The commas are where they belong.
LEMMA CommasExact ==
  ASSUME printed \in Int PROVE CommasByThree
<1>1. PICK a \in Nat : a = IF printed < 0 THEN -printed ELSE printed
  OBVIOUS
<1> DEFINE d == digits[a][1]
<1>2. Grouped(d, 0)
  <2>1. 1 \in Nat \ {0} /\ (1 - 1) % 3 = 0
    OBVIOUS
  <2> QED
    BY <2>1, DigitsGrouped
<1> HIDE DEF d
<1>3. PICK n \in Nat : n = Len(d) /\ n > 0
  BY <1>2 DEF Grouped
<1>4. d \in Seq(Int) /\ DOMAIN d = 1 .. n
  BY <1>2, <1>3 DEF Grouped
<1>5. \A j \in 1 .. n : d[j] = Comma <=> j % 4 = 0
  BY <1>2, <1>3 DEF Grouped
<1>6. d[n] # Comma
  BY <1>2, <1>3 DEF Grouped
<1>7. CASE ~(printed < 0)
  <2> DEFINE s == [i \in 1 .. n |-> d[n + 1 - i]]
  <2>1. d \o <<>> = d
    BY <1>4
  <2>2. l2aCommas(printed) = s
    BY <1>1, <1>3, <1>4, <1>7, <2>1 DEF l2aCommas, mirror, d
  <2>3. s \in Seq(Int) /\ Len(s) = n /\ DOMAIN s = 1 .. n
    BY <1>4
  <2>4. \A i \in 1 .. n : s[i] = Comma <=> (n - i) % 4 = 3
    BY <1>5
  <2>5. s[1] # Comma
    BY <1>3, <1>6
  <2> HIDE DEF s
  <2> QED
    BY <1>7, <2>2, <2>3, <2>4, <2>5 DEF CommasByThree
<1>8. CASE printed < 0
  <2> DEFINE e == d \o <<Minus>>
             s == [i \in 1 .. n + 1 |-> e[n + 2 - i]]
             b == Tail(s)
  <2>1. /\ e \in Seq(Int) /\ Len(e) = n + 1 /\ DOMAIN e = 1 .. n + 1 /\ e[n + 1] = Minus
        /\ \A j \in 1 .. n : e[j] = d[j]
    BY <1>3, <1>4 DEF Minus
  <2>2. l2aCommas(printed) = s
    <3>1. l2aCommas(printed) = mirror(e)
      BY <1>1, <1>8 DEF l2aCommas, d
    <3> HIDE DEF e
    <3>2. mirror(e) = [i \in 1 .. n + 1 |-> e[(n + 1) + 1 - i]]
      BY <2>1 DEF mirror
    <3> QED
      BY <3>1, <3>2
  <2> HIDE DEF e
  <2>3. s \in Seq(Int) /\ Len(s) = n + 1 /\ s[1] = Minus
    BY <2>1
  <2>4. ASSUME NEW i \in 1 .. n PROVE s[i + 1] = d[n + 1 - i]
    <3>1. i + 1 \in 1 .. n + 1 /\ n + 2 - (i + 1) = n + 1 - i /\ n + 1 - i \in 1 .. n
      OBVIOUS
    <3>2. s[i + 1] = e[n + 2 - (i + 1)]
      BY <3>1
    <3> QED
      BY <2>1, <3>1, <3>2
  <2> HIDE DEF s
  <2>5. Len(b) = n /\ DOMAIN b = 1 .. n /\ \A i \in 1 .. n : b[i] = s[i + 1]
    BY <2>3
  <2>6. ASSUME NEW i \in 1 .. n PROVE b[i] = Comma <=> (n - i) % 4 = 3
    <3>0. n + 1 - i \in 1 .. n
      OBVIOUS
    <3>1. b[i] = d[n + 1 - i]
      BY <2>4, <2>5
    <3>2. (n + 1 - i) % 4 = 0 <=> (n - i) % 4 = 3
      OBVIOUS
    <3> QED
      BY <1>5, <3>0, <3>1, <3>2
  <2>7. s[1] # Comma
    BY <2>3 DEF Minus, Comma
  <2> HIDE DEF b
  <2> QED
    BY <1>8, <2>2, <2>5, <2>6, <2>7 DEF CommasByThree, b
<1> QED
  BY <1>7, <1>8

\* For every number of nanoseconds in a second: sums, differences, the order and
\* halves of time-stamps, the parts of a duration and the groups of digits of a number
\* are those of the integers (time.cpp, addTS, subtractTS, compareTS, divideTS,
\* formatDuration; util.c, l2aCommas).
THEOREM TimeAgrees == TimeSpec => []AgreesWithIntegers
<1>1. TimeInit => TimeInv
  BY TimeInitInv
<1>2. TimeInv /\ [TimeNext]_timeVars => TimeInv'
  BY TimeStepInv
<1>3. TimeInv => AgreesWithIntegers
  <2> SUFFICES ASSUME TimeInv PROVE AgreesWithIntegers
    OBVIOUS
  <2>1. ClockNormal /\ TimeExact /\ DurationReadable
    BY TimeInvExact, DurationExact
  <2>2. CommasByThree
    BY CommasExact DEF TimeInv
  <2> QED
    BY <2>1, <2>2 DEF AgreesWithIntegers
<1> QED
  BY <1>1, <1>2, <1>3, PTL DEF TimeSpec

-----------------------------------------------------------------------------
(* The periodic counter.  CountedInPeriod is not inductive: a tuple that   *)
(* finds the period not yet over is not before it because the call before  *)
(* it was not.                                                             *)

PeriodInv ==
  /\ pcNow \in Nat /\ time_flush \in Timespec /\ periodic_inc_ns \in Nat
  /\ pcTimes \subseteq Nat
  /\ ~pcFailed /\ ~outran => inNs(time_flush) - periodic_inc_ns <= pcNow
  /\ CountedInPeriod

\* The steps that leave the period and what is counted in it alone.
LEMMA PeriodKept ==
  PeriodInv /\ pcNow' \in Nat /\ pcNow <= pcNow'
    /\ UNCHANGED <<time_flush, periodic_inc_ns, pcTimes, outran>>
    /\ (pcFailed' \/ pcFailed' = pcFailed) => PeriodInv'
<1> SUFFICES ASSUME PeriodInv, pcNow' \in Nat, pcNow <= pcNow',
                    UNCHANGED <<time_flush, periodic_inc_ns, pcTimes, outran>>,
                    pcFailed' \/ pcFailed' = pcFailed
             PROVE  PeriodInv'
  OBVIOUS
<1>1. ~pcFailed' => ~pcFailed
  OBVIOUS
<1>2. inNs(time_flush) \in Int
  BY TimespecParts DEF PeriodInv
<1> QED
  BY <1>1, <1>2 DEF PeriodInv, CountedInPeriod

\* The counter starts with its first period.
LEMMA PeriodInitInv == PeriodicInit => PeriodInv
<1> SUFFICES ASSUME PeriodicInit PROVE PeriodInv
  OBVIOUS
<1>1. DEFAULT_PERIOD \in Nat /\ DEFAULT_PERIOD \in Int
  BY PeriodicAssumption
<1>2. /\ fromNs(0) \in Timespec /\ inNs(fromNs(0)) = 0
      /\ fromNs(DEFAULT_PERIOD) \in Timespec /\ inNs(fromNs(DEFAULT_PERIOD)) = DEFAULT_PERIOD
  BY <1>1, FromNsExact
<1>3. time_flush \in Timespec /\ inNs(time_flush) = 0 + DEFAULT_PERIOD
  BY <1>2, AddExact DEF PeriodicInit
<1> QED
  BY <1>1, <1>3 DEF PeriodicInit, PeriodInv, CountedInPeriod

\* A later call.
LEMMA LaterCall ==
  ASSUME PeriodInv, NEW moment \in 0 .. MaxNow, later(moment)
  PROVE  moment \in Nat /\ pcNow' = moment /\ pcNow < moment
<1>1. PICK g \in Gaps : moment = pcNow + g
  BY DEF later
<1>2. g \in Nat \ {0} /\ pcNow \in Nat
  BY PeriodicAssumption DEF PeriodInv
<1> QED
  BY <1>1, <1>2 DEF later

\* A tuple, in the period or after it.
LEMMA TupleInv ==
  ASSUME NEW moment \in 0 .. MaxNow PROVE PeriodInv /\ PeriodicCounterHandler(moment) => PeriodInv'
<1> SUFFICES ASSUME PeriodInv, PeriodicCounterHandler(moment) PROVE PeriodInv'
  OBVIOUS
<1>1. moment \in Nat /\ pcNow' = moment /\ pcNow < moment /\ ~pcFailed /\ pcNow \in Nat
  BY LaterCall DEF PeriodicCounterHandler, PeriodInv
<1>2. PICK f \in Int : f = inNs(time_flush)
  BY TimespecParts DEF PeriodInv
<1>3. PICK i \in Nat : i = periodic_inc_ns
  BY DEF PeriodInv
<1>4. ~outran => f - i <= pcNow
  BY <1>1, <1>2, <1>3 DEF PeriodInv
<1>5. fromNs(moment) \in Timespec /\ inNs(fromNs(moment)) = moment
  BY <1>1, FromNsExact
<1>6. compareTS(fromNs(moment), time_flush) = sign(moment - f)
  <2>1. time_flush \in Timespec
    BY DEF PeriodInv
  <2> QED
    BY <1>2, <1>5, <2>1, CompareExact
<1>7. expired(moment) <=> moment > f
  BY <1>1, <1>6 DEF expired, sign
<1>8. CASE ~expired(moment)
  <2>1. /\ UNCHANGED <<time_flush, periodic_inc_ns, outran, pcFailed>>
        /\ pcTimes' = pcTimes \cup {moment}
    BY <1>8 DEF PeriodicCounterHandler
  <2>2. ~outran => f - i <= moment /\ moment <= f
    BY <1>1, <1>4, <1>7, <1>8
  <2>3. ~outran => \A t \in pcTimes' : f - i <= t /\ t <= f
    BY <1>1, <1>2, <1>3, <2>1, <2>2 DEF PeriodInv, CountedInPeriod
  <2>4. CountedInPeriod'
    BY <1>2, <1>3, <2>1, <2>3 DEF CountedInPeriod
  <2> QED
    BY <1>1, <1>2, <1>3, <2>1, <2>2, <2>4 DEF PeriodInv
<1>9. CASE expired(moment) /\ periodic_inc_ns = 0
  <2>1. Fail
    BY <1>9 DEF PeriodicCounterHandler
  <2> QED
    BY <1>1, <2>1, PeriodKept DEF Fail
<1>10. CASE expired(moment) /\ periodic_inc_ns # 0
  <2>1. PICK e \in Nat : e = moment - f
    BY <1>1, <1>7, <1>10
  <2>2. elapsed_ns(moment) = e
    <3>1. time_flush \in Timespec
      BY DEF PeriodInv
    <3> QED
      BY <1>2, <1>5, <2>1, <3>1, SubtractExact DEF elapsed_ns
  <2>3. i \in Nat \ {0}
    BY <1>3, <1>10
  <2>4. PICK past \in Nat : past = e \div i
    BY <2>3, DivMod
  <2>5. PICK r \in Nat : r < i /\ e = i * past + r
    <3>1. e % i \in 0 .. i - 1 /\ e = i * (e \div i) + (e % i)
      BY <2>3, DivMod
    <3>2. e % i \in Nat /\ e % i < i
      BY <2>3, <3>1
    <3> QED
      BY <2>4, <3>1, <3>2
  <2>6. PICK k \in Nat : k = i * past
    BY <1>3
  <2>7. /\ time_flush' = addTS(time_flush, fromNs(next_shot(past % UINT32)))
        /\ pcTimes' = {moment} /\ outran' = (outran \/ past + 1 >= UINT32)
        /\ UNCHANGED <<periodic_inc_ns, pcFailed>>
    BY <1>3, <1>10, <2>2, <2>4 DEF PeriodicCounterHandler, skippedIntervals, passed
  <2>8. next_shot(past % UINT32) \in Nat
    <3>1. past % UINT32 \in Nat /\ (1 + (past % UINT32)) % UINT32 \in Nat
      BY PeriodicAssumption
    <3> QED
      BY <1>3, <3>1 DEF next_shot
  <2>9. PICK n \in Nat : n = next_shot(past % UINT32)
    BY <2>8
  <2>10. time_flush' \in Timespec /\ inNs(time_flush') = f + n
    <3>1. time_flush \in Timespec
      BY DEF PeriodInv
    <3>2. fromNs(n) \in Timespec /\ inNs(fromNs(n)) = n
      BY FromNsExact
    <3> QED
      BY <1>2, <2>7, <2>9, <3>1, <3>2, AddExact
  <2>11. ~outran' => n = k + i
    <3>0. ~outran' => ~(past + 1 >= UINT32)
      BY <2>7, Zenon
    <3> SUFFICES ASSUME past + 1 < UINT32 PROVE n = k + i
      BY <3>0, PeriodicAssumption
    <3>1. past % UINT32 = past /\ (1 + past) % UINT32 = 1 + past
      BY PeriodicAssumption, BelowModulus
    <3> QED
      BY <1>3, <2>6, <2>9, <3>1 DEF next_shot
  <2>12. moment = f + k + r
    BY <1>1, <2>1, <2>5, <2>6
  <2>13. ~outran' => (f + n) - i <= moment /\ moment <= f + n
    BY <2>5, <2>11, <2>12
  <2>14. CountedInPeriod'
    BY <1>3, <2>7, <2>10, <2>13 DEF CountedInPeriod
  <2> QED
    BY <1>1, <1>3, <2>7, <2>10, <2>13, <2>14 DEF PeriodInv
<1> QED
  BY <1>8, <1>9, <1>10

\* The channel is closed, or its period is set.
LEMMA ReprogramInv ==
  ASSUME NEW moment \in 0 .. MaxNow
  PROVE  PeriodInv /\ (closePeriodic(moment) \/ \E p \in Periods : setArgPeriodicCounterHandler(moment, p))
           => PeriodInv'
<1>1. ASSUME PeriodInv, later(moment), PeriodicClose(moment) PROVE PeriodInv'
  <2>1. pcNow' \in Nat /\ pcNow <= pcNow'
    BY <1>1, LaterCall DEF PeriodInv
  <2>2. UNCHANGED <<time_flush, periodic_inc_ns, pcTimes, outran>> /\ (pcFailed' \/ pcFailed' = pcFailed)
    BY <1>1 DEF PeriodicClose, Fail
  <2> QED
    BY <1>1, <2>1, <2>2, PeriodKept
<1>2. ASSUME PeriodInv, NEW p \in Periods, setArgPeriodicCounterHandler(moment, p) PROVE PeriodInv'
  <2>0. later(moment)
    BY <1>2 DEF setArgPeriodicCounterHandler
  <2>1. moment \in Nat /\ pcNow' = moment /\ pcNow < moment /\ pcNow \in Nat
    BY <1>2, <2>0, LaterCall DEF PeriodInv
  <2>2. p \in Int
    BY PeriodicAssumption
  <2>3. CASE p < 0
    BY <1>1, <1>2, <2>0, <2>3 DEF setArgPeriodicCounterHandler
  <2>4. CASE ~(p < 0) /\ Fail
    BY <1>2, <2>1, <2>4, PeriodKept DEF Fail
  <2>5. CASE ~(p < 0) /\ ~Fail
    <3>1. /\ periodic_inc_ns' = p /\ time_flush' = addTS(fromNs(moment), fromNs(p))
          /\ pcTimes' = {} /\ outran' = FALSE
      BY <1>2, <2>5 DEF setArgPeriodicCounterHandler
    <3>2. /\ fromNs(moment) \in Timespec /\ inNs(fromNs(moment)) = moment
          /\ fromNs(p) \in Timespec /\ inNs(fromNs(p)) = p
      BY <2>1, <2>2, FromNsExact
    <3>3. time_flush' \in Timespec /\ inNs(time_flush') = moment + p
      BY <3>1, <3>2, AddExact
    <3>4. p \in Nat
      BY <2>2, <2>5
    <3> QED
      BY <2>1, <3>1, <3>3, <3>4 DEF PeriodInv, CountedInPeriod
  <2> QED
    BY <2>3, <2>4, <2>5
<1> QED
  BY <1>1, <1>2 DEF closePeriodic

-----------------------------------------------------------------------------
(* TimeLineComplete: besides, the lines of the log add up, to the tuples   *)
(* that were handled and to the periods that have passed.                  *)

\* The partial sums that since adds up.
SumsTo(f, n, w, Z) ==
  f = [i \in 0 .. n |-> IF i = 0 THEN 0 ELSE (IF i \in Z THEN 0 ELSE f[i - 1]) + w[i]]

\* There are such sums,
LEMMA SumsExist ==
  ASSUME NEW w \in Seq(Int), NEW Z, NEW n \in Nat
  PROVE  n <= Len(w) => \E f : SumsTo(f, n, w, Z)
<1> DEFINE S == {k \in Nat : k <= Len(w) => \E f : SumsTo(f, k, w, Z)}
<1>1. 0 \in S
  <2> DEFINE f == [i \in 0 .. 0 |-> 0]
  <2>1. SumsTo(f, 0, w, Z)
    BY DEF SumsTo
  <2> QED
    BY <2>1
<1>2. ASSUME NEW k \in S PROVE k + 1 \in S
  <2>1. SUFFICES ASSUME k + 1 <= Len(w) PROVE \E f : SumsTo(f, k + 1, w, Z)
    BY <1>2
  <2>2. PICK f : SumsTo(f, k, w, Z)
    BY <1>2, <2>1
  <2> DEFINE g == [i \in 0 .. k + 1 |-> IF i = k + 1
                     THEN (IF i \in Z THEN 0 ELSE f[k]) + w[i] ELSE f[i]]
  <2>3. ASSUME NEW i \in 0 .. k + 1
        PROVE  g[i] = IF i = 0 THEN 0 ELSE (IF i \in Z THEN 0 ELSE g[i - 1]) + w[i]
    <3>1. CASE i = k + 1
      BY <3>1
    <3>2. CASE i # k + 1
      <4>1. f[i] = IF i = 0 THEN 0 ELSE (IF i \in Z THEN 0 ELSE f[i - 1]) + w[i]
        BY <2>2, <3>2 DEF SumsTo
      <4>2. i # 0 => g[i - 1] = f[i - 1]
        BY <3>2
      <4> QED
        BY <3>2, <4>1, <4>2
    <3> QED
      BY <3>1, <3>2
  <2>4. SumsTo(g, k + 1, w, Z)
    BY <2>3 DEF SumsTo
  <2> QED
    BY <2>4
<1>3. S = Nat
  <2> HIDE DEF S
  <2>1. S \in SUBSET Nat
    BY DEF S
  <2> QED
    BY <1>1, <1>2, <2>1, SetInduction
<1> QED
  BY <1>3

\* and since is the last of them.
LEMMA SinceIsSum ==
  ASSUME NEW w \in Seq(Int), NEW Z
  PROVE  \E f : SumsTo(f, Len(w), w, Z) /\ since(w, Z) = f[Len(w)]
<1> DEFINE f == CHOOSE h : h = [i \in 0 .. Len(w) |->
                  IF i = 0 THEN 0 ELSE (IF i \in Z THEN 0 ELSE h[i - 1]) + w[i]]
<1>1. since(w, Z) = f[Len(w)]
  BY DEF since
<1>2. \E h : SumsTo(h, Len(w), w, Z)
  <2>1. Len(w) \in Nat /\ Len(w) <= Len(w)
    OBVIOUS
  <2> QED
    BY <2>1, SumsExist
<1>3. SumsTo(f, Len(w), w, Z)
  BY <1>2 DEF SumsTo
<1> QED
  BY <1>1, <1>3

\* The sums do not depend on what comes after them.
LEMMA SumsAgree ==
  ASSUME NEW w \in Seq(Int), NEW v \in Seq(Int), NEW Z, NEW Y, Len(w) <= Len(v),
         \A i \in 1 .. Len(w) : v[i] = w[i] /\ (i \in Y <=> i \in Z),
         NEW f, SumsTo(f, Len(w), w, Z), NEW g, SumsTo(g, Len(v), v, Y)
  PROVE  \A i \in 0 .. Len(w) : f[i] = g[i] /\ f[i] \in Int
<1> DEFINE S == {k \in Nat : k <= Len(w) => f[k] = g[k] /\ f[k] \in Int}
<1>1. 0 \in S
  BY DEF SumsTo
<1>2. ASSUME NEW k \in S PROVE k + 1 \in S
  <2>1. SUFFICES ASSUME k + 1 <= Len(w) PROVE f[k + 1] = g[k + 1] /\ f[k + 1] \in Int
    BY <1>2
  <2>2. f[k] = g[k] /\ f[k] \in Int /\ k + 1 \in 1 .. Len(w) /\ k + 1 \in 0 .. Len(v)
    BY <1>2, <2>1
  <2>3. f[k + 1] = (IF k + 1 \in Z THEN 0 ELSE f[k]) + w[k + 1]
    BY <2>2 DEF SumsTo
  <2>4. g[k + 1] = (IF k + 1 \in Y THEN 0 ELSE g[k]) + v[k + 1]
    BY <2>2 DEF SumsTo
  <2>5. w[k + 1] \in Int /\ v[k + 1] = w[k + 1] /\ (k + 1 \in Y <=> k + 1 \in Z)
    BY <2>2
  <2> QED
    BY <2>2, <2>3, <2>4, <2>5
<1>3. S = Nat
  <2> HIDE DEF S
  <2>1. S \in SUBSET Nat
    BY DEF S
  <2> QED
    BY <1>1, <1>2, <2>1, SetInduction
<1> QED
  BY <1>3

\* A number more: the sum grows by it, or starts over with it.
LEMMA SinceAppend ==
  ASSUME NEW w \in Seq(Int), NEW v \in Seq(Int), NEW Z, NEW Y, Len(v) = Len(w) + 1,
         \A i \in 1 .. Len(w) : v[i] = w[i] /\ (i \in Y <=> i \in Z)
  PROVE  /\ since(w, Z) \in Int
         /\ since(v, Y) = (IF Len(v) \in Y THEN 0 ELSE since(w, Z)) + v[Len(v)]
<1>1. PICK f : SumsTo(f, Len(w), w, Z) /\ since(w, Z) = f[Len(w)]
  BY SinceIsSum
<1>2. PICK g : SumsTo(g, Len(v), v, Y) /\ since(v, Y) = g[Len(v)]
  BY SinceIsSum
<1>3. Len(w) \in 0 .. Len(w) /\ Len(v) \in 0 .. Len(v) /\ Len(v) # 0 /\ Len(v) - 1 = Len(w)
  OBVIOUS
<1>4. f[Len(w)] = g[Len(w)] /\ f[Len(w)] \in Int
  <2>1. Len(w) <= Len(v)
    OBVIOUS
  <2>2. \A i \in 0 .. Len(w) : f[i] = g[i] /\ f[i] \in Int
    BY <1>1, <1>2, <2>1, SumsAgree
  <2> QED
    BY <1>3, <2>2
<1>5. g[Len(v)] = (IF Len(v) \in Y THEN 0 ELSE g[Len(v) - 1]) + v[Len(v)]
  BY <1>2, <1>3 DEF SumsTo
<1> QED
  BY <1>1, <1>2, <1>3, <1>4, <1>5

\* The lines of a log.
Kinds == {"header", "count", "truncated", "reprogrammed", "shut down", "skipped"}
PeriodLine == [kind : Kinds, end : Int, n : Nat]

\* What is written is a line.
LEMMA LineForms ==
  ASSUME NEW e \in Int, NEW k \in Nat
  PROVE  /\ Header \in PeriodLine /\ Count(e, k) \in PeriodLine /\ Truncated(e, k) \in PeriodLine
         /\ Reprogrammed \in PeriodLine /\ ShutDown(e) \in PeriodLine /\ Skipped(k) \in PeriodLine
<1>1. ASSUME NEW x \in Kinds, NEW i \in Int, NEW j \in Nat
      PROVE  [kind |-> x, end |-> i, n |-> j] \in PeriodLine
  BY DEF PeriodLine
<1>2. /\ "header" \in Kinds /\ "count" \in Kinds /\ "truncated" \in Kinds
      /\ "reprogrammed" \in Kinds /\ "shut down" \in Kinds /\ "skipped" \in Kinds
  BY DEF Kinds
<1>3. 0 \in Int /\ 0 \in Nat
  OBVIOUS
<1> QED
  BY <1>1, <1>2, <1>3 DEF Header, Count, Truncated, Reprogrammed, ShutDown, Skipped

\* What a log says when it gets one more line.
LEMMA LineWritten ==
  ASSUME NEW log \in Seq(PeriodLine), NEW l \in PeriodLine
  PROVE  /\ tuplesWritten(log) \in Int /\ periodsWritten(log) \in Int
         /\ tuplesWritten(Append(log, l)) = tuplesWritten(log) + tuplesIn(l)
         /\ periodsWritten(Append(log, l)) =
              (IF l.kind = "reprogrammed" THEN 0 ELSE periodsWritten(log)) + periodsIn(l)
<1> DEFINE more == Append(log, l)
           Z(x) == {i \in DOMAIN x : x[i].kind = "reprogrammed"}
           tup(x) == [i \in DOMAIN x |-> tuplesIn(x[i])]
           per(x) == [i \in DOMAIN x |-> periodsIn(x[i])]
<1>1. /\ more \in Seq(PeriodLine) /\ Len(more) = Len(log) + 1 /\ more[Len(more)] = l
      /\ \A i \in 1 .. Len(log) : more[i] = log[i]
      /\ DOMAIN log = 1 .. Len(log) /\ DOMAIN more = 1 .. Len(more) /\ Len(log) \in Nat
  OBVIOUS
<1>2. \A x \in PeriodLine : tuplesIn(x) \in Int /\ periodsIn(x) \in Int
  <2> SUFFICES ASSUME NEW x \in PeriodLine PROVE tuplesIn(x) \in Int /\ periodsIn(x) \in Int
    OBVIOUS
  <2>1. x.n \in Nat
    BY DEF PeriodLine
  <2> QED
    BY <2>1 DEF tuplesIn, periodsIn
<1>3. /\ tup(log) \in Seq(Int) /\ tup(more) \in Seq(Int)
      /\ per(log) \in Seq(Int) /\ per(more) \in Seq(Int)
      /\ Len(tup(log)) = Len(log) /\ Len(per(log)) = Len(log)
      /\ Len(tup(more)) = Len(log) + 1 /\ Len(per(more)) = Len(log) + 1
  BY <1>1, <1>2
<1>4. /\ \A i \in 1 .. Len(log) : /\ tup(more)[i] = tup(log)[i]
                                   /\ per(more)[i] = per(log)[i]
                                   /\ i \in Z(more) <=> i \in Z(log)
      /\ tup(more)[Len(log) + 1] = tuplesIn(l) /\ per(more)[Len(log) + 1] = periodsIn(l)
      /\ Len(log) + 1 \in Z(more) <=> l.kind = "reprogrammed"
  BY <1>1
<1>5. /\ since(tup(log), {}) \in Int
      /\ since(tup(more), {}) = since(tup(log), {}) + tuplesIn(l)
  <2> DEFINE w == tup(log)
             v == tup(more)
  <2>1. /\ w \in Seq(Int) /\ v \in Seq(Int) /\ Len(v) = Len(w) + 1
        /\ v[Len(v)] = tuplesIn(l)
        /\ \A i \in 1 .. Len(w) : v[i] = w[i] /\ (i \in {} <=> i \in {})
    BY <1>3, <1>4
  <2> HIDE DEF w, v
  <2>2. /\ since(w, {}) \in Int
        /\ since(v, {}) = (IF Len(v) \in {} THEN 0 ELSE since(w, {})) + v[Len(v)]
    BY <2>1, SinceAppend
  <2> QED
    BY <2>1, <2>2 DEF w, v
<1>6. /\ since(per(log), Z(log)) \in Int
      /\ since(per(more), Z(more)) =
           (IF l.kind = "reprogrammed" THEN 0 ELSE since(per(log), Z(log))) + periodsIn(l)
  <2> DEFINE w == per(log)
             v == per(more)
             A == Z(log)
             B == Z(more)
  <2>1. /\ w \in Seq(Int) /\ v \in Seq(Int) /\ Len(v) = Len(w) + 1
        /\ v[Len(v)] = periodsIn(l) /\ (Len(v) \in B <=> l.kind = "reprogrammed")
        /\ \A i \in 1 .. Len(w) : v[i] = w[i] /\ (i \in B <=> i \in A)
    BY <1>3, <1>4
  <2> HIDE DEF w, v, A, B
  <2>2. /\ since(w, A) \in Int
        /\ since(v, B) = (IF Len(v) \in B THEN 0 ELSE since(w, A)) + v[Len(v)]
    BY <2>1, SinceAppend
  <2> QED
    BY <2>1, <2>2 DEF w, v, A, B
<1> QED
  BY <1>5, <1>6 DEF tuplesWritten, periodsWritten

\* An empty log says nothing.
LEMMA NothingWritten == tuplesWritten(<<>>) = 0 /\ periodsWritten(<<>>) = 0
<1>1. ASSUME NEW Z PROVE since(<<>>, Z) = 0
  <2>1. <<>> \in Seq(Int) /\ Len(<<>>) = 0
    OBVIOUS
  <2>2. PICK f : SumsTo(f, 0, <<>>, Z) /\ since(<<>>, Z) = f[0]
    BY <2>1, SinceIsSum
  <2> QED
    BY <2>2 DEF SumsTo
<1>2. /\ [i \in DOMAIN <<>> |-> tuplesIn(<<>>[i])] = <<>>
      /\ [i \in DOMAIN <<>> |-> periodsIn(<<>>[i])] = <<>>
  OBVIOUS
<1> QED
  BY <1>1, <1>2 DEF tuplesWritten, periodsWritten

\* What a log says when it gets a line, or none, that is not a new start.
LEMMA PieceWritten ==
  ASSUME NEW log \in Seq(PeriodLine), NEW s, NEW l \in PeriodLine, l.kind # "reprogrammed",
         s = <<>> \/ s = <<l>>
  PROVE  /\ log \o s \in Seq(PeriodLine)
         /\ tuplesWritten(log) \in Int /\ periodsWritten(log) \in Int
         /\ s = <<>> => /\ tuplesWritten(log \o s) = tuplesWritten(log)
                        /\ periodsWritten(log \o s) = periodsWritten(log)
         /\ s # <<>> => /\ tuplesWritten(log \o s) = tuplesWritten(log) + tuplesIn(l)
                        /\ periodsWritten(log \o s) = periodsWritten(log) + periodsIn(l)
<1>1. CASE s = <<>>
  <2>1. log \o s = log
    BY <1>1
  <2> QED
    BY <1>1, <2>1, LineWritten
<1>2. CASE s = <<l>>
  <2>1. log \o s = Append(log, l) /\ Append(log, l) \in Seq(PeriodLine) /\ s # <<>>
    BY <1>2
  <2> QED
    BY <2>1, LineWritten
<1> QED
  BY <1>1, <1>2

\* The log and the counters, and that they agree.
Ledger ==
  /\ pcLog \in Seq(PeriodLine) /\ ctr \in Nat /\ pcHandled \in Int /\ time_start \in Timespec
  /\ TuplesCounted /\ PeriodsAccounted

\* The end of a period: its count, if it has one, and the periods skipped.
LEMMA PeriodWritten ==
  ASSUME NEW log \in Seq(PeriodLine), NEW past \in Nat, ctr \in Nat, time_flush \in Timespec
  PROVE  LET more == (log \o count) \o skippedLine(skippedTotal(past))
         IN  /\ more \in Seq(PeriodLine)
             /\ more = log \o (count \o skippedLine(skippedTotal(past)))
             /\ tuplesWritten(log) \in Int /\ periodsWritten(log) \in Int
             /\ tuplesWritten(more) = tuplesWritten(log) + ctr
             /\ past + 1 < UINT32 => periodsWritten(more) = periodsWritten(log) + (past + 1)
<1>1. PICK e \in Int : e = inNs(time_flush)
  BY TimespecParts
<1>2. PICK k \in Nat : k = skippedTotal(past)
  <2>1. (past + 1) % UINT32 \in Nat /\ past % UINT32 \in Nat
    BY PeriodicAssumption
  <2> QED
    BY <2>1 DEF skippedTotal
<1> DEFINE a == Count(e, ctr)
           b == Skipped(k)
           s == skippedLine(k)
           one == log \o count
<1>3. /\ a \in PeriodLine /\ a.kind = "count" /\ a.n = ctr
      /\ b \in PeriodLine /\ b.kind = "skipped" /\ b.n = k
  <2>1. a \in PeriodLine /\ b \in PeriodLine
    BY LineForms
  <2> QED
    BY <2>1 DEF Count, Skipped
<1>4. count = IF ctr > 0 THEN <<a>> ELSE <<>>
  BY <1>1 DEF count
<1>5. s = IF k > 0 THEN <<b>> ELSE <<>>
  BY DEF skippedLine
<1>6. tuplesIn(a) = ctr /\ periodsIn(a) = 1 /\ tuplesIn(b) = 0 /\ periodsIn(b) = k
  BY <1>3 DEF tuplesIn, periodsIn
<1> HIDE DEF a, b, s
<1>7. /\ one \in Seq(PeriodLine) /\ tuplesWritten(log) \in Int /\ periodsWritten(log) \in Int
      /\ tuplesWritten(one) = tuplesWritten(log) + ctr
      /\ periodsWritten(one) = periodsWritten(log) + (IF ctr > 0 THEN 1 ELSE 0)
  <2>1. /\ one \in Seq(PeriodLine) /\ tuplesWritten(log) \in Int /\ periodsWritten(log) \in Int
        /\ count = <<>> => /\ tuplesWritten(one) = tuplesWritten(log)
                           /\ periodsWritten(one) = periodsWritten(log)
        /\ count # <<>> => /\ tuplesWritten(one) = tuplesWritten(log) + tuplesIn(a)
                           /\ periodsWritten(one) = periodsWritten(log) + periodsIn(a)
    BY <1>3, <1>4, PieceWritten
  <2>2. count = <<>> <=> ctr = 0
    BY <1>4
  <2> QED
    BY <1>6, <2>1, <2>2
<1>8. /\ one \o s \in Seq(PeriodLine)
      /\ tuplesWritten(one \o s) = tuplesWritten(one)
      /\ periodsWritten(one \o s) = periodsWritten(one) + k
  <2> HIDE DEF one
  <2>1. /\ one \o s \in Seq(PeriodLine) /\ tuplesWritten(one) \in Int /\ periodsWritten(one) \in Int
        /\ s = <<>> => /\ tuplesWritten(one \o s) = tuplesWritten(one)
                       /\ periodsWritten(one \o s) = periodsWritten(one)
        /\ s # <<>> => /\ tuplesWritten(one \o s) = tuplesWritten(one) + tuplesIn(b)
                       /\ periodsWritten(one \o s) = periodsWritten(one) + periodsIn(b)
    BY <1>3, <1>5, <1>7, PieceWritten
  <2>2. s = <<>> <=> k = 0
    BY <1>5
  <2> QED
    BY <1>6, <2>1, <2>2
<1>9. (log \o count) \o s = log \o (count \o s)
  <2>1. count \in Seq(PeriodLine) /\ s \in Seq(PeriodLine)
    BY <1>3, <1>4, <1>5
  <2> QED
    BY <2>1, ConcatAssociative
<1>10. past + 1 < UINT32 => (IF ctr > 0 THEN 1 ELSE 0) + k = past + 1
  <2> SUFFICES ASSUME past + 1 < UINT32 PROVE (IF ctr > 0 THEN 1 ELSE 0) + k = past + 1
    OBVIOUS
  <2>1. past % UINT32 = past /\ (past + 1) % UINT32 = past + 1
    BY PeriodicAssumption, BelowModulus
  <2> QED
    BY <1>2, <2>1 DEF skippedTotal
<1> QED
  BY <1>2, <1>7, <1>8, <1>9, <1>10 DEF s

\* The header says nothing of tuples and periods.
LEMMA HeaderWritten ==
  ASSUME Ledger
  PROVE  /\ pcLog \o header \in Seq(PeriodLine)
         /\ tuplesWritten(pcLog \o header) = tuplesWritten(pcLog)
         /\ periodsWritten(pcLog \o header) = periodsWritten(pcLog)
         /\ tuplesWritten(pcLog) \in Int /\ periodsWritten(pcLog) \in Int
<1>1. Header \in PeriodLine /\ Header.kind = "header"
  BY LineForms DEF Header
<1>2. tuplesIn(Header) = 0 /\ periodsIn(Header) = 0
  BY <1>1 DEF tuplesIn, periodsIn
<1>3. pcLog \in Seq(PeriodLine) /\ (header = <<>> \/ header = <<Header>>)
  BY DEF Ledger, header
<1> HIDE DEF header
<1> QED
  BY <1>1, <1>2, <1>3, PieceWritten

\* A call that finds the period over, as it is recorded.
LEMMA PastPeriod ==
  ASSUME PeriodInv, NEW moment \in Nat, compareTS(fromNs(moment), time_flush) # -1,
         periodic_inc_ns # 0
  PROVE  passed(moment) \in Nat /\ skippedIntervals(moment) \in Nat
<1>1. PICK f \in Int : f = inNs(time_flush)
  BY TimespecParts DEF PeriodInv
<1>2. fromNs(moment) \in Timespec /\ inNs(fromNs(moment)) = moment /\ time_flush \in Timespec
  BY FromNsExact DEF PeriodInv
<1>3. moment - f >= 0
  BY <1>1, <1>2, CompareExact DEF sign
<1>4. elapsed_ns(moment) = moment - f
  BY <1>1, <1>2, <1>3, SubtractExact DEF elapsed_ns
<1>5. PICK e \in Nat : e = elapsed_ns(moment)
  BY <1>1, <1>3, <1>4
<1>6. periodic_inc_ns \in Nat \ {0}
  BY DEF PeriodInv
<1>7. passed(moment) \in Nat
  BY <1>5, <1>6, DivMod DEF passed
<1> QED
  BY <1>7, PeriodicAssumption DEF skippedIntervals

\* flushCtr writes the tuples in hand.
LEMMA FlushWritten ==
  ASSUME PeriodInv, Ledger, NEW moment \in Nat, NEW log \in Seq(PeriodLine),
         ~(periodic_inc_ns = 0 /\ compareTS(fromNs(moment), time_flush) # -1)
  PROVE  /\ log \o flushCtr(moment) \in Seq(PeriodLine)
         /\ tuplesWritten(log) \in Int
         /\ tuplesWritten(log \o flushCtr(moment)) = tuplesWritten(log) + ctr
<1>1. CASE compareTS(fromNs(moment), time_flush) = -1
  <2> DEFINE l == Truncated(moment, ctr)
  <2>0. ctr \in Nat
    BY DEF Ledger
  <2>1. l \in PeriodLine /\ l.kind = "truncated" /\ l.n = ctr
    BY <2>0, LineForms DEF Truncated
  <2>2. flushCtr(moment) = <<l>>
    BY <1>1 DEF flushCtr
  <2>3. tuplesIn(l) = ctr
    BY <2>1 DEF tuplesIn
  <2>4. l.kind # "reprogrammed" /\ <<l>> # <<>>
    BY <2>1
  <2> HIDE DEF l
  <2>5. /\ log \o <<l>> \in Seq(PeriodLine) /\ tuplesWritten(log) \in Int
        /\ tuplesWritten(log \o <<l>>) = tuplesWritten(log) + tuplesIn(l)
    BY <2>1, <2>4, PieceWritten
  <2> QED
    BY <2>2, <2>3, <2>5
<1>2. CASE compareTS(fromNs(moment), time_flush) # -1
  <2>1. PICK past \in Nat : past = skippedIntervals(moment)
    BY <1>2, PastPeriod
  <2>2. flushCtr(moment) = count \o skippedLine(skippedTotal(past))
    BY <1>2, <2>1 DEF flushCtr
  <2>3. ctr \in Nat /\ time_flush \in Timespec
    BY DEF Ledger, PeriodInv
  <2> DEFINE more == (log \o count) \o skippedLine(skippedTotal(past))
  <2>4. /\ more \in Seq(PeriodLine)
        /\ more = log \o (count \o skippedLine(skippedTotal(past)))
        /\ tuplesWritten(log) \in Int /\ tuplesWritten(more) = tuplesWritten(log) + ctr
    BY <2>3, PeriodWritten
  <2> QED
    BY <2>2, <2>4
<1> QED
  BY <1>1, <1>2

\* The log is empty at first.
LEMMA LedgerInit == PeriodicInit => Ledger
<1> SUFFICES ASSUME PeriodicInit PROVE Ledger
  OBVIOUS
<1>1. DEFAULT_PERIOD \in Nat /\ DEFAULT_PERIOD \in Int
  BY PeriodicAssumption
<1>2. /\ fromNs(0) \in Timespec /\ inNs(fromNs(0)) = 0
      /\ fromNs(DEFAULT_PERIOD) \in Timespec /\ inNs(fromNs(DEFAULT_PERIOD)) = DEFAULT_PERIOD
  BY <1>1, FromNsExact
<1>3. inNs(time_flush) = 0 + DEFAULT_PERIOD /\ inNs(time_start) = 0
  BY <1>2, AddExact DEF PeriodicInit
<1>4. pcLog \in Seq(PeriodLine) /\ tuplesWritten(pcLog) = 0 /\ periodsWritten(pcLog) = 0
  BY NothingWritten DEF PeriodicInit
<1>5. TuplesCounted
  BY <1>4 DEF TuplesCounted, PeriodicInit
<1>6. PeriodsAccounted
  BY <1>1, <1>3, <1>4 DEF PeriodsAccounted, PeriodicInit
<1> QED
  BY <1>2, <1>4, <1>5, <1>6 DEF Ledger, PeriodicInit

\* A process that failed has no promise to keep.
LEMMA LedgerFail ==
  ASSUME Ledger, Fail PROVE Ledger'
BY DEF Ledger, Fail, TuplesCounted, PeriodsAccounted

\* A tuple, in the period or after it.
LEMMA TupleLedger ==
  ASSUME NEW moment \in 0 .. MaxNow
  PROVE  PeriodInv /\ Ledger /\ PeriodicCounterHandler(moment) => Ledger'
<1> SUFFICES ASSUME PeriodInv, Ledger, PeriodicCounterHandler(moment) PROVE Ledger'
  OBVIOUS
<1>1. moment \in Nat /\ ~pcFailed /\ pcOpen
  BY LaterCall DEF PeriodicCounterHandler
<1>2. tuplesWritten(pcLog) \in Int /\ pcHandled = tuplesWritten(pcLog) + ctr
  BY <1>1, HeaderWritten DEF Ledger, TuplesCounted
<1>3. CASE ~expired(moment)
  <2>1. /\ ctr' = ctr + 1 /\ pcHandled' = pcHandled + 1
        /\ UNCHANGED <<time_start, time_flush, periodic_inc_ns, pcLog, pcOpen, outran,
                       pcFailed>>
    BY <1>3 DEF PeriodicCounterHandler
  <2>2. TuplesCounted'
    BY <1>1, <1>2, <2>1 DEF TuplesCounted, Ledger
  <2>3. PeriodsAccounted'
    BY <2>1 DEF PeriodsAccounted, Ledger
  <2> QED
    BY <2>1, <2>2, <2>3 DEF Ledger
<1>4. CASE expired(moment) /\ periodic_inc_ns = 0
  BY <1>4, LedgerFail DEF PeriodicCounterHandler
<1>5. CASE expired(moment) /\ periodic_inc_ns # 0
  <2>1. PICK past \in Nat : past = skippedIntervals(moment)
    BY <1>1, <1>5, PastPeriod DEF expired
  <2> DEFINE log == pcLog \o header
  <2>2. /\ pcLog' = (log \o count) \o skippedLine(skippedTotal(past))
        /\ time_flush' = addTS(time_flush, fromNs(next_shot(past)))
        /\ ctr' = 1 /\ pcHandled' = pcHandled + 1
        /\ outran' = (outran \/ passed(moment) + 1 >= UINT32)
        /\ UNCHANGED <<time_start, periodic_inc_ns, pcOpen, pcFailed>>
    BY <1>5, <2>1 DEF PeriodicCounterHandler, restarted
  <2>3. /\ log \in Seq(PeriodLine) /\ tuplesWritten(log) = tuplesWritten(pcLog)
        /\ periodsWritten(log) = periodsWritten(pcLog) /\ periodsWritten(pcLog) \in Int
    BY HeaderWritten
  <2> HIDE DEF log
  <2>4. /\ pcLog' \in Seq(PeriodLine)
        /\ tuplesWritten(pcLog') = tuplesWritten(pcLog) + ctr
        /\ past + 1 < UINT32 => periodsWritten(pcLog') = periodsWritten(pcLog) + (past + 1)
    BY <2>2, <2>3, PeriodWritten DEF Ledger, PeriodInv
  <2>5. TuplesCounted'
    BY <1>1, <1>2, <2>2, <2>4 DEF TuplesCounted, Ledger
  <2>6. ASSUME ~outran' PROVE PeriodsAccounted'
    <3>0. ~outran
      BY <2>2, <2>6, Zenon
    <3>1. ~outran /\ past + 1 < UINT32
      <4>1. passed(moment) \in Nat /\ passed(moment) + 1 < UINT32
        <5>1. ~(passed(moment) + 1 >= UINT32)
          BY <2>2, <2>6, Zenon
        <5>2. passed(moment) \in Nat
          BY <1>1, <1>5, PastPeriod DEF expired
        <5> QED
          BY <5>1, <5>2, PeriodicAssumption
      <4>2. passed(moment) % UINT32 = passed(moment)
        BY <4>1, PeriodicAssumption, BelowModulus
      <4> QED
        BY <2>1, <3>0, <4>1, <4>2 DEF skippedIntervals
    <3>2. PICK i \in Nat : i = periodic_inc_ns
      BY DEF PeriodInv
    <3>3. PICK f \in Int : f = inNs(time_flush)
      BY TimespecParts DEF PeriodInv
    <3>4. PICK s \in Int : s = inNs(time_start)
      BY TimespecParts DEF Ledger
    <3>5. PICK q \in Int : q = periodsWritten(pcLog)
      BY <2>3
    <3>6. PICK k \in Nat : k = (1 + past) * i
      OBVIOUS
    <3>7. inNs(time_flush') = f + k
      <4>1. fromNs(k) \in Timespec /\ inNs(fromNs(k)) = k /\ time_flush \in Timespec
        BY FromNsExact DEF PeriodInv
      <4>2. (1 + past) % UINT32 = 1 + past
        BY <3>1, PeriodicAssumption, BelowModulus
      <4>3. next_shot(past) = k
        BY <3>2, <3>6, <4>2 DEF next_shot
      <4> QED
        BY <2>2, <3>3, <4>1, <4>3, AddExact
    <3>8. f - s - i = q * i
      BY <1>1, <3>1, <3>2, <3>3, <3>4, <3>5 DEF Ledger, PeriodsAccounted
    <3>9. (f + k) - s - i = (q + (past + 1)) * i
      <4>1. (q + (past + 1)) * i = q * i + (1 + past) * i
        OBVIOUS
      <4> QED
        BY <3>6, <3>8, <4>1
    <3> QED
      BY <2>2, <2>4, <3>1, <3>2, <3>4, <3>5, <3>7, <3>9 DEF PeriodsAccounted
  <2>7. outran' => PeriodsAccounted'
    BY DEF PeriodsAccounted
  <2> QED
    BY <2>2, <2>4, <2>5, <2>6, <2>7 DEF Ledger
<1> QED
  BY <1>3, <1>4, <1>5

\* The channel is closed.
LEMMA CloseLedger ==
  ASSUME PeriodInv, Ledger, NEW moment \in Nat, pcOpen, ~pcFailed, PeriodicClose(moment)
  PROVE  Ledger'
<1>1. CASE periodic_inc_ns = 0 /\ compareTS(fromNs(moment), time_flush) # -1
  BY <1>1, LedgerFail DEF PeriodicClose
<1>2. CASE ~(periodic_inc_ns = 0 /\ compareTS(fromNs(moment), time_flush) # -1)
  <2> DEFINE l == ShutDown(moment)
             log == (pcLog \o header) \o flushCtr(moment)
  <2>1. /\ pcLog' = log \o <<l>> /\ pcOpen' = FALSE
        /\ UNCHANGED <<ctr, time_start, pcHandled, pcFailed>>
    BY <1>2 DEF PeriodicClose
  <2>2. /\ log \in Seq(PeriodLine) /\ tuplesWritten(log) = tuplesWritten(pcLog) + ctr
        /\ tuplesWritten(pcLog) \in Int
    BY <1>2, HeaderWritten, FlushWritten
  <2>3. l \in PeriodLine /\ l.kind = "shut down"
    <3>1. moment \in Int /\ ctr \in Nat
      BY DEF Ledger
    <3>2. l \in PeriodLine
      BY <3>1, LineForms
    <3> QED
      BY <3>2 DEF ShutDown
  <2>4. tuplesIn(l) = 0
    BY <2>3 DEF tuplesIn
  <2> HIDE DEF l, log
  <2>5. pcLog' \in Seq(PeriodLine) /\ tuplesWritten(pcLog') = tuplesWritten(pcLog) + ctr
    <3>1. /\ log \o <<l>> \in Seq(PeriodLine) /\ tuplesWritten(log) \in Int
          /\ tuplesWritten(log \o <<l>>) = tuplesWritten(log) + 0
      BY <2>2, <2>3, <2>4, PieceWritten
    <3> QED
      BY <2>1, <2>2, <3>1
  <2>6. TuplesCounted' /\ PeriodsAccounted'
    BY <2>1, <2>2, <2>5 DEF Ledger, TuplesCounted, PeriodsAccounted
  <2> QED
    BY <2>1, <2>5, <2>6 DEF Ledger
<1> QED
  BY <1>1, <1>2

\* Its period is set: periods are accounted for from here on.
LEMMA ReprogramLedger ==
  ASSUME NEW moment \in 0 .. MaxNow, NEW p \in Periods
  PROVE  PeriodInv /\ Ledger /\ setArgPeriodicCounterHandler(moment, p) => Ledger'
<1> SUFFICES ASSUME PeriodInv, Ledger, setArgPeriodicCounterHandler(moment, p) PROVE Ledger'
  OBVIOUS
<1>1. moment \in Nat /\ pcOpen /\ ~pcFailed /\ p \in Int
  BY LaterCall, PeriodicAssumption DEF setArgPeriodicCounterHandler
<1>2. CASE p < 0
  BY <1>1, <1>2, CloseLedger DEF setArgPeriodicCounterHandler
<1>3. CASE ~(p < 0) /\ periodic_inc_ns = 0 /\ compareTS(fromNs(moment), time_flush) # -1
  BY <1>3, LedgerFail DEF setArgPeriodicCounterHandler
<1>4. CASE ~(p < 0) /\ ~(periodic_inc_ns = 0 /\ compareTS(fromNs(moment), time_flush) # -1)
  <2> DEFINE l == Reprogrammed
             log == (pcLog \o header) \o flushCtr(moment)
  <2>1. /\ pcLog' = log \o <<l>> /\ time_start' = fromNs(moment) /\ periodic_inc_ns' = p
        /\ time_flush' = addTS(fromNs(moment), fromNs(p)) /\ ctr' = 0
        /\ UNCHANGED <<pcOpen, pcHandled, pcFailed>>
    BY <1>4 DEF setArgPeriodicCounterHandler
  <2>2. /\ log \in Seq(PeriodLine) /\ tuplesWritten(log) = tuplesWritten(pcLog) + ctr
        /\ tuplesWritten(pcLog) \in Int
    BY <1>1, <1>4, HeaderWritten, FlushWritten
  <2>3. l \in PeriodLine /\ l.kind = "reprogrammed"
    BY <1>1, LineForms DEF Reprogrammed
  <2>4. tuplesIn(l) = 0 /\ periodsIn(l) = 0
    BY <2>3 DEF tuplesIn, periodsIn
  <2> HIDE DEF l, log
  <2>5. /\ pcLog' \in Seq(PeriodLine) /\ tuplesWritten(pcLog') = tuplesWritten(pcLog) + ctr
        /\ periodsWritten(pcLog') = 0
    <3>1. log \o <<l>> = Append(log, l) /\ Append(log, l) \in Seq(PeriodLine)
      BY <2>2, <2>3
    <3>2. /\ tuplesWritten(Append(log, l)) = tuplesWritten(log) + 0
          /\ periodsWritten(Append(log, l)) = 0
      BY <2>2, <2>3, <2>4, LineWritten
    <3>3. tuplesWritten(log) \in Int
      BY <2>2, <2>3, LineWritten
    <3>4. pcLog' = Append(log, l)
      BY <2>1, <3>1
    <3> QED
      BY <2>2, <3>1, <3>2, <3>3, <3>4
  <2>6. TuplesCounted'
    <3>1. pcHandled = tuplesWritten(pcLog) + ctr /\ ctr \in Nat
      BY <1>1 DEF Ledger, TuplesCounted
    <3> QED
      BY <1>1, <2>1, <2>2, <2>5, <3>1 DEF TuplesCounted
  <2>7. /\ fromNs(moment) \in Timespec /\ inNs(fromNs(moment)) = moment
        /\ fromNs(p) \in Timespec /\ inNs(fromNs(p)) = p
    BY <1>1, FromNsExact
  <2>8. inNs(time_flush') = moment + p /\ inNs(time_start') = moment
    BY <2>1, <2>7, AddExact
  <2>9. PeriodsAccounted'
    BY <1>1, <2>1, <2>5, <2>8 DEF PeriodsAccounted
  <2> QED
    BY <2>1, <2>5, <2>6, <2>7, <2>9 DEF Ledger
<1> QED
  BY <1>2, <1>3, <1>4

\* The log of a periodic counter is a complete time line: the counts add up to the
\* tuples handled, for every period that is set and every time between two calls, through
\* the end of the channel; and until a tuple comes so late that a uint32_t does not count
\* the periods, every period is there as a count or as skipped and a count is of the
\* tuples of its period (periodic_counter_handler.cpp, PeriodicCounterHandler, flushCtr,
\* setArgPeriodicCounterHandler).
THEOREM PeriodicTimeLine == PeriodicSpec => []TimeLineComplete
<1>1. PeriodicInit => PeriodInv /\ Ledger
  BY PeriodInitInv, LedgerInit
<1>2. PeriodInv /\ Ledger /\ [PeriodicNext]_pcVars => PeriodInv' /\ Ledger'
  <2>1. ASSUME PeriodInv, Ledger, PeriodicNext PROVE PeriodInv' /\ Ledger'
    <3>1. PICK moment \in 0 .. MaxNow :
            \/ PeriodicCounterHandler(moment) \/ closePeriodic(moment)
            \/ \E p \in Periods : setArgPeriodicCounterHandler(moment, p)
      BY <2>1 DEF PeriodicNext
    <3>2. PeriodInv'
      BY <2>1, <3>1, TupleInv, ReprogramInv
    <3>3. CASE closePeriodic(moment)
      <4>1. moment \in Nat
        BY <2>1, <3>3, LaterCall DEF closePeriodic
      <4> QED
        BY <2>1, <3>2, <3>3, <4>1, CloseLedger DEF closePeriodic
    <3> QED
      BY <2>1, <3>1, <3>2, <3>3, TupleLedger, ReprogramLedger
  <2>2. PeriodInv /\ Ledger /\ UNCHANGED pcVars => PeriodInv' /\ Ledger'
    BY DEF pcVars, PeriodInv, CountedInPeriod, Ledger, TuplesCounted, PeriodsAccounted
  <2> QED
    BY <2>1, <2>2
<1>3. PeriodInv /\ Ledger => TimeLineComplete
  BY DEF PeriodInv, Ledger, TimeLineComplete
<1> QED
  BY <1>1, <1>2, <1>3, PTL DEF PeriodicSpec

-----------------------------------------------------------------------------
(* The converter: ConvertedFaithfully for every set of logs.  It says what  *)
(* is true when all is done; the invariant has, for each log, what the     *)
(* loop has written when it has read the items before pos, and which pass  *)
(* what is not done yet is still to come in.                               *)

\* What complete_tuples puts together, and what it has after n items.
Pieces(o) ==
  [k \in DOMAIN o.items |->
     IF \E j \in 1 .. k : o.items[j].kind = "part" THEN <<>> ELSE o.items[k].data]

Upto(o, n) == FlattenSeq(SubSeq(Pieces(o), 1, n))

\* The first n items are whole.
Whole(o, n) == \A j \in 1 .. n : o.items[j].kind # "part"

Item == [kind : {"record", "block", "bad", "part"}, data : Seq(Nat)]

\* The items of a log, and what is put together of them.
LEMMA ItemsTyped ==
  ASSUME NEW o \in Originals
  PROVE  /\ o.items \in Seq(Item) /\ DOMAIN o.items = 1 .. Len(o.items) /\ Len(o.items) \in Nat
         /\ Pieces(o) \in Seq(Seq(Nat)) /\ Len(Pieces(o)) = Len(o.items)
<1>1. o.items \in Seq(Item)
  BY ConverterAssumption DEF Item
<1>2. DOMAIN o.items = 1 .. Len(o.items) /\ Len(o.items) \in Nat
  BY <1>1
<1>3. ASSUME NEW k \in 1 .. Len(o.items) PROVE o.items[k].data \in Seq(Nat)
  <2>1. o.items[k] \in Item
    BY <1>1
  <2> QED
    BY <2>1 DEF Item
<1>4. \A k \in 1 .. Len(o.items) :
        (IF \E j \in 1 .. k : o.items[j].kind = "part" THEN <<>> ELSE o.items[k].data)
          \in Seq(Nat)
  BY <1>3
<1>5. Pieces(o) \in [1 .. Len(o.items) -> Seq(Nat)]
  BY <1>2, <1>4 DEF Pieces
<1> QED
  BY <1>1, <1>2, <1>5

\* An item more.
LEMMA UptoNext ==
  ASSUME NEW o \in Originals, NEW n \in Nat, n + 1 <= Len(o.items)
  PROVE  /\ Upto(o, n) \in Seq(Nat) /\ Upto(o, n + 1) \in Seq(Nat)
         /\ Whole(o, n + 1) => Upto(o, n + 1) = Upto(o, n) \o o.items[n + 1].data
         /\ ~Whole(o, n + 1) => Upto(o, n + 1) = Upto(o, n)
<1> DEFINE p == Pieces(o)
           s == SubSeq(p, 1, n)
           t == SubSeq(p, 1, n + 1)
<1>1. p \in Seq(Seq(Nat)) /\ n + 1 <= Len(p) /\ n + 1 \in DOMAIN o.items
  BY ItemsTyped
<1>2. p[n + 1] = IF \E j \in 1 .. n + 1 : o.items[j].kind = "part" THEN <<>>
                 ELSE o.items[n + 1].data
  BY <1>1 DEF Pieces
<1>3. p[n + 1] = IF Whole(o, n + 1) THEN o.items[n + 1].data ELSE <<>>
  BY <1>2 DEF Whole
<1> HIDE DEF p
<1>4. /\ s \in Seq(Seq(Nat)) /\ t \in Seq(Seq(Nat)) /\ Len(s) = n /\ Len(t) = n + 1
      /\ \A i \in 1 .. n : t[i] = s[i]
      /\ t[n + 1] = p[n + 1] /\ p[n + 1] \in Seq(Nat)
  BY <1>1
<1> HIDE DEF s, t
<1>5. FlattenSeq(s) \in Seq(Nat) /\ FlattenSeq(t) = FlattenSeq(s) \o t[Len(t)]
  BY <1>4, FlattenAppend
<1>6. Upto(o, n) = FlattenSeq(s) /\ Upto(o, n + 1) = FlattenSeq(t)
  BY DEF Upto, s, t, p
<1>7. Upto(o, n) \in Seq(Nat) /\ Upto(o, n + 1) = Upto(o, n) \o p[n + 1]
  BY <1>4, <1>5, <1>6
<1>8. Upto(o, n + 1) \in Seq(Nat)
  <2>1. PICK u \in Seq(Nat) : u = Upto(o, n)
    BY <1>7
  <2>2. PICK v \in Seq(Nat) : v = p[n + 1]
    BY <1>4
  <2>3. u \o v \in Seq(Nat)
    OBVIOUS
  <2> QED
    BY <1>7, <2>1, <2>2, <2>3
<1>9. Upto(o, n) \o <<>> = Upto(o, n)
  BY <1>7, ConcatEmptySeq
<1> QED
  BY <1>3, <1>7, <1>8, <1>9

\* Nothing has been read at first.
LEMMA UptoNone == ASSUME NEW o \in Originals PROVE Upto(o, 0) = <<>>
<1>1. SubSeq(Pieces(o), 1, 0) = <<>>
  BY ItemsTyped
<1> QED
  BY <1>1 DEF Upto, FlattenSeq

\* At the end of the file, or of what is whole of it, all of it has been read.
LEMMA UptoEnd ==
  ASSUME NEW o \in Originals, NEW n \in Nat, n <= Len(o.items),
         n + 1 <= Len(o.items) => o.items[n + 1].kind = "part"
  PROVE  Upto(o, n) = complete_tuples(o)
<1> DEFINE K == {m \in Nat : n + m <= Len(o.items) => Upto(o, n + m) = Upto(o, n)}
<1>0. Len(o.items) \in Nat
  BY ItemsTyped
<1>1. 0 \in K
  OBVIOUS
<1>2. ASSUME NEW m \in K PROVE m + 1 \in K
  <2>1. SUFFICES ASSUME (n + m) + 1 <= Len(o.items)
                 PROVE  Upto(o, (n + m) + 1) = Upto(o, n)
    BY <1>0, <1>2
  <2>2. Upto(o, n + m) = Upto(o, n)
    BY <1>0, <1>2, <2>1
  <2>3. n + 1 \in 1 .. (n + m) + 1 /\ n + 1 <= Len(o.items)
    BY <1>0, <1>2, <2>1
  <2>4. ~Whole(o, (n + m) + 1)
    BY <2>3 DEF Whole
  <2>5. n + m \in Nat
    BY <1>2
  <2> HIDE DEF K
  <2> QED
    BY <2>1, <2>2, <2>4, <2>5, UptoNext
<1>3. K = Nat
  <2> HIDE DEF K
  <2>1. K \in SUBSET Nat
    BY DEF K
  <2> QED
    BY <1>1, <1>2, <2>1, SetInduction
<1>4. PICK m \in Nat : n + m = Len(o.items)
  <2>1. Len(o.items) - n \in Nat /\ n + (Len(o.items) - n) = Len(o.items)
    BY <1>0
  <2> QED
    BY <2>1
<1>5. Upto(o, Len(o.items)) = Upto(o, n)
  <2>1. m \in K
    BY <1>3
  <2> QED
    BY <1>0, <1>4, <2>1
<1>6. SubSeq(Pieces(o), 1, Len(o.items)) = Pieces(o)
  BY ItemsTyped
<1>7. complete_tuples(o) = FlattenSeq(Pieces(o))
  BY DEF complete_tuples, Pieces
<1> QED
  BY <1>5, <1>6, <1>7 DEF Upto

\* The logs that ConvertedFaithfully is about.
Sound == {c \in Channels : convertible(original[c]) /\ intact(original[c])}

FileNames == Channels \X {"a", "b", "z", "l", "y"}

\* The log of a channel, and what it is turned into.
Named(c) == <<c, original[c].fmt>>
Bin(c) == <<c, "b">>
Asc(c) == <<c, "a">>

Unpacked(c) == /\ Bin(c) \in DOMAIN disk
               /\ disk[Bin(c)] = tuples_of(complete_tuples(original[c]))
Ready(c) == original[c].fmt = "b" \/ Unpacked(c)
Converted(c) == Asc(c) \in DOMAIN disk /\ disk[Asc(c)] = complete_tuples(original[c])
AtWork(c) == bpc \in {"decompress", "convert"} /\ file[1] = c

\* The files and the passes.
ConvTypes ==
  /\ original \in [Channels -> Originals]
  /\ given \in BOOLEAN /\ decomp \in BOOLEAN
  /\ DOMAIN disk \subseteq FileNames /\ left \subseteq DOMAIN disk
  /\ bpc \in {"decompress", "convert"} => file \in FileNames

Passes ==
  /\ given => ~decomp /\ bpc # "opendir" /\ left \subseteq {Named(c) : c \in Channels}
  /\ bpc = "decompress" => given \/ decomp
  /\ bpc = "convert" => ~decomp
  /\ bpc = "done" => left = {} /\ ~decomp

\* A log is not overwritten.
LogKept(c) ==
  /\ Named(c) \in DOMAIN disk /\ disk[Named(c)] = original[c].items
  /\ \A x \in {"z", "l"} : <<c, x>> \in DOMAIN disk => x = original[c].fmt

\* What decompress has written when it has read the items before pos,
Unpacking(c) ==
  bpc = "decompress" /\ file[1] = c =>
    /\ file = Named(c) /\ original[c].fmt # "b" /\ (given \/ decomp)
    /\ Bin(c) \in DOMAIN disk
    /\ pos \in 1 .. Len(original[c].items) + 1 /\ Whole(original[c], pos - 1)
    /\ disk[Bin(c)] = tuples_of(Upto(original[c], pos - 1))

\* and what convertBinToASCII has, from a log or from what decompress made of one.
Converting(c) ==
  bpc = "convert" /\ file[1] = c =>
    /\ file = Bin(c) /\ ~decomp /\ Asc(c) \in DOMAIN disk
    /\ original[c].fmt = "b" =>
         /\ pos \in 1 .. Len(original[c].items) + 1 /\ Whole(original[c], pos - 1)
         /\ disk[Asc(c)] = Upto(original[c], pos - 1)
    /\ original[c].fmt # "b" =>
         /\ Unpacked(c) /\ pos \in 1 .. Len(complete_tuples(original[c])) + 1
         /\ disk[Asc(c)] = SubSeq(complete_tuples(original[c]), 1, pos - 1)

\* What is not done is still to come, in this pass or in the next.
Due(c) ==
  /\ given /\ bpc \in {"pick", "decompress", "convert", "done"} =>
       Named(c) \in left \/ Converted(c) \/ AtWork(c)
  /\ decomp /\ bpc \in {"pick", "decompress"} => Named(c) \in left \/ Ready(c) \/ AtWork(c)
  /\ ~given /\ ~decomp =>
       /\ Ready(c)
       /\ bpc \in {"pick", "convert", "done"} => Bin(c) \in left \/ Converted(c) \/ AtWork(c)

ConvInv ==
  writable => /\ ConvTypes /\ Passes
              /\ \A c \in Sound : LogKept(c) /\ Unpacking(c) /\ Converting(c) /\ Due(c)

\* Names of files.
LEMMA NamesApart ==
  ASSUME NEW c, NEW d, NEW x, NEW y
  PROVE  /\ <<c, x>> = <<d, y>> <=> c = d /\ x = y
         /\ <<c, x>>[1] = c /\ <<c, x>>[2] = x
OBVIOUS

\* A sound log has a format and items that are known.
LEMMA SoundLog ==
  ASSUME ConvTypes, NEW c \in Sound
  PROVE  /\ c \in Channels /\ original[c] \in Originals
         /\ original[c].fmt \in {"b", "z", "l"}
         /\ \A k \in 1 .. Len(original[c].items) : original[c].items[k].kind # "bad"
<1>1. c \in Channels /\ original[c] \in Originals
  BY DEF Sound, ConvTypes
<1> QED
  BY <1>1, ItemsTyped DEF Sound, convertible, intact

\* What the tuples of a log are.
LEMMA TuplesTyped ==
  ASSUME NEW o \in Originals
  PROVE  complete_tuples(o) \in Seq(Nat)
<1>1. PICK n \in Nat : n = Len(o.items)
  BY ItemsTyped
<1>2. Upto(o, n) = complete_tuples(o)
  BY <1>1, UptoEnd
<1>3. CASE n = 0
  <2>1. complete_tuples(o) = <<>>
    BY <1>2, <1>3, UptoNone
  <2> QED
    BY <2>1
<1>4. CASE n # 0
  <2>1. n - 1 \in Nat /\ (n - 1) + 1 = n
    BY <1>4
  <2>2. (n - 1) + 1 <= Len(o.items)
    BY <1>1, <2>1
  <2>3. Upto(o, (n - 1) + 1) \in Seq(Nat)
    BY <2>1, <2>2, UptoNext
  <2> QED
    BY <1>2, <2>1, <2>3
<1> QED
  BY <1>3, <1>4

\* A step on the files of another channel, or on none.
SameFiles(c) ==
  \A x \in {"a", "b", "z", "l", "y"} :
    /\ <<c, x>> \in DOMAIN disk' <=> <<c, x>> \in DOMAIN disk
    /\ <<c, x>> \in DOMAIN disk => disk'[<<c, x>>] = disk[<<c, x>>]

\* What it leaves alone.
LEMMA FilesFrame ==
  ASSUME ConvTypes, NEW c \in Sound, SameFiles(c), UNCHANGED original, LogKept(c)
  PROVE  /\ LogKept(c)'
         /\ Unpacked(c)' <=> Unpacked(c)
         /\ Ready(c)' <=> Ready(c)
         /\ Converted(c)' <=> Converted(c)
<1>1. original[c].fmt \in {"b", "z", "l"}
  BY SoundLog
<1>2. LogKept(c)'
  BY <1>1 DEF LogKept, SameFiles, Named
<1>3. (Unpacked(c)' <=> Unpacked(c)) /\ (Converted(c)' <=> Converted(c))
  BY DEF Unpacked, Converted, SameFiles, Bin, Asc
<1> QED
  BY <1>2, <1>3 DEF Ready

\* Opening the output: a new file, or one that is empty again.
LEMMA OpenDisk ==
  ASSUME NEW loop, NEW src, NEW dst, writable, open(loop, src, dst)
  PROVE  /\ DOMAIN disk' = DOMAIN disk \cup {dst}
         /\ disk'[dst] = <<>>
         /\ \A f \in DOMAIN disk : f # dst => disk'[f] = disk[f]
BY DEF open

\* All that is said of a channel.
LogInv(c) == LogKept(c) /\ Unpacking(c) /\ Converting(c) /\ Due(c)

\* A step that opens no file.
LEMMA QuietFiles ==
  ASSUME UNCHANGED disk, NEW c PROVE SameFiles(c)
BY DEF SameFiles

\* A pass over the directory starts,
LEMMA OpenDirectoryInv ==
  ASSUME ConvInv, writable, openDirectory
  PROVE  ConvTypes' /\ Passes' /\ \A c \in Sound : LogInv(c)'
<1>1. /\ bpc = "opendir" /\ bpc' = "pick" /\ left' = DOMAIN disk
      /\ UNCHANGED <<original, given, writable, disk, decomp, file, pos>>
  BY DEF openDirectory
<1>2. ConvTypes /\ Passes
  BY DEF ConvInv
<1>3. ConvTypes' /\ Passes'
  BY <1>1, <1>2 DEF ConvTypes, Passes
<1>4. ASSUME NEW c \in Sound PROVE LogInv(c)'
  <2>1. LogKept(c) /\ Due(c)
    BY DEF ConvInv
  <2>2. /\ LogKept(c)' /\ (Unpacked(c)' <=> Unpacked(c)) /\ (Ready(c)' <=> Ready(c))
    BY <1>1, <1>2, <2>1, QuietFiles, FilesFrame
  <2>3. Unpacking(c)' /\ Converting(c)'
    BY <1>1 DEF Unpacking, Converting
  <2>4. Named(c)' = Named(c) /\ Named(c) \in left'
    BY <1>1, <2>1 DEF Named, LogKept
  <2>5. Ready(c) => Bin(c) \in left'
    BY <1>1, <2>4 DEF Ready, Unpacked, Named, Bin
  <2>6. ~given
    BY <1>1, <1>2 DEF Passes
  <2>7. Due(c)'
    BY <1>1, <2>1, <2>2, <2>4, <2>5, <2>6 DEF Due, Bin
  <2> QED
    BY <2>2, <2>3, <2>7 DEF LogInv
<1> QED
  BY <1>3, <1>4

\* ends,
LEMMA EndPassInv ==
  ASSUME ConvInv, writable, EndPass
  PROVE  ConvTypes' /\ Passes' /\ \A c \in Sound : LogInv(c)'
<1>1. /\ bpc = "pick" /\ left = {} /\ bpc' = (IF decomp THEN "opendir" ELSE "done")
      /\ decomp' = FALSE /\ UNCHANGED <<original, given, writable, disk, left, file, pos>>
  BY DEF EndPass
<1>2. ConvTypes /\ Passes
  BY DEF ConvInv
<1>3. ConvTypes' /\ Passes'
  BY <1>1, <1>2 DEF ConvTypes, Passes, Named
<1>4. ASSUME NEW c \in Sound PROVE LogInv(c)'
  <2>1. LogKept(c) /\ Due(c)
    BY DEF ConvInv
  <2>2. /\ LogKept(c)' /\ (Ready(c)' <=> Ready(c)) /\ (Converted(c)' <=> Converted(c))
    BY <1>1, <1>2, <2>1, QuietFiles, FilesFrame
  <2>3. Unpacking(c)' /\ Converting(c)'
    BY <1>1 DEF Unpacking, Converting
  <2>4. ~AtWork(c)
    BY <1>1 DEF AtWork
  <2>5. Due(c)'
    BY <1>1, <1>2, <2>1, <2>2, <2>4 DEF Due, Passes, ConvTypes
  <2> QED
    BY <2>2, <2>3, <2>5 DEF LogInv
<1> QED
  BY <1>3, <1>4

\* or cannot start.
LEMMA DirectoryFailsInv ==
  ASSUME ConvInv, writable, DirectoryFails
  PROVE  ConvTypes' /\ Passes' /\ \A c \in Sound : LogInv(c)'
<1>1. /\ ~given /\ bpc' = "failed"
      /\ UNCHANGED <<original, given, writable, disk, decomp, left, file, pos>>
  BY DEF DirectoryFails
<1>2. ConvTypes /\ Passes
  BY DEF ConvInv
<1>3. ConvTypes' /\ Passes'
  BY <1>1, <1>2 DEF ConvTypes, Passes
<1>4. ASSUME NEW c \in Sound PROVE LogInv(c)'
  <2>1. LogKept(c) /\ Due(c)
    BY DEF ConvInv
  <2>2. LogKept(c)' /\ (Ready(c)' <=> Ready(c))
    BY <1>1, <1>2, <2>1, QuietFiles, FilesFrame
  <2>3. Unpacking(c)' /\ Converting(c)'
    BY <1>1 DEF Unpacking, Converting
  <2>5. Due(c)'
    BY <1>1, <2>1, <2>2 DEF Due
  <2> QED
    BY <2>2, <2>3, <2>5 DEF LogInv
<1> QED
  BY <1>3, <1>4

\* What open does to the files of the other channels.
LEMMA OpenOthers ==
  ASSUME ConvTypes, writable, NEW loop, NEW src, NEW d \in Channels, NEW y, open(loop, src, <<d, y>>),
         NEW c \in Sound, c # d
  PROVE  SameFiles(c)
<1>1. /\ DOMAIN disk' = DOMAIN disk \cup {<<d, y>>}
      /\ \A f \in DOMAIN disk : f # <<d, y>> => disk'[f] = disk[f]
  BY OpenDisk
<1>2. \A x : <<c, x>> # <<d, y>>
  BY NamesApart
<1> QED
  BY <1>1, <1>2 DEF SameFiles

\* A sound log is to be decompressed or to be converted.
LEMMA KindOfLog ==
  ASSUME ConvTypes, NEW c \in Sound
  PROVE  /\ binary(Named(c)) <=> original[c].fmt = "b"
         /\ compressed(Named(c)) <=> original[c].fmt # "b"
         /\ Named(c)[1] = c /\ Bin(c)[1] = c /\ binary(Bin(c)) /\ ~compressed(Bin(c))
         /\ Asc(c)[1] = c
         /\ original[c].fmt = "b" <=> Named(c) = Bin(c)
         /\ Named(c) # Asc(c) /\ Bin(c) # Asc(c)
<1>1. original[c].fmt \in {"b", "z", "l"}
  BY SoundLog
<1> QED
  BY <1>1 DEF Named, Bin, Asc, binary, compressed

\* PickFile, when decompress takes the file.
LEMMA PickCompressedInv ==
  ASSUME ConvInv, writable, bpc = "pick", NEW f \in left, left' = left \ {f},
         given \/ decomp, compressed(f), open("decompress", f, <<f[1], "b">>),
         UNCHANGED <<original, given, writable, decomp>>
  PROVE  ConvTypes' /\ Passes' /\ \A c \in Sound : LogInv(c)'
<1>1. ConvTypes /\ Passes
  BY DEF ConvInv
<1>2. PICK d \in Channels, y \in {"z", "l"} : f = <<d, y>> /\ f[1] = d /\ f \in DOMAIN disk
  BY <1>1 DEF ConvTypes, FileNames, compressed
<1>3. open("decompress", f, Bin(d))
  BY <1>2 DEF Bin
<1>4. /\ DOMAIN disk' = DOMAIN disk \cup {Bin(d)} /\ disk'[Bin(d)] = <<>>
      /\ \A g \in DOMAIN disk : g # Bin(d) => disk'[g] = disk[g]
  BY <1>3, OpenDisk
<1>5. file' = f /\ pos' = 1 /\ bpc' \in {"decompress", "spins"}
  BY DEF open
<1>6. ConvTypes'
  <2>1. f \in FileNames /\ Bin(d) \in FileNames
    BY <1>1, <1>2 DEF ConvTypes, FileNames, Bin
  <2> QED
    BY <1>1, <1>4, <1>5, <2>1 DEF ConvTypes
<1>7. Passes'
  BY <1>1, <1>5 DEF Passes, Named
<1>8. ASSUME NEW c \in Sound, c = d PROVE LogInv(c)'
  <2>1. LogKept(c) /\ Due(c)
    BY DEF ConvInv
  <2>2. f = Named(c) /\ Named(c)' = Named(c) /\ Bin(c)' = Bin(c)
    BY <1>2, <1>8, <2>1 DEF LogKept, Named, Bin
  <2>3. original[c].fmt # "b" /\ Named(c) # Bin(c) /\ original[c].fmt \in {"b", "z", "l"}
    BY <1>1, <2>2, KindOfLog, SoundLog
  <2>4. LogKept(c)'
    <3>1. Named(c) \in DOMAIN disk' /\ disk'[Named(c)] = original[c].items
      BY <1>4, <1>8, <2>1, <2>3 DEF LogKept
    <3>2. \A x \in {"z", "l"} : <<c, x>> # Bin(c)
      BY DEF Bin
    <3> QED
      BY <1>4, <1>8, <2>1, <2>2, <3>1, <3>2 DEF LogKept
  <2>5. Unpacking(c)'
    <3>1. original[c] \in Originals
      BY <1>1, SoundLog
    <3>2. Upto(original[c], 0) = <<>> /\ Len(original[c].items) \in Nat
      BY <3>1, UptoNone, ItemsTyped
    <3>3. tuples_of(<<>>) = <<>>
      BY DEF tuples_of
    <3>4. Whole(original[c], 0) /\ 1 \in 1 .. Len(original[c].items) + 1 /\ 1 - 1 = 0
      BY <3>2 DEF Whole
    <3> QED
      BY <1>4, <1>5, <1>8, <2>2, <2>3, <3>2, <3>3, <3>4 DEF Unpacking
  <2>6. Converting(c)'
    BY <1>5 DEF Converting
  <2>7. bpc' = "decompress" => AtWork(c)'
    BY <1>2, <1>5, <1>8 DEF AtWork
  <2>8. Due(c)'
    BY <1>5, <2>7 DEF Due
  <2> QED
    BY <2>4, <2>5, <2>6, <2>8 DEF LogInv
<1>9. ASSUME NEW c \in Sound, c # d PROVE LogInv(c)'
  <2>1. LogKept(c) /\ Due(c)
    BY DEF ConvInv
  <2>2. SameFiles(c)
    BY <1>1, <1>3, <1>9, OpenOthers DEF Bin
  <2>3. /\ LogKept(c)' /\ (Ready(c)' <=> Ready(c)) /\ (Converted(c)' <=> Converted(c))
    BY <1>1, <2>1, <2>2, FilesFrame
  <2>4. Unpacking(c)' /\ Converting(c)'
    BY <1>2, <1>5, <1>9 DEF Unpacking, Converting
  <2>5. Named(c)' = Named(c) /\ Named(c) # f
    BY <1>2, <1>9 DEF Named
  <2>6. Due(c)'
    BY <1>5, <2>1, <2>3, <2>5 DEF Due, AtWork
  <2> QED
    BY <2>3, <2>4, <2>6 DEF LogInv
<1> QED
  BY <1>6, <1>7, <1>8, <1>9

\* When convertBinToASCII takes it.
LEMMA PickBinaryInv ==
  ASSUME ConvInv, writable, bpc = "pick", NEW f \in left, left' = left \ {f},
         given \/ ~decomp, binary(f), open("convert", f, <<f[1], "a">>),
         UNCHANGED <<original, given, writable, decomp>>
  PROVE  ConvTypes' /\ Passes' /\ \A c \in Sound : LogInv(c)'
<1>1. ConvTypes /\ Passes
  BY DEF ConvInv
<1>2. PICK d \in Channels : f = Bin(d) /\ f[1] = d /\ f \in DOMAIN disk
  BY <1>1 DEF ConvTypes, FileNames, binary, Bin
<1>3. open("convert", f, Asc(d)) /\ ~decomp
  BY <1>1, <1>2 DEF Asc, Passes
<1>4. /\ DOMAIN disk' = DOMAIN disk \cup {Asc(d)} /\ disk'[Asc(d)] = <<>>
      /\ \A g \in DOMAIN disk : g # Asc(d) => disk'[g] = disk[g]
  BY <1>3, OpenDisk
<1>5. file' = f /\ pos' = 1 /\ bpc' \in {"convert", "spins"}
  BY DEF open
<1>6. ConvTypes'
  <2>1. f \in FileNames /\ Asc(d) \in FileNames
    BY <1>1, <1>2 DEF ConvTypes, FileNames, Asc
  <2> QED
    BY <1>1, <1>4, <1>5, <2>1 DEF ConvTypes
<1>7. Passes'
  BY <1>1, <1>5 DEF Passes, Named
<1>8. ASSUME NEW c \in Sound, c = d PROVE LogInv(c)'
  <2>1. LogKept(c) /\ Due(c)
    BY DEF ConvInv
  <2>2. Named(c)' = Named(c) /\ Bin(c)' = Bin(c) /\ Asc(c)' = Asc(c)
    BY DEF Named, Bin, Asc
  <2>3. Named(c) # Asc(c) /\ Bin(c) # Asc(c)
    BY <1>1, KindOfLog
  <2>4. LogKept(c)'
    <3>1. Named(c) \in DOMAIN disk' /\ disk'[Named(c)] = original[c].items
      BY <1>4, <1>8, <2>1, <2>3 DEF LogKept
    <3>2. \A x \in {"z", "l"} : <<c, x>> # Asc(c)
      BY DEF Asc
    <3> QED
      BY <1>4, <1>8, <2>1, <2>2, <3>1, <3>2 DEF LogKept
  <2>5. Unpacking(c)'
    BY <1>5 DEF Unpacking
  <2>6. Ready(c)
    <3>1. CASE given
      <4>1. PICK e \in Channels : f = Named(e)
        BY <1>1, <3>1 DEF Passes
      <4>2. original[c].fmt = "b"
        BY <1>2, <1>8, <4>1 DEF Named, Bin
      <4> QED
        BY <4>2 DEF Ready
    <3>2. CASE ~given
      BY <1>3, <2>1, <3>2 DEF Due
    <3> QED
      BY <3>1, <3>2
  <2>7. Unpacked(c) => Unpacked(c)'
    BY <1>4, <1>8, <2>2, <2>3 DEF Unpacked
  <2>8. Converting(c)'
    <3>1. original[c] \in Originals
      BY <1>1, SoundLog
    <3>2. Upto(original[c], 0) = <<>> /\ Len(original[c].items) \in Nat
      BY <3>1, UptoNone, ItemsTyped
    <3>3. Whole(original[c], 0) /\ 1 \in 1 .. Len(original[c].items) + 1 /\ 1 - 1 = 0
      BY <3>2 DEF Whole
    <3>4. PICK T \in Seq(Nat) : T = complete_tuples(original[c])
      BY <3>1, TuplesTyped
    <3>5. 1 \in 1 .. Len(T) + 1 /\ SubSeq(T, 1, 0) = <<>>
      OBVIOUS
    <3>6. file' = Bin(c) /\ Asc(c) \in DOMAIN disk' /\ disk'[Asc(c)] = <<>>
      BY <1>2, <1>4, <1>5, <1>8
    <3>7. original[c].fmt # "b" => Unpacked(c)'
      BY <2>6, <2>7 DEF Ready
    <3> QED
      BY <1>3, <1>5, <2>2, <3>2, <3>3, <3>4, <3>5, <3>6, <3>7 DEF Converting
  <2>9. bpc' = "convert" => AtWork(c)'
    BY <1>2, <1>5, <1>8 DEF AtWork
  <2>10. Due(c)'
    BY <1>3, <1>5, <2>6, <2>7, <2>9 DEF Due, Ready
  <2> QED
    BY <2>4, <2>5, <2>8, <2>10 DEF LogInv
<1>9. ASSUME NEW c \in Sound, c # d PROVE LogInv(c)'
  <2>1. LogKept(c) /\ Due(c)
    BY DEF ConvInv
  <2>2. SameFiles(c)
    BY <1>1, <1>3, <1>9, OpenOthers DEF Asc
  <2>3. /\ LogKept(c)' /\ (Ready(c)' <=> Ready(c)) /\ (Converted(c)' <=> Converted(c))
    BY <1>1, <2>1, <2>2, FilesFrame
  <2>4. Unpacking(c)' /\ Converting(c)'
    BY <1>2, <1>5, <1>9 DEF Unpacking, Converting
  <2>5. Named(c)' = Named(c) /\ Named(c) # f /\ Bin(c)' = Bin(c) /\ Bin(c) # f
    BY <1>2, <1>9 DEF Named, Bin
  <2>6. Due(c)'
    BY <1>3, <1>5, <2>1, <2>3, <2>5 DEF Due, AtWork
  <2> QED
    BY <2>3, <2>4, <2>6 DEF LogInv
<1> QED
  BY <1>6, <1>7, <1>8, <1>9

\* When it is left alone.
LEMMA PickOtherInv ==
  ASSUME ConvInv, writable, bpc = "pick", NEW f \in left, left' = left \ {f},
         ~((given \/ decomp) /\ compressed(f)), ~((given \/ ~decomp) /\ binary(f)),
         UNCHANGED <<original, given, writable, decomp, disk, bpc, file, pos>>
  PROVE  ConvTypes' /\ Passes' /\ \A c \in Sound : LogInv(c)'
<1>1. ConvTypes /\ Passes
  BY DEF ConvInv
<1>2. ConvTypes' /\ Passes'
  BY <1>1 DEF ConvTypes, Passes, Named
<1>3. ASSUME NEW c \in Sound PROVE LogInv(c)'
  <2>1. LogKept(c) /\ Due(c)
    BY DEF ConvInv
  <2>2. /\ LogKept(c)' /\ (Ready(c)' <=> Ready(c)) /\ (Converted(c)' <=> Converted(c))
    BY <1>1, <2>1, QuietFiles, FilesFrame
  <2>3. Unpacking(c)' /\ Converting(c)'
    BY DEF Unpacking, Converting
  <2>4. Named(c)' = Named(c) /\ Bin(c)' = Bin(c)
    BY DEF Named, Bin
  <2>5. /\ given => Named(c) # f
        /\ ~decomp => Bin(c) # f
        /\ decomp /\ Named(c) = f => Ready(c)
    BY <1>1, KindOfLog DEF Ready, Passes
  <2>6. Due(c)'
    BY <2>1, <2>2, <2>4, <2>5 DEF Due, AtWork
  <2> QED
    BY <2>2, <2>3, <2>6 DEF LogInv
<1> QED
  BY <1>2, <1>3

\* A turn of a loop leaves the files of the other channels alone.
LEMMA WriteOthers ==
  ASSUME ConvTypes, NEW d \in Channels, NEW y, NEW v,
         disk' = [disk EXCEPT ![<<d, y>>] = v], NEW c \in Sound, c # d
  PROVE  SameFiles(c)
<1>1. \A x : <<c, x>> # <<d, y>>
  BY NamesApart
<1> QED
  BY <1>1 DEF SameFiles

\* Tuples put after others.
LEMMA TuplesConcat ==
  ASSUME NEW s \in Seq(Nat), NEW t \in Seq(Nat)
  PROVE  tuples_of(s \o t) = tuples_of(s) \o tuples_of(t)
<1> DEFINE R == [kind : {"record"}, data : Seq(Nat)]
           rec(n) == [kind |-> "record", data |-> <<n>>]
           u == s \o t
<1>0. Len(s) \in Nat /\ Len(t) \in Nat /\ DOMAIN s = 1 .. Len(s) /\ DOMAIN t = 1 .. Len(t)
  OBVIOUS
<1>1. /\ u \in Seq(Nat) /\ Len(u) = Len(s) + Len(t) /\ DOMAIN u = 1 .. Len(s) + Len(t)
      /\ \A i \in 1 .. Len(s) + Len(t) : u[i] = IF i <= Len(s) THEN s[i] ELSE t[i - Len(s)]
  BY ConcatProperties
<1> HIDE DEF u
<1>2. ASSUME NEW v \in Seq(Nat)
      PROVE  /\ tuples_of(v) \in Seq(R) /\ Len(tuples_of(v)) = Len(v)
             /\ \A k \in 1 .. Len(v) : tuples_of(v)[k] = rec(v[k])
  <2>1. DOMAIN v = 1 .. Len(v) /\ Len(v) \in Nat
    OBVIOUS
  <2>2. \A k \in 1 .. Len(v) : rec(v[k]) \in R
    OBVIOUS
  <2>3. tuples_of(v) = [k \in 1 .. Len(v) |-> rec(v[k])]
    BY <2>1 DEF tuples_of
  <2> HIDE DEF R, rec
  <2> QED
    BY <2>1, <2>2, <2>3
<1> HIDE DEF R, rec
<1> DEFINE a == tuples_of(s)
           b == tuples_of(t)
           ab == tuples_of(u)
<1>3. /\ a \in Seq(R) /\ Len(a) = Len(s) /\ \A k \in 1 .. Len(s) : a[k] = rec(s[k])
      /\ b \in Seq(R) /\ Len(b) = Len(t) /\ \A k \in 1 .. Len(t) : b[k] = rec(t[k])
  BY <1>2
<1>4. /\ ab \in Seq(R) /\ Len(ab) = Len(s) + Len(t)
      /\ \A k \in 1 .. Len(s) + Len(t) : ab[k] = rec(u[k])
  BY <1>1, <1>2
<1> HIDE DEF a, b, ab
<1>5. /\ a \o b \in Seq(R) /\ Len(a \o b) = Len(s) + Len(t)
      /\ \A i \in 1 .. Len(s) + Len(t) :
           (a \o b)[i] = IF i <= Len(s) THEN a[i] ELSE b[i - Len(s)]
  <2>1. /\ a \o b \in Seq(R) /\ Len(a \o b) = Len(a) + Len(b)
        /\ \A i \in 1 .. Len(a) + Len(b) :
             (a \o b)[i] = IF i <= Len(a) THEN a[i] ELSE b[i - Len(a)]
    <3>1. a \in Seq(R) /\ b \in Seq(R)
      BY <1>3
    <3> QED
      BY <3>1, ConcatProperties
  <2> QED
    BY <1>3, <2>1
<1>6. ASSUME NEW k \in 1 .. Len(s) + Len(t) PROVE ab[k] = (a \o b)[k]
  <2>1. CASE k <= Len(s)
    BY <1>0, <1>1, <1>3, <1>4, <1>5, <2>1
  <2>2. CASE ~(k <= Len(s))
    <3>1. k - Len(s) \in 1 .. Len(t)
      BY <1>0, <2>2
    <3> QED
      BY <1>0, <1>1, <1>3, <1>4, <1>5, <2>2, <3>1
  <2> QED
    BY <2>1, <2>2
<1>7. ab = a \o b
  <2> DEFINE g == a \o b
  <2>1. g \in Seq(R) /\ Len(ab) = Len(g) /\ \A k \in 1 .. Len(g) : ab[k] = g[k]
    BY <1>4, <1>5, <1>6
  <2> HIDE DEF g
  <2>2. ab = g
    BY <1>4, <2>1, SeqEqual
  <2> QED
    BY <2>2 DEF g
<1> QED
  BY <1>7 DEF ab, a, b, u

\* A turn of decompress' loop.
LEMMA DecompressBlockInv ==
  ASSUME ConvInv, writable, DecompressBlock
  PROVE  ConvTypes' /\ Passes' /\ \A c \in Sound : LogInv(c)'
<1>1. ConvTypes /\ Passes
  BY DEF ConvInv
<1> DEFINE src == disk[file]
<1>2. /\ bpc = "decompress" /\ ~eof(src) /\ pos' = pos + 1
      /\ UNCHANGED <<original, given, writable, bpc, decomp, left, file>>
  BY DEF DecompressBlock
<1>3. PICK d \in Channels : file[1] = d
  BY <1>1, <1>2 DEF ConvTypes, FileNames
<1>4. PICK out : /\ disk' = [disk EXCEPT ![Bin(d)] = @ \o tuples_of(out)]
                 /\ item(src).kind # "bad" => out = item(src).data
  BY <1>3 DEF DecompressBlock, Bin
<1>5. DOMAIN disk' = DOMAIN disk
  BY <1>4
<1>6. ConvTypes' /\ Passes'
  BY <1>1, <1>2, <1>5 DEF ConvTypes, Passes, Named
<1>7. ASSUME NEW c \in Sound, c = d PROVE LogInv(c)'
  <2>1. LogKept(c) /\ Unpacking(c) /\ Due(c)
    BY DEF ConvInv
  <2>2. Named(c)' = Named(c) /\ Bin(c)' = Bin(c)
    BY <1>2 DEF Named, Bin
  <2> DEFINE o == original[c]
  <2>3. /\ file = Named(c) /\ o.fmt # "b" /\ (given \/ decomp) /\ Bin(c) \in DOMAIN disk
        /\ pos \in 1 .. Len(o.items) + 1 /\ Whole(o, pos - 1)
        /\ disk[Bin(c)] = tuples_of(Upto(o, pos - 1))
    BY <1>2, <1>3, <1>7, <2>1 DEF Unpacking
  <2>4. o \in Originals /\ Named(c) # Bin(c)
    BY <1>1, <2>3, SoundLog, KindOfLog
  <2>5. src = o.items
    BY <2>1, <2>3 DEF LogKept
  <2>6. /\ pos <= Len(o.items) /\ o.items[pos].kind # "part"
        /\ pos \in Nat \ {0} /\ Len(o.items) \in Nat
    BY <1>2, <2>3, <2>4, <2>5, ItemsTyped DEF eof
  <2>7. item(src) = o.items[pos] /\ o.items[pos].kind # "bad"
    BY <1>1, <2>5, <2>6, SoundLog DEF item
  <2>8. out = o.items[pos].data /\ out \in Seq(Nat)
    <3>1. o.items[pos] \in Item
      BY <2>4, <2>6, ItemsTyped
    <3>2. o.items[pos].data \in Seq(Nat)
      BY <3>1 DEF Item
    <3> QED
      BY <1>4, <2>7, <3>2
  <2>9. PICK n \in Nat : n = pos - 1 /\ n + 1 = pos /\ n + 1 <= Len(o.items)
    <3>1. pos - 1 \in Nat /\ (pos - 1) + 1 = pos
      BY <2>6
    <3> QED
      BY <2>6, <3>1
  <2>10. Whole(o, n + 1)
    <3>1. \A j \in 1 .. n + 1 : j = pos \/ j \in 1 .. pos - 1
      BY <2>9
    <3> QED
      BY <2>3, <2>6, <3>1 DEF Whole
  <2>11. Upto(o, n) \in Seq(Nat) /\ Upto(o, n + 1) = Upto(o, n) \o out
    BY <2>4, <2>8, <2>9, <2>10, UptoNext
  <2>12. disk'[Bin(c)] = tuples_of(Upto(o, n + 1))
    <3>1. disk'[Bin(c)] = tuples_of(Upto(o, n)) \o tuples_of(out)
      BY <1>4, <1>7, <2>3, <2>9
    <3>2. tuples_of(Upto(o, n) \o out) = tuples_of(Upto(o, n)) \o tuples_of(out)
      BY <2>8, <2>11, TuplesConcat
    <3> QED
      BY <2>11, <3>1, <3>2
  <2>13. Unpacking(c)'
    <3>1. pos' = n + 2 /\ pos' - 1 = n + 1 /\ pos' \in 1 .. Len(o.items) + 1
      BY <1>2, <2>6, <2>9
    <3> QED
      BY <1>2, <1>5, <2>2, <2>3, <2>10, <2>12, <3>1 DEF Unpacking
  <2>14. LogKept(c)'
    <3>1. disk'[Named(c)] = disk[Named(c)]
      BY <1>4, <1>7, <2>1, <2>4 DEF LogKept
    <3> QED
      BY <1>2, <1>5, <2>1, <2>2, <3>1 DEF LogKept
  <2>15. Converting(c)'
    BY <1>2 DEF Converting
  <2>16. AtWork(c)'
    BY <1>2, <1>3, <1>7 DEF AtWork
  <2>17. Due(c)'
    BY <1>2, <2>3, <2>16 DEF Due
  <2> QED
    BY <2>13, <2>14, <2>15, <2>17 DEF LogInv
<1>8. ASSUME NEW c \in Sound, c # d PROVE LogInv(c)'
  <2>1. LogKept(c) /\ Due(c)
    BY DEF ConvInv
  <2>2. SameFiles(c)
    BY <1>1, <1>4, <1>8, WriteOthers DEF Bin
  <2>3. /\ LogKept(c)' /\ (Ready(c)' <=> Ready(c)) /\ (Converted(c)' <=> Converted(c))
    BY <1>1, <1>2, <2>1, <2>2, FilesFrame
  <2>4. Unpacking(c)' /\ Converting(c)'
    BY <1>2, <1>3, <1>8 DEF Unpacking, Converting
  <2>5. Due(c)'
    BY <1>2, <2>1, <2>3 DEF Due, AtWork, Named, Bin
  <2> QED
    BY <2>3, <2>4, <2>5 DEF LogInv
<1> QED
  BY <1>6, <1>7, <1>8

\* The end of decompress' loop: of the directory's files the next one is taken, one of
\* the command line is converted at once.
LEMMA DecompressEndInv ==
  ASSUME ConvInv, writable, DecompressEnd
  PROVE  ConvTypes' /\ Passes' /\ \A c \in Sound : LogInv(c)'
<1>1. ConvTypes /\ Passes
  BY DEF ConvInv
<1>2. /\ bpc = "decompress" /\ eof(disk[file])
      /\ UNCHANGED <<original, given, writable, decomp, left>>
  BY DEF DecompressEnd
<1>3. PICK d \in Channels : file[1] = d
  BY <1>1, <1>2 DEF ConvTypes, FileNames
<1>4. ASSUME NEW c \in Sound, c = d
      PROVE  Unpacked(c) /\ original[c].fmt # "b" /\ (given \/ decomp)
  <2>1. LogKept(c) /\ Unpacking(c)
    BY DEF ConvInv
  <2> DEFINE o == original[c]
  <2>2. /\ file = Named(c) /\ o.fmt # "b" /\ (given \/ decomp) /\ Bin(c) \in DOMAIN disk
        /\ pos \in 1 .. Len(o.items) + 1
        /\ disk[Bin(c)] = tuples_of(Upto(o, pos - 1))
    BY <1>2, <1>3, <1>4, <2>1 DEF Unpacking
  <2>3. o \in Originals /\ Len(o.items) \in Nat
    BY <1>1, SoundLog, ItemsTyped
  <2>4. pos <= Len(o.items) => o.items[pos].kind = "part"
    BY <1>2, <2>1, <2>2 DEF eof, LogKept
  <2>5. PICK n \in Nat : n = pos - 1 /\ n + 1 = pos /\ n <= Len(o.items)
    <3>1. pos - 1 \in Nat /\ (pos - 1) + 1 = pos /\ pos - 1 <= Len(o.items)
      BY <2>2, <2>3
    <3> QED
      BY <3>1
  <2>6. Upto(o, n) = complete_tuples(o)
    BY <2>3, <2>4, <2>5, UptoEnd
  <2> QED
    BY <2>2, <2>5, <2>6 DEF Unpacked
<1>5. CASE given
  <2>1. open("convert", Bin(d), Asc(d)) /\ ~decomp
    BY <1>1, <1>3, <1>5 DEF DecompressEnd, Bin, Asc, Passes
  <2>2. /\ DOMAIN disk' = DOMAIN disk \cup {Asc(d)} /\ disk'[Asc(d)] = <<>>
        /\ \A g \in DOMAIN disk : g # Asc(d) => disk'[g] = disk[g]
    BY <2>1, OpenDisk
  <2>3. file' = Bin(d) /\ pos' = 1 /\ bpc' \in {"convert", "spins"}
    BY <2>1 DEF open
  <2>4. ConvTypes' /\ Passes'
    <3>1. Bin(d) \in FileNames /\ Asc(d) \in FileNames
      BY DEF FileNames, Bin, Asc
    <3> QED
      BY <1>1, <1>2, <2>1, <2>2, <2>3, <3>1 DEF ConvTypes, Passes, Named
  <2>5. ASSUME NEW c \in Sound, c = d PROVE LogInv(c)'
    <3>1. LogKept(c) /\ Unpacked(c) /\ original[c].fmt # "b"
      BY <1>4, <2>5 DEF ConvInv
    <3>2. Named(c)' = Named(c) /\ Bin(c)' = Bin(c) /\ Asc(c)' = Asc(c)
      BY <1>2 DEF Named, Bin, Asc
    <3>3. Named(c) # Asc(c) /\ Bin(c) # Asc(c) /\ Bin(c)[1] = c
      BY <1>1, KindOfLog
    <3>4. LogKept(c)'
      <4>1. Named(c) \in DOMAIN disk' /\ disk'[Named(c)] = original[c].items
        BY <2>2, <2>5, <3>1, <3>3 DEF LogKept
      <4>2. \A x \in {"z", "l"} : <<c, x>> # Asc(c)
        BY DEF Asc
      <4> QED
        BY <1>2, <2>2, <2>5, <3>1, <3>2, <4>1, <4>2 DEF LogKept
    <3>5. Unpacking(c)'
      BY <2>3 DEF Unpacking
    <3>6. Unpacked(c)'
      BY <1>2, <2>2, <2>5, <3>1, <3>2, <3>3 DEF Unpacked
    <3>7. Converting(c)'
      <4>1. PICK T \in Seq(Nat) : T = complete_tuples(original[c])
        BY <1>1, SoundLog, TuplesTyped
      <4>2. 1 \in 1 .. Len(T) + 1 /\ SubSeq(T, 1, 0) = <<>> /\ 1 - 1 = 0
        OBVIOUS
      <4> QED
        BY <1>2, <2>1, <2>2, <2>3, <2>5, <3>1, <3>2, <3>6, <4>1, <4>2 DEF Converting
    <3>8. bpc' = "convert" => AtWork(c)'
      BY <2>3, <2>5, <3>3 DEF AtWork
    <3>9. Due(c)'
      BY <1>2, <1>5, <2>1, <2>3, <3>8 DEF Due
    <3> QED
      BY <3>4, <3>5, <3>7, <3>9 DEF LogInv
  <2>6. ASSUME NEW c \in Sound, c # d PROVE LogInv(c)'
    <3>1. LogKept(c) /\ Due(c)
      BY DEF ConvInv
    <3>2. SameFiles(c)
      BY <1>1, <2>1, <2>6, OpenOthers DEF Asc
    <3>3. /\ LogKept(c)' /\ (Ready(c)' <=> Ready(c)) /\ (Converted(c)' <=> Converted(c))
      BY <1>1, <1>2, <3>1, <3>2, FilesFrame
    <3>4. Unpacking(c)' /\ Converting(c)'
      BY <2>3, <2>6 DEF Unpacking, Converting, Bin
    <3>5. Named(c)' = Named(c)
      BY <1>2 DEF Named
    <3>6. Due(c)'
      BY <1>2, <1>3, <1>5, <2>1, <2>3, <2>6, <3>1, <3>3, <3>5 DEF Due, AtWork
    <3> QED
      BY <3>3, <3>4, <3>6 DEF LogInv
  <2> QED
    BY <2>4, <2>5, <2>6
<1>6. CASE ~given
  <2>1. bpc' = "pick" /\ UNCHANGED <<disk, file, pos>>
    BY <1>6 DEF DecompressEnd
  <2>2. ConvTypes' /\ Passes'
    BY <1>1, <1>2, <1>6, <2>1 DEF ConvTypes, Passes
  <2>3. ASSUME NEW c \in Sound PROVE LogInv(c)'
    <3>1. LogKept(c) /\ Due(c)
      BY DEF ConvInv
    <3>2. /\ LogKept(c)' /\ (Ready(c)' <=> Ready(c)) /\ (Converted(c)' <=> Converted(c))
      BY <1>1, <1>2, <2>1, <3>1, QuietFiles, FilesFrame
    <3>3. Unpacking(c)' /\ Converting(c)'
      BY <2>1 DEF Unpacking, Converting
    <3>4. AtWork(c) => Ready(c) /\ decomp
      BY <1>3, <1>4, <1>6 DEF AtWork, Ready
    <3>5. Named(c)' = Named(c) /\ Bin(c)' = Bin(c)
      BY <1>2 DEF Named, Bin
    <3>6. decomp
      BY <1>1, <1>2, <1>6 DEF Passes
    <3>7. Due(c)'
      BY <1>2, <1>6, <2>1, <3>1, <3>2, <3>4, <3>5, <3>6 DEF Due
    <3> QED
      BY <3>2, <3>3, <3>7 DEF LogInv
  <2> QED
    BY <2>2, <2>3
<1> QED
  BY <1>5, <1>6

\* The k-th record of what decompress wrote.
LEMMA RecordOf ==
  ASSUME NEW T \in Seq(Nat)
  PROVE  /\ Len(tuples_of(T)) = Len(T)
         /\ \A k \in 1 .. Len(T) :
              /\ tuples_of(T)[k].kind = "record" /\ tuples_of(T)[k].data = <<T[k]>>
<1> DEFINE rec(n) == [kind |-> "record", data |-> <<n>>]
<1>1. DOMAIN T = 1 .. Len(T) /\ Len(T) \in Nat
  OBVIOUS
<1>2. tuples_of(T) = [k \in 1 .. Len(T) |-> rec(T[k])]
  BY <1>1 DEF tuples_of
<1>3. \A k \in 1 .. Len(T) : tuples_of(T)[k] = rec(T[k])
  BY <1>2
<1>4. \A n : rec(n).kind = "record" /\ rec(n).data = <<n>>
  OBVIOUS
<1> HIDE DEF rec
<1>5. Len(tuples_of(T)) = Len(T)
  BY <1>1, <1>2
<1> QED
  BY <1>3, <1>4, <1>5

\* A tuple more of a prefix.
LEMMA PrefixNext ==
  ASSUME NEW T \in Seq(Nat), NEW n \in Nat, n + 1 <= Len(T)
  PROVE  SubSeq(T, 1, n) \o <<T[n + 1]>> = SubSeq(T, 1, n + 1)
<1> DEFINE a == SubSeq(T, 1, n)
           b == SubSeq(T, 1, n + 1)
           x == T[n + 1]
           w == a \o <<x>>
<1>0. Len(T) \in Nat /\ x \in Nat
  OBVIOUS
<1>1. a \in Seq(Nat) /\ Len(a) = n /\ \A i \in 1 .. n : a[i] = T[i]
  BY <1>0
<1>2. b \in Seq(Nat) /\ Len(b) = n + 1 /\ \A i \in 1 .. n + 1 : b[i] = T[i]
  BY <1>0
<1> HIDE DEF a, b
<1>3. /\ w \in Seq(Nat) /\ Len(w) = n + 1
      /\ \A i \in 1 .. n + 1 : w[i] = IF i <= n THEN a[i] ELSE x
  <2> HIDE DEF x
  <2> QED
    BY <1>0, <1>1
<1> HIDE DEF w
<1>4. ASSUME NEW i \in 1 .. n + 1 PROVE w[i] = b[i]
  <2>1. CASE i <= n
    <3>1. i \in 1 .. n
      BY <2>1
    <3>2. w[i] = a[i] /\ b[i] = T[i]
      BY <1>2, <1>3, <2>1
    <3> QED
      BY <1>1, <3>1, <3>2
  <2>2. CASE ~(i <= n)
    <3>1. i = n + 1
      BY <2>2
    <3> QED
      BY <1>2, <1>3, <2>2, <3>1
  <2> QED
    BY <2>1, <2>2
<1>5. w = b
  BY <1>2, <1>3, <1>4, SeqEqual
<1> QED
  BY <1>5 DEF w, a, b

\* A turn of convertBinToASCII's loop, or its end.
LEMMA ConvertRecordInv ==
  ASSUME ConvInv, writable, ConvertRecord
  PROVE  ConvTypes' /\ Passes' /\ \A c \in Sound : LogInv(c)'
<1>1. ConvTypes /\ Passes
  BY DEF ConvInv
<1> DEFINE src == disk[file]
<1>2. /\ bpc = "convert"
      /\ UNCHANGED <<original, given, writable, decomp, left, file>>
  BY DEF ConvertRecord
<1>3. PICK d \in Channels : file[1] = d
  BY <1>1, <1>2 DEF ConvTypes, FileNames
<1>4. ASSUME NEW c \in Sound
      PROVE  /\ LogKept(c) /\ Converting(c) /\ Due(c)
             /\ original[c] \in Originals /\ Len(original[c].items) \in Nat
             /\ Named(c)' = Named(c) /\ Bin(c)' = Bin(c) /\ Asc(c)' = Asc(c)
  BY <1>1, <1>2, SoundLog, ItemsTyped DEF ConvInv, Named, Bin, Asc
<1>5. ASSUME eof(src), bpc' = "pick", UNCHANGED <<disk, pos>>
      PROVE  ConvTypes' /\ Passes' /\ \A c \in Sound : LogInv(c)'
  <2>1. ConvTypes' /\ Passes'
    BY <1>1, <1>2, <1>5 DEF ConvTypes, Passes, Named
  <2>2. ASSUME NEW c \in Sound, c = d PROVE Converted(c) /\ ~decomp
    <3> DEFINE o == original[c]
    <3>1. file = Bin(c) /\ ~decomp /\ Asc(c) \in DOMAIN disk
      BY <1>2, <1>3, <1>4, <2>2 DEF Converting
    <3>2. CASE o.fmt = "b"
      <4>0. Bin(c) = Named(c)
        BY <1>1, <3>2, KindOfLog
      <4>1. /\ pos \in 1 .. Len(o.items) + 1
            /\ disk[Asc(c)] = Upto(o, pos - 1) /\ src = o.items
        <5>1. src = o.items
          BY <1>4, <3>1, <4>0 DEF LogKept
        <5> QED
          BY <1>2, <1>3, <1>4, <2>2, <3>2, <5>1 DEF Converting
      <4>2. pos <= Len(o.items) => o.items[pos].kind = "part"
        BY <1>5, <4>1 DEF eof
      <4>3. PICK n \in Nat : n = pos - 1 /\ n + 1 = pos /\ n <= Len(o.items)
        <5>1. pos - 1 \in Nat /\ (pos - 1) + 1 = pos /\ pos - 1 <= Len(o.items)
          BY <1>4, <4>1
        <5> QED
          BY <5>1
      <4>4. Upto(o, n) = complete_tuples(o)
        BY <1>4, <4>2, <4>3, UptoEnd
      <4> QED
        BY <3>1, <4>1, <4>3, <4>4 DEF Converted
    <3>3. CASE o.fmt # "b"
      <4>1. PICK T \in Seq(Nat) : T = complete_tuples(o)
        BY <1>4, TuplesTyped
      <4>2. /\ src = tuples_of(T) /\ pos \in 1 .. Len(T) + 1
            /\ disk[Asc(c)] = SubSeq(T, 1, pos - 1)
        BY <1>2, <1>3, <1>4, <2>2, <3>1, <3>3, <4>1 DEF Converting, Unpacked
      <4>3. pos \notin 1 .. Len(T)
        <5>1. pos \in 1 .. Len(T) => pos <= Len(src) /\ src[pos].kind = "record"
          BY <4>2, RecordOf
        <5> QED
          BY <1>5, <5>1 DEF eof
      <4>4. pos - 1 = Len(T)
        BY <4>2, <4>3
      <4>5. SubSeq(T, 1, Len(T)) = T
        OBVIOUS
      <4> QED
        BY <3>1, <4>1, <4>2, <4>4, <4>5 DEF Converted
    <3> QED
      BY <3>1, <3>2, <3>3
  <2>3. ASSUME NEW c \in Sound PROVE LogInv(c)'
    <3>1. /\ LogKept(c)' /\ (Ready(c)' <=> Ready(c)) /\ (Converted(c)' <=> Converted(c))
      BY <1>1, <1>2, <1>4, <1>5, QuietFiles, FilesFrame
    <3>2. Unpacking(c)' /\ Converting(c)'
      BY <1>5 DEF Unpacking, Converting
    <3>3. AtWork(c) => Converted(c) /\ ~decomp
      BY <1>3, <2>2 DEF AtWork
    <3>4. ~decomp
      BY <1>1, <1>2 DEF Passes
    <3>5. Due(c)'
      BY <1>2, <1>4, <1>5, <3>1, <3>3, <3>4 DEF Due
    <3> QED
      BY <3>1, <3>2, <3>5 DEF LogInv
  <2> QED
    BY <2>1, <2>3
<1>6. ASSUME ~eof(src), disk' = [disk EXCEPT ![Asc(d)] = @ \o item(src).data],
             pos' = pos + 1, UNCHANGED bpc
      PROVE  ConvTypes' /\ Passes' /\ \A c \in Sound : LogInv(c)'
  <2>1. DOMAIN disk' = DOMAIN disk
    BY <1>6
  <2>2. ConvTypes' /\ Passes'
    BY <1>1, <1>2, <1>6, <2>1 DEF ConvTypes, Passes, Named
  <2>3. ASSUME NEW c \in Sound, c = d PROVE LogInv(c)'
    <3> DEFINE o == original[c]
    <3>1. /\ file = Bin(c) /\ ~decomp /\ Asc(c) \in DOMAIN disk
          /\ Named(c) # Asc(c) /\ Bin(c) # Asc(c)
      BY <1>1, <1>2, <1>3, <1>4, <2>3, KindOfLog DEF Converting
    <3>2. /\ disk'[Asc(c)] = disk[Asc(c)] \o item(src).data
          /\ \A g \in DOMAIN disk : g # Asc(c) => disk'[g] = disk[g]
      BY <1>6, <2>3, <3>1
    <3>3. LogKept(c)'
      BY <1>2, <1>4, <2>1, <3>1, <3>2 DEF LogKept
    <3>4. Unpacking(c)'
      BY <1>2, <1>6 DEF Unpacking
    <3>5. Unpacked(c) => Unpacked(c)'
      BY <1>2, <1>4, <2>1, <3>1, <3>2 DEF Unpacked
    <3>6. ASSUME o.fmt = "b" PROVE Converting(c)' /\ Ready(c)'
      <4>1. Bin(c) = Named(c)
        BY <1>1, <3>6, KindOfLog
      <4>2. src = o.items
        BY <1>4, <3>1, <4>1 DEF LogKept
      <4>3. /\ pos \in 1 .. Len(o.items) + 1 /\ Whole(o, pos - 1)
            /\ disk[Asc(c)] = Upto(o, pos - 1)
        BY <1>2, <1>3, <1>4, <2>3, <3>6 DEF Converting
      <4>4. pos <= Len(o.items) /\ o.items[pos].kind # "part" /\ pos \in Nat \ {0}
        BY <1>4, <1>6, <4>2, <4>3 DEF eof
      <4>5. item(src) = o.items[pos]
        BY <1>4, <4>2, <4>4 DEF item
      <4>6. PICK n \in Nat : n = pos - 1 /\ n + 1 = pos /\ n + 1 <= Len(o.items)
        <5>1. pos - 1 \in Nat /\ (pos - 1) + 1 = pos
          BY <4>4
        <5> QED
          BY <4>4, <5>1
      <4>7. Whole(o, n + 1)
        <5>1. \A j \in 1 .. n + 1 : j = pos \/ j \in 1 .. pos - 1
          BY <4>6
        <5> QED
          BY <4>3, <4>4, <5>1 DEF Whole
      <4>8. Upto(o, n + 1) = Upto(o, n) \o o.items[n + 1].data
        BY <1>4, <4>6, <4>7, UptoNext
      <4>9. disk'[Asc(c)] = Upto(o, n + 1)
        BY <3>2, <4>3, <4>5, <4>6, <4>8
      <4>10. pos' = n + 2 /\ pos' - 1 = n + 1 /\ pos' \in 1 .. Len(o.items) + 1
        BY <1>4, <1>6, <4>6
      <4>11. Converting(c)'
        BY <1>2, <1>4, <1>6, <2>1, <3>1, <3>6, <4>7, <4>9, <4>10 DEF Converting
      <4>12. Ready(c)'
        BY <1>2, <3>6 DEF Ready
      <4> QED
        BY <4>11, <4>12
    <3>7. ASSUME o.fmt # "b" PROVE Converting(c)' /\ Ready(c)'
      <4>1. PICK T \in Seq(Nat) : T = complete_tuples(o)
        BY <1>4, TuplesTyped
      <4>2. /\ Unpacked(c) /\ src = tuples_of(T) /\ pos \in 1 .. Len(T) + 1
            /\ disk[Asc(c)] = SubSeq(T, 1, pos - 1)
        BY <1>2, <1>3, <1>4, <2>3, <3>1, <3>7, <4>1 DEF Converting, Unpacked
      <4>3. Len(src) = Len(T) /\ Len(T) \in Nat
        BY <4>2, RecordOf
      <4>4. pos <= Len(T) /\ pos \in 1 .. Len(T)
        BY <1>6, <4>2, <4>3 DEF eof
      <4>5. item(src).data = <<T[pos]>>
        <5>1. item(src) = src[pos]
          BY <4>3, <4>4 DEF item
        <5> QED
          BY <4>2, <4>4, <5>1, RecordOf
      <4>6. PICK n \in Nat : n = pos - 1 /\ n + 1 = pos /\ n + 1 <= Len(T)
        <5>1. pos - 1 \in Nat /\ (pos - 1) + 1 = pos
          BY <4>4
        <5> QED
          BY <4>4, <5>1
      <4>7. disk'[Asc(c)] = SubSeq(T, 1, n + 1)
        BY <3>2, <4>2, <4>5, <4>6, PrefixNext
      <4>8. pos' = n + 2 /\ pos' - 1 = n + 1 /\ pos' \in 1 .. Len(T) + 1
        BY <1>6, <4>3, <4>6
      <4>9. Converting(c)'
        BY <1>2, <1>4, <1>6, <2>1, <3>1, <3>5, <3>7, <4>1, <4>2, <4>7, <4>8 DEF Converting
      <4>10. Ready(c)'
        BY <3>5, <4>2 DEF Ready
      <4> QED
        BY <4>9, <4>10
    <3>8. AtWork(c)'
      BY <1>2, <1>3, <1>6, <2>3 DEF AtWork
    <3>9. Due(c)'
      BY <1>2, <1>6, <3>1, <3>6, <3>7, <3>8 DEF Due
    <3> QED
      BY <3>3, <3>4, <3>6, <3>7, <3>9 DEF LogInv
  <2>4. ASSUME NEW c \in Sound, c # d PROVE LogInv(c)'
    <3>1. SameFiles(c)
      BY <1>1, <1>6, <2>4, WriteOthers DEF Asc
    <3>2. /\ LogKept(c)' /\ (Ready(c)' <=> Ready(c)) /\ (Converted(c)' <=> Converted(c))
      BY <1>1, <1>2, <1>4, <3>1, FilesFrame
    <3>3. Unpacking(c)' /\ Converting(c)'
      BY <1>2, <1>3, <1>6, <2>4 DEF Unpacking, Converting
    <3>4. Due(c)'
      BY <1>2, <1>4, <1>6, <3>2 DEF Due, AtWork
    <3> QED
      BY <3>2, <3>3, <3>4 DEF LogInv
  <2> QED
    BY <2>2, <2>3, <2>4
<1> QED
  BY <1>3, <1>5, <1>6 DEF ConvertRecord, Asc

\* At first the logs are as the profiler left them.
LEMMA ConvInitInv == ConvInit => ConvInv
<1>1. SUFFICES ASSUME ConvInit, writable PROVE ConvInv
  BY DEF ConvInv
<1>2. /\ original \in [Channels -> Originals] /\ given \in BOOLEAN
      /\ bpc = (IF given THEN "pick" ELSE "opendir") /\ decomp = ~given
      /\ left = (IF given THEN DOMAIN disk ELSE {})
  BY <1>1 DEF ConvInit
<1>3. /\ DOMAIN disk = {Named(c) : c \in Channels}
      /\ \A f \in DOMAIN disk : disk[f] = original[f[1]].items
  BY <1>1 DEF ConvInit, as_written, Named
<1>4. ConvTypes
  <2>1. \A c \in Channels : original[c].fmt \in {"a", "b", "z", "l", "y"}
    BY <1>2, ConverterAssumption
  <2>2. \A c \in Channels : Named(c) \in FileNames
    BY <2>1 DEF Named, FileNames
  <2> QED
    BY <1>2, <1>3, <2>2 DEF ConvTypes
<1>5. Passes
  BY <1>2, <1>3 DEF Passes
<1>6. ASSUME NEW c \in Sound PROVE LogKept(c) /\ Unpacking(c) /\ Converting(c) /\ Due(c)
  <2>1. c \in Channels /\ Named(c)[1] = c
    BY <1>4, SoundLog, KindOfLog
  <2>2. Named(c) \in DOMAIN disk /\ disk[Named(c)] = original[c].items
    BY <1>3, <2>1
  <2>3. \A x : <<c, x>> \in DOMAIN disk => x = original[c].fmt
    BY <1>3 DEF Named
  <2>4. LogKept(c)
    BY <2>2, <2>3 DEF LogKept
  <2>5. Unpacking(c) /\ Converting(c)
    BY <1>2 DEF Unpacking, Converting
  <2>6. Due(c)
    BY <1>2, <2>2 DEF Due
  <2> QED
    BY <2>4, <2>5, <2>6
<1> QED
  BY <1>4, <1>5, <1>6 DEF ConvInv

\* The step of the induction.
LEMMA ConvNextInv == ConvInv /\ [ConvNext]_convVars => ConvInv'
<1>1. SUFFICES ASSUME ConvInv, [ConvNext]_convVars, writable' PROVE ConvInv'
  BY DEF ConvInv
<1>2. writable /\ UNCHANGED original
  BY <1>1 DEF ConvNext, ConvStep, convVars, openDirectory, PickFile, EndPass,
              DecompressBlock, DecompressEnd, ConvertRecord, DirectoryFails
<1>3. Sound' = Sound
  BY <1>2 DEF Sound, convertible, intact
<1>4. SUFFICES ConvTypes' /\ Passes' /\ \A c \in Sound : LogInv(c)'
  BY <1>1, <1>3 DEF ConvInv, LogInv
<1>5. CASE openDirectory
  BY <1>1, <1>2, <1>5, OpenDirectoryInv
<1>6. CASE PickFile
  <2>1. PICK f \in left :
          /\ left' = left \ {f}
          /\ \/ (given \/ decomp) /\ compressed(f) /\ open("decompress", f, <<f[1], "b">>)
             \/ (given \/ ~decomp) /\ binary(f) /\ open("convert", f, <<f[1], "a">>)
             \/ /\ ~((given \/ decomp) /\ compressed(f)) /\ ~((given \/ ~decomp) /\ binary(f))
                /\ UNCHANGED <<disk, bpc, file, pos>>
    BY <1>6 DEF PickFile
  <2>2. bpc = "pick" /\ UNCHANGED <<original, given, writable, decomp>>
    BY <1>6 DEF PickFile
  <2>3. CASE (given \/ decomp) /\ compressed(f) /\ open("decompress", f, <<f[1], "b">>)
    BY <1>1, <1>2, <2>1, <2>2, <2>3, PickCompressedInv
  <2>4. CASE (given \/ ~decomp) /\ binary(f) /\ open("convert", f, <<f[1], "a">>)
    BY <1>1, <1>2, <2>1, <2>2, <2>4, PickBinaryInv
  <2>5. CASE /\ ~((given \/ decomp) /\ compressed(f)) /\ ~((given \/ ~decomp) /\ binary(f))
             /\ UNCHANGED <<disk, bpc, file, pos>>
    BY <1>1, <1>2, <2>1, <2>2, <2>5, PickOtherInv
  <2> QED
    BY <2>1, <2>3, <2>4, <2>5
<1>7. CASE EndPass
  BY <1>1, <1>2, <1>7, EndPassInv
<1>8. CASE DecompressBlock
  BY <1>1, <1>2, <1>8, DecompressBlockInv
<1>9. CASE DecompressEnd
  BY <1>1, <1>2, <1>9, DecompressEndInv
<1>10. CASE ConvertRecord
  BY <1>1, <1>2, <1>10, ConvertRecordInv
<1>11. CASE DirectoryFails
  BY <1>1, <1>2, <1>11, DirectoryFailsInv
<1>12. CASE UNCHANGED convVars
  <2>1. UNCHANGED <<original, given, disk, bpc, decomp, left, file, pos>>
    BY <1>12 DEF convVars
  <2>2. ConvTypes' /\ Passes'
    BY <1>1, <1>2, <2>1 DEF ConvInv, ConvTypes, Passes, Named
  <2>3. ASSUME NEW c \in Sound PROVE LogInv(c)'
    <3>1. LogKept(c) /\ Unpacking(c) /\ Converting(c) /\ Due(c)
      BY <1>1, <1>2 DEF ConvInv
    <3>2. LogKept(c)' /\ Unpacking(c)' /\ Converting(c)'
      BY <2>1, <3>1 DEF LogKept, Unpacking, Converting, Unpacked, Named, Bin, Asc
    <3>3. Due(c)'
      BY <2>1, <3>1 DEF Due, Ready, Converted, Unpacked, AtWork, Named, Bin, Asc
    <3> QED
      BY <3>2, <3>3 DEF LogInv
  <2> QED
    BY <2>2, <2>3
<1> QED
  BY <1>1, <1>5, <1>6, <1>7, <1>8, <1>9, <1>10, <1>11, <1>12 DEF ConvNext, ConvStep

\* For any set of logs, in any of the formats and cut off anywhere: when the converter
\* is done, every log it knows how to read has an ASCII log with each of its complete
\* tuples once and in order (btoa_converter.cpp, convert, decompress and
\* convertBinToASCII).
THEOREM ConverterFaithful == ConvSpec => []ConvertedFaithfully
<1>1. ConvInv => ConvertedFaithfully
  <2>1. SUFFICES ASSUME ConvInv, bpc = "done", writable, NEW c \in Sound PROVE Converted(c)
    BY DEF ConvertedFaithfully, Sound, Converted, Asc
  <2>2. Passes /\ Due(c) /\ ConvTypes
    BY <2>1 DEF ConvInv
  <2>3. left = {} /\ ~decomp /\ ~AtWork(c)
    BY <2>1, <2>2 DEF Passes, AtWork
  <2> QED
    BY <2>1, <2>2, <2>3 DEF Due
<1> QED
  BY <1>1, ConvInitInv, ConvNextInv, PTL DEF ConvSpec

-----------------------------------------------------------------------------
(* Sampling handlers: the mask of the X-out-of-Y handler. *)

\* What pow2 computes.
LEMMA Pow2Is ==
  /\ pow2 \in [Nat -> Nat] /\ pow2[0] = 1
  /\ \A k \in Nat : pow2[k + 1] = 2 * pow2[k]
<1> DEFINE G == [p \in Nat \X Nat |-> 2 * p[2]]
           h == [n \in Nat |-> IF n = 0 THEN 0 ELSE n - 1]
<1>1. G \in [Nat \X Nat -> Nat] /\ h \in [Nat -> Nat] /\ \A n \in Nat : n > 0 => h[n] < n
  OBVIOUS
<1>2. PICK f : RecSolves(f, Nat, 1, G, h)
  <2> HIDE DEF G, h
  <2>1. RecParts(Nat, 1, G, h)
    BY <1>1 DEF RecParts
  <2> QED
    BY <2>1, RecursionExists
<1>3. f \in [Nat -> Nat] /\ \A n \in Nat : f[n] = IF n = 0 THEN 1 ELSE G[<<n, f[h[n]]>>]
  <2> HIDE DEF G, h
  <2> QED
    BY <1>2 DEF RecSolves
<1>4. ASSUME NEW n \in Nat PROVE f[n] = IF n = 0 THEN 1 ELSE 2 * f[n - 1]
  <2>1. CASE n = 0
    BY <1>3, <2>1
  <2>2. CASE n # 0
    <3>1. h[n] = n - 1 /\ n - 1 \in Nat /\ f[n - 1] \in Nat
      BY <1>3, <2>2
    <3>2. G[<<n, f[n - 1]>>] = 2 * f[n - 1]
      BY <3>1
    <3> QED
      BY <1>3, <2>2, <3>1, <3>2
  <2> QED
    BY <2>1, <2>2
<1>5. f = [n \in Nat |-> IF n = 0 THEN 1 ELSE 2 * f[n - 1]]
  BY <1>3, <1>4
<1>6. pow2 = CHOOSE g : g = [k \in Nat |-> IF k = 0 THEN 1 ELSE 2 * g[k - 1]]
  BY DEF pow2
<1>7. pow2 = [k \in Nat |-> IF k = 0 THEN 1 ELSE 2 * pow2[k - 1]]
  BY <1>5, <1>6
<1>8. ASSUME NEW n \in Nat PROVE pow2[n] = IF n = 0 THEN 1 ELSE 2 * pow2[n - 1]
  BY <1>7
<1>9. pow2[0] = 1
  BY <1>8
<1>10. ASSUME NEW k \in Nat PROVE pow2[k + 1] = 2 * pow2[k]
  <2>1. k + 1 \in Nat /\ k + 1 # 0 /\ (k + 1) - 1 = k
    OBVIOUS
  <2> QED
    BY <1>8, <2>1
<1>11. ASSUME NEW n \in Nat PROVE pow2[n] \in Nat
  <2> DEFINE S == {j \in Nat : pow2[j] \in Nat}
  <2>1. 0 \in S
    BY <1>9
  <2>2. ASSUME NEW j \in S PROVE j + 1 \in S
    BY <1>10
  <2>3. S = Nat
    <3> HIDE DEF S
    <3> QED
      BY <2>1, <2>2, SetInduction DEF S
  <2> QED
    BY <2>3
<1>12. pow2 \in [Nat -> Nat]
  BY <1>7, <1>11
<1> QED
  BY <1>9, <1>10, <1>12

\* What floorLog2 gives is a number.
LEMMA FloorLog2Type == floorLog2 \in [Nat -> Nat]
<1> DEFINE G == [p \in Nat \X Nat |-> IF p[1] < 2 THEN 0 ELSE 1 + p[2]]
           h == [n \in Nat |-> n \div 2]
<1>0. \A n \in Nat : n \div 2 \in Nat /\ (n > 0 => n \div 2 < n)
  OBVIOUS
<1>1. G \in [Nat \X Nat -> Nat] /\ h \in [Nat -> Nat] /\ \A n \in Nat : n > 0 => h[n] < n
  BY <1>0
<1>2. PICK f : RecSolves(f, Nat, 0, G, h)
  <2> HIDE DEF G, h
  <2>1. RecParts(Nat, 0, G, h)
    BY <1>1 DEF RecParts
  <2> QED
    BY <2>1, RecursionExists
<1>3. f \in [Nat -> Nat] /\ \A n \in Nat : f[n] = IF n = 0 THEN 0 ELSE G[<<n, f[h[n]]>>]
  <2> HIDE DEF G, h
  <2> QED
    BY <1>2 DEF RecSolves
<1>4. ASSUME NEW n \in Nat PROVE f[n] = IF n < 2 THEN 0 ELSE 1 + f[n \div 2]
  <2>1. h[n] = n \div 2 /\ n \div 2 \in Nat /\ f[n \div 2] \in Nat
    BY <1>0, <1>3
  <2>2. PICK w \in Nat : w = f[n \div 2]
    BY <2>1
  <2>3. G[<<n, w>>] = IF n < 2 THEN 0 ELSE 1 + w
    OBVIOUS
  <2>4. f[n] = IF n = 0 THEN 0 ELSE G[<<n, w>>]
    BY <1>3, <2>1, <2>2
  <2> QED
    BY <2>2, <2>3, <2>4
<1>5. f = [n \in Nat |-> IF n < 2 THEN 0 ELSE 1 + f[n \div 2]]
  BY <1>3, <1>4
<1>6. floorLog2 = CHOOSE g : g = [n \in Nat |-> IF n < 2 THEN 0 ELSE 1 + g[n \div 2]]
  BY DEF floorLog2
<1>7. floorLog2 = [n \in Nat |-> IF n < 2 THEN 0 ELSE 1 + floorLog2[n \div 2]]
  BY <1>5, <1>6
<1>8. ASSUME NEW n \in Nat PROVE floorLog2[n] = IF n < 2 THEN 0 ELSE 1 + floorLog2[n \div 2]
  BY <1>7
<1> DEFINE S == {j \in Nat : \A n \in 0 .. j : floorLog2[n] \in Nat}
<1>9. 0 \in S
  <2>1. floorLog2[0] = 0
    BY <1>8
  <2> QED
    BY <2>1
<1>10. ASSUME NEW j \in S PROVE j + 1 \in S
  <2>1. floorLog2[j + 1] \in Nat
    <3>1. j + 1 \in Nat /\ (j + 1) \div 2 \in 0 .. j
      BY <1>10
    <3> QED
      BY <1>8, <1>10, <3>1
  <2>2. \A n \in 0 .. j + 1 : n = j + 1 \/ n \in 0 .. j
    BY <1>10
  <2> QED
    BY <1>10, <2>1, <2>2
<1>11. S = Nat
  <2> HIDE DEF S
  <2> QED
    BY <1>9, <1>10, SetInduction DEF S
<1>12. ASSUME NEW n \in Nat PROVE floorLog2[n] \in Nat
  <2>1. n \in S
    BY <1>11
  <2>2. n \in 0 .. n
    OBVIOUS
  <2> QED
    BY <2>1, <2>2
<1> QED
  BY <1>7, <1>12

\* What bitAnd computes.
LEMMA BitAndIs ==
  \A a \in Nat : \A b \in Nat :
    bitAnd[a][b] = IF a = 0 \/ b = 0 THEN 0 ELSE 2 * bitAnd[a \div 2][b \div 2] + (a % 2) * (b % 2)
<1> DEFINE V == [Nat -> Nat]
           v == [b \in Nat |-> 0]
           G == [p \in Nat \X V |->
                  [b \in Nat |-> IF b = 0 THEN 0 ELSE 2 * p[2][b \div 2] + (p[1] % 2) * (b % 2)]]
           h == [n \in Nat |-> n \div 2]
<1>0. \A n \in Nat : n \div 2 \in Nat /\ (n > 0 => n \div 2 < n) /\ n % 2 \in 0 .. 1
  OBVIOUS
<1>1. v \in V /\ h \in [Nat -> Nat] /\ \A n \in Nat : n > 0 => h[n] < n
  BY <1>0
<1>2. G \in [Nat \X V -> V]
  <2>1. ASSUME NEW n \in Nat, NEW w \in V, NEW b \in Nat
        PROVE  (IF b = 0 THEN 0 ELSE 2 * w[b \div 2] + (n % 2) * (b % 2)) \in Nat
    <3>1. b \div 2 \in Nat /\ n % 2 \in Nat /\ b % 2 \in Nat
      BY <1>0
    <3>2. w[b \div 2] \in Nat
      BY <3>1
    <3>3. (n % 2) * (b % 2) \in Nat
      BY <3>1
    <3> QED
      BY <3>2, <3>3
  <2> QED
    BY <2>1
<1>3. PICK f : RecSolves(f, V, v, G, h)
  <2> HIDE DEF G, h, v, V
  <2>1. RecParts(V, v, G, h)
    BY <1>1, <1>2 DEF RecParts
  <2> QED
    BY <2>1, RecursionExists
<1>4. f \in [Nat -> V] /\ \A n \in Nat : f[n] = IF n = 0 THEN v ELSE G[<<n, f[h[n]]>>]
  <2> HIDE DEF G, h, v, V
  <2> QED
    BY <1>3 DEF RecSolves
<1> DEFINE E(g, a, b) == IF a = 0 \/ b = 0 THEN 0 ELSE 2 * g[a \div 2][b \div 2] + (a % 2) * (b % 2)
<1>5. ASSUME NEW a \in Nat PROVE f[a] = [b \in Nat |-> E(f, a, b)]
  <2>1. CASE a = 0
    BY <1>4, <2>1
  <2>2. CASE a # 0
    <3>1. h[a] = a \div 2 /\ a \div 2 \in Nat
      BY <1>0
    <3>2. PICK w \in V : w = f[a \div 2]
      BY <1>4, <3>1
    <3>3. f[a] = G[<<a, w>>]
      BY <1>4, <2>2, <3>1, <3>2
    <3>4. <<a, w>> \in Nat \X V
      OBVIOUS
    <3>5. G[<<a, w>>] = [b \in Nat |-> IF b = 0 THEN 0 ELSE 2 * w[b \div 2] + (a % 2) * (b % 2)]
      BY <3>4
    <3> QED
      BY <2>2, <3>2, <3>3, <3>5
  <2> QED
    BY <2>1, <2>2
<1>6. f = [a \in Nat |-> [b \in Nat |-> E(f, a, b)]]
  BY <1>4, <1>5
<1>7. bitAnd = CHOOSE g : g = [a \in Nat |-> [b \in Nat |-> E(g, a, b)]]
  BY DEF bitAnd
<1>8. bitAnd = [a \in Nat |-> [b \in Nat |-> E(bitAnd, a, b)]]
  <2> HIDE DEF E
  <2> QED
    BY <1>6, <1>7
<1>9. ASSUME NEW a \in Nat, NEW b \in Nat PROVE bitAnd[a][b] = E(bitAnd, a, b)
  <2> HIDE DEF E
  <2>1. bitAnd[a] = [c \in Nat |-> E(bitAnd, a, c)]
    BY <1>8
  <2> QED
    BY <2>1
<1> QED
  BY <1>9

\* The remainder is the one that is small.
LEMMA ModUnique ==
  ASSUME NEW m \in Nat \ {0}, NEW q \in Int, NEW r \in 0 .. m - 1, NEW a \in Int, a = m * q + r
  PROVE  a % m = r
<1>1. PICK p \in Int : p = a \div m
  OBVIOUS
<1>2. PICK s \in 0 .. m - 1 : s = a % m
  OBVIOUS
<1>3. a = m * p + s
  BY <1>1, <1>2
<1>4. m * (p - q) = r - s
  BY <1>3
<1>5. \A k \in Int : k >= 1 => m * k >= m
  OBVIOUS
<1>6. \A k \in Int : k <= -1 => m * k <= -m
  OBVIOUS
<1>7. p - q \in Int /\ ~(p - q >= 1) /\ ~(p - q <= -1)
  BY <1>4, <1>5, <1>6
<1>8. p = q
  BY <1>7
<1> QED
  BY <1>2, <1>3, <1>8

\* Powers are positive, and the smaller ones divide the larger ones.
LEMMA Pow2Positive == \A k \in Nat : pow2[k] \in Nat \ {0}
<1> DEFINE S == {j \in Nat : pow2[j] \in Nat \ {0}}
<1>1. 0 \in S
  BY Pow2Is
<1>2. ASSUME NEW j \in S PROVE j + 1 \in S
  BY Pow2Is
<1>3. S = Nat
  <2> HIDE DEF S
  <2> QED
    BY <1>1, <1>2, SetInduction DEF S
<1> QED
  BY <1>3

\* Powers of two multiply.
LEMMA Pow2Divides ==
  ASSUME NEW k \in Nat, NEW d \in Nat
  PROVE  pow2[k + d] = pow2[k] * pow2[d]
<1> DEFINE S == {j \in Nat : pow2[k + j] = pow2[k] * pow2[j]}
<1>0. \A j \in Nat : pow2[j] \in Nat
  BY Pow2Positive
<1>1. 0 \in S
  BY <1>0, Pow2Is
<1>2. ASSUME NEW j \in S PROVE j + 1 \in S
  <2>1. k + j \in Nat /\ k + (j + 1) = (k + j) + 1
    OBVIOUS
  <2>2. pow2[(k + j) + 1] = 2 * pow2[k + j] /\ pow2[j + 1] = 2 * pow2[j]
    BY <2>1, Pow2Is
  <2>3. PICK x \in Nat, y \in Nat : x = pow2[k] /\ y = pow2[j]
    BY <1>0
  <2>4. 2 * (x * y) = x * (2 * y)
    OBVIOUS
  <2> QED
    BY <1>2, <2>1, <2>2, <2>3, <2>4
<1>3. S = Nat
  <2> HIDE DEF S
  <2> QED
    BY <1>1, <1>2, SetInduction DEF S
<1> QED
  BY <1>3

\* A larger exponent gives a larger power.
LEMMA Pow2Grows ==
  ASSUME NEW k \in Nat, NEW j \in Nat, pow2[k] < pow2[j]
  PROVE  k < j
<1> SUFFICES ASSUME k >= j PROVE FALSE
  OBVIOUS
<1>1. PICK d \in Nat : k = j + d
  <2>1. k - j \in Nat /\ k = j + (k - j)
    OBVIOUS
  <2> QED
    BY <2>1
<1>2. PICK x \in Nat \ {0}, y \in Nat \ {0} : x = pow2[j] /\ y = pow2[d]
  BY Pow2Positive
<1>3. pow2[k] = x * y
  BY <1>1, <1>2, Pow2Divides
<1>4. x * y >= x
  OBVIOUS
<1> QED
  BY <1>2, <1>3, <1>4

\* The mask of a power of two takes the remainder.
LEMMA MaskIsMod ==
  ASSUME NEW k \in Nat, NEW a \in Nat
  PROVE  bitAnd[a][pow2[k] - 1] = a % pow2[k]
<1> DEFINE S == {j \in Nat : \A n \in Nat : bitAnd[n][pow2[j] - 1] = n % pow2[j]}
<1>1. 0 \in S
  <2>1. pow2[0] = 1 /\ pow2[0] - 1 = 0
    BY Pow2Is
  <2>2. ASSUME NEW n \in Nat PROVE bitAnd[n][0] = n % 1
    <3>1. n % 1 = 0
      OBVIOUS
    <3>2. 0 \in Nat
      OBVIOUS
    <3> QED
      BY <3>1, <3>2, BitAndIs
  <2> QED
    BY <2>1, <2>2
<1>2. ASSUME NEW j \in S PROVE j + 1 \in S
  <2>1. PICK P \in Nat \ {0} : P = pow2[j]
    BY Pow2Positive
  <2>2. pow2[j + 1] = 2 * P /\ j + 1 \in Nat
    BY <2>1, Pow2Is
  <2>3. \A n \in Nat : bitAnd[n][P - 1] = n % P
    BY <1>2, <2>1
  <2>4. ASSUME NEW n \in Nat PROVE bitAnd[n][2 * P - 1] = n % (2 * P)
    <3>1. PICK q \in Nat : q = n \div 2
      OBVIOUS
    <3>2. PICK r \in 0 .. 1 : r = n % 2
      OBVIOUS
    <3>3. n = 2 * q + r
      BY <3>1, <3>2
    <3>4. 2 * P - 1 \in Nat /\ 2 * P - 1 # 0 /\ (2 * P - 1) \div 2 = P - 1 /\ (2 * P - 1) % 2 = 1
          /\ P - 1 \in Nat
      OBVIOUS
    <3>5. q % P \in 0 .. P - 1 /\ q \div P \in Int /\ q = P * (q \div P) + (q % P)
      OBVIOUS
    <3>6. PICK t \in 0 .. P - 1, s \in Int : t = q % P /\ q = P * s + t
      BY <3>5
    <3>7. n = (2 * P) * s + (2 * t + r)
      BY <3>3, <3>6
    <3>8. 2 * t + r \in 0 .. 2 * P - 1
      OBVIOUS
    <3>9. n % (2 * P) = 2 * t + r
      <4>1. PICK m \in Nat \ {0} : m = 2 * P
        OBVIOUS
      <4>2. PICK u \in 0 .. m - 1 : u = 2 * t + r
        BY <3>8, <4>1
      <4>3. n = m * s + u
        BY <3>7, <4>1, <4>2
      <4>4. n % m = u
        BY <4>3, ModUnique
      <4> QED
        BY <4>1, <4>2, <4>4
    <3>10. CASE n = 0
      <4>1. bitAnd[n][2 * P - 1] = 0
        BY <3>4, <3>10, BitAndIs
      <4>2. t = 0 /\ r = 0
        <5>1. r = 0 /\ q = 0
          BY <3>3, <3>10
        <5>2. 0 % P = 0
          <6>1. 0 = P * 0 + 0 /\ 0 \in 0 .. P - 1
            OBVIOUS
          <6> QED
            BY <6>1, ModUnique
        <5> QED
          BY <3>6, <5>1, <5>2
      <4> QED
        BY <3>9, <4>1, <4>2
    <3>11. CASE n # 0
      <4>1. bitAnd[n][2 * P - 1] = 2 * bitAnd[q][P - 1] + r * 1
        <5>1. PICK M \in Nat : M = 2 * P - 1 /\ M # 0 /\ M \div 2 = P - 1 /\ M % 2 = 1
          BY <3>4
        <5>2. bitAnd[n][M] = 2 * bitAnd[n \div 2][M \div 2] + (n % 2) * (M % 2)
          BY <3>11, <5>1, BitAndIs
        <5> QED
          BY <3>1, <3>2, <5>1, <5>2
      <4>2. bitAnd[q][P - 1] = t
        BY <2>3, <3>6
      <4> QED
        BY <3>9, <4>1, <4>2
    <3> QED
      BY <3>10, <3>11
  <2> QED
    BY <2>2, <2>4
<1>3. S = Nat
  <2> HIDE DEF S
  <2> QED
    BY <1>1, <1>2, SetInduction DEF S
<1> QED
  BY <1>3

\* A good factor is 0 or a power of two.
LEMMA PowerOfTwoIs ==
  ASSUME NEW y \in Nat, powerOfTwo(y), y # 0
  PROVE  \E k \in Nat : y = pow2[k]
<1>1. floorLog2[y] \in Nat
  BY FloorLog2Type
<1> QED
  BY <1>1 DEF powerOfTwo

\* What XoYHandler computes is the remainder by Y, also of a negative tuple.
LEMMA MaskExact ==
  ASSUME NEW y \in Nat, powerOfTwo(y), y # 0, y < WORD, NEW t \in Int
  PROVE  bitAnd[t % WORD][(y - 1) % WORD] = t % y
<1>1. PICK k \in Nat : y = pow2[k]
  BY PowerOfTwoIs
<1>2. PICK j \in Nat : WORD = pow2[j]
  BY FactorsAssumption
<1>3. k < j
  BY <1>1, <1>2, Pow2Grows
<1>4. PICK d \in Nat : j = k + d
  <2>1. j - k \in Nat /\ j = k + (j - k)
    BY <1>3
  <2> QED
    BY <2>1
<1>5. PICK P \in Nat \ {0}, D \in Nat \ {0}, W \in Nat \ {0} : P = y /\ D = pow2[d] /\ W = WORD
  BY <1>1, <1>2, Pow2Positive
<1>6. W = P * D
  BY <1>1, <1>2, <1>4, <1>5, Pow2Divides
<1>7. (P - 1) % W = P - 1
  <2>1. P - 1 \in 0 .. W - 1
    BY <1>5
  <2>2. P - 1 = W * 0 + (P - 1)
    OBVIOUS
  <2> QED
    BY <2>1, <2>2, ModUnique
<1>8. PICK u \in 0 .. W - 1, s \in Int : u = t % W /\ t = W * s + u
  <2>1. t % W \in 0 .. W - 1 /\ t \div W \in Int /\ t = W * (t \div W) + (t % W)
    OBVIOUS
  <2> QED
    BY <2>1
<1>9. PICK r \in 0 .. P - 1, v \in Int : r = u % P /\ u = P * v + r
  <2>1. u % P \in 0 .. P - 1 /\ u \div P \in Int /\ u = P * (u \div P) + (u % P)
    OBVIOUS
  <2> QED
    BY <2>1
<1>10. t = P * (D * s + v) + r
  <2>1. t = (P * D) * s + (P * v + r)
    BY <1>6, <1>8, <1>9
  <2> QED
    BY <2>1
<1>11. t % P = r
  <2>1. D * s + v \in Int
    OBVIOUS
  <2>2. PICK q \in Int : q = D * s + v
    BY <2>1
  <2> QED
    BY <1>10, <2>2, ModUnique
<1>12. u \in Nat
  OBVIOUS
<1>13. bitAnd[u][P - 1] = u % P
  BY <1>1, <1>5, <1>12, MaskIsMod
<1> QED
  BY <1>5, <1>7, <1>8, <1>9, <1>11, <1>13

-----------------------------------------------------------------------------
(* Sampling handlers: the invariant, and the steps that keep it. *)

\* The handlers that LoggedAsPromised is about.
Judged == {"IDENTITY_TSC", "DOWNSAMPLE", "XOY", "FIRSTLAST"}

\* A channel of them calls its handler while its file is open, and none afterwards.
CallsOK ==
  /\ calls \in Seq(Int)
  /\ pendingArg = <<>> \/ \E nr \in Int, v \in Int : pendingArg = <<nr, v>>
  /\ h_type \in Judged =>
       /\ setAt \in 0 .. Len(calls) /\ fileOpen \in BOOLEAN
       /\ ch_handler_f = IF fileOpen THEN HandlerOf[h_type] ELSE "NullHandler"
       /\ parm_handler_f = (h_type \in Settable)

\* The lines of a file are those of calls that were made.
LinesOK ==
  /\ logf \in Seq([tuple : Int, stamp : Nat, wall : BOOLEAN])
  /\ \A i \in 1 .. Len(logf) : logf[i].stamp \in 1 .. Len(calls)

\* The factor, as DownsampleHandler uses it.
Every == IF factor < 1 THEN 1 ELSE factor

\* EveryNth, for the factors too that count as 1.
EverySample ==
  /\ \A i \in DOMAIN logf :
       i > 1 /\ logf[i - 1].stamp > setAt => logf[i].stamp - logf[i - 1].stamp = Every
  /\ fileOpen => Len(calls) - (IF lastStamp > setAt THEN lastStamp ELSE setAt) <= Every - 1

\* The counter is at the number of calls since the last sample, and not past the factor
\* once a call was made with it.
DownInv ==
  h_type = "DOWNSAMPLE" =>
    /\ LinesOK /\ factor \in Int /\ counter \in Nat \ {0}
    /\ fileOpen => counter = 1 + Len(calls) - lastStamp
    /\ fileOpen /\ Len(calls) > setAt => counter <= Every
    /\ EverySample

\* The factors are good, whichever was set last.
XoYGood(p) ==
  p \in [x : Nat, y : Nat] /\ p.x <= p.y /\ p.y < WORD /\ powerOfTwo(toDouble(p.y))

XoYInv == h_type = "XOY" => LinesOK /\ XoYGood(xoy) /\ XoYExact

\* The first line is in the file, the last one at hand.
FirstLastInv ==
  h_type = "FIRSTLAST" =>
    /\ fileOpen =>
         IF calls = <<>> THEN lastLine = <<>> /\ logf = <<>>
         ELSE /\ lastLine = <<Line(calls[Len(calls)], Len(calls), TRUE)>>
              /\ logf = <<Line(calls[1], 1, TRUE)>>
    /\ FirstLastOnly

\* The wall clock time is due before the first line only.
TscInv == h_type = "IDENTITY_TSC" => full = (calls = <<>>) /\ TscDecodable

\* The inductive invariant
SamplingInv == CallsOK /\ DownInv /\ XoYInv /\ FirstLastInv /\ TscInv

-----------------------------------------------------------------------------
\* The steps that are not a call of a handler.
Setting ==
  \/ closeSampling \/ setInvalid
  \/ \E nr \in {0, 1, 2} : \/ \E v \in ArgValues : parameterizeChannel(nr, v)
                           \/ \E l \in Literals : parameterizeLiteral(nr, l)
  \/ \E par \in ArgLists : parameterizeAll(par)

\* What they do to a channel: they close it or not, and set a parameter or not.
ClosesOrNot == closeFile \/ UNCHANGED <<ch_handler_f, fileOpen, logf>>

SetsOrNot ==
  /\ UNCHANGED <<parm_handler_f, counter, lastLine, full>>
  /\ \/ UNCHANGED <<factor, xoy, setAt>>
     \/ /\ setAt' = Len(calls)
        /\ h_type = "DOWNSAMPLE" => factor' \in Int
        /\ h_type = "XOY" /\ XoYGood(xoy) => XoYGood(xoy')

\* A number modulo the word size.
LEMMA WordMod == ASSUME NEW v \in Int PROVE v % WORD \in Nat /\ v % WORD < WORD
<1>1. PICK w \in Nat \ {0} : w = WORD
  BY TimeAssumption
<1>2. v % w \in 0 .. w - 1
  OBVIOUS
<1> QED
  BY <1>1, <1>2

\* What is accepted is good, and what is refused leaves the factors as they are.
LEMMA WithArgGood ==
  ASSUME NEW p, XoYGood(p), NEW nr \in Int, NEW v \in Int
  PROVE  /\ XoYGood(withArg(p, nr, v).p)
         /\ ~withArg(p, nr, v).ok => withArg(p, nr, v).p = p
         /\ withArg(p, nr, v).ok \in BOOLEAN
<1>1. PICK w \in Nat : w = v % WORD /\ w < WORD
  BY WordMod
<1> DEFINE new == IF nr = 0 THEN [p EXCEPT !.x = w] ELSE [p EXCEPT !.y = w]
           ok == nr \in {0, 1} /\ checkConsistency(new.x, new.y)
<1>2. withArg(p, nr, v) = [ok |-> ok, p |-> IF ok THEN new ELSE p]
  BY <1>1 DEF withArg
<1>3. new \in [x : Nat, y : Nat] /\ new.y < WORD
  BY <1>1, TimeAssumption DEF XoYGood
<1>4. ok => XoYGood(new)
  BY <1>3 DEF XoYGood, checkConsistency
<1> HIDE DEF new, ok
<1>5. withArg(p, nr, v).ok = ok /\ withArg(p, nr, v).p = IF ok THEN new ELSE p
  BY <1>2
<1>6. ok \in BOOLEAN
  BY DEF ok
<1> QED
  BY <1>4, <1>5, <1>6

\* The steps that set one argument.
LEMMA SetArgStep ==
  ASSUME CallsOK, NEW nr \in Int, NEW v \in Int, setArg(nr, v), h_type \in Judged
  PROVE  ClosesOrNot /\ SetsOrNot
<1>1. CASE unsettable
  BY <1>1 DEF unsettable, refuse, handlerVars, ClosesOrNot, SetsOrNot
<1>2. CASE setArgDownsampleHandler(nr, v)
  BY <1>2 DEF setArgDownsampleHandler, accept, refuse, ClosesOrNot, SetsOrNot
<1>3. CASE setArgXoYHandler(nr, v)
  <2>1. /\ h_type = "XOY" /\ xoy' = withArg(xoy, nr, v).p
        /\ IF withArg(xoy, nr, v).ok THEN accept ELSE refuse
        /\ UNCHANGED <<factor, counter, lastLine, buffer, nr_ts, max_ts, full, reported>>
    BY <1>3 DEF setArgXoYHandler
  <2>2. XoYGood(xoy) => XoYGood(xoy') /\ (~withArg(xoy, nr, v).ok => xoy' = xoy)
    BY <2>1, WithArgGood
  <2>3. CASE withArg(xoy, nr, v).ok
    BY <2>1, <2>2, <2>3 DEF accept, ClosesOrNot, SetsOrNot
  <2>4. CASE ~withArg(xoy, nr, v).ok
    <3>1. xoy' = xoy
      BY <2>1, <2>4 DEF withArg
    <3> QED
      BY <2>1, <2>4, <3>1 DEF refuse, ClosesOrNot, SetsOrNot
  <2> QED
    BY <2>3, <2>4
<1>4. CASE setArgMedianHandler(nr, v) \/ setArgDefectHandler(nr, v)
  BY <1>4 DEF setArgMedianHandler, setArgDefectHandler, Judged
<1> QED
  BY <1>1, <1>2, <1>3, <1>4 DEF setArg

\* The steps that set all of them.
LEMMA SetAllStep ==
  ASSUME CallsOK, NEW par \in ArgLists, parameterizeAll(par), h_type \in Judged
  PROVE  ClosesOrNot /\ SetsOrNot
<1>0. par \in Seq(Int) /\ Len(par) > 0 /\ Len(par) = par[1] + 1
  BY SamplingAssumption
<1>1. CASE unsettable
  BY <1>1 DEF unsettable, refuse, handlerVars, ClosesOrNot, SetsOrNot
<1>2. CASE setAllDownsample(par)
  <2>1. CASE par[1] = 1
    <3>1. par[2] \in Int
      <4>1. Len(par) = 2 /\ 2 \in 1 .. Len(par)
        BY <1>0, <2>1
      <4> QED
        BY <1>0, <4>1, ElementOfSeq
    <3>2. setArgDownsampleHandler(0, par[2])
      BY <1>2, <2>1 DEF setAllDownsample
    <3> QED
      BY <3>1, <3>2 DEF setArgDownsampleHandler, accept, refuse, ClosesOrNot, SetsOrNot
  <2>2. CASE par[1] # 1
    <3>1. setArgDownsampleHandler(1, par[2])
      BY <1>2, <2>2 DEF setAllDownsample
    <3> QED
      BY <3>1 DEF setArgDownsampleHandler, accept, refuse, ClosesOrNot, SetsOrNot
  <2> QED
    BY <2>1, <2>2
<1>3. CASE setAllXoY(par)
  <2>0. /\ h_type = "XOY"
        /\ UNCHANGED <<factor, counter, lastLine, buffer, nr_ts, max_ts, full, reported>>
    BY <1>3 DEF setAllXoY
  <2>1. CASE par[1] # 2
    BY <1>3, <2>1 DEF setAllXoY, ClosesOrNot, SetsOrNot
  <2>2. CASE par[1] = 2
    <3>1. par[2] \in Int /\ par[3] \in Int
      <4>1. Len(par) = 3 /\ 2 \in 1 .. Len(par) /\ 3 \in 1 .. Len(par)
        BY <1>0, <2>2
      <4> QED
        BY <1>0, <4>1, ElementOfSeq
    <3> DEFINE r1 == withArg(xoy, 1, par[3])
               r2 == IF r1.ok THEN withArg(r1.p, 0, par[2]) ELSE r1
    <3>2. xoy' = r2.p /\ IF r2.ok THEN accept ELSE IF r1.ok THEN refuseRest ELSE refuse
      BY <1>3, <2>2 DEF setAllXoY
    <3>3. XoYGood(xoy) => XoYGood(r1.p)
      BY <3>1, WithArgGood
    <3>4. XoYGood(xoy) => XoYGood(r2.p)
      BY <3>1, <3>3, WithArgGood
    <3>5. ~r1.ok => r1.p = xoy /\ r2 = r1
      BY DEF withArg
    <3> HIDE DEF r1, r2
    <3>6. CASE r2.ok \/ r1.ok
      BY <2>0, <3>2, <3>4, <3>5, <3>6 DEF accept, refuseRest, ClosesOrNot, SetsOrNot
    <3>7. CASE ~r2.ok /\ ~r1.ok
      BY <2>0, <3>2, <3>5, <3>7 DEF refuse, ClosesOrNot, SetsOrNot
    <3> QED
      BY <3>6, <3>7
  <2> QED
    BY <2>1, <2>2
<1>4. CASE setArgMedianHandler(-1, 0) \/ setArgDefectHandler(-1, 0)
  BY <1>4 DEF setArgMedianHandler, setArgDefectHandler, Judged
<1> QED
  BY <1>1, <1>2, <1>3, <1>4 DEF parameterizeAll

\* What convertA2Inoexit gives is a number.
LEMMA ConvertedType ==
  ASSUME NEW l \in Literals PROVE convertA2Inoexit(l.number, l.postfix).result \in Int
<1>1. PICK n \in Int : n = l.number
  BY SamplingAssumption
<1>2. \A q \in DOMAIN Factors : Factors[q] \in Int
  BY DEF Factors
<1>3. l.postfix \in DOMAIN Factors => n * Factors[l.postfix] \in Int
  BY <1>2
<1> DEFINE r == convertA2Inoexit(l.number, l.postfix)
<1>4. CASE n = -1
  <2>1. r = [valid |-> FALSE, result |-> 0]
    BY <1>1, <1>4 DEF convertA2Inoexit
  <2> QED
    BY <2>1
<1>5. CASE n # -1 /\ (l.postfix = "" \/ l.postfix \notin DOMAIN Factors)
  <2>1. r.result = n
    BY <1>1, <1>5 DEF convertA2Inoexit
  <2> QED
    BY <2>1
<1>6. CASE n # -1 /\ l.postfix # "" /\ l.postfix \in DOMAIN Factors
  <2>1. r = [valid |-> TRUE, result |-> n * Factors[l.postfix]]
    BY <1>1, <1>6 DEF convertA2Inoexit
  <2> HIDE DEF r
  <2>2. r.result = n * Factors[l.postfix]
    BY <2>1
  <2> QED
    BY <1>3, <1>6, <2>2 DEF r
<1> QED
  BY <1>4, <1>5, <1>6

\* A step that is no call of a handler.
LEMMA SettingStep ==
  ASSUME CallsOK, Setting
  PROVE  /\ UNCHANGED <<h_type, calls>>
         /\ pendingArg' = <<>> \/ \E nr \in Int, v \in Int : pendingArg' = <<nr, v>>
         /\ h_type \in Judged => ClosesOrNot /\ SetsOrNot
<1>1. CASE closeSampling
  BY <1>1 DEF closeSampling, handlerVars, ClosesOrNot, SetsOrNot, CallsOK
<1>2. CASE setInvalid
  <2>1. PICK nr \in Int, v \in Int : pendingArg = <<nr, v>>
    BY <1>2 DEF setInvalid, CallsOK
  <2>2. setArg(nr, v) /\ pendingArg' = <<>> /\ UNCHANGED <<h_type, calls>>
    BY <1>2, <2>1 DEF setInvalid
  <2> QED
    BY <2>2, SetArgStep
<1>3. ASSUME NEW nr \in {0, 1, 2}, NEW v \in ArgValues, parameterizeChannel(nr, v)
      PROVE  /\ UNCHANGED <<h_type, calls>> /\ pendingArg' = <<>>
             /\ h_type \in Judged => ClosesOrNot /\ SetsOrNot
  <2>1. nr \in Int /\ v \in Int
    BY SamplingAssumption
  <2>2. UNCHANGED <<h_type, calls>> /\ pendingArg' = <<>> /\ setArg(nr, v)
    BY <1>3 DEF parameterizeChannel, calling
  <2> QED
    BY <2>1, <2>2, SetArgStep
<1>4. ASSUME NEW nr \in {0, 1, 2}, NEW l \in Literals, parameterizeLiteral(nr, l)
      PROVE  /\ UNCHANGED <<h_type, calls>>
             /\ pendingArg' = <<>> \/ \E k \in Int, v \in Int : pendingArg' = <<k, v>>
             /\ h_type \in Judged => ClosesOrNot /\ SetsOrNot
  <2> DEFINE r == convertA2Inoexit(l.number, l.postfix)
  <2>1. nr \in Int /\ r.result \in Int
    BY ConvertedType
  <2>2. UNCHANGED <<h_type, calls>> /\ pendingArg = <<>>
    BY <1>4 DEF parameterizeLiteral, calling
  <2>3. \/ setArg(nr, r.result) /\ pendingArg' = pendingArg
        \/ /\ closeFile /\ pendingArg' = <<nr, r.result>>
           /\ UNCHANGED <<ret, setAt, handlerVars, parm_handler_f>>
    BY <1>4 DEF parameterizeLiteral
  <2> HIDE DEF r
  <2>4. CASE setArg(nr, r.result) /\ pendingArg' = pendingArg
    BY <2>1, <2>2, <2>4, SetArgStep
  <2>5. CASE /\ closeFile /\ pendingArg' = <<nr, r.result>>
             /\ UNCHANGED <<ret, setAt, handlerVars, parm_handler_f>>
    BY <2>1, <2>2, <2>5 DEF handlerVars, ClosesOrNot, SetsOrNot
  <2> QED
    BY <2>3, <2>4, <2>5
<1>5. ASSUME NEW par \in ArgLists, parameterizeAll(par)
      PROVE  /\ UNCHANGED <<h_type, calls>> /\ pendingArg' = <<>>
             /\ h_type \in Judged => ClosesOrNot /\ SetsOrNot
  <2>1. UNCHANGED <<h_type, calls>> /\ pendingArg' = <<>>
    BY <1>5 DEF parameterizeAll, calling
  <2> QED
    BY <1>5, <2>1, SetAllStep
<1> QED
  BY <1>1, <1>2, <1>3, <1>4, <1>5 DEF Setting

\* What the condition of XoYHandler comes to, with factors the header allows.
LEMMA XoYTest ==
  ASSUME XoYGood(xoy), xoy.x >= 1, xoy.y <= pow2[DBL_MANT_DIG], NEW t \in Int
  PROVE  bitAnd[t % WORD][y_mask] < xoy.x <=> t % xoy.y < xoy.x
<1>1. xoy.x \in Nat /\ xoy.y \in Nat /\ xoy.x <= xoy.y /\ xoy.y < WORD
  BY DEF XoYGood
<1>2. powerOfTwo(xoy.y)
  BY DEF XoYGood, toDouble
<1>3. xoy.y # 0
  BY <1>1
<1>4. bitAnd[t % WORD][y_mask] = t % xoy.y
  BY <1>1, <1>2, <1>3, MaskExact DEF y_mask
<1> QED
  BY <1>4

-----------------------------------------------------------------------------
\* A channel that was opened.
LEMMA SamplingInitInv == SamplingInit => SamplingInv
<1> SUFFICES ASSUME SamplingInit PROVE SamplingInv
  OBVIOUS
<1>0. /\ calls = <<>> /\ logf = <<>> /\ Len(calls) = 0 /\ Len(logf) = 0 /\ setAt = 0
      /\ DOMAIN calls = {} /\ DOMAIN logf = {}
  BY DEF SamplingInit
<1>1. CallsOK
  <2>1. fileOpen = (h_type # "DEFECT")
    BY DEF SamplingInit
  <2>2. h_type \in Judged => fileOpen
    BY <2>1 DEF Judged
  <2>3. calls \in Seq(Int) /\ setAt \in 0 .. Len(calls)
    BY <1>0
  <2>4. pendingArg = <<>> /\ ch_handler_f = HandlerOf[h_type] /\ parm_handler_f = (h_type \in Settable)
    BY DEF SamplingInit
  <2>5. h_type \in Judged => fileOpen = TRUE
    BY <2>1, <2>2
  <2> QED
    BY <2>3, <2>4, <2>5 DEF CallsOK
<1>2. LinesOK
  BY <1>0 DEF LinesOK
<1>3. DownInv
  <2>1. factor \in Nat /\ counter = 1 /\ lastStamp = 0
    BY <1>0, SamplingAssumption DEF SamplingInit, lastStamp
  <2>2. EverySample
    BY <1>0, <2>1 DEF EverySample, Every
  <2> QED
    BY <1>0, <1>2, <2>1, <2>2 DEF DownInv
<1>4. XoYInv
  <2>1. XoYGood(xoy)
    BY SamplingAssumption, FactorsAssumption DEF SamplingInit, XoYGood, toDouble
  <2> QED
    BY <1>0, <1>2, <2>1 DEF XoYInv, XoYExact
<1>5. FirstLastInv
  BY <1>0 DEF SamplingInit, FirstLastInv, FirstLastOnly
<1>6. TscInv
  <2>1. <<>> = [i \in DOMAIN calls |-> Line(calls[i], i, i = 1)]
    BY <1>0
  <2> QED
    BY <1>0, <2>1 DEF SamplingInit, TscInv, TscDecodable
<1> QED
  BY <1>1, <1>3, <1>4, <1>5, <1>6 DEF SamplingInv

-----------------------------------------------------------------------------
(* Steps that are no call of a handler. *)

\* A sequence of two.
LEMMA AppendSecond == ASSUME NEW a, NEW b PROVE Append(<<a>>, b) = <<a, b>>
<1> DEFINE S == {a, b}
           s == Append(<<a>>, b)
<1>1. <<a>> \in Seq(S) /\ <<a, b>> \in Seq(S) /\ b \in S /\ Len(<<a>>) = 1 /\ <<a>>[1] = a
  OBVIOUS
<1>2. s \in Seq(S) /\ Len(s) = 2 /\ s[1] = a /\ s[2] = b
  BY <1>1, AppendProperties
<1>3. Len(<<a, b>>) = 2 /\ <<a, b>>[1] = a /\ <<a, b>>[2] = b
  OBVIOUS
<1>4. \A i \in 1 .. 2 : s[i] = <<a, b>>[i]
  <2>1. \A i \in 1 .. 2 : i = 1 \/ i = 2
    OBVIOUS
  <2> QED
    BY <1>2, <1>3, <2>1
<1> HIDE DEF S, s
<1> QED
  BY <1>1, <1>2, <1>3, <1>4, SeqEqual DEF s

\* Closing and setting keep the invariant.
LEMMA SettingKeeps ==
  ASSUME SamplingInv, Setting
  PROVE  SamplingInv'
<1>0. /\ UNCHANGED <<h_type, calls>>
      /\ pendingArg' = <<>> \/ \E nr \in Int, v \in Int : pendingArg' = <<nr, v>>
      /\ h_type \in Judged => ClosesOrNot /\ SetsOrNot
  BY SettingStep DEF SamplingInv
<1>1. calls \in Seq(Int) /\ Len(calls) \in Nat
  BY DEF SamplingInv, CallsOK
<1>2. h_type \in Judged =>
        /\ fileOpen' \in BOOLEAN /\ (fileOpen' => fileOpen)
        /\ ch_handler_f' = IF fileOpen' THEN HandlerOf[h_type] ELSE "NullHandler"
        /\ parm_handler_f' = (h_type \in Settable)
        /\ setAt' = setAt \/ setAt' = Len(calls)
  <2> SUFFICES ASSUME h_type \in Judged PROVE
        /\ fileOpen' \in BOOLEAN /\ (fileOpen' => fileOpen)
        /\ ch_handler_f' = IF fileOpen' THEN HandlerOf[h_type] ELSE "NullHandler"
        /\ parm_handler_f' = (h_type \in Settable)
        /\ setAt' = setAt \/ setAt' = Len(calls)
    OBVIOUS
  <2>0. /\ ClosesOrNot /\ SetsOrNot /\ h_type # "DEFECT"
        /\ fileOpen \in BOOLEAN /\ parm_handler_f = (h_type \in Settable)
        /\ ch_handler_f = IF fileOpen THEN HandlerOf[h_type] ELSE "NullHandler"
    BY <1>0 DEF SamplingInv, CallsOK, Judged
  <2>1. parm_handler_f' = (h_type \in Settable) /\ (setAt' = setAt \/ setAt' = Len(calls))
    BY <2>0 DEF SetsOrNot
  <2>2. CASE closeFile
    <3>1. ch_handler_f' = "NullHandler" /\ fileOpen' = FALSE
      BY <2>0, <2>2 DEF closeFile
    <3> QED
      BY <2>1, <3>1
  <2>3. CASE UNCHANGED <<ch_handler_f, fileOpen, logf>>
    BY <2>0, <2>1, <2>3
  <2> QED
    BY <2>0, <2>2, <2>3 DEF ClosesOrNot
<1>3. CallsOK'
  <2>1. h_type \in Judged => setAt' \in 0 .. Len(calls)
    BY <1>1, <1>2 DEF SamplingInv, CallsOK
  <2> QED
    BY <1>0, <1>1, <1>2, <2>1 DEF CallsOK
<1>4. DownInv'
  <2> SUFFICES ASSUME h_type = "DOWNSAMPLE" PROVE DownInv'
    BY <1>0 DEF DownInv
  <2>1. h_type \in Judged /\ logf' = logf
    BY <1>0 DEF Judged, ClosesOrNot, closeFile
  <2>2. /\ LinesOK /\ factor \in Int /\ counter \in Nat \ {0}
        /\ fileOpen => counter = 1 + Len(calls) - lastStamp
        /\ fileOpen /\ Len(calls) > setAt => counter <= Every
        /\ EverySample /\ setAt \in 0 .. Len(calls) /\ SetsOrNot
    BY <1>0, <2>1 DEF SamplingInv, DownInv, CallsOK
  <2>3. LinesOK' /\ lastStamp' = lastStamp /\ counter' = counter
    BY <1>0, <2>1, <2>2 DEF LinesOK, lastStamp, SetsOrNot
  <2>4. CASE UNCHANGED <<factor, xoy, setAt>>
    <3>1. EverySample'
      BY <1>0, <1>2, <2>1, <2>2, <2>3, <2>4 DEF EverySample, Every
    <3> QED
      BY <1>0, <1>2, <2>1, <2>2, <2>3, <2>4, <3>1 DEF DownInv, Every
  <2>5. CASE setAt' = Len(calls) /\ factor' \in Int
    <3>1. \A i \in DOMAIN logf : i > 1 => logf[i - 1].stamp <= Len(calls) /\ logf[i - 1].stamp \in Nat
      BY <1>1, <2>2 DEF LinesOK
    <3>2. lastStamp <= Len(calls) /\ lastStamp \in Nat
      BY <1>1, <2>2 DEF LinesOK, lastStamp
    <3>3. EverySample'
      BY <1>0, <1>1, <2>1, <2>3, <2>5, <3>1, <3>2 DEF EverySample, Every
    <3> QED
      BY <1>0, <1>1, <1>2, <2>1, <2>2, <2>3, <2>5, <3>3 DEF DownInv
  <2> QED
    BY <2>2, <2>4, <2>5 DEF SetsOrNot
<1>5. XoYInv'
  <2> SUFFICES ASSUME h_type = "XOY" PROVE XoYInv'
    BY <1>0 DEF XoYInv
  <2>1. h_type \in Judged /\ logf' = logf
    BY <1>0 DEF Judged, ClosesOrNot, closeFile
  <2>2. LinesOK /\ XoYGood(xoy) /\ XoYExact /\ SetsOrNot
    BY <1>0, <2>1 DEF SamplingInv, XoYInv
  <2>3. LinesOK' /\ stamps' = stamps
    BY <1>0, <2>1, <2>2 DEF LinesOK, stamps
  <2>4. CASE UNCHANGED <<factor, xoy, setAt>>
    BY <1>0, <2>1, <2>2, <2>3, <2>4 DEF XoYInv, XoYExact, XoYGood
  <2>5. CASE setAt' = Len(calls) /\ XoYGood(xoy')
    <3>1. setAt' + 1 .. Len(calls') = {}
      BY <1>0, <1>1, <2>5
    <3> QED
      BY <1>0, <2>3, <2>5, <3>1 DEF XoYInv, XoYExact, XoYGood
  <2> QED
    BY <2>2, <2>4, <2>5 DEF SetsOrNot
<1>6. FirstLastInv'
  <2> SUFFICES ASSUME h_type = "FIRSTLAST" PROVE FirstLastInv'
    BY <1>0 DEF FirstLastInv
  <2>1. h_type \in Judged /\ ClosesOrNot /\ SetsOrNot /\ fileOpen \in BOOLEAN
    BY <1>0 DEF Judged, SamplingInv, CallsOK
  <2>2. lastLine' = lastLine /\ calls' = calls /\ h_type' = h_type
    BY <1>0, <2>1 DEF SetsOrNot
  <2>3. CASE UNCHANGED <<ch_handler_f, fileOpen, logf>>
    BY <2>2, <2>3 DEF SamplingInv, FirstLastInv, FirstLastOnly
  <2>4. CASE closeFile
    <3>1. fileOpen' = FALSE
          /\ logf' = IF fileOpen THEN Append(logf, IF lastLine = <<>> THEN NoTuple ELSE lastLine[1]) ELSE logf
      BY <2>4 DEF closeFile, write
    <3>2. CASE fileOpen /\ calls = <<>>
      <4>1. logf' = <<NoTuple>>
        BY <3>1, <3>2 DEF SamplingInv, FirstLastInv
      <4> QED
        BY <2>2, <3>1, <3>2, <4>1 DEF FirstLastInv, FirstLastOnly
    <3>3. CASE fileOpen /\ calls # <<>>
      <4> DEFINE a == Line(calls[1], 1, TRUE)
                 b == Line(calls[Len(calls)], Len(calls), TRUE)
      <4>1. lastLine = <<b>> /\ logf = <<a>>
        BY <3>3 DEF SamplingInv, FirstLastInv
      <4> HIDE DEF a, b
      <4>2. lastLine # <<>> /\ lastLine[1] = b
        BY <4>1
      <4>3. logf' = Append(<<a>>, b)
        BY <3>1, <3>3, <4>1, <4>2
      <4>4. logf' = <<a, b>>
        BY <4>3, AppendSecond
      <4> QED
        BY <2>2, <3>1, <3>3, <4>4 DEF FirstLastInv, FirstLastOnly, a, b
    <3>4. CASE ~fileOpen
      BY <2>2, <3>1, <3>4 DEF SamplingInv, FirstLastInv, FirstLastOnly
    <3> QED
      BY <3>2, <3>3, <3>4
  <2> QED
    BY <2>1, <2>3, <2>4 DEF ClosesOrNot
<1>7. TscInv'
  <2> SUFFICES ASSUME h_type = "IDENTITY_TSC" PROVE TscInv'
    BY <1>0 DEF TscInv
  <2>1. h_type \in Judged /\ logf' = logf /\ full' = full
    BY <1>0 DEF Judged, ClosesOrNot, closeFile, SetsOrNot
  <2> QED
    BY <1>0, <2>1 DEF SamplingInv, TscInv, TscDecodable
<1> QED
  BY <1>3, <1>4, <1>5, <1>6, <1>7 DEF SamplingInv

-----------------------------------------------------------------------------
(* Calls of a handler. *)

\* A line is added: what the file holds.
LEMMA LineAdded ==
  ASSUME LinesOK, calls \in Seq(Int), NEW t \in Int, calls' = Append(calls, t),
         write(Line(t, now, TRUE))
  PROVE  /\ LinesOK' /\ lastStamp' = now /\ stamps' = stamps \cup {now}
         /\ Len(logf') = Len(logf) + 1 /\ logf'[Len(logf) + 1].stamp = now
         /\ \A i \in 1 .. Len(logf) : logf'[i] = logf[i]
<1> DEFINE l == Line(t, now, TRUE)
<1>1. now \in Nat \ {0} /\ Len(calls) \in Nat /\ Len(calls') = now
  BY DEF now
<1>2. l \in [tuple : Int, stamp : Nat, wall : BOOLEAN] /\ l.stamp = now
  BY <1>1 DEF Line
<1>3. logf \in Seq([tuple : Int, stamp : Nat, wall : BOOLEAN]) /\ logf' = Append(logf, l)
  BY DEF LinesOK, write
<1> HIDE DEF l
<1>4. /\ logf' \in Seq([tuple : Int, stamp : Nat, wall : BOOLEAN])
      /\ Len(logf') = Len(logf) + 1 /\ Len(logf) \in Nat /\ logf'[Len(logf) + 1] = l
      /\ \A i \in 1 .. Len(logf) : logf'[i] = logf[i]
  BY <1>2, <1>3, AppendProperties
<1>5. \A i \in 1 .. Len(logf) + 1 : i = Len(logf) + 1 \/ i \in 1 .. Len(logf)
  BY <1>4
<1>6. \A i \in 1 .. Len(logf') : logf'[i].stamp \in 1 .. now
  <2>1. \A i \in 1 .. Len(logf) : logf[i].stamp \in 1 .. now
    BY <1>1 DEF LinesOK, now
  <2>2. logf'[Len(logf) + 1].stamp \in 1 .. now
    BY <1>1, <1>2, <1>4
  <2>3. ASSUME NEW i \in 1 .. Len(logf) + 1 PROVE logf'[i].stamp \in 1 .. now
    BY <1>4, <1>5, <2>1, <2>2
  <2> QED
    BY <1>4, <2>3
<1>7. LinesOK'
  BY <1>1, <1>4, <1>6 DEF LinesOK
<1>8. lastStamp' = now
  <2>1. logf' # <<>>
    BY <1>4
  <2> QED
    BY <1>2, <1>4, <2>1 DEF lastStamp
<1>9. stamps' = stamps \cup {now}
  <2>1. DOMAIN logf' = 1 .. Len(logf) + 1 /\ DOMAIN logf = 1 .. Len(logf)
    BY <1>3, <1>4
  <2>2. ASSUME NEW c \in stamps' PROVE c \in stamps \cup {now}
    <3>1. PICK i \in DOMAIN logf' : c = logf'[i].stamp
      BY <2>2 DEF stamps
    <3> QED
      BY <1>2, <1>4, <1>5, <2>1, <3>1 DEF stamps
  <2>3. ASSUME NEW c \in stamps PROVE c \in stamps'
    <3>1. PICK i \in DOMAIN logf : c = logf[i].stamp
      BY <2>3 DEF stamps
    <3>2. i \in DOMAIN logf' /\ c = logf'[i].stamp
      BY <1>4, <2>1, <3>1
    <3> QED
      BY <3>2 DEF stamps
  <2>4. now \in stamps'
    <3>1. Len(logf) + 1 \in DOMAIN logf' /\ logf'[Len(logf) + 1].stamp = now
      BY <1>2, <1>4, <2>1
    <3> QED
      BY <3>1 DEF stamps
  <2> QED
    BY <2>2, <2>3, <2>4
<1> QED
  BY <1>2, <1>4, <1>7, <1>8, <1>9

\* A call of an open downsampling channel.
LEMMA DownsampleKeeps ==
  ASSUME DownInv, CallsOK, h_type = "DOWNSAMPLE", h_type' = h_type, fileOpen, fileOpen',
         setAt' = setAt,
         NEW t \in Int, calls' = Append(calls, t), DownsampleHandler(t)
  PROVE  DownInv'
<1>0. /\ LinesOK /\ factor \in Int /\ counter \in Nat \ {0} /\ EverySample
      /\ counter = 1 + Len(calls) - lastStamp /\ (Len(calls) > setAt => counter <= Every)
      /\ setAt \in 0 .. Len(calls) /\ calls \in Seq(Int) /\ factor' = factor
  BY DEF DownInv, CallsOK, Judged, DownsampleHandler
<1>1. Len(calls) \in Nat /\ Len(calls') = Len(calls) + 1 /\ now = Len(calls) + 1
  BY <1>0 DEF now
<1>2. /\ lastStamp \in 0 .. Len(calls) /\ DOMAIN logf = 1 .. Len(logf) /\ Len(logf) \in Nat
      /\ \A i \in 1 .. Len(logf) : logf[i].stamp \in Nat
      /\ Len(logf) > 0 => logf[Len(logf)].stamp = lastStamp
  BY <1>0, <1>1 DEF LinesOK, lastStamp
<1>3. /\ Every' = Every /\ Every \in Nat \ {0}
      /\ (factor >= 1 => Every = factor) /\ (factor < 1 => Every = 1)
  BY <1>0 DEF Every
<1>4. \A i \in 1 .. Len(logf) :
        i > 1 /\ logf[i - 1].stamp > setAt => logf[i].stamp - logf[i - 1].stamp = Every
  BY <1>0, <1>2 DEF EverySample, Every
<1>5. CASE counter < factor
  <2>1. counter' = counter + 1 /\ logf' = logf /\ Every = factor
    BY <1>0, <1>3, <1>5 DEF DownsampleHandler
  <2>2. lastStamp' = lastStamp
    BY <2>1 DEF lastStamp
  <2>3. LinesOK'
    <3>1. \A i \in 1 .. Len(logf) : logf[i].stamp \in 1 .. Len(calls')
      BY <1>0, <1>1, <1>2 DEF LinesOK
    <3> QED
      BY <1>0, <2>1, <3>1 DEF LinesOK
  <2>4. EverySample'
    <3>1. Len(calls') - (IF lastStamp > setAt THEN lastStamp ELSE setAt) <= Every - 1
      <4>1. Len(calls') - lastStamp <= Every - 1
        BY <1>0, <1>1, <1>2, <1>5, <2>1
      <4> QED
        BY <1>0, <1>1, <1>2, <1>3, <4>1
    <3> QED
      BY <1>0, <1>2, <1>4, <2>1, <2>2, <3>1 DEF EverySample, Every
  <2> QED
    BY <1>0, <1>1, <1>2, <1>3, <1>5, <2>1, <2>2, <2>3, <2>4 DEF DownInv
<1>6. CASE ~(counter < factor)
  <2>1. counter' = 1 /\ write(Line(t, now, TRUE))
    BY <1>0, <1>6 DEF DownsampleHandler, recount
  <2>2. /\ LinesOK' /\ lastStamp' = now
        /\ Len(logf') = Len(logf) + 1 /\ logf'[Len(logf) + 1].stamp = now
        /\ \A i \in 1 .. Len(logf) : logf'[i] = logf[i]
    BY <1>0, <2>1, LineAdded
  <2>3. DOMAIN logf' = 1 .. Len(logf) + 1
    BY <2>2 DEF LinesOK
  <2>4. ASSUME NEW i \in 1 .. Len(logf) + 1, i > 1, logf'[i - 1].stamp > setAt
        PROVE  logf'[i].stamp - logf'[i - 1].stamp = Every
    <3>1. CASE i <= Len(logf)
      <4>1. i \in 1 .. Len(logf) /\ i - 1 \in 1 .. Len(logf)
        BY <1>2, <2>4, <3>1
      <4> QED
        BY <1>4, <2>2, <2>4, <4>1
    <3>2. CASE i = Len(logf) + 1
      <4>1. i - 1 = Len(logf) /\ Len(logf) \in 1 .. Len(logf)
        BY <1>2, <2>4, <3>2
      <4>2. logf'[i - 1].stamp = lastStamp /\ logf'[i].stamp = now
        BY <1>2, <2>2, <3>2, <4>1
      <4>3. Len(calls) > setAt
        BY <1>0, <1>1, <1>2, <2>4, <4>2
      <4>4. counter = Every
        BY <1>0, <1>3, <1>6, <4>3
      <4> QED
        BY <1>0, <1>1, <1>2, <4>2, <4>4
    <3> QED
      BY <1>2, <3>1, <3>2
  <2>5. EverySample'
    <3>1. Len(calls') - (IF now > setAt THEN now ELSE setAt) <= Every - 1
      BY <1>0, <1>1, <1>3
    <3> QED
      BY <1>0, <2>2, <2>3, <2>4, <3>1 DEF EverySample, Every
  <2> QED
    BY <1>0, <1>1, <1>3, <2>1, <2>2, <2>5 DEF DownInv
<1> QED
  BY <1>5, <1>6

\* A call of an open X-out-of-Y channel.
LEMMA XoYKeeps ==
  ASSUME XoYInv, CallsOK, h_type = "XOY", setAt' = setAt,
         NEW t \in Int, calls' = Append(calls, t), XoYHandler(t)
  PROVE  XoYInv'
<1>0. /\ LinesOK /\ XoYGood(xoy) /\ XoYExact
      /\ setAt \in 0 .. Len(calls) /\ calls \in Seq(Int) /\ xoy' = xoy
  BY DEF XoYInv, CallsOK, Judged, XoYHandler, handlerVars
<1>1. Len(calls) \in Nat /\ Len(calls') = Len(calls) + 1 /\ now = Len(calls) + 1
      /\ calls'[now] = t /\ \A c \in 1 .. Len(calls) : calls'[c] = calls[c]
  BY <1>0 DEF now
<1>2. ASSUME NEW c \in stamps PROVE c \in 1 .. Len(calls)
  BY <1>0, <1>2 DEF LinesOK, stamps
<1> DEFINE in(u) == bitAnd[u % WORD][y_mask] < xoy.x
<1>3. XoYGood(xoy')
  BY <1>0
<1>4. LinesOK' /\ stamps' = IF in(t) THEN stamps \cup {now} ELSE stamps
  <2>1. CASE in(t)
    <3>1. write(Line(t, now, TRUE))
      BY <2>1 DEF XoYHandler
    <3> QED
      BY <1>0, <2>1, <3>1, LineAdded
  <2>2. CASE ~in(t)
    <3>1. logf' = logf
      BY <2>2 DEF XoYHandler
    <3>2. \A i \in 1 .. Len(logf) : logf[i].stamp \in 1 .. Len(calls')
      BY <1>0, <1>1 DEF LinesOK
    <3> QED
      BY <1>0, <2>2, <3>1, <3>2 DEF LinesOK, stamps
  <2> QED
    BY <2>1, <2>2
<1>5. now \notin stamps
  BY <1>1, <1>2
<1>6. ASSUME xoy.x >= 1, xoy.y <= pow2[DBL_MANT_DIG],
             NEW c \in setAt + 1 .. Len(calls) + 1
      PROVE  c \in stamps' <=> calls'[c] % xoy.y < xoy.x
  <2>1. in(t) <=> t % xoy.y < xoy.x
    BY <1>0, <1>6, XoYTest
  <2> HIDE DEF in
  <2>2. CASE c = now
    BY <1>1, <1>4, <1>5, <2>1, <2>2
  <2>3. CASE c # now
    <3>1. c \in setAt + 1 .. Len(calls) /\ c \in 1 .. Len(calls)
      BY <1>0, <1>1, <2>3
    <3>2. c \in stamps <=> calls[c] % xoy.y < xoy.x
      BY <1>0, <1>6, <3>1 DEF XoYExact
    <3> QED
      BY <1>1, <1>4, <2>3, <3>1, <3>2
  <2> QED
    BY <2>2, <2>3
<1>7. XoYExact'
  BY <1>0, <1>1, <1>6 DEF XoYExact
<1> QED
  BY <1>3, <1>4, <1>7 DEF XoYInv

\* A call of an open first-last channel.
LEMMA FirstLastKeeps ==
  ASSUME FirstLastInv, CallsOK, h_type = "FIRSTLAST", h_type' = h_type, fileOpen, fileOpen',
         NEW t \in Int, calls' = Append(calls, t), FirstlastHandler(t)
  PROVE  FirstLastInv'
<1>0. calls \in Seq(Int) /\ Len(calls) \in Nat
  BY DEF CallsOK
<1>1. /\ calls' # <<>> /\ Len(calls') = now /\ now = Len(calls) + 1 /\ calls'[now] = t
      /\ calls # <<>> => calls'[1] = calls[1]
  <2>1. calls # <<>> => 1 \in 1 .. Len(calls)
    BY <1>0, EmptySeq
  <2>2. /\ Len(calls') = Len(calls) + 1 /\ calls'[Len(calls) + 1] = t
        /\ \A i \in 1 .. Len(calls) : calls'[i] = calls[i]
    BY <1>0, AppendProperties
  <2>3. calls' # <<>>
    BY <1>0, <2>2
  <2> QED
    BY <2>1, <2>2, <2>3 DEF now
<1>2. lastLine' = <<Line(calls'[Len(calls')], Len(calls'), TRUE)>>
  BY <1>1 DEF FirstlastHandler, lastSeen
<1>3. logf' = <<Line(calls'[1], 1, TRUE)>>
  <2>1. CASE calls = <<>>
    <3>1. lastLine = <<>> /\ logf = <<>> /\ now = 1
      BY <1>1, <2>1 DEF FirstLastInv
    <3>2. logf' = Append(<<>>, Line(t, 1, TRUE)) /\ calls'[1] = t
      BY <1>1, <3>1 DEF FirstlastHandler, write
    <3> QED
      BY <3>2
  <2>2. CASE calls # <<>>
    <3>1. lastLine # <<>> /\ logf = <<Line(calls[1], 1, TRUE)>>
      <4> DEFINE b == Line(calls[Len(calls)], Len(calls), TRUE)
      <4>1. lastLine = <<b>> /\ logf = <<Line(calls[1], 1, TRUE)>>
        BY <2>2 DEF FirstLastInv
      <4> HIDE DEF b
      <4>2. <<b>> # <<>>
        OBVIOUS
      <4> QED
        BY <4>1, <4>2
    <3> QED
      BY <1>1, <2>2, <3>1 DEF FirstlastHandler
  <2> QED
    BY <2>1, <2>2
<1> QED
  BY <1>1, <1>2, <1>3 DEF FirstLastInv, FirstLastOnly

\* A call of an open channel of a TSC format.
LEMMA TscKeeps ==
  ASSUME TscInv, CallsOK, h_type = "IDENTITY_TSC",
         NEW t \in Int, calls' = Append(calls, t), IdentityHandlerTsc(t)
  PROVE  TscInv'
<1>0. /\ calls \in Seq(Int) /\ Len(calls) \in Nat /\ full = (calls = <<>>)
      /\ logf = [i \in DOMAIN calls |-> Line(calls[i], i, i = 1)]
  BY DEF CallsOK, TscInv, TscDecodable
<1>1. /\ calls' \in Seq(Int) /\ calls' # <<>> /\ Len(calls') = Len(calls) + 1 /\ now = Len(calls) + 1
      /\ calls'[Len(calls) + 1] = t /\ \A i \in 1 .. Len(calls) : calls'[i] = calls[i]
      /\ DOMAIN calls = 1 .. Len(calls) /\ DOMAIN calls' = 1 .. Len(calls) + 1
  <2>1. /\ calls' \in Seq(Int) /\ Len(calls') = Len(calls) + 1 /\ calls'[Len(calls) + 1] = t
        /\ \A i \in 1 .. Len(calls) : calls'[i] = calls[i]
    BY <1>0, AppendProperties
  <2>2. calls' # <<>>
    BY <1>0, <2>1
  <2>3. DOMAIN calls = 1 .. Len(calls) /\ DOMAIN calls' = 1 .. Len(calls) + 1
    BY <1>0, <2>1
  <2> QED
    BY <2>1, <2>2, <2>3 DEF now
<1> DEFINE R == [tuple : Int, stamp : Int, wall : BOOLEAN]
           l(i) == Line(calls'[i], i, i = 1)
<1>2. \A i \in 1 .. Len(calls) + 1 : l(i) \in R
  <2>1. \A i \in 1 .. Len(calls) + 1 : calls'[i] \in Int
    BY <1>1
  <2> QED
    BY <2>1 DEF Line
<1>3. full = (now = 1)
  <2>1. calls = <<>> <=> Len(calls) = 0
    BY <1>0, EmptySeq
  <2>2. full \in BOOLEAN /\ (full <=> calls = <<>>)
    BY <1>0
  <2>3. now = 1 <=> Len(calls) = 0
    BY <1>0, <1>1
  <2> QED
    BY <2>1, <2>2, <2>3
<1>4. Line(t, now, full) = l(now)
  BY <1>1, <1>3
<1> HIDE DEF R, l
<1>5. logf = [i \in 1 .. Len(calls) |-> l(i)]
  BY <1>0, <1>1 DEF l
<1>6. logf \in Seq(R) /\ Len(logf) = Len(calls)
  <2>1. logf \in [1 .. Len(calls) -> R]
    BY <1>0, <1>2, <1>5
  <2> QED
    BY <1>0, <2>1, SeqDef, LenProperties
<1>7. logf' = Append(logf, l(now)) /\ full' = FALSE
  BY <1>4 DEF IdentityHandlerTsc, write, laterFull
<1>8. l(now) \in R
  BY <1>0, <1>1, <1>2
<1>9. /\ logf' \in Seq(R) /\ Len(logf') = Len(calls) + 1 /\ logf'[Len(calls) + 1] = l(now)
      /\ \A i \in 1 .. Len(calls) : logf'[i] = logf[i]
  BY <1>6, <1>7, <1>8, AppendProperties
<1>10. logf' = [i \in 1 .. Len(calls) + 1 |-> l(i)]
  <2>1. \A i \in 1 .. Len(calls) + 1 : i = now \/ i \in 1 .. Len(calls)
    BY <1>0, <1>1
  <2>2. \A i \in 1 .. Len(calls) + 1 : logf'[i] = l(i)
    BY <1>1, <1>5, <1>9, <2>1
  <2>3. logf' = [i \in 1 .. Len(logf') |-> logf'[i]]
    BY <1>9
  <2> QED
    BY <1>9, <2>2, <2>3
<1>11. full' = (calls' = <<>>)
  BY <1>1, <1>7
<1> QED
  BY <1>1, <1>10, <1>11 DEF TscInv, TscDecodable, l

\* A call of logTS.
LEMMA LogTupleKeeps ==
  ASSUME SamplingInv, NEW t \in Int, logTuple(t)
  PROVE  SamplingInv'
<1>0. /\ UNCHANGED <<h_type, ch_handler_f, parm_handler_f, fileOpen, setAt, pendingArg>>
      /\ calls' = (IF fileOpen THEN Append(calls, t) ELSE calls) /\ HandlerCall(t)
  BY DEF logTuple
<1>1. /\ calls \in Seq(Int) /\ calls' \in Seq(Int) /\ Len(calls) \in Nat
      /\ Len(calls') \in Nat /\ Len(calls) <= Len(calls')
  <2>1. calls \in Seq(Int)
    BY DEF SamplingInv, CallsOK
  <2> QED
    BY <1>0, <2>1
<1>2. CallsOK'
  <2>1. h_type \in Judged => setAt \in 0 .. Len(calls')
    BY <1>1 DEF SamplingInv, CallsOK
  <2> QED
    BY <1>0, <1>1, <2>1 DEF SamplingInv, CallsOK
<1>3. CASE h_type \notin Judged
  BY <1>0, <1>2, <1>3 DEF Judged, SamplingInv, DownInv, XoYInv, FirstLastInv, TscInv
<1>4. CASE h_type \in Judged /\ ~fileOpen
  <2>1. ch_handler_f = "NullHandler"
    BY <1>4 DEF SamplingInv, CallsOK
  <2>2. UNCHANGED <<logf, handlerVars>> /\ calls' = calls
    BY <1>0, <1>4, <2>1 DEF HandlerCall, NullHandler
  <2>3. UNCHANGED <<h_type, fileOpen, setAt, logf, calls, factor, counter, xoy, lastLine, full>>
    BY <1>0, <2>2 DEF handlerVars
  <2>4. DownInv'
    BY <2>3 DEF SamplingInv, DownInv, LinesOK, lastStamp, Every, EverySample
  <2>5. XoYInv'
    BY <2>3 DEF SamplingInv, XoYInv, LinesOK, XoYExact, stamps
  <2>6. FirstLastInv' /\ TscInv'
    BY <2>3 DEF SamplingInv, FirstLastInv, FirstLastOnly, TscInv, TscDecodable
  <2> QED
    BY <1>2, <2>4, <2>5, <2>6 DEF SamplingInv
<1>5. CASE h_type \in Judged /\ fileOpen
  <2>1. ch_handler_f = HandlerOf[h_type] /\ calls' = Append(calls, t)
    BY <1>0, <1>5 DEF SamplingInv, CallsOK
  <2>2. CASE h_type = "DOWNSAMPLE"
    <3>1. ch_handler_f = "DownsampleHandler"
      BY <2>1, <2>2 DEF HandlerOf
    <3>2. DownsampleHandler(t)
      BY <1>0, <3>1 DEF HandlerCall
    <3>3. DownInv'
      BY <1>0, <1>5, <2>1, <2>2, <3>2, DownsampleKeeps DEF SamplingInv
    <3> QED
      BY <1>0, <1>2, <2>2, <3>3 DEF SamplingInv, XoYInv, FirstLastInv, TscInv
  <2>3. CASE h_type = "XOY"
    <3>1. ch_handler_f = "XoYHandler"
      BY <2>1, <2>3 DEF HandlerOf
    <3>2. XoYHandler(t)
      BY <1>0, <3>1 DEF HandlerCall
    <3>3. XoYInv'
      BY <1>0, <1>5, <2>1, <2>3, <3>2, XoYKeeps DEF SamplingInv
    <3> QED
      BY <1>0, <1>2, <2>3, <3>3 DEF SamplingInv, DownInv, FirstLastInv, TscInv
  <2>4. CASE h_type = "FIRSTLAST"
    <3>1. ch_handler_f = "FirstlastHandler"
      BY <2>1, <2>4 DEF HandlerOf
    <3>2. FirstlastHandler(t)
      BY <1>0, <3>1 DEF HandlerCall
    <3>3. FirstLastInv'
      BY <1>0, <1>5, <2>1, <2>4, <3>2, FirstLastKeeps DEF SamplingInv
    <3> QED
      BY <1>0, <1>2, <2>4, <3>3 DEF SamplingInv, DownInv, XoYInv, TscInv
  <2>5. CASE h_type = "IDENTITY_TSC"
    <3>1. ch_handler_f = "IdentityHandlerTsc"
      BY <2>1, <2>5 DEF HandlerOf
    <3>2. IdentityHandlerTsc(t)
      BY <1>0, <3>1 DEF HandlerCall
    <3>3. TscInv'
      BY <1>0, <1>5, <2>1, <2>5, <3>2, TscKeeps DEF SamplingInv
    <3> QED
      BY <1>0, <1>2, <2>5, <3>3 DEF SamplingInv, DownInv, XoYInv, FirstLastInv
  <2> QED
    BY <1>5, <2>2, <2>3, <2>4, <2>5 DEF Judged
<1> QED
  BY <1>3, <1>4, <1>5

\* Each handler logs the calls it promises, no others, whatever was set before: every
\* n-th tuple, the tuples whose number modulo Y is below X, the first and the last, all of
\* them with one wall clock time; for every tuple and every sequence of settings, accepted
\* or refused, and while the factors in force are those a channel may have: n and X from 1
\* up, and Y a number a double represents, for checkConsistency takes 2^53 + 1 for a power
\* of two (downsample_handler.cpp, XoY_handler.cpp, firstlast_handler.cpp, id_handler.cpp).
THEOREM SampledAsPromised == SamplingSpec => []LoggedAsPromised
<1>1. SamplingInit => SamplingInv
  BY SamplingInitInv
<1>2. SamplingInv /\ [SamplingNext]_samplingVars => SamplingInv'
  <2> SUFFICES ASSUME SamplingInv, [SamplingNext]_samplingVars PROVE SamplingInv'
    OBVIOUS
  <2>1. ASSUME NEW t \in Tuples, logTuple(t) PROVE SamplingInv'
    <3>1. t \in Int
      BY SamplingAssumption
    <3> QED
      BY <2>1, <3>1, LogTupleKeeps
  <2>2. CASE Setting
    BY <2>2, SettingKeeps
  <2>3. CASE UNCHANGED samplingVars
    <3>1. UNCHANGED <<h_type, ch_handler_f, parm_handler_f, fileOpen, logf, setAt, pendingArg,
                      calls, factor, counter, xoy, lastLine, full>>
      BY <2>3 DEF samplingVars, handlerVars
    <3>2. CallsOK' /\ DownInv'
      BY <3>1 DEF SamplingInv, CallsOK, DownInv, LinesOK, lastStamp, Every, EverySample
    <3>3. XoYInv'
      BY <3>1 DEF SamplingInv, XoYInv, LinesOK, XoYExact, stamps
    <3>4. FirstLastInv' /\ TscInv'
      BY <3>1 DEF SamplingInv, FirstLastInv, FirstLastOnly, TscInv, TscDecodable
    <3> QED
      BY <3>2, <3>3, <3>4 DEF SamplingInv
  <2>4. SamplingNext => Setting \/ \E t \in Tuples : logTuple(t)
    BY DEF SamplingNext, Setting
  <2> QED
    BY <2>1, <2>2, <2>3, <2>4
<1>3. SamplingInv => LoggedAsPromised
  <2> SUFFICES ASSUME SamplingInv PROVE LoggedAsPromised
    OBVIOUS
  <2>1. EveryNth
    <3> SUFFICES ASSUME h_type = "DOWNSAMPLE", factor >= 1 PROVE EveryNth
      BY DEF EveryNth
    <3>1. factor \in Int /\ EverySample
      BY DEF SamplingInv, DownInv
    <3>2. Every = factor
      BY <3>1 DEF Every
    <3> QED
      BY <3>1, <3>2 DEF EverySample, EveryNth
  <2>2. XoYExact
    <3>1. CASE h_type = "XOY"
      BY <3>1 DEF SamplingInv, XoYInv
    <3>2. CASE h_type # "XOY"
      BY <3>2 DEF XoYExact
    <3> QED
      BY <3>1, <3>2
  <2>3. FirstLastOnly /\ TscDecodable
    BY DEF SamplingInv, FirstLastInv, TscInv, FirstLastOnly, TscDecodable
  <2> QED
    BY <2>1, <2>2, <2>3 DEF LoggedAsPromised
<1> QED
  BY <1>1, <1>2, <1>3, PTL DEF SamplingSpec
=============================================================================
