----------------------------- MODULE TimeArith -----------------------------
(***************************************************************************)
(* Arithmetic on time-stamps (time.cpp) and the conversions of numbers to   *)
(* text and back (formatDuration of time.cpp; l2aCommas and convertA2I of   *)
(* util.c).  Text is a sequence of the numbers and signs it consists of.    *)
(*                                                                         *)
(* The variables are a clock that is advanced as the loops of this program  *)
(* do, by adding the same increment again and again, and a number to print. *)
(***************************************************************************)
EXTENDS Integers, Sequences

CONSTANTS
  NANO_S_PER_S,
  WORD,            \* 2^64: divideTS computes in uint64_t
  MaxSeconds,      \* bound of the clock
  Numbers          \* numbers, and seconds, to print

ASSUME TimeAssumption ==
  /\ NANO_S_PER_S \in Nat \ {0} /\ WORD \in Nat \ {0} /\ MaxSeconds \in Nat
  /\ Numbers \subseteq Int

-----------------------------------------------------------------------------
(* Time-stamps. *)

Timespec == [sec : Int, nsec : 0 .. NANO_S_PER_S - 1]
ts(s, n) == [sec |-> s, nsec |-> n]
inNs(t) == t.sec * NANO_S_PER_S + t.nsec
fromNs(n) == ts(n \div NANO_S_PER_S, n % NANO_S_PER_S)

carry(n) == n >= NANO_S_PER_S

addTS(t1, t2) ==
  LET n == t1.nsec + t2.nsec
  IN IF carry(n) THEN ts(t1.sec + t2.sec + 1, n - NANO_S_PER_S)
     ELSE ts(t1.sec + t2.sec, n)

\* Variant: no borrow.
borrow_none(start, end) == FALSE

borrow(start, end) == end.nsec - start.nsec < 0

subtractTS(start, end) ==
  IF borrow(start, end)
  THEN ts(end.sec - start.sec - 1, end.nsec - start.nsec + NANO_S_PER_S)
  ELSE ts(end.sec - start.sec, end.nsec - start.nsec)

\* -1, or the quotient; the product wraps around.
divisible(t, div) == div # 0 /\ t.sec <= (WORD - 2) \div NANO_S_PER_S
divideTS(t, div) == fromNs((inNs(t) % WORD) \div div)

compareTS(t1, t2) ==
  IF t1 = t2 THEN 0
  ELSE IF t1.sec < t2.sec \/ (t1.sec = t2.sec /\ t1.nsec < t2.nsec) THEN -1 ELSE 1

-----------------------------------------------------------------------------
(* Text. *)

S_PER_MIN == 60
S_PER_HOUR == 60 * S_PER_MIN
S_PER_DAY == 24 * S_PER_HOUR

uint8(n) == n % 256

secs(s) == uint8(s % 60)

\* formatDuration for t seconds, without the nanoseconds: days, hours, minutes,
\* seconds, and of these the last ones only if the duration is short.
formatDuration(t) ==
  LET mins(s) == uint8(s \div 60)
      hours(s) == uint8(s \div S_PER_HOUR)
      inHour == (t % S_PER_DAY) % S_PER_HOUR
  IN IF t > S_PER_DAY
     THEN <<t \div S_PER_DAY, hours(t % S_PER_DAY), mins(inHour), secs(inHour)>>
     ELSE IF t > S_PER_HOUR
     THEN <<hours(t), mins(t % S_PER_HOUR), secs(t % S_PER_HOUR)>>
     ELSE IF t > S_PER_MIN THEN <<mins(t), secs(t)>>
     ELSE IF t > 0 THEN <<uint8(t)>> ELSE <<>>

Comma == -1
Minus == -2

groupEnd(digit_nr) == digit_nr % 3 = 0

\* The loop of l2aCommas from the digit digit_nr on, last digit first.
digits[n \in Nat] ==
  [digit_nr \in Nat |->
     IF n < 10 THEN <<n>>
     ELSE <<n % 10>> \o (IF groupEnd(digit_nr) THEN <<Comma>> ELSE <<>>)
            \o digits[n \div 10][digit_nr + 1]]

mirror(s) == [i \in DOMAIN s |-> s[Len(s) + 1 - i]]

l2aCommas(num) ==
  mirror(digits[IF num < 0 THEN -num ELSE num][1]
           \o (IF num < 0 THEN <<Minus>> ELSE <<>>))

Factors == [KB |-> 1000, KiB |-> 1024, MB |-> 1000000, MiB |-> 1048576,
            GB |-> 1000000000, GiB |-> 1073741824]

\* convertA2I and convertA2Inoexit: a literal is a number (-1 for none) and what
\* follows it.  The result is kept also if what follows is not a postfix.
convertA2Inoexit(number, postfix) ==
  IF number = -1 THEN [valid |-> FALSE, result |-> 0]
  ELSE IF postfix = "" THEN [valid |-> TRUE, result |-> number]
  ELSE IF postfix \in DOMAIN Factors
  THEN [valid |-> TRUE, result |-> number * Factors[postfix]]
  ELSE [valid |-> FALSE, result |-> number]

-----------------------------------------------------------------------------
VARIABLES clock, inc, printed

timeVars == <<clock, inc, printed>>

TimeInit ==
  /\ clock \in {ts(s, n) : s \in 0 .. 1, n \in 0 .. NANO_S_PER_S - 1}
  /\ inc \in {ts(s, n) : s \in 0 .. 1, n \in 0 .. NANO_S_PER_S - 1}
  /\ printed \in Numbers

Advance ==
  /\ clock.sec < MaxSeconds
  /\ clock' = addTS(clock, inc)
  /\ UNCHANGED <<inc, printed>>

PrintNext ==
  /\ printed' \in Numbers
  /\ UNCHANGED <<clock, inc>>

TimeNext == Advance \/ PrintNext
TimeSpec == TimeInit /\ [][TimeNext]_timeVars

-----------------------------------------------------------------------------
\* However often an increment is added, the clock stays a time-stamp whose nanoseconds
\* are below one second; what compareTS and the loops that use it rely on (time.cpp,
\* addTS).
ClockNormal == clock.nsec \in 0 .. NANO_S_PER_S - 1

sign(n) == IF n < 0 THEN -1 ELSE IF n > 0 THEN 1 ELSE 0

\* The difference, the order and half of the sum of two time-stamps, computed on
\* seconds and nanoseconds, are those of the times in nanoseconds; below the second
\* that divideTS still accepts but may wrap around in (time.cpp).
TimeExact ==
  LET d == subtractTS(inc, clock) sum == addTS(inc, clock)
  IN /\ d.nsec \in 0 .. NANO_S_PER_S - 1
     /\ inNs(d) = inNs(clock) - inNs(inc)
     /\ compareTS(clock, inc) = sign(inNs(clock) - inNs(inc))
     /\ inNs(sum) = inNs(clock) + inNs(inc)
     /\ sum.sec < (WORD - 2) \div NANO_S_PER_S =>
          divideTS(sum, 2) = fromNs((inNs(clock) + inNs(inc)) \div 2)

\* What formatDuration prints says how long the duration is, at the limits between
\* its formats too (time.cpp).
DurationReadable ==
  printed >= 0 =>
    LET out == formatDuration(printed)
        unit == <<S_PER_DAY, S_PER_HOUR, S_PER_MIN, 1>>
        in(i) == out[i] * unit[4 - Len(out) + i]
    IN printed = CASE Len(out) = 0 -> 0
                   [] Len(out) = 1 -> in(1)
                   [] Len(out) = 2 -> in(1) + in(2)
                   [] Len(out) = 3 -> in(1) + in(2) + in(3)
                   [] Len(out) = 4 -> in(1) + in(2) + in(3) + in(4)

\* l2aCommas prints a comma exactly before every third digit from the right
\* (util.c).
CommasByThree ==
  LET s == l2aCommas(printed)
      body == IF printed < 0 THEN Tail(s) ELSE s
  IN /\ s[1] # Comma
     /\ \A i \in DOMAIN body : body[i] = Comma <=> (Len(body) - i) % 4 = 3

\* What is computed and printed of times agrees with the integers they stand for
\* (time.cpp, util.c).
AgreesWithIntegers == ClockNormal /\ TimeExact /\ DurationReadable /\ CommasByThree
=============================================================================
