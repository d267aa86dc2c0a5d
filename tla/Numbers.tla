------------------------------ MODULE Numbers ------------------------------
(***************************************************************************)
(* The arithmetic of the library: c_bit.h, gcd, lcm and midpoint of        *)
(* c_numeric.h, and the rounding of durations of c_chrono.h.  Integers     *)
(* have Width bits; what a cast or an unsigned operation cuts off is cut   *)
(* off here.  The representations of durations are wide enough.            *)
(***************************************************************************)
EXTENDS Integers, FiniteSetsExt

CONSTANTS Width,         \* numeric_limits::digits, a power of 2
          Ratios         \* << num, den >>: periods of one duration in another

VARIABLES val1, val2     \* the arguments of the next call

vars == << val1, val2 >>

Modulus == 2^Width
Unsigned == 0 .. Modulus - 1
Signed == -(Modulus \div 2) .. Modulus \div 2 - 1

\* static_cast to the unsigned and to the signed type
AsUnsigned(n) == n % Modulus
AsSigned(n) == ((n + Modulus \div 2) % Modulus) - Modulus \div 2

\* Division and remainder of C++, which truncate
Quotient(a, b) == IF a < 0 THEN -((-a) \div b) ELSE a \div b
Remainder(a, b) == a - b * Quotient(a, b)

ShiftLeft(n, by) == (n * 2^by) % Modulus
ShiftRight(n, by) == n \div 2^by

TypeOK == val1 \in Signed /\ val2 \in Signed

Init == val1 = 0 /\ val2 = 0

\* The arguments go through all there are
Next ==
  \/ val1' = AsSigned(val1 + 1) /\ UNCHANGED val2
  \/ val2' = AsSigned(val2 + 1) /\ UNCHANGED val1

Spec == Init /\ [][Next]_vars

-----------------------------------------------------------------------------
(* Bits.                                                                   *)

Bits(n) == {i \in 0 .. Width - 1 : (n \div 2^i) % 2 = 1}
Word(bits) == MapThenSumSet(LAMBDA i : 2^i, bits)

HasSingleBit(n) == n # 0 /\ Bits(n) \cap Bits(AsUnsigned(n - 1)) = {}

\* By halves: what is left at the end is 1, or 0 if n is
CountlZero(n) ==
  LET loop[zeros \in 0 .. Width, rest \in Unsigned, half \in 0 .. Width] ==
        LET upper == ShiftRight(rest, half)
        IN  IF half = 0 THEN zeros - rest
            ELSE IF upper # 0 THEN loop[zeros - half, upper, half \div 2]
            ELSE loop[zeros, rest, half \div 2]
  IN  loop[Width, n, Width \div 2]

\* ~n & (n - 1) has ones where n has its trailing zeros
CountrZero(n) ==
  Width - CountlZero(Word(Bits(AsUnsigned(-1 - n)) \cap Bits(AsUnsigned(n - 1))))

BitCeil(n) == IF n <= 1 THEN 1 ELSE ShiftLeft(1, Width - CountlZero(n - 1))

BitFloor(n) == IF n = 0 THEN 0 ELSE ShiftLeft(1, Width - 1 - CountlZero(n))

\* rotl and rotr by a number of places that is not negative
RotatedLeft(n, places) ==
  Word(Bits(ShiftLeft(n, places)) \cup Bits(ShiftRight(n, Width - places)))
RotatedRight(n, places) ==
  Word(Bits(ShiftRight(n, places)) \cup Bits(ShiftLeft(n, Width - places)))

\* rotl, which rotates to the right if the rotation is negative
RotateLeft(n, rotation) ==
  LET remainder == Remainder(rotation, Width)
  IN  IF remainder = 0 THEN n
      ELSE IF remainder > 0 THEN RotatedLeft(n, remainder)
      ELSE RotatedRight(n, -remainder)

-----------------------------------------------------------------------------
(* Numeric operations.                                                     *)

AbsUnsigned(n) == IF n < 0 THEN AsUnsigned(0 - AsUnsigned(n)) ELSE n

\* gcd: the loop subtracts odd numbers and takes the factors 2 out of what
\* is left; those both numbers have are put back at the end
Gcd(first, second) ==
  LET a == AbsUnsigned(first)
      b == AbsUnsigned(second)
      Odd(n) == ShiftRight(n, CountrZero(n))
      loop[x, y \in Unsigned] ==
        LET less == Min({x, y})
            rest == Max({x, y}) - less
        IN  IF rest = 0 THEN less ELSE loop[less, Odd(rest)]
  IN  AsSigned(IF a = 0 THEN b ELSE IF b = 0 THEN a
               ELSE ShiftLeft(loop[Odd(a), Odd(b)], Min({CountrZero(a), CountrZero(b)})))

\* lcm: its gcd is one of unsigned numbers
Lcm(first, second) ==
  LET a == AbsUnsigned(first)
      b == AbsUnsigned(second)
  IN  IF a = 0 \/ b = 0 THEN 0
      ELSE AsSigned(AsUnsigned((a \div AsUnsigned(Gcd(first, second))) * b))

\* midpoint: the distance is unsigned, for it may be too great to be signed
Midpoint(a, b) ==
  LET Half(m, n) == AsSigned(ShiftRight(AsUnsigned(AsUnsigned(m) - AsUnsigned(n)), 1))
  IN  IF a > b THEN a - Half(a, b) ELSE a + Half(b, a)

-----------------------------------------------------------------------------
(* Durations: d units of a period that is r times another.                 *)

DurationCast(d, r) == Quotient(d * r[1], r[2])

\* Both durations in units of the common period, if one divides the other
Comparable(r) == r[1] = 1 \/ r[2] = 1
Less(t, d, r) == t * r[2] < d * r[1]
Greater(t, d, r) == t * r[2] > d * r[1]

\* Mutation: negative durations are truncated, too
FloorTruncating(d, r) == DurationCast(d, r)

Floor(d, r) ==
  LET t == DurationCast(d, r) IN IF Greater(t, d, r) THEN t - 1 ELSE t

Ceil(d, r) ==
  LET t == DurationCast(d, r) IN IF Less(t, d, r) THEN t + 1 ELSE t

Round(d, r) ==
  LET floored == Floor(d, r)
      down == d * r[1] - floored * r[2]
      up == (floored + 1) * r[2] - d * r[1]
  IN  IF down < up \/ (down = up /\ Remainder(floored, 2) = 0)
      THEN floored ELSE floored + 1

-----------------------------------------------------------------------------
(* Properties.                                                             *)

\* The functions on words say what their names do of the bits
BitsExact(n, rotation) ==
  /\ HasSingleBit(n) <=> Cardinality(Bits(n)) = 1
  /\ CountlZero(n) = Cardinality({i \in 0 .. Width - 1 : n < 2^i})
  /\ CountrZero(n) = Cardinality({i \in 1 .. Width : n % 2^i = 0})
  /\ n <= Modulus \div 2 =>
       BitCeil(n) = Min({2^i : i \in {j \in 0 .. Width - 1 : n <= 2^j}})
  /\ n > 0 => BitFloor(n) = Max({2^i : i \in {j \in 0 .. Width - 1 : 2^j <= n}})
  /\ RotateLeft(n, rotation) = Word({(i + rotation) % Width : i \in Bits(n)})

\* Divisors of both, multiples of both, and the middle rounded towards a.  A
\* result that is too great for the type is cut off, or left open in lcm.
NumericExact(a, b) ==
  LET divisors == {d \in 1 .. Modulus \div 2 : a % d = 0 /\ b % d = 0}
      gcd == IF a = 0 /\ b = 0 THEN 0 ELSE Max(divisors)
      lcm == IF a = 0 \/ b = 0 THEN 0
             ELSE Min({m \in 1 .. Modulus * Modulus : m % AbsUnsigned(a) = 0 /\ m % AbsUnsigned(b) = 0})
  IN  /\ Gcd(a, b) = AsSigned(gcd)
      /\ lcm \in Signed => Lcm(a, b) = lcm
      /\ Midpoint(a, b) = a + Quotient(b - a, 2)

\* Of a negative duration, too, floor is the greatest one that is not more,
\* ceil the least one that is not less, and round the nearest, of two the even
RoundingExact(d) ==
  \A r \in Ratios : Comparable(r) =>
    LET times == -3 * Modulus .. 3 * Modulus
        Distance(t) == Max({t * r[2] - d * r[1], d * r[1] - t * r[2]})
        nearest == {t \in times : \A u \in times : Distance(t) <= Distance(u)}
    IN  /\ Floor(d, r) = Max({t \in times : ~Greater(t, d, r)})
        /\ Ceil(d, r) = Min({t \in times : ~Less(t, d, r)})
        /\ Round(d, r) = IF Cardinality(nearest) = 1 THEN Max(nearest)
                         ELSE CHOOSE t \in nearest : t % 2 = 0

\* Whatever the arguments, what is returned is what a definition that looks
\* at all numbers says: at either end of their range, for zero, for negative
\* numbers and for a rotation by more than the width.
MeetsReferences ==
  /\ BitsExact(AsUnsigned(val1), val2)
  /\ NumericExact(val1, val2)
  /\ RoundingExact(val1)

=============================================================================
