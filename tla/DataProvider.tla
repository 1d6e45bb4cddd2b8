----------------------------- MODULE DataProvider -----------------------------
(***************************************************************************)
(* FuzzedDataProvider (support/FuzzedDataProvider.ts): typed values read   *)
(* from the two ends of a buffer.  A provider is a record of the bytes,    *)
(* the front position `ptr' and the number `left' of bytes that remain;    *)
(* every method is an operator from a provider and its arguments to        *)
(* [fdp, out, threw, read]: the provider after the call, the values handed *)
(* out, whether the call threw, and the positions of the bytes it read.    *)
(*                                                                         *)
(* A byte has ByteBits bits, a double DoubleBytes bytes, of which Mantissa *)
(* bits are exact: 8, 8 and 53 in the code, small in a model.  A double    *)
(* that is read as it is is represented by its bytes, one that is computed *)
(* by its value, an integer: it counts the smallest double (see Rounded).  *)
(* A boolean is represented by its bit.                                    *)
(***************************************************************************)
EXTENDS Integers, Sequences, FiniteSetsExt, SequencesExt

CONSTANTS
  ByteBits,     \* bits of a byte
  DoubleBytes,  \* bytes of an IEEE 754 double
  Mantissa,     \* integers below 2^Mantissa are exact in a double
  Fraction,     \* 1.0 is 2^Fraction times the smallest double
  MaxBytes,     \* bytes of the widest ordinary integral (6)
  FloatBytes,   \* bytes of a single-precision probability (4)
  MaxFloat,     \* max_float, the largest single: wider ranges of
                \* consumeFloatInRange are split
  MaxDouble     \* max_double, the largest double: those of consumeDoubleInRange

(* The powers of two, and the number of values that n bytes can take.      *)
TwoTo[n \in Nat] == IF n = 0 THEN 1 ELSE 2 * TwoTo[n - 1]

ValuesOf(n) == TwoTo[ByteBits * n]
Base == ValuesOf(1)

ASSUME WidthAssumption ==
  /\ {ByteBits, DoubleBytes, Mantissa, Fraction, MaxBytes, FloatBytes} \subseteq Nat \ {0}
  /\ MaxBytes * ByteBits <= Mantissa /\ FloatBytes <= MaxBytes

(* The largest single and the largest double are far beyond the doubles    *)
(* that are spaced as closely as the smallest one.                         *)
ASSUME LargestAssumption ==
  /\ Mantissa > 2 /\ {MaxFloat, MaxDouble} \subseteq Nat
  /\ MaxFloat >= TwoTo[Mantissa + 2] /\ MaxDouble >= MaxFloat

New(bytes) ==
  [data |-> bytes, ptr |-> IF bytes = <<>> THEN -1 ELSE 0, left |-> Len(bytes)]

(* Bytes, and the providers that can be.                                   *)
Bytes == Seq(0 .. Base - 1)

Providers ==
  {p \in [data : Bytes, ptr : Int, left : Nat] :
     IF p.data = <<>> THEN p = New(<<>>) ELSE p.ptr >= 0 /\ p.ptr + p.left <= Len(p.data)}

(* The bytes that can still be consumed.                                   *)
Window(p) == {p.ptr + i : i \in 0 .. p.left - 1}

Smaller(a, b) == IF a < b THEN a ELSE b

Result(p, out, positions) == [fdp |-> p, out |-> out, threw |-> FALSE, read |-> positions]
Returns(p, v) == Result(p, <<v>>, {})
Throws(p) == [fdp |-> p, out |-> <<>>, threw |-> TRUE, read |-> {}]

-----------------------------------------------------------------------------
(* The two ends.                                                           *)

BackTaken(p, n)  == [p EXCEPT !.left = @ - n]
FrontTaken(p, n) == [p EXCEPT !.left = @ - n, !.ptr = @ + n]
BackOf(p, n)     == [i \in 1..n |-> p.ptr + p.left - i]      \* the last byte first
FrontOf(p, n)    == [i \in 1..n |-> p.ptr + i - 1]

BytesAt(p, positions) == [i \in DOMAIN positions |-> p.data[positions[i] + 1]]

(* Bytes as a number, the most significant one first, shifted in in turn.  *)
Digits(bytes) ==
  LET upTo[k \in 0..Len(bytes)] == IF k = 0 THEN 0 ELSE upTo[k-1] * Base + bytes[k]
  IN upTo[Len(bytes)]

(* Buffer.readUIntLE and readUIntBE of n bytes from position `from'.       *)
ReadUInt(p, from, n, little) ==
  LET upTo[k \in 0..n] ==
        IF k = 0 THEN 0
        ELSE upTo[k-1] + p.data[from + k] * ValuesOf(IF little THEN k - 1 ELSE n - k)
  IN upTo[n]

(* The number of bytes that represent 0..range.                            *)
BytesFor(range) ==
  CHOOSE n \in 0..range : ValuesOf(n) > range /\ (n > 0 => ValuesOf(n - 1) <= range)

(* Mutant of consumeIntegralInRangeLEorBE: a number read from the front is *)
(* only counted off.                                                       *)
IntegralStays(p, min, max, little) ==
  LET n == Smaller(p.left, BytesFor(max - min))
      v == IF little THEN ReadUInt(p, p.ptr + p.left - n, n, TRUE) ELSE ReadUInt(p, p.ptr, n, FALSE)
  IN IF min >= max \/ p.left = 0 \/ max >= TwoTo[Mantissa] \/ n > MaxBytes THEN Returns(p, min)
     ELSE Result(BackTaken(p, n), <<min + (v % (max - min + 1))>>,
                 ToSet(IF little THEN BackOf(p, n) ELSE FrontOf(p, n)))

IntegralInRangeLEorBE(p, min, max, little) ==
  LET range == max - min
      n     == Smaller(p.left, BytesFor(range))
      back  == BackTaken(p, n)
  IN IF min = max THEN Returns(p, min)
     ELSE IF min > max THEN Throws(p)
     ELSE IF p.left = 0 THEN Returns(p, min)
     ELSE IF max >= TwoTo[Mantissa] \/ n > MaxBytes THEN Throws(p)
     ELSE IF little
     THEN Result(back, <<min + (ReadUInt(p, p.ptr + back.left, n, TRUE) % (range + 1))>>,
                 ToSet(BackOf(p, n)))
     ELSE Result(FrontTaken(p, n), <<min + (ReadUInt(p, p.ptr, n, FALSE) % (range + 1))>>,
                 ToSet(FrontOf(p, n)))

(* The loop shifts the range right by a byte for every byte it consumes.   *)
BigIntegralInRangeLEorBE(p, min, max, little) ==
  LET n   == Smaller(p.left, BytesFor(max - min))
      pos == IF little THEN BackOf(p, n) ELSE FrontOf(p, n)
  IN IF min = max THEN Returns(p, min)
     ELSE IF min > max THEN Throws(p)
     ELSE Result(IF little THEN BackTaken(p, n) ELSE FrontTaken(p, n),
                 <<min + (Digits(BytesAt(p, pos)) % (max - min + 1))>>, ToSet(pos))

(* The range of an n-byte integral.  The signed bounds of a big one are    *)
(* computed as doubles, in which 2^k - 1 is rounded to 2^k beyond the      *)
(* mantissa.                                                               *)
AsDouble(k) == IF k > Mantissa THEN TwoTo[k] ELSE TwoTo[k] - 1

Lowest(n, signed) == IF signed THEN -TwoTo[ByteBits * n - 1] ELSE 0
HighestBig(n, signed) == IF signed THEN AsDouble(ByteBits * n - 1) ELSE ValuesOf(n) - 1

IntegralLEorBE(p, n, signed, little) ==
  IF n < 0 \/ n > MaxBytes THEN Throws(p)
  ELSE IntegralInRangeLEorBE(p, Lowest(n, signed),
         IF signed THEN TwoTo[ByteBits * n - 1] - 1 ELSE ValuesOf(n) - 1, little)

BigIntegralLEorBE(p, n, signed, little) ==
  BigIntegralInRangeLEorBE(p, Lowest(n, signed), HighestBig(n, signed), little)

-----------------------------------------------------------------------------
(* Single values, from the back.                                           *)

ConsumeIntegral(p, n, signed)    == IntegralLEorBE(p, n, signed, TRUE)
ConsumeBigIntegral(p, n, signed) == BigIntegralLEorBE(p, n, signed, TRUE)
ConsumeIntegralInRange(p, min, max)    == IntegralInRangeLEorBE(p, min, max, TRUE)
ConsumeBigIntegralInRange(p, min, max) == BigIntegralInRangeLEorBE(p, min, max, TRUE)

(* The booleans of numbers: their lowest bits.                             *)
Booleans(r) == [r EXCEPT !.out = [i \in DOMAIN r.out |-> r.out[i] % 2]]

ConsumeBoolean(p) == Booleans(ConsumeIntegral(p, 1, FALSE))

Zeros(n) == [i \in 1..n |-> 0]

(* A double short of bytes takes what remains as its high bytes.           *)
ConsumeNumber(p) ==
  LET n   == Smaller(p.left, DoubleBytes)
      pos == Reverse(BackOf(p, n))
  IN IF p.left = 0 THEN Result(p, Zeros(DoubleBytes), {})
     ELSE Result(BackTaken(p, n), Zeros(DoubleBytes - n) \o BytesAt(p, pos), ToSet(pos))

-----------------------------------------------------------------------------
(* Doubles.  The exponent of a fraction a/b is the least for which it is   *)
(* below 2^Mantissa units; a double is a whole number of its units, and    *)
(* every operation on doubles gives the double nearest to its exact        *)
(* result, of two the one with an even number of units.                    *)
Magnitude(k) == IF k < 0 THEN -k ELSE k

Exponent(a, b) ==
  CHOOSE e \in 0..a : a < b * TwoTo[e + Mantissa]
                       /\ (e > 0 => a >= b * TwoTo[e - 1 + Mantissa])

Spacing(a, b) == TwoTo[Exponent(a, b)]
Ulp(k) == Spacing(Magnitude(k), 1)

Nearest(a, b) ==
  LET unit == Spacing(a, b)
      q    == a \div (b * unit)
      rest == a % (b * unit)
      up   == 2 * rest > b * unit \/ (2 * rest = b * unit /\ q % 2 = 1)
  IN (IF up THEN q + 1 ELSE q) * unit

Rounded(a, b) == IF a < 0 THEN -Nearest(-a, b) ELSE Nearest(a, b)

IsDouble(k) == Magnitude(k) % Ulp(k) = 0
Doubles == {k \in Int : IsDouble(k) /\ Magnitude(k) <= MaxDouble}

One == TwoTo[Fraction]

(* consumeFloatInRange and consumeDoubleInRange differ in the largest      *)
(* number, in the width of the probability that they draw, and in that the *)
(* latter's is a big integral.  Both ends of the division are rounded to   *)
(* doubles, which does nothing to the former's.                            *)
Largest(n) == IF n = FloatBytes THEN MaxFloat ELSE MaxDouble

Probability(p, n) ==
  LET r == IF n = FloatBytes THEN ConsumeIntegral(p, n, FALSE) ELSE ConsumeBigIntegral(p, n, FALSE)
  IN [r EXCEPT !.out = <<Rounded(Rounded(r.out[1], 1) * One, Rounded(ValuesOf(n) - 1, 1))>>]

Split(min, max, n) == min < 0 /\ max > 0 /\ max > Rounded(min + Largest(n), 1)

(* Mutant of the two: a range that is split is not halved.                 *)
SpanWhole(min, max, n) == Rounded(max - min, 1)

Span(min, max, n) ==
  Rounded(IF Split(min, max, n) THEN Rounded(max, 2) - Rounded(min, 2) ELSE max - min, 1)

(* A result beyond MaxDouble stands for Infinity.                          *)
FloatingInRange(p, min, max, n) ==
  LET upper == IF Split(min, max, n) THEN ConsumeBoolean(p) ELSE Returns(p, 0)
      prob  == Probability(upper.fdp, n)
      range == Span(min, max, n)
      start == IF upper.out[1] = 1 THEN Rounded(min + range, 1) ELSE min
  IN IF min = max THEN Returns(p, min)
     ELSE IF min > max THEN Throws(p)
     ELSE Result(prob.fdp, <<Rounded(start + Rounded(range * prob.out[1], One), 1)>>,
                 upper.read \cup prob.read)

-----------------------------------------------------------------------------
(* Choices.                                                                *)

PickValue(p, size) ==
  IF size = 0 THEN Throws(p) ELSE ConsumeIntegralInRange(p, 0, size - 1)

-----------------------------------------------------------------------------
(* Arrays, from the front.                                                 *)

ConsumeBytes(p, max) ==
  LET n == Smaller(p.left, max)
  IN IF n < 0 THEN Throws(p)
     ELSE Result(FrontTaken(p, n), BytesAt(p, FrontOf(p, n)), ToSet(FrontOf(p, n)))

ConsumeRemainingAsBytes(p) == ConsumeBytes(p, p.left)

ConsumeBooleans(p, max) == Booleans(ConsumeBytes(p, max))

(* bufToPrintableString: the lookup table cycles through 32..126.          *)
Printable(byte) == 32 + (byte % 95)

ConsumeString(p, max, printable) ==
  LET r == ConsumeBytes(p, max)
  IN IF max < 0 THEN Throws(p)
     ELSE [r EXCEPT !.out = [i \in DOMAIN r.out |->
                               IF printable THEN Printable(r.out[i]) ELSE r.out[i]]]

ConsumeRemainingAsString(p, printable) == ConsumeString(p, p.left, printable)

(* Reads in turn, their values in one sequence; a throw ends them.  A read *)
(* is a function of the provider it finds.                                 *)
Then(r, next) ==
  IF r.threw THEN r
  ELSE [fdp |-> next.fdp, out |-> r.out \o next.out, threw |-> next.threw,
        read |-> r.read \cup next.read]

InTurn(reads, p) ==
  LET upTo[k \in 0..Len(reads)] ==
        IF k = 0 THEN Result(p, <<>>, {}) ELSE Then(upTo[k-1], reads[k][upTo[k-1].fdp])
  IN upTo[Len(reads)]

Repeat(read, p, n) == InTurn([k \in 1..n |-> read], p)

(* computeArrayLength: the last element may be short of bytes.             *)
ArrayLength(p, max, width) ==
  LET available == Smaller(p.left, max * width)
  IN IF available < 0 THEN -((-available) \div width) ELSE (available + width - 1) \div width

ConsumeIntegrals(p, max, width, signed) ==
  LET n == ArrayLength(p, max, width)
  IN Repeat([q \in Providers |-> IntegralLEorBE(q, width, signed, FALSE)], p,
            IF n < 0 THEN 0 ELSE n)

ConsumeBigIntegrals(p, max, width, signed) ==
  LET n == ArrayLength(p, max, width)
  IN IF n < 0 THEN Throws(p)
     ELSE Repeat([q \in Providers |-> BigIntegralLEorBE(q, width, signed, FALSE)], p, n)

NumberBE(p) ==
  LET n   == Smaller(p.left, DoubleBytes)
      pos == FrontOf(p, n)
  IN IF p.left = 0 THEN Result(p, Zeros(DoubleBytes), {})
     ELSE Result(IF n < DoubleBytes THEN BackTaken(p, n) ELSE FrontTaken(p, n),
                 BytesAt(p, pos) \o Zeros(DoubleBytes - n), ToSet(pos))

ConsumeNumbers(p, max) ==
  LET n == ArrayLength(p, max, DoubleBytes)
  IN IF n < 0 THEN Throws(p) ELSE Repeat([q \in Providers |-> NumberBE(q)], p, n)

(* Strings are read while bytes remain; `out' has their lengths.           *)
NextString(p, max) ==
  LET r == ConsumeString(p, max, FALSE)
  IN IF p.left = 0 THEN Result(p, <<>>, {})
     ELSE IF r.threw THEN r ELSE [r EXCEPT !.out = <<Len(r.out)>>]

ConsumeStringArray(p, maxArray, maxString) ==
  Repeat([q \in Providers |-> NextString(q, maxString)], p, IF maxArray < 0 THEN 0 ELSE maxArray)

(* pickValues of an array of `size' elements: the positions picked, each   *)
(* from those that are left.                                               *)
Pick(was) ==
  LET next == ConsumeIntegralInRange(was.r.fdp, 0, Len(was.rest) - 1)
  IN [r    |-> Then(was.r, [next EXCEPT !.out = [i \in DOMAIN next.out |-> was.rest[next.out[i] + 1]]]),
      rest |-> IF next.threw THEN was.rest ELSE RemoveAt(was.rest, next.out[1] + 1)]

PickValues(p, size, n) ==
  LET pick[k \in 0..n] ==
        IF k = 0 THEN [r |-> Result(p, <<>>, {}), rest |-> [i \in 1..size |-> i]]
        ELSE Pick(pick[k-1])
  IN IF size = 0 \/ n < 0 \/ n > size THEN Throws(p) ELSE pick[n].r

=============================================================================
