------------------------------ MODULE BitTests ------------------------------
(***************************************************************************)
(* What the puzzles must compute, as tests.c says it, the float display of  *)
(* fshow.c, and the argument parsing of btest.c.                           *)
(***************************************************************************)
EXTENDS Bits

Truth(b) == IF b THEN 1 ELSE 0
Bit(x, i) == Shr(x, i) % 2

test_bitXor(x, y) == x ^^ y
test_tmin == 2^(W - 1)
test_isTmax(x) == Truth(x = 2^(W - 1) - 1)
test_allOddBits(x) == Truth(\A i \in 0 .. W - 1 : i % 2 = 1 => Bit(x, i) = 1)
test_negate(x) == Wrap(-Signed(x))
test_isAsciiDigit(x) == Truth(48 <= Signed(x) /\ Signed(x) <= 57)
test_conditional(x, y, z) == IF x # 0 THEN y ELSE z
test_isLessOrEqual(x, y) == Truth(Signed(x) <= Signed(y))
test_logicalNeg(x) == Truth(x = 0)
test_howManyBits(x) ==
    LET a == IF Signed(x) < 0 THEN -Signed(x) - 1 ELSE x
    IN  (CHOOSE cnt \in 0 .. W : a < 2^cnt /\ (cnt > 0 => a >= 2^(cnt - 1))) + 1

---------------------------------------------------------------------------
(* fshow.c: the parts of a float *)

get_exp(uf)  == Shr(uf, FRAC_BITS) & (2^EXP_BITS - 1)
get_frac(uf) == uf & (2^FRAC_BITS - 1)
get_sign(uf) == Shr(uf, W - 1) & 1

\* show_float: the value is (sign) mantissa / 2^FRAC_BITS * 2^uexp.
show_float(uf) ==
    LET exp    == get_exp(uf)
        frac   == get_frac(uf)
        denorm == exp = 0
    IN  IF exp = 2^EXP_BITS - 1
        THEN [kind |-> IF frac = 0 THEN "Infinity" ELSE "Not-A-Number", sign |-> get_sign(uf)]
        ELSE [kind |-> IF denorm THEN "Denormalized" ELSE "Normalized",
              sign |-> get_sign(uf),
              mantissa |-> IF denorm THEN frac ELSE frac + 2^FRAC_BITS,
              uexp |-> IF denorm THEN 1 - BIAS ELSE exp - BIAS]

---------------------------------------------------------------------------
(* The float tests; u2f, f2u and the float arithmetic of the processor are  *)
(* external: IEEE 754 with exact results.                                   *)

\* The float with the value m / 2^FRAC_BITS * 2^e, where m < 2^(FRAC_BITS + 2);
\* infinity if it is too large, and zero below the smallest denormal.
Float(s, m, e) ==
    LET up    == m >= 2^(FRAC_BITS + 1)
        m1    == IF up THEN m \div 2 ELSE m
        e1    == IF up THEN e + 1 ELSE e
        small == m1 < 2^FRAC_BITS
        frac  == IF e1 < 1 - BIAS
                 THEN (IF 1 - BIAS - e1 > FRAC_BITS + 1 THEN 0 ELSE m1 \div 2^(1 - BIAS - e1))
                 ELSE IF small THEN m1 ELSE m1 - 2^FRAC_BITS
        exp   == IF e1 < 1 - BIAS \/ small THEN 0 ELSE e1 + BIAS
    IN  s * SignBit + (IF exp >= 2^EXP_BITS - 1 THEN ExpMask ELSE exp * 2^FRAC_BITS + frac)

test_floatScale2(uf) ==
    LET v == show_float(uf)
    IN  IF v.kind \in {"Infinity", "Not-A-Number"} THEN uf
        ELSE Float(v.sign, 2 * v.mantissa, v.uexp)

\* The conversion truncates; the processor answers 0x80000000 out of range.
test_floatFloat2Int(uf) ==
    LET v == show_float(uf)
        n == IF v.uexp >= FRAC_BITS THEN v.mantissa * 2^(v.uexp - FRAC_BITS)
             ELSE IF FRAC_BITS - v.uexp > FRAC_BITS + 1 THEN 0 ELSE v.mantissa \div 2^(FRAC_BITS - v.uexp)
        i == IF v.sign = 1 THEN -n ELSE n
    IN  IF v.kind \in {"Infinity", "Not-A-Number"} \/ v.uexp >= W THEN SignBit
        ELSE IF -2^(W - 1) <= i /\ i < 2^(W - 1) THEN Wrap(i) ELSE SignBit

test_floatPower2(x) == Float(0, 2^FRAC_BITS, Signed(x))

---------------------------------------------------------------------------
(* The puzzles by name, as test_set of decl.c lists them. *)

test_set == << [name |-> "bitXor", args |-> 2, rating |-> 1],
               [name |-> "tmin", args |-> 0, rating |-> 1],
               [name |-> "isTmax", args |-> 1, rating |-> 1],
               [name |-> "allOddBits", args |-> 1, rating |-> 2],
               [name |-> "negate", args |-> 1, rating |-> 2],
               [name |-> "isAsciiDigit", args |-> 1, rating |-> 3],
               [name |-> "conditional", args |-> 3, rating |-> 3],
               [name |-> "isLessOrEqual", args |-> 2, rating |-> 3],
               [name |-> "logicalNeg", args |-> 1, rating |-> 4],
               [name |-> "howManyBits", args |-> 1, rating |-> 4],
               [name |-> "floatScale2", args |-> 1, rating |-> 4],
               [name |-> "floatFloat2Int", args |-> 1, rating |-> 4],
               [name |-> "floatPower2", args |-> 1, rating |-> 4] >>

IsFloatTest(n) == n \in {"floatScale2", "floatFloat2Int", "floatPower2"}

solution_funct(n, a) ==
    CASE n = "bitXor" -> bitXor(a[1], a[2])
      [] n = "tmin" -> tmin
      [] n = "isTmax" -> isTmax(a[1])
      [] n = "allOddBits" -> allOddBits(a[1])
      [] n = "negate" -> negate(a[1])
      [] n = "isAsciiDigit" -> isAsciiDigit(a[1])
      [] n = "conditional" -> conditional(a[1], a[2], a[3])
      [] n = "isLessOrEqual" -> isLessOrEqual(a[1], a[2])
      [] n = "logicalNeg" -> logicalNeg(a[1])
      [] n = "howManyBits" -> howManyBits(a[1])
      [] n = "floatScale2" -> floatScale2(a[1])
      [] n = "floatFloat2Int" -> floatFloat2Int(a[1])
      [] n = "floatPower2" -> floatPower2(a[1])

test_funct(n, a) ==
    CASE n = "bitXor" -> test_bitXor(a[1], a[2])
      [] n = "tmin" -> test_tmin
      [] n = "isTmax" -> test_isTmax(a[1])
      [] n = "allOddBits" -> test_allOddBits(a[1])
      [] n = "negate" -> test_negate(a[1])
      [] n = "isAsciiDigit" -> test_isAsciiDigit(a[1])
      [] n = "conditional" -> test_conditional(a[1], a[2], a[3])
      [] n = "isLessOrEqual" -> test_isLessOrEqual(a[1], a[2])
      [] n = "logicalNeg" -> test_logicalNeg(a[1])
      [] n = "howManyBits" -> test_howManyBits(a[1])
      [] n = "floatScale2" -> test_floatScale2(a[1])
      [] n = "floatFloat2Int" -> test_floatFloat2Int(a[1])
      [] n = "floatPower2" -> test_floatPower2(a[1])

\* Inputs on which floatPower2 and test_floatPower2 part: the denormal powers,
\* for which the puzzle returns 0, and the ints for which x + 127 overflows.
PowerGap(x) == \/ -BIAS - FRAC_BITS < Signed(x) /\ Signed(x) <= -BIAS
               \/ Signed(x) > 2^(W - 1) - 1 - BIAS

---------------------------------------------------------------------------
(* get_num_val of btest.c. A text is its integer value                      *)
(* (strtoll), its bits as a float (strtof), and which letters it has; junk  *)
(* says that strtof stops before its end.                                   *)

IsFloatText(s) == s.dot \/ (s.e /\ ~s.hex)
NoNumber == [ok |-> FALSE]
Number(v) == [ok |-> TRUE, val |-> v]

\* llval >> 31 is 0, -1 or 1.
UpperBits(n) == n \div 2^(W - 1)
FitsWord(n) == UpperBits(n) \in {0, -1, 1}

FloatNumber(s) == IF s.junk THEN NoNumber ELSE Number(s.bits)
IntNumber(s)   == IF FitsWord(s.int) THEN Number(Wrap(s.int)) ELSE NoNumber

\* btest.c tests the value behind the pointer where fshow.c and ishow.c test the
\* pointer: an argument that was given already, and is not 0, is not given again.
get_num_val_btest(s, old) ==
    IF IsFloatText(s) THEN FloatNumber(s) ELSE IF old = 0 THEN IntNumber(s) ELSE NoNumber
=============================================================================
