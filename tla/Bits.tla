-------------------------------- MODULE Bits --------------------------------
(***************************************************************************)
(* The puzzles of bits.c on words of W bits, with a float format of one     *)
(* sign bit, EXP_BITS exponent bits and FRAC_BITS fraction bits. C has 32,  *)
(* 8 and 23; the masks and shift counts follow them. A word is a number     *)
(* below 2^W, an int the same word read in two's complement.                *)
(***************************************************************************)
EXTENDS Integers, SequencesExt, Bitwise

CONSTANTS W, EXP_BITS, FRAC_BITS

\* The sizes for which the puzzles make sense: a power of two, an exponent
\* range that goes beyond W as that of C does.
ASSUME SizesOK == W \in {8, 16, 32} /\ 1 + EXP_BITS + FRAC_BITS = W /\ 2^(EXP_BITS - 1) > W - 1

Word == 0 .. 2^W - 1
Wrap(n) == n % 2^W
Signed(x) == IF x < 2^(W - 1) THEN x ELSE x - 2^W

NotW(x) == 2^W - 1 - x                 \* ~x
Bang(x) == IF x = 0 THEN 1 ELSE 0      \* !x
Add(x, y) == Wrap(x + y)
Shl(x, k) == Wrap((x % 2^(W - k)) * 2^k)
Sar(x, k) == Wrap(Signed(x) \div 2^k)  \* x >> k of an int
Shr(x, k) == x \div 2^k                \* x >> k of an unsigned

\* 16, 8, 4, 2, 1 for 32 bits.
Halves == CASE W = 8  -> <<4, 2, 1>>
            [] W = 16 -> <<8, 4, 2, 1>>
            [] W = 32 -> <<16, 8, 4, 2, 1>>

bitXor(x, y) == NotW(NotW(x) & NotW(y)) & NotW(x & y)

tmin == Shl(1, W - 1)

isTmax(x) ==
    LET i == Add(x, 1)
    IN  Bang(Add(NotW(Add(x, i)), Bang(i)))

\* 0xAA, doubled until it fills the word.
OddMask == CASE W = 8 -> 170 [] W = 16 -> 170 + Shl(170, 8)
             [] W = 32 -> LET m == 170 + Shl(170, 8) IN m + Shl(m, 16)
allOddBits(x) == Bang((OddMask & x) ^^ OddMask)

negate(x) == Add(NotW(x), 1)

isAsciiDigit(x) == Bang(Sar(x, 4) ^^ 3) & Bang(Sar(Add(9, negate(x & 15)), W - 1))

conditional(x, y, z) ==
    LET m == negate(Bang(Bang(x)))
    IN  (m & y) | (NotW(m) & z)

\* wrong: the sign of the difference decides, also when it overflows
isLessOrEqualDiff(x, y) == Bang(Sar(Add(y, negate(x)), W - 1))

isLessOrEqual(x, y) ==
    LET x1 == Sar(x, W - 1)
        y1 == Sar(y, W - 1)
        z  == Sar(Add(y, negate(x)), W - 1)
    IN  (x1 & Bang(y1)) | (Bang(x1 ^^ y1) & Bang(z))

\* The bits of x gather in the lowest one.
logicalNeg(x) == NotW(FoldLeft(LAMBDA acc, h : Sar(acc, h) | acc, x, Halves)) & 1

\* A binary search for the highest bit of x ^ (x << 1).
howManyBits(x) ==
    LET d == x ^^ Shl(x, 1)
    IN  FoldLeft(LAMBDA n, h : n + h * Bang(Bang(d & Shl(NotW(0), n + h))), 0, Halves) + 1

---------------------------------------------------------------------------
(* Floats *)

ExpMask  == (2^EXP_BITS - 1) * 2^FRAC_BITS     \* 0x7f800000
FracMask == 2^FRAC_BITS - 1             \* 0x007fffff
SignBit  == 2^(W - 1)
BIAS     == 2^(EXP_BITS - 1) - 1

floatScale2(uf) ==
    LET exp  == Shr(uf & ExpMask, FRAC_BITS)
        sign == uf & SignBit
    IN  CASE exp = 0 -> Shl(uf, 1) | sign
          [] exp = 2^EXP_BITS - 1 -> uf
          [] exp + 1 = 2^EXP_BITS - 1 -> ExpMask | sign
          [] OTHER -> ((exp + 1) * 2^FRAC_BITS) | (uf & (SignBit | FracMask))

floatFloat2Int(uf) ==
    LET s    == Shr(uf, W - 1)
        exp  == Shr(uf & ExpMask, FRAC_BITS) - BIAS
        m    == (uf & FracMask) | 2^FRAC_BITS
        frac == IF exp > FRAC_BITS THEN Shl(m, exp - FRAC_BITS) ELSE Sar(m, FRAC_BITS - exp)
        top  == Sar(frac, W - 1)
    IN  CASE (uf & (SignBit - 1)) = 0 -> 0
          [] exp > W - 1 -> SignBit
          [] exp < 0 -> 0
          [] OTHER -> IF (top ^^ s) = 0 THEN frac
                      ELSE IF top # 0 THEN SignBit
                      ELSE negate(frac)

\* x + 127 may overflow, which C leaves undefined and the build wraps.
floatPower2(x) ==
    LET exp == Signed(Add(x, BIAS))
    IN  CASE exp <= 0 -> 0
          [] exp >= 2^EXP_BITS - 1 -> ExpMask
          [] OTHER -> exp * 2^FRAC_BITS
=============================================================================
