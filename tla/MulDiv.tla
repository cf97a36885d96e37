------------------------------- MODULE MulDiv -------------------------------
(***************************************************************************)
(* Checked arithmetic: a * b / d on words, with an integer twice as wide   *)
(* where the compiler has one and by long division where it has none: a    *)
(* product of two words from four partial products of half words, and a    *)
(* division that brings down one bit of the low word at a time.  Words     *)
(* have 2 * HalfBits bits (HalfBits is 32 in the code) and wrap.           *)
(***************************************************************************)
EXTENDS Integers

CONSTANTS
  HalfBits,
  None       \* the result of an operation that fails

ASSUME MulDivAssumption ==
  /\ HalfBits \in Nat \ {0}
  /\ None \notin Nat \cup [rem : Nat, quot : Nat]

Bits == 2 * HalfBits

Pow2[n \in 0..Bits] == IF n = 0 THEN 1 ELSE 2 * Pow2[n - 1]

Half == Pow2[HalfBits]
Word == Pow2[Bits]

MaxWord == Word - 1
Words   == 0..MaxWord

add_checked(a, b) == IF a > MaxWord - b THEN None ELSE a + b

\* Whether the plain product is a word: the test of mul_checked.
MulFits(a, b) == a = 0 \/ b <= MaxWord \div a
-----------------------------------------------------------------------------
(* The product                                                             *)

\* Mutant: the middle column forgets the carry out of the lowest product.
MidWithoutCarry(a, b) ==
  (((a % Half) * (b \div Half)) % Half) + (((a \div Half) * (b % Half)) % Half)

\* The column of weight Half: it keeps its carry in its upper half.
Mid(a, b) ==
  ((a % Half) * (b % Half)) \div Half
    + (((a % Half) * (b \div Half)) % Half)
    + (((a \div Half) * (b % Half)) % Half)

Low(a, b)  == ((((a % Half) * (b % Half)) % Half) + Mid(a, b) * Half) % Word

High(a, b) ==
  ((a \div Half) * (b \div Half)
    + ((a % Half) * (b \div Half)) \div Half
    + ((a \div Half) * (b % Half)) \div Half
    + Mid(a, b) \div Half) % Word

\* hi and lo as long_division_ex starts with them.
Product(a, b) ==
  IF MulFits(a, b) THEN [hi |-> 0, lo |-> a * b]
                   ELSE [hi |-> High(a, b), lo |-> Low(a, b)]
-----------------------------------------------------------------------------
(* The division                                                            *)

Bit(lo, i) == (lo \div Pow2[i]) % 2

\* One turn of the loop.  The bit that the shift pushes out of the remainder
\* stands for Word, so the subtraction may wrap.
BringDown(s, bit, d) ==
  LET carry == s.rem \div Pow2[Bits - 1]
      rem   == (2 * s.rem + bit) % Word
      quot  == (2 * s.quot) % Word
  IN  IF carry # 0 \/ rem >= d
      THEN [rem |-> (rem - d) % Word, quot |-> quot + 1]
      ELSE [rem |-> rem, quot |-> quot]

\* The loop from the highest bit of lo to the lowest.
Divide(hi, lo, d) ==
  LET after[n \in 0..Bits] ==
        IF n = 0 THEN [rem |-> hi, quot |-> 0]
        ELSE BringDown(after[n - 1], Bit(lo, Bits - n), d)
  IN  after[Bits]

long_division_ex(a, b, d) ==
  LET p == Product(a, b)
  IN  IF d = 0 THEN None
      ELSE IF p.hi = 0 THEN [rem |-> p.lo % d, quot |-> p.lo \div d]
      ELSE IF p.hi >= d THEN None
      ELSE Divide(p.hi, p.lo, d)

mul_div_floor_reference(a, b, d) ==
  LET r == long_division_ex(a, b, d)
  IN  IF r = None THEN None ELSE r.quot

\* A quotient is rounded up by a checked addition.
RoundUp(r) ==
  IF r = None THEN None ELSE IF r.rem = 0 THEN r.quot ELSE add_checked(r.quot, 1)

\* mul_div_ceil where the compiler has no wider integer.
mul_div_ceil_portable(a, b, d) ==
  IF d = 0 THEN None ELSE IF a = 0 \/ b = 0 THEN 0 ELSE RoundUp(long_division_ex(a, b, d))
-----------------------------------------------------------------------------
(* With a wider integer                                                    *)

WideDivision(a, b, d) ==
  IF (a * b) \div d > MaxWord THEN None
  ELSE [rem |-> (a * b) % d, quot |-> (a * b) \div d]

mul_div_floor(a, b, d) ==
  IF d = 0 THEN None ELSE IF a = 0 \/ b = 0 THEN 0
  ELSE IF WideDivision(a, b, d) = None THEN None ELSE WideDivision(a, b, d).quot

mul_div_ceil(a, b, d) ==
  IF d = 0 THEN None ELSE IF a = 0 \/ b = 0 THEN 0 ELSE RoundUp(WideDivision(a, b, d))
-----------------------------------------------------------------------------
\* Builds with and without a wider integer compute the same floor and ceiling.
BuildsAgree(a, b, d) ==
  /\ mul_div_floor_reference(a, b, d) = mul_div_floor(a, b, d)
  /\ mul_div_ceil_portable(a, b, d) = mul_div_ceil(a, b, d)
=============================================================================
