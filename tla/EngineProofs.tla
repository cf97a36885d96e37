---------------------------- MODULE EngineProofs ----------------------------
(***************************************************************************)
(* The evaluation engine is proved correct: long division over half words  *)
(* computes what a wider integer computes, and evaluate_domain, for every  *)
(* policy and all snapshots, answers within its types, never authorises    *)
(* more than the policy allows, asks for corrections that suffice, and     *)
(* answers no more mildly when demand grows or capacity shrinks.           *)
(***************************************************************************)
EXTENDS Engine, FiniteSetTheorems, SequenceTheorems, WellFoundedInduction, TLAPS
-----------------------------------------------------------------------------
(* Induction, for sets of numbers                                          *)

Below == {ss \in Nat \X Nat : ss[1] < ss[2]}

\* The order of the naturals is well founded.
LEMMA BelowWellFounded == IsWellFoundedOn(Below, Nat)
  BY NatLessThanWellFounded DEF OpToRel, Below

\* A set with 0 and the successors of its elements has all numbers.
LEMMA Induction ==
  ASSUME NEW S, 0 \in S, \A n \in Nat : n \in S => n + 1 \in S
  PROVE  Nat \subseteq S
<1> DEFINE T == Nat \ S
<1>1. SUFFICES ASSUME T # {} PROVE FALSE
  OBVIOUS
<1>2. PICK x \in T : \A y \in T : ~(<<y, x>> \in Below)
  <2>1. T \subseteq Nat
    OBVIOUS
  <2> HIDE DEF T
  <2> QED BY <1>1, <2>1, BelowWellFounded, WFMin
<1>3. x # 0
  OBVIOUS
<1>4. x - 1 \in T
  <2>1. x - 1 \in Nat /\ (x - 1) + 1 = x
    BY <1>3
  <2> QED BY <2>1
<1>5. <<x - 1, x>> \in Below
  BY <1>3 DEF Below
<1> QED BY <1>2, <1>4, <1>5

\* f is the function on 0..N with the value base at 0 that goes on by step.
Solves(f, N, base, step) ==
  f[0] = base /\ \A n \in 1..N : f[n] = step[n][f[n - 1]]

\* There is such a function for every base and step.
LEMMA Recursion ==
  ASSUME NEW V, NEW base \in V, NEW step \in [Nat -> [V -> V]], NEW N \in Nat
  PROVE  \E f \in [0..N -> V] : Solves(f, N, base, step)
<1> DEFINE S == {m \in Nat : \E f \in [0..m -> V] : Solves(f, m, base, step)}
<1>1. 0 \in S
  <2>1. [i \in 0..0 |-> base] \in [0..0 -> V] /\ Solves([i \in 0..0 |-> base], 0, base, step)
    BY DEF Solves
  <2> QED BY <2>1
<1>2. ASSUME NEW m \in Nat, m \in S
      PROVE  m + 1 \in S
  <2>1. PICK f \in [0..m -> V] : Solves(f, m, base, step)
    BY <1>2
  <2>2. f[0] = base /\ \A n \in 1..m : f[n] = step[n][f[n - 1]]
    BY <2>1 DEF Solves
  <2> DEFINE g == [i \in 0..(m + 1) |-> IF i <= m THEN f[i] ELSE step[m + 1][f[m]]]
  <2>3. g \in [0..(m + 1) -> V]
    BY m \in 0..m, m + 1 \in Nat
  <2>4. g[0] = base
    BY <2>2
  <2>5. ASSUME NEW n \in 1..(m + 1)
        PROVE  g[n] = step[n][g[n - 1]]
    <3>1. CASE n <= m
      <4>1. n \in 1..m /\ n - 1 \in 0..m /\ n - 1 <= m
        BY <3>1
      <4> QED BY <4>1, <2>2
    <3>2. CASE n = m + 1
      <4>1. n - 1 = m /\ n \in 0..(m + 1) /\ m \in 0..(m + 1) /\ ~(n <= m)
        BY <3>2
      <4> QED BY <4>1, <3>2
    <3> QED BY <3>1, <3>2
  <2>6. Solves(g, m + 1, base, step)
    <3> HIDE DEF g
    <3> QED BY <2>4, <2>5 DEF Solves
  <2> HIDE DEF g
  <2> QED BY <2>3, <2>6
<1>3. Nat \subseteq S
  <2> HIDE DEF S
  <2> QED BY <1>1, <1>2, Induction
<1> QED BY <1>3
-----------------------------------------------------------------------------
(* Division                                                                *)

\* What \div and % are.
LEMMA DivMod ==
  ASSUME NEW a \in Int, NEW n \in Nat \ {0}
  PROVE  /\ a \div n \in Int
         /\ a % n \in 0..(n - 1)
         /\ a = n * (a \div n) + (a % n)
OBVIOUS

\* The same for a number that is not negative.
LEMMA DivModNat ==
  ASSUME NEW a \in Nat, NEW n \in Nat \ {0}
  PROVE  /\ a \div n \in Nat
         /\ a % n \in 0..(n - 1)
         /\ a = n * (a \div n) + (a % n)
OBVIOUS

\* There is one quotient and one remainder.
LEMMA DivUnique ==
  ASSUME NEW a \in Int, NEW n \in Nat \ {0}, NEW q \in Int, NEW r \in 0..(n - 1),
         a = n * q + r
  PROVE  q = a \div n /\ r = a % n
<1> DEFINE p == a \div n
           m == a % n
<1>1. p \in Int /\ m \in 0..(n - 1) /\ a = n * p + m
  BY DivMod
<1> HIDE DEF p, m
<1>2. n * (q - p) = m - r
  BY <1>1
<1>3. ~(q - p >= 1)
  <2> SUFFICES ASSUME q - p >= 1 PROVE FALSE
    OBVIOUS
  <2>1. n * (q - p) >= n
    BY <1>1
  <2> QED BY <2>1, <1>2, <1>1
<1>4. ~(q - p <= -1)
  <2> SUFFICES ASSUME q - p <= -1 PROVE FALSE
    OBVIOUS
  <2>1. n * (q - p) <= -n
    BY <1>1
  <2> QED BY <2>1, <1>2, <1>1
<1>5. q = p
  BY <1>3, <1>4, <1>1
<1> QED BY <1>5, <1>1 DEF p, m
-----------------------------------------------------------------------------
(* Powers of two                                                           *)

\* The recursion of Pow2 has a solution, so Pow2 is one.
LEMMA PowerFacts ==
  /\ Pow2 \in [0..Bits -> Nat \ {0}]
  /\ Pow2[0] = 1
  /\ \A n \in 1..Bits : Pow2[n] = 2 * Pow2[n - 1]
<1>1. Bits \in Nat
  BY MulDivAssumption DEF Bits
<1> DEFINE V    == Nat \ {0}
           step == [n \in Nat |-> [x \in V |-> 2 * x]]
<1>2. 1 \in V /\ step \in [Nat -> [V -> V]]
  OBVIOUS
<1>3. PICK f \in [0..Bits -> V] : Solves(f, Bits, 1, step)
  <2> HIDE DEF V, step
  <2> QED BY <1>1, <1>2, Recursion
<1>4. f[0] = 1 /\ \A n \in 1..Bits : f[n] = 2 * f[n - 1]
  <2>1. f[0] = 1 /\ \A n \in 1..Bits : f[n] = step[n][f[n - 1]]
    BY <1>3 DEF Solves
  <2>2. ASSUME NEW n \in 1..Bits PROVE step[n][f[n - 1]] = 2 * f[n - 1]
    <3>1. n \in Nat /\ n - 1 \in 0..Bits
      BY <1>1
    <3> QED BY <3>1, <1>3
  <2> QED BY <2>1, <2>2
<1>5. f = [n \in 0..Bits |-> IF n = 0 THEN 1 ELSE 2 * f[n - 1]]
  BY <1>4, <1>1
<1>6. Pow2 = [n \in 0..Bits |-> IF n = 0 THEN 1 ELSE 2 * Pow2[n - 1]]
  BY <1>5 DEF Pow2
<1>7. \A n \in 0..Bits : Pow2[n] = IF n = 0 THEN 1 ELSE 2 * Pow2[n - 1]
  BY <1>6
<1>8. Pow2[0] = 1 /\ \A n \in 1..Bits : Pow2[n] = 2 * Pow2[n - 1]
  BY <1>7, <1>1
<1> DEFINE S == {n \in Nat : n <= Bits => Pow2[n] \in V}
<1>9. Nat \subseteq S
  <2>1. 0 \in S
    BY <1>8
  <2>2. ASSUME NEW n \in Nat, n \in S PROVE n + 1 \in S
    <3>1. SUFFICES ASSUME n + 1 <= Bits PROVE Pow2[n + 1] \in V
      OBVIOUS
    <3>2. n + 1 \in 1..Bits /\ (n + 1) - 1 = n /\ Pow2[n] \in V
      BY <3>1, <2>2, <1>1
    <3>3. Pow2[n + 1] = 2 * Pow2[n]
      BY <3>2, <1>8
    <3> QED BY <3>2, <3>3
  <2> HIDE DEF S
  <2> QED BY <2>1, <2>2, Induction
<1>10. \A n \in 0..Bits : Pow2[n] \in V
  BY <1>9, <1>1
<1>11. Pow2 \in [0..Bits -> V]
  BY <1>6, <1>10
<1> QED BY <1>8, <1>11

\* Pow2 turns sums into products.
LEMMA PowerSum ==
  \A m, n \in Nat : m + n <= Bits => Pow2[m + n] = Pow2[m] * Pow2[n]
<1>1. Bits \in Nat
  BY MulDivAssumption DEF Bits
<1> SUFFICES ASSUME NEW m \in Nat
             PROVE  \A n \in Nat : m + n <= Bits => Pow2[m + n] = Pow2[m] * Pow2[n]
  OBVIOUS
<1> DEFINE S == {n \in Nat : m + n <= Bits => Pow2[m + n] = Pow2[m] * Pow2[n]}
<1>2. 0 \in S
  <2>1. SUFFICES ASSUME m <= Bits PROVE Pow2[m + 0] = Pow2[m] * Pow2[0]
    OBVIOUS
  <2>2. m + 0 = m /\ m \in 0..Bits /\ Pow2[m] \in Nat
    BY <2>1, <1>1, PowerFacts
  <2> QED BY <2>2, PowerFacts
<1>3. ASSUME NEW n \in Nat, n \in S PROVE n + 1 \in S
  <2>1. SUFFICES ASSUME m + (n + 1) <= Bits
                 PROVE  Pow2[m + (n + 1)] = Pow2[m] * Pow2[n + 1]
    OBVIOUS
  <2>2. Pow2[m + n] = Pow2[m] * Pow2[n]
    BY <2>1, <1>3, <1>1
  <2>3. /\ m + (n + 1) \in 1..Bits /\ (m + (n + 1)) - 1 = m + n
        /\ n + 1 \in 1..Bits /\ (n + 1) - 1 = n
        /\ m \in 0..Bits /\ n \in 0..Bits
    BY <2>1, <1>1
  <2>4. Pow2[m + (n + 1)] = 2 * Pow2[m + n] /\ Pow2[n + 1] = 2 * Pow2[n]
    BY <2>3, PowerFacts
  <2>5. Pow2[m] \in Nat /\ Pow2[n] \in Nat
    BY <2>3, PowerFacts
  <2>6. 2 * (Pow2[m] * Pow2[n]) = Pow2[m] * (2 * Pow2[n])
    BY <2>5
  <2> QED BY <2>2, <2>4, <2>6
<1>4. Nat \subseteq S
  <2> HIDE DEF S
  <2> QED BY <1>2, <1>3, Induction
<1> QED BY <1>4

\* A word is two halves wide, and even.
LEMMA WordFacts ==
  /\ Half \in Nat \ {0} /\ Word \in Nat \ {0}
  /\ Word = Half * Half
  /\ Pow2[Bits - 1] \in Nat \ {0} /\ Word = 2 * Pow2[Bits - 1]
  /\ MaxWord = Word - 1 /\ Words = 0..(Word - 1)
<1>1. HalfBits \in 0..Bits /\ Bits \in 1..Bits /\ Bits - 1 \in 0..Bits /\ HalfBits + HalfBits = Bits
  BY MulDivAssumption DEF Bits
<1>2. Half \in Nat \ {0} /\ Word \in Nat \ {0} /\ Pow2[Bits - 1] \in Nat \ {0}
  <2>1. \A n \in 0..Bits : Pow2[n] \in Nat \ {0}
    BY PowerFacts
  <2>2. Bits \in 0..Bits
    BY <1>1
  <2> QED BY <2>1, <2>2, <1>1 DEF Half, Word
<1>3. Word = Half * Half
  <2>1. HalfBits \in Nat /\ HalfBits + HalfBits <= Bits
    BY <1>1, MulDivAssumption
  <2>2. Pow2[HalfBits + HalfBits] = Pow2[HalfBits] * Pow2[HalfBits]
    BY <2>1, PowerSum
  <2> QED BY <2>2, <1>1 DEF Half, Word
<1>4. Word = 2 * Pow2[Bits - 1]
  BY <1>1, PowerFacts DEF Word
<1>5. MaxWord = Word - 1 /\ Words = 0..(Word - 1)
  BY DEF MaxWord, Words
<1> QED BY <1>2, <1>3, <1>4, <1>5
-----------------------------------------------------------------------------
(* The product                                                             *)

\* The high and the low word of the limb product are those of the exact product:
\* the middle column carries everything and nothing wraps unnoticed.
THEOREM LimbProduct ==
  ASSUME NEW a \in Words, NEW b \in Words
  PROVE  /\ High(a, b) \in Words /\ Low(a, b) \in Words
         /\ High(a, b) * Word + Low(a, b) = a * b
<1> DEFINE h   == Half
           a0  == a % h
           a1  == a \div h
           b0  == b % h
           b1  == b \div h
<1>1. h \in Nat \ {0} /\ Word = h * h /\ a \in 0..(h * h - 1) /\ b \in 0..(h * h - 1)
  BY WordFacts
<1>2. /\ a0 \in 0..(h - 1) /\ a1 \in Nat /\ a = h * a1 + a0
      /\ b0 \in 0..(h - 1) /\ b1 \in Nat /\ b = h * b1 + b0
  <2>1. a \in Nat /\ b \in Nat /\ h \in Nat \ {0}
    BY WordFacts
  <2> HIDE DEF h
  <2>2. a0 \in 0..(h - 1) /\ a1 \in Nat /\ a = h * a1 + a0
    BY <2>1, DivModNat
  <2>3. b0 \in 0..(h - 1) /\ b1 \in Nat /\ b = h * b1 + b0
    BY <2>1, DivModNat
  <2> QED BY <2>2, <2>3
<1> HIDE DEF h, a0, a1, b0, b1
<1> DEFINE p00 == a0 * b0
           p01 == a0 * b1
           p10 == a1 * b0
           p11 == a1 * b1
<1>3. p00 \in Nat /\ p01 \in Nat /\ p10 \in Nat /\ p11 \in Nat
  BY <1>1, <1>2
<1>4. a * b = (p11 * h) * h + (p01 + p10) * h + p00
  <2>1. a * b = (h * a1 + a0) * (h * b1 + b0)
    BY <1>2
  <2>2. (h * a1 + a0) * (h * b1 + b0)
          = (h * a1) * (h * b1) + (h * a1) * b0 + a0 * (h * b1) + a0 * b0
    BY <1>1, <1>2
  <2>3. (h * a1) * (h * b1) = ((a1 * b1) * h) * h
    BY <1>1, <1>2
  <2>4. (h * a1) * b0 + a0 * (h * b1) = (a0 * b1 + a1 * b0) * h
    BY <1>1, <1>2
  <2> QED BY <2>1, <2>2, <2>3, <2>4, <1>1, <1>2
<1> HIDE DEF p00, p01, p10, p11
<1> DEFINE c00 == p00 \div h
           r00 == p00 % h
           c01 == p01 \div h
           r01 == p01 % h
           c10 == p10 \div h
           r10 == p10 % h
<1>5. /\ c00 \in Nat /\ r00 \in 0..(h - 1) /\ p00 = h * c00 + r00
      /\ c01 \in Nat /\ r01 \in 0..(h - 1) /\ p01 = h * c01 + r01
      /\ c10 \in Nat /\ r10 \in 0..(h - 1) /\ p10 = h * c10 + r10
  BY <1>1, <1>3, DivModNat
<1> HIDE DEF c00, r00, c01, r01, c10, r10
<1> DEFINE mid == c00 + r01 + r10
           cm  == mid \div h
           rm  == mid % h
<1>6. mid \in Nat
  BY <1>5, <1>1
<1>7. cm \in Nat /\ rm \in 0..(h - 1) /\ mid = h * cm + rm
  <2> HIDE DEF mid
  <2> QED BY <1>6, <1>1, DivModNat
<1>8. Mid(a, b) = mid
  BY DEF Mid, h, mid, c00, r01, r10, p00, p01, p10, a0, a1, b0, b1
<1>9. c00 + r01 + r10 = h * cm + rm
  BY <1>7
<1> HIDE DEF mid, cm, rm
<1> DEFINE top == p11 + c01 + c10 + cm
           bot == r00 + rm * h
<1>10. top \in Nat
  BY <1>3, <1>5, <1>7
<1>11. bot \in 0..(h * h - 1)
  <2>1. rm * h \in Nat /\ rm * h <= (h - 1) * h
    BY <1>7, <1>1
  <2>2. (h - 1) * h = h * h - h
    BY <1>1
  <2>3. h * h \in Nat /\ bot \in Nat
    BY <2>1, <1>5, <1>1
  <2> QED BY <2>1, <2>2, <2>3, <1>5, <1>1
<1>12. a * b = top * (h * h) + bot
  <2>1. (p01 + p10) * h = (c01 + c10) * (h * h) + (r01 + r10) * h
    BY <1>1, <1>5
  <2>2. (c00 + r01 + r10) * h = cm * (h * h) + rm * h
    BY <1>9, <1>1, <1>5, <1>7
  <2>3. p00 = c00 * h + r00
    BY <1>5, <1>1
  <2>4. (c00 + r01 + r10) * h = c00 * h + (r01 + r10) * h
    BY <1>1, <1>5
  <2>5. top * (h * h) = (p11 * h) * h + (c01 + c10) * (h * h) + cm * (h * h)
    BY <1>1, <1>3, <1>5, <1>7
  <2> QED BY <2>1, <2>2, <2>3, <2>4, <2>5, <1>4, <1>1, <1>3, <1>5, <1>7
<1>13. top < h * h
  <2>1. a * b < (h * h) * (h * h)
    BY <1>1
  <2> HIDE DEF top, bot
  <2>2. h * h \in Nat \ {0}
    BY <1>1
  <2>3. top * (h * h) < (h * h) * (h * h)
    BY <2>1, <2>2, <1>10, <1>11, <1>12
  <2> QED BY <2>3, <2>2, <1>10
<1>14. High(a, b) = top
  <2>1. High(a, b) = top % Word
    BY <1>8 DEF High, top, cm, mid, h, c01, c10, p01, p10, p11, a0, a1, b0, b1
  <2> HIDE DEF top
  <2> QED BY <2>1, <1>13, <1>10, <1>1
<1>15. Low(a, b) = bot
  <2>1. Low(a, b) = (r00 + mid * h) % Word
    BY <1>8 DEF Low, h, r00, p00, a0, b0
  <2>2. r00 + mid * h = (h * h) * cm + bot
    BY <1>7, <1>1, <1>5
  <2>3. h * h \in Nat \ {0} /\ r00 + mid * h \in Nat
    BY <1>1, <1>5, <1>6
  <2> HIDE DEF bot
  <2>4. bot = (r00 + mid * h) % (h * h)
    BY <2>2, <2>3, <1>7, <1>11, DivUnique
  <2> QED BY <2>1, <2>4, <1>1
<1>16. h * h = Word /\ Words = 0..(h * h - 1)
  BY <1>1, WordFacts
<1> HIDE DEF top, bot
<1>17. h * h \in Nat
  BY <1>1
<1>18. top \in Words /\ bot \in Words
  BY <1>10, <1>11, <1>13, <1>16, <1>17
<1>19. High(a, b) * Word + Low(a, b) = top * (h * h) + bot
  BY <1>14, <1>15, <1>16
<1> QED BY <1>12, <1>14, <1>15, <1>18, <1>19
-----------------------------------------------------------------------------
(* The division                                                            *)

State == [rem : Nat, quot : Nat]

\* One turn of the loop doubles what quotient and remainder stand for and adds
\* the bit, without losing the bit that leaves the remainder's word.
LEMMA BringDownExact ==
  ASSUME NEW d \in Words, NEW s \in State, NEW bit \in {0, 1},
         s.rem < d, 2 * s.quot < Word
  PROVE  LET t == BringDown(s, bit, d)
         IN  /\ t \in State /\ t.rem < d
             /\ t.quot \in {2 * s.quot, 2 * s.quot + 1}
             /\ t.quot * d + t.rem = 2 * (s.quot * d + s.rem) + bit
<1> DEFINE H     == Pow2[Bits - 1]
           r     == s.rem
           q     == s.quot
           carry == r \div H
           rem   == (2 * r + bit) % Word
           quot  == (2 * q) % Word
<1>1. /\ H \in Nat \ {0} /\ Word \in Nat \ {0} /\ Word = 2 * H
      /\ d \in 1..(Word - 1) /\ r \in 0..(d - 1) /\ q \in Nat /\ 2 * q < Word
  BY WordFacts DEF State
<1>2. BringDown(s, bit, d) =
        IF carry # 0 \/ rem >= d
        THEN [rem |-> (rem - d) % Word, quot |-> quot + 1]
        ELSE [rem |-> rem, quot |-> quot]
  BY DEF BringDown
<1> HIDE DEF H, r, q
<1>3. quot = 2 * q
  <2>1. /\ 2 * q \in 0..(Word - 1) /\ 2 * q \in Int /\ 2 * q = Word * 0 + 2 * q
        /\ 0 \in Int /\ Word \in Nat \ {0}
    BY <1>1
  <2> QED BY <2>1, DivUnique
<1>4. ASSUME NEW p \in Nat, NEW m \in Nat, NEW c \in {0, 1},
             m < d, p = 2 * q + c, m + c * d = 2 * r + bit,
             BringDown(s, bit, d) = [rem |-> m, quot |-> p]
      PROVE  LET t == BringDown(s, bit, d)
             IN  /\ t \in State /\ t.rem < d
                 /\ t.quot \in {2 * s.quot, 2 * s.quot + 1}
                 /\ t.quot * d + t.rem = 2 * (s.quot * d + s.rem) + bit
  <2>1. p * d + m = 2 * (q * d + r) + bit
    <3>1. p * d = 2 * (q * d) + c * d
      BY <1>1, <1>4
    <3> QED BY <3>1, <1>1, <1>4
  <2>2. p \in {2 * q, 2 * q + 1}
    BY <1>1, <1>4
  <2>3. q = s.quot /\ r = s.rem
    BY DEF q, r
  <2> DEFINE t == BringDown(s, bit, d)
  <2>4. t.rem = m /\ t.quot = p /\ t \in State
    BY <1>4 DEF State
  <2> HIDE DEF t
  <2>5. /\ t.quot \in {2 * s.quot, 2 * s.quot + 1}
        /\ t.quot * d + t.rem = 2 * (s.quot * d + s.rem) + bit
    BY <2>1, <2>2, <2>3, <2>4
  <2>6. t.rem < d
    BY <2>4, <1>4
  <2> USE DEF t
  <2> QED BY <2>4, <2>5, <2>6
<1>5. CASE r < H
  <2>1. carry = 0
    <3>1. r \in 0..(H - 1) /\ r \in Nat /\ r = H * 0 + r
      BY <1>1, <1>5
    <3> QED BY <3>1, <1>1, DivUnique
  <2>2. rem = 2 * r + bit
    <3>1. /\ 2 * r + bit \in 0..(Word - 1) /\ 2 * r + bit \in Int
          /\ 2 * r + bit = Word * 0 + (2 * r + bit)
          /\ 0 \in Int /\ Word \in Nat \ {0}
      BY <1>1, <1>5
    <3> QED BY <3>1, DivUnique
  <2> HIDE DEF carry, rem, quot
  <2>3. CASE rem >= d
    <3>1. (rem - d) % Word = rem - d
      <4>1. rem - d \in 0..(Word - 1) /\ rem - d \in Nat /\ rem - d = Word * 0 + (rem - d)
        BY <1>1, <2>2, <2>3
      <4> QED BY <4>1, <1>1, DivUnique
    <3>2. BringDown(s, bit, d) = [rem |-> rem - d, quot |-> 2 * q + 1]
      BY <1>2, <1>3, <2>3, <3>1
    <3>3. rem - d \in Nat /\ rem - d < d /\ (rem - d) + 1 * d = 2 * r + bit
      BY <1>1, <2>2, <2>3
    <3>4. 2 * q + 1 \in Nat
      BY <1>1
    <3> QED BY <3>2, <3>3, <3>4, <1>4
  <2>4. CASE ~(rem >= d)
    <3>1. BringDown(s, bit, d) = [rem |-> rem, quot |-> 2 * q]
      BY <1>2, <1>3, <2>1, <2>4
    <3>2. rem \in Nat /\ rem < d /\ rem + 0 * d = 2 * r + bit
      BY <1>1, <2>2, <2>4
    <3>3. 2 * q \in Nat /\ 2 * q = 2 * q + 0
      BY <1>1
    <3> QED BY <3>1, <3>2, <3>3, <1>4
  <2> QED BY <2>3, <2>4
<1>6. CASE ~(r < H)
  <2>1. carry # 0
    <3> SUFFICES ASSUME carry = 0 PROVE FALSE
      OBVIOUS
    <3>1. r \in Int /\ H \in Nat \ {0}
      BY <1>1
    <3>2. r % H \in 0..(H - 1) /\ r = H * (r \div H) + (r % H)
      BY <3>1, DivMod
    <3> QED BY <3>1, <3>2, <1>6
  <2>2. rem = 2 * r + bit - Word
    <3>1. /\ 2 * r + bit - Word \in 0..(Word - 1) /\ 2 * r + bit \in Int
          /\ 2 * r + bit = Word * 1 + (2 * r + bit - Word)
          /\ 1 \in Int /\ Word \in Nat \ {0}
      BY <1>1, <1>6
    <3> QED BY <3>1, DivUnique
  <2> HIDE DEF carry, rem, quot
  <2>3. (rem - d) % Word = rem - d + Word
    <3>1. rem - d \in Int /\ rem - d + Word \in 0..(Word - 1)
      BY <1>1, <1>6, <2>2
    <3>2. rem - d = Word * (-1) + (rem - d + Word) /\ -1 \in Int
      BY <3>1, <1>1, <2>2
    <3> QED BY <3>1, <3>2, <1>1, DivUnique
  <2>4. BringDown(s, bit, d) = [rem |-> rem - d + Word, quot |-> 2 * q + 1]
    BY <1>2, <1>3, <2>1, <2>3
  <2>5. /\ rem - d + Word \in Nat /\ rem - d + Word < d
        /\ (rem - d + Word) + 1 * d = 2 * r + bit
    BY <1>1, <1>6, <2>2
  <2>6. 2 * q + 1 \in Nat
    BY <1>1
  <2> QED BY <2>4, <2>5, <2>6, <1>4
<1> QED BY <1>5, <1>6

\* The quotient by half a divisor, from the quotient by the divisor and a bit.
LEMMA HalveDivisor ==
  ASSUME NEW lo \in Nat, NEW Q \in Nat \ {0}
  PROVE  lo \div Q = 2 * (lo \div (2 * Q)) + ((lo \div Q) % 2)
<1> DEFINE x == lo \div Q
           r == lo % Q
           y == x \div 2
           c == x % 2
<1>1. x \in Nat /\ r \in 0..(Q - 1) /\ lo = Q * x + r
  BY DivModNat
<1>2. y \in Nat /\ c \in 0..1 /\ x = 2 * y + c
  <2> HIDE DEF x
  <2> QED BY <1>1, DivModNat
<1>3. (lo \div Q) % 2 = c /\ lo \div Q = x
  OBVIOUS
<1> HIDE DEF x, r, y, c
<1>4. Q * c = (IF c = 0 THEN 0 ELSE Q) /\ Q * c \in Nat
  BY <1>2
<1>5. Q * x = (2 * Q) * y + Q * c
  BY <1>2
<1>6. /\ 2 * Q \in Nat \ {0} /\ y \in Int /\ lo \in Int
      /\ Q * c + r \in 0..(2 * Q - 1) /\ lo = (2 * Q) * y + (Q * c + r)
  BY <1>1, <1>2, <1>4, <1>5
<1>7. y = lo \div (2 * Q)
  <2> DEFINE QQ == 2 * Q
             z  == Q * c + r
  <2>1. QQ \in Nat \ {0} /\ z \in 0..(QQ - 1) /\ lo = QQ * y + z
    BY <1>6
  <2> HIDE DEF QQ, z
  <2>2. y = lo \div QQ
    BY <2>1, <1>6, DivUnique
  <2> QED BY <2>2 DEF QQ
<1> QED BY <1>2, <1>3, <1>7

\* The loop of Divide is a sequence of turns: the recursion has a solution.
LEMMA DivideTurns ==
  ASSUME NEW hi \in Nat, NEW lo \in Nat, NEW d \in Words
  PROVE  \E f : /\ f[0] = [rem |-> hi, quot |-> 0]
                /\ \A n \in 1..Bits : f[n] = BringDown(f[n - 1], Bit(lo, Bits - n), d)
                /\ Divide(hi, lo, d) = f[Bits]
<1>1. Bits \in Nat
  BY MulDivAssumption DEF Bits
<1> DEFINE base == [rem |-> hi, quot |-> 0]
           turn == [n \in Nat |-> [s \in State |->
                      IF n \in 1..Bits THEN BringDown(s, Bit(lo, Bits - n), d) ELSE s]]
<1>2. base \in State
  BY DEF State
<1>3. turn \in [Nat -> [State -> State]]
  <2>1. ASSUME NEW n \in 1..Bits, NEW s \in State
        PROVE  BringDown(s, Bit(lo, Bits - n), d) \in State
    <3>1. Bits - n \in 0..Bits /\ s.rem \in Nat /\ s.quot \in Nat /\ d \in Int
      BY <1>1, WordFacts DEF State
    <3>2. Pow2[Bits - n] \in Nat \ {0}
      BY <3>1, PowerFacts
    <3>3. lo \div Pow2[Bits - n] \in Nat
      BY <3>2, DivModNat
    <3>4. Bit(lo, Bits - n) \in Nat
      BY <3>3 DEF Bit
    <3> DEFINE bit == Bit(lo, Bits - n)
    <3> HIDE DEF bit
    <3>5. Word \in Nat \ {0}
      BY WordFacts
    <3>6. bit \in Int
      BY <3>4 DEF bit
    <3>7. 2 * s.rem + bit \in Int /\ 2 * s.quot \in Int
      BY <3>1, <3>6
    <3>8. (2 * s.rem + bit) % Word \in Nat /\ (2 * s.quot) % Word \in Nat
      BY <3>5, <3>7
    <3>9. ((2 * s.rem + bit) % Word) - d \in Int
      BY <3>1, <3>8
    <3>10. (((2 * s.rem + bit) % Word) - d) % Word \in Nat
      BY <3>5, <3>9
    <3>11. BringDown(s, bit, d) \in State
      BY <3>8, <3>10 DEF BringDown, State
    <3> QED BY <3>11 DEF bit
  <2> QED BY <2>1
<1>4. PICK f \in [0..Bits -> State] : Solves(f, Bits, base, turn)
  <2> HIDE DEF base, turn
  <2> QED BY <1>1, <1>2, <1>3, Recursion
<1>5. /\ f[0] = base
      /\ \A n \in 1..Bits : f[n] = BringDown(f[n - 1], Bit(lo, Bits - n), d)
  <2>1. f[0] = base /\ \A n \in 1..Bits : f[n] = turn[n][f[n - 1]]
    BY <1>4 DEF Solves
  <2>2. ASSUME NEW n \in 1..Bits
        PROVE  turn[n][f[n - 1]] = BringDown(f[n - 1], Bit(lo, Bits - n), d)
    <3>1. n \in Nat /\ f[n - 1] \in State
      BY <1>1, <1>4
    <3> QED BY <3>1
  <2> HIDE DEF turn
  <2> QED BY <2>1, <2>2
<1> HIDE DEF turn
<1> DEFINE after[n \in 0..Bits] ==
             IF n = 0 THEN [rem |-> hi, quot |-> 0]
             ELSE BringDown(after[n - 1], Bit(lo, Bits - n), d)
<1>6. f = [n \in 0..Bits |-> IF n = 0 THEN [rem |-> hi, quot |-> 0]
                             ELSE BringDown(f[n - 1], Bit(lo, Bits - n), d)]
  BY <1>1, <1>4, <1>5
<1>7. after = [n \in 0..Bits |-> IF n = 0 THEN [rem |-> hi, quot |-> 0]
                                 ELSE BringDown(after[n - 1], Bit(lo, Bits - n), d)]
  BY <1>6 DEF after
<1>8. Divide(hi, lo, d) = after[Bits]
  BY DEF Divide
<1> HIDE DEF after
<1>9. after[0] = [rem |-> hi, quot |-> 0]
  BY <1>1, <1>7
<1>10. ASSUME NEW n \in 1..Bits
       PROVE  after[n] = BringDown(after[n - 1], Bit(lo, Bits - n), d)
  <2>1. n \in 0..Bits /\ n # 0
    BY <1>1
  <2> QED BY <1>7, <2>1
<1> QED BY <1>8, <1>9, <1>10

\* The loop of Divide divides the double word <<hi, lo>>: after n turns it has
\* divided hi followed by the n highest bits of lo.
THEOREM DivideExact ==
  ASSUME NEW d \in Words, NEW hi \in Nat, hi < d, NEW lo \in Words
  PROVE  /\ Divide(hi, lo, d) \in State
         /\ Divide(hi, lo, d).rem < d /\ Divide(hi, lo, d).quot < Word
         /\ Divide(hi, lo, d).quot * d + Divide(hi, lo, d).rem = hi * Word + lo
<1>1. /\ Bits \in Nat /\ lo \in Nat /\ d \in Nat
      /\ lo < Word /\ Word = Pow2[Bits] /\ Word \in Nat \ {0}
  BY MulDivAssumption, WordFacts DEF Bits, Word
<1>2. PICK f : /\ f[0] = [rem |-> hi, quot |-> 0]
               /\ \A n \in 1..Bits : f[n] = BringDown(f[n - 1], Bit(lo, Bits - n), d)
               /\ Divide(hi, lo, d) = f[Bits]
  BY <1>1, DivideTurns
<1> DEFINE Exact(n) ==
             /\ f[n] \in State /\ f[n].rem < d /\ f[n].quot < Pow2[n]
             /\ f[n].quot * d + f[n].rem = hi * Pow2[n] + (lo \div Pow2[Bits - n])
           S == {n \in Nat : n <= Bits => Exact(n)}
<1>3. 0 \in S
  <2>1. f[0] \in State /\ f[0].rem = hi /\ f[0].quot = 0
    BY <1>2 DEF State
  <2>2. lo \div Word = 0
    <3>1. lo \in 0..(Word - 1) /\ lo \in Int /\ lo = Word * 0 + lo /\ 0 \in Int
      BY <1>1
    <3> QED BY <3>1, <1>1, DivUnique
  <2>3. Pow2[0] = 1 /\ Bits - 0 = Bits
    BY <1>1, PowerFacts
  <2>4. 0 * d + hi = hi * 1 + 0
    BY <1>1
  <2>5. Exact(0)
    BY <2>1, <2>2, <2>3, <2>4, <1>1
  <2> QED BY <2>5
<1>4. ASSUME NEW m \in Nat, m \in S
      PROVE  m + 1 \in S
  <2>1. SUFFICES ASSUME m + 1 <= Bits PROVE Exact(m + 1)
    OBVIOUS
  <2>2. /\ m + 1 \in 1..Bits /\ (m + 1) - 1 = m /\ m \in 0..Bits
        /\ Bits - m \in 1..Bits /\ (Bits - m) - 1 = Bits - (m + 1)
        /\ Bits - (m + 1) \in 0..Bits
    BY <2>1, <1>1
  <2> DEFINE s == f[m]
             t == f[m + 1]
             P == Pow2[m]
             Q == Pow2[Bits - (m + 1)]
             bit == Bit(lo, Bits - (m + 1))
  <2>3. /\ P \in Nat \ {0} /\ Q \in Nat \ {0}
        /\ Pow2[m + 1] = 2 * P /\ Pow2[Bits - m] = 2 * Q
    BY <2>2, PowerFacts
  <2>4. 2 * P <= Word
    <3>1. m + 1 \in Nat /\ Bits - (m + 1) \in Nat /\ (m + 1) + (Bits - (m + 1)) = Bits
      BY <2>2, <1>1
    <3>2. Word = Pow2[m + 1] * Pow2[Bits - (m + 1)]
      BY <3>1, <1>1, PowerSum
    <3>3. Word = (2 * P) * Q
      BY <3>2, <2>3
    <3> HIDE DEF P, Q
    <3> QED BY <3>3, <2>3
  <2>5. t = BringDown(s, bit, d)
    BY <2>2, <1>2
  <2>6. /\ s \in State /\ s.rem < d /\ s.quot < P
        /\ s.quot * d + s.rem = hi * P + (lo \div (2 * Q))
    BY <1>4, <2>2, <2>3
  <2>7. bit \in {0, 1} /\ bit = (lo \div Q) % 2 /\ lo \div Q \in Nat
    <3>1. lo \div Q \in Nat
      BY <2>3, <1>1, DivModNat
    <3>2. (lo \div Q) % 2 \in {0, 1}
      <4> HIDE DEF Q
      <4> QED BY <3>1
    <3> QED BY <3>1, <3>2 DEF Bit
  <2>8. lo \div Q = 2 * (lo \div (2 * Q)) + bit
    <3> HIDE DEF Q
    <3>1. lo \div Q = 2 * (lo \div (2 * Q)) + ((lo \div Q) % 2)
      BY <2>3, <1>1, HalveDivisor
    <3> QED BY <3>1, <2>7
  <2> HIDE DEF s, t, P, Q, bit
  <2>9. s.rem \in Nat /\ s.quot \in Nat /\ 2 * s.quot < Word /\ 2 * s.quot + 1 < 2 * P
    BY <2>3, <2>4, <2>6, <1>1 DEF State
  <2>10. /\ t \in State /\ t.rem < d
         /\ t.quot \in {2 * s.quot, 2 * s.quot + 1}
         /\ t.quot * d + t.rem = 2 * (s.quot * d + s.rem) + bit
    BY <2>5, <2>6, <2>7, <2>9, BringDownExact
  <2>11. t.quot < 2 * P
    BY <2>9, <2>10, <2>3
  <2>12. lo \div (2 * Q) \in Nat
    BY <2>3, <1>1
  <2>13. t.quot * d + t.rem = hi * (2 * P) + (lo \div Q)
    <3> DEFINE y == lo \div (2 * Q)
               x == lo \div Q
    <3>1. x = 2 * y + bit /\ y \in Nat /\ s.quot * d + s.rem = hi * P + y
      BY <2>6, <2>8, <2>12
    <3> HIDE DEF x, y
    <3>2. t.quot * d + t.rem = 2 * (hi * P + y) + bit
      BY <3>1, <2>10
    <3>3. 2 * (hi * P + y) + bit = hi * (2 * P) + x
      BY <3>1, <2>3, <2>7
    <3>4. x = lo \div Q
      BY DEF x
    <3> QED BY <3>2, <3>3, <3>4
  <2>14. t = f[m + 1] /\ Q = Pow2[Bits - (m + 1)] /\ Pow2[m + 1] = 2 * P
    BY <2>3 DEF t, Q
  <2> QED BY <2>10, <2>11, <2>13, <2>14
<1>5. Nat \subseteq S
  <2> HIDE DEF S
  <2> QED BY <1>3, <1>4, Induction
<1>6. Exact(Bits)
  BY <1>1, <1>5
<1>7. lo \div Pow2[Bits - Bits] = lo
  <2>1. Bits - Bits = 0 /\ Pow2[0] = 1
    BY <1>1, PowerFacts
  <2>2. lo \div 1 = lo
    BY <1>1
  <2> QED BY <2>1, <2>2
<1> QED BY <1>1, <1>2, <1>6, <1>7

\* The test of mul_checked is exact: it never overflows and refuses no word.
LEMMA MulFitsExact ==
  ASSUME NEW a \in Words, NEW b \in Words
  PROVE  MulFits(a, b) <=> a * b <= MaxWord
<1>1. a \in Nat /\ b \in Nat /\ MaxWord \in Nat
  BY WordFacts
<1>2. CASE a = 0
  BY <1>1, <1>2 DEF MulFits
<1>3. CASE a # 0
  <2> DEFINE q == MaxWord \div a
             r == MaxWord % a
  <2>1. q \in Nat /\ r \in 0..(a - 1) /\ MaxWord = a * q + r
    BY <1>1, <1>3, DivModNat
  <2>2. MulFits(a, b) <=> b <= q
    BY <1>3 DEF MulFits
  <2> HIDE DEF q, r
  <2>3. ASSUME b <= q PROVE a * b <= MaxWord
    <3>1. a * b <= a * q
      BY <2>1, <2>3, <1>1
    <3> QED BY <3>1, <2>1, <1>1
  <2>4. ASSUME ~(b <= q) PROVE ~(a * b <= MaxWord)
    <3>1. b >= q + 1
      BY <2>1, <2>4, <1>1
    <3>2. a * b >= a * (q + 1)
      BY <3>1, <2>1, <1>1
    <3>3. a * (q + 1) = a * q + a
      BY <2>1, <1>1
    <3> QED BY <3>2, <3>3, <2>1, <1>1
  <2> QED BY <2>2, <2>3, <2>4
<1> QED BY <1>2, <1>3

\* Long division with half words and a division with a wider integer fail for the
\* same operands and compute the same quotient and remainder.
THEOREM LongDivisionExact ==
  ASSUME NEW a \in Words, NEW b \in Words, NEW d \in Words, d # 0
  PROVE  long_division_ex(a, b, d) = WideDivision(a, b, d)
<1> DEFINE ab == a * b
           hi == Product(a, b).hi
           lo == Product(a, b).lo
           q  == ab \div d
           r  == ab % d
<1>1. /\ Word \in Nat \ {0} /\ MaxWord = Word - 1 /\ a \in Nat /\ b \in Nat
      /\ d \in Nat \ {0} /\ ab \in Nat
  BY WordFacts
<1>2. /\ hi \in Nat /\ lo \in Words /\ hi * Word + lo = ab
      /\ (hi = 0) <=> (ab <= MaxWord)
  <2>1. CASE MulFits(a, b)
    <3>1. hi = 0 /\ lo = ab
      BY <2>1 DEF Product
    <3>2. ab <= MaxWord
      BY <2>1, MulFitsExact
    <3> HIDE DEF ab, hi, lo
    <3> QED BY <3>1, <3>2, <1>1, WordFacts
  <2>2. CASE ~MulFits(a, b)
    <3>1. hi = High(a, b) /\ lo = Low(a, b)
      BY <2>2 DEF Product
    <3>2. ~(ab <= MaxWord)
      BY <2>2, MulFitsExact
    <3>3. hi \in Words /\ lo \in Words /\ hi * Word + lo = ab
      BY <3>1, LimbProduct
    <3> HIDE DEF ab, hi, lo
    <3>4. hi \in Nat /\ lo \in Nat /\ lo <= MaxWord
      BY <3>3, <1>1, WordFacts
    <3>5. hi # 0
      BY <3>2, <3>3, <3>4, <1>1
    <3> QED BY <3>2, <3>3, <3>4, <3>5
  <2> QED BY <2>1, <2>2
<1>3. long_division_ex(a, b, d) =
        IF hi = 0 THEN [rem |-> lo % d, quot |-> lo \div d]
        ELSE IF hi >= d THEN None ELSE Divide(hi, lo, d)
  BY DEF long_division_ex
<1>4. WideDivision(a, b, d) = IF q > MaxWord THEN None ELSE [rem |-> r, quot |-> q]
  BY DEF WideDivision
<1> HIDE DEF hi, lo
<1>5. q \in Nat /\ r \in 0..(d - 1) /\ ab = d * q + r
  <2> HIDE DEF ab
  <2> QED BY <1>1, DivModNat
<1>6. CASE hi = 0
  <2>1. lo = ab /\ ab <= MaxWord
    BY <1>1, <1>2, <1>6, WordFacts
  <2>2. q <= ab
    <3> HIDE DEF ab, q, r
    <3>1. q <= d * q
      BY <1>1, <1>5
    <3> QED BY <3>1, <1>1, <1>5
  <2>3. ~(q > MaxWord)
    <3> HIDE DEF q, ab
    <3> QED BY <2>1, <2>2, <1>1, <1>5
  <2>4. lo \div d = q /\ lo % d = r
    BY <2>1
  <2> HIDE DEF q, r
  <2> QED BY <1>3, <1>4, <1>6, <2>3, <2>4
<1>7. CASE hi >= d
  <2> HIDE DEF ab, q, r
  <2>1. hi # 0
    BY <1>1, <1>7
  <2>2. ab >= d * Word
    <3>1. hi * Word >= d * Word
      BY <1>1, <1>2, <1>7
    <3>2. lo \in Nat /\ hi * Word \in Nat /\ d * Word \in Nat
      BY <1>1, <1>2, WordFacts
    <3> QED BY <3>1, <3>2, <1>1, <1>2
  <2>3. q > MaxWord
    <3> SUFFICES ASSUME q <= Word - 1 PROVE FALSE
      BY <1>1, <1>5
    <3>1. d * q <= d * (Word - 1)
      BY <1>1, <1>5
    <3>2. d * (Word - 1) = d * Word - d
      BY <1>1
    <3>3. d * q \in Nat /\ d * Word \in Nat
      BY <1>1, <1>5
    <3> QED BY <3>1, <3>2, <3>3, <2>2, <1>1, <1>5
  <2> QED BY <1>3, <1>4, <1>7, <2>1, <2>3
<1>8. CASE hi # 0 /\ ~(hi >= d)
  <2> DEFINE t == Divide(hi, lo, d)
  <2>1. hi < d
    BY <1>1, <1>2, <1>8
  <2>2. /\ t \in State /\ t.rem < d /\ t.quot < Word
        /\ t.quot * d + t.rem = ab
    BY <2>1, <1>2, DivideExact
  <2> HIDE DEF t, ab
  <2>3. t.quot \in Nat /\ t.rem \in Nat /\ t = [rem |-> t.rem, quot |-> t.quot]
    BY <2>2 DEF State
  <2>4. /\ t.quot \in Int /\ t.rem \in 0..(d - 1) /\ ab \in Int
        /\ ab = d * t.quot + t.rem
    BY <2>2, <2>3, <1>1
  <2>5. t.quot = q /\ t.rem = r
    BY <2>4, <1>1, DivUnique
  <2> HIDE DEF q, r
  <2>6. ~(q > MaxWord)
    BY <2>2, <2>3, <2>5, <1>1
  <2>7. long_division_ex(a, b, d) = t
    BY <1>3, <1>8 DEF t
  <2> QED BY <1>4, <2>3, <2>5, <2>6, <2>7
<1> QED BY <1>6, <1>7, <1>8
-----------------------------------------------------------------------------
(* Both builds                                                             *)

\* mul_div_floor and mul_div_ceil do not depend on whether the compiler has a
\* wider integer: the portable fallback of a governor's arithmetic returns the
\* same number, or fails as well, for all operands.
THEOREM BuildsComputeTheSame ==
  \A a, b, d \in Words : BuildsAgree(a, b, d)
<1> SUFFICES ASSUME NEW a \in Words, NEW b \in Words, NEW d \in Words
             PROVE  BuildsAgree(a, b, d)
  OBVIOUS
<1> DEFINE L == long_division_ex(a, b, d)
           W == WideDivision(a, b, d)
<1>1. CASE d = 0
  <2>1. L = None
    BY <1>1 DEF long_division_ex
  <2>2. mul_div_floor_reference(a, b, d) = None /\ mul_div_floor(a, b, d) = None
    BY <1>1, <2>1 DEF mul_div_floor_reference, mul_div_floor
  <2>3. mul_div_ceil_portable(a, b, d) = None /\ mul_div_ceil(a, b, d) = None
    BY <1>1 DEF mul_div_ceil_portable, mul_div_ceil
  <2> QED BY <2>2, <2>3 DEF BuildsAgree
<1>2. CASE d # 0
  <2>1. L = W
    BY <1>2, LongDivisionExact
  <2>2. mul_div_ceil_portable(a, b, d) = mul_div_ceil(a, b, d)
    BY <2>1 DEF mul_div_ceil_portable, mul_div_ceil
  <2>3. mul_div_floor_reference(a, b, d) = IF W = None THEN None ELSE W.quot
    <3> HIDE DEF W
    <3> QED BY <2>1 DEF mul_div_floor_reference
  <2>4. CASE a = 0 \/ b = 0
    <3>1. W.quot = 0 /\ W # None
      <4>1. a * b = 0
        BY <2>4, WordFacts
      <4>2. 0 \div d = 0 /\ 0 % d = 0 /\ ~(0 > MaxWord)
        BY <1>2, WordFacts
      <4>3. W = [rem |-> 0, quot |-> 0]
        BY <4>1, <4>2 DEF WideDivision
      <4>4. [rem |-> 0, quot |-> 0] \in [rem : Nat, quot : Nat]
        OBVIOUS
      <4>5. [rem |-> 0, quot |-> 0] # None
        BY <4>4, MulDivAssumption
      <4> HIDE DEF W
      <4> QED BY <4>3, <4>5
    <3>2. mul_div_floor(a, b, d) = 0
      BY <1>2, <2>4 DEF mul_div_floor
    <3> HIDE DEF W
    <3> QED BY <2>2, <2>3, <3>1, <3>2 DEF BuildsAgree
  <2>5. CASE ~(a = 0 \/ b = 0)
    <3>1. mul_div_floor(a, b, d) = IF W = None THEN None ELSE W.quot
      BY <1>2, <2>5 DEF mul_div_floor
    <3> HIDE DEF W
    <3> QED BY <2>2, <2>3, <3>1 DEF BuildsAgree
  <2> QED BY <2>4, <2>5
<1> QED BY <1>1, <1>2
-----------------------------------------------------------------------------
(* Sums over finite sets                                                   *)

\* A set that has every subset of S whose elements can be taken out one at a time
\* within it has all subsets of S.
LEMMA SubsetInduction ==
  ASSUME NEW S, IsFiniteSet(S), NEW P,
         \A T \in SUBSET S : (\A x \in T : T \ {x} \in P) => T \in P
  PROVE  SUBSET S \subseteq P
<1> DEFINE Bad == (SUBSET S) \ P
<1>1. SUFFICES ASSUME Bad # {} PROVE FALSE
  OBVIOUS
<1>2. IsWellFoundedOn(StrictSubsetOrdering(S), SUBSET S)
  BY FS_StrictSubsetOrderingWellFounded, FS_FiniteSubsetsOfFinite
<1>3. PICK T \in Bad : \A U \in Bad : ~(<<U, T>> \in StrictSubsetOrdering(S))
  <2>1. Bad \subseteq SUBSET S
    OBVIOUS
  <2> HIDE DEF Bad
  <2> QED BY <1>1, <1>2, <2>1, WFMin
<1>4. ASSUME NEW x \in T PROVE T \ {x} \in P
  <2>1. T \ {x} \in SUBSET S /\ T \ {x} \subseteq T /\ T \ {x} # T
    BY <1>4
  <2>2. <<T \ {x}, T>> \in StrictSubsetOrdering(S)
    BY <2>1 DEF StrictSubsetOrdering
  <2> QED BY <1>3, <2>1, <2>2
<1> QED BY <1>4

Taken(T) == CHOOSE x \in T : TRUE

\* g is the table of sums over the subsets of S that the fold computes.
Adds(g, f, S) ==
  g = [T \in SUBSET S |-> IF T = {} THEN 0 ELSE f[Taken(T)] + g[T \ {Taken(T)}]]

\* The fold is the value of that table at S.
LEMMA SumIsFold ==
  ASSUME NEW f, NEW S
  PROVE  SumFunctionOnSet(f, S) = (CHOOSE g : Adds(g, f, S))[S]
BY DEF SumFunctionOnSet, FoldFunctionOnSet, MapThenFoldSet, Adds, Taken

\* The same table, read entry by entry.
LEMMA AddsFacts ==
  ASSUME NEW f, NEW S, NEW g
  PROVE  Adds(g, f, S) <=>
           /\ g = [T \in SUBSET S |-> g[T]]
           /\ \A T \in SUBSET S :
                g[T] = IF T = {} THEN 0 ELSE f[Taken(T)] + g[T \ {Taken(T)}]
BY DEF Adds

\* Sums over subsets of at most n elements can be tabulated.
LEMMA TableExists ==
  ASSUME NEW S, IsFiniteSet(S), NEW f, \A x \in S : f[x] \in Nat
  PROVE  \E g \in [SUBSET S -> Nat] : Adds(g, f, S)
<1> DEFINE Upto(g, n) ==
      \A T \in SUBSET S : Cardinality(T) <= n =>
        g[T] = IF T = {} THEN 0 ELSE f[Taken(T)] + g[T \ {Taken(T)}]
    Q == {n \in Nat : \E g \in [SUBSET S -> Nat] : Upto(g, n)}
<1>0. \A T \in SUBSET S : /\ IsFiniteSet(T) /\ Cardinality(T) \in Nat
                          /\ Cardinality(T) <= Cardinality(S)
                          /\ Cardinality(T) = 0 <=> T = {}
  BY FS_Subset, FS_CardinalityType, FS_EmptySet
<1>1. 0 \in Q
  <2> DEFINE g == [T \in SUBSET S |-> 0]
  <2>1. Upto(g, 0)
    BY <1>0
  <2>2. g \in [SUBSET S -> Nat]
    OBVIOUS
  <2> HIDE DEF g
  <2> QED BY <2>1, <2>2
<1>2. ASSUME NEW n \in Nat, n \in Q PROVE n + 1 \in Q
  <2>1. PICK h \in [SUBSET S -> Nat] : Upto(h, n)
    BY <1>2
  <2> DEFINE g == [T \in SUBSET S |->
                     IF Cardinality(T) = n + 1 THEN f[Taken(T)] + h[T \ {Taken(T)}] ELSE h[T]]
  <2>2. ASSUME NEW T \in SUBSET S, T # {}
        PROVE  /\ Taken(T) \in T /\ Taken(T) \in S /\ T \ {Taken(T)} \in SUBSET S
               /\ Cardinality(T \ {Taken(T)}) = Cardinality(T) - 1
    BY <2>2, <1>0, FS_RemoveElement DEF Taken
  <2>3. g \in [SUBSET S -> Nat]
    <3> SUFFICES ASSUME NEW T \in SUBSET S PROVE g[T] \in Nat
      OBVIOUS
    <3>1. CASE Cardinality(T) = n + 1
      <4>1. T # {}
        BY <3>1, <1>0
      <4>2. f[Taken(T)] \in Nat /\ h[T \ {Taken(T)}] \in Nat
        BY <4>1, <2>2
      <4> QED BY <4>2, <3>1
    <3> QED BY <3>1
  <2>4. ASSUME NEW T \in SUBSET S, Cardinality(T) <= n + 1
        PROVE  g[T] = IF T = {} THEN 0 ELSE f[Taken(T)] + g[T \ {Taken(T)}]
    <3>1. CASE T = {}
      <4>1. Cardinality(T) = 0 /\ 0 # n + 1 /\ 0 <= n
        BY <3>1, <1>0
      <4> QED BY <4>1, <3>1, <2>1
    <3>2. CASE T # {}
      <4> DEFINE R == T \ {Taken(T)}
      <4>1. R \in SUBSET S /\ Cardinality(R) = Cardinality(T) - 1 /\ Cardinality(T) \in Nat
        BY <3>2, <2>2, <1>0
      <4>2. g[R] = h[R]
        <5>1. Cardinality(R) # n + 1
          BY <4>1, <2>4
        <5> HIDE DEF R
        <5> QED BY <4>1, <5>1
      <4>3. CASE Cardinality(T) = n + 1
        BY <4>2, <4>3, <3>2
      <4>4. CASE Cardinality(T) <= n
        <5>1. g[T] = h[T]
          BY <4>4
        <5>2. h[T] = f[Taken(T)] + h[R]
          BY <4>4, <3>2, <2>1
        <5> QED BY <5>1, <5>2, <4>2, <3>2
      <4> QED BY <4>1, <4>3, <4>4, <2>4
    <3> QED BY <3>1, <3>2
  <2> HIDE DEF g
  <2>5. Upto(g, n + 1)
    BY <2>4
  <2>6. \E k \in [SUBSET S -> Nat] : Upto(k, n + 1)
    <3> HIDE DEF Upto
    <3> QED BY <2>3, <2>5
  <2> HIDE DEF Upto
  <2> QED BY <2>6
<1>3. Cardinality(S) \in Q
  <2> HIDE DEF Q
  <2> QED BY <1>1, <1>2, Induction, FS_CardinalityType
<1>4. PICK g \in [SUBSET S -> Nat] : Upto(g, Cardinality(S))
  BY <1>3
<1>5. \A T \in SUBSET S : g[T] = IF T = {} THEN 0 ELSE f[Taken(T)] + g[T \ {Taken(T)}]
  BY <1>4, <1>0
<1> QED BY <1>5, AddsFacts

\* Two tables agree where both are defined.
LEMMA TablesAgree ==
  ASSUME NEW S, IsFiniteSet(S), NEW f, NEW T \in SUBSET S, NEW g, Adds(g, f, S),
         NEW h, Adds(h, f, T)
  PROVE  g[T] = h[T]
<1> DEFINE P == {U \in SUBSET T : g[U] = h[U]}
<1>1. ASSUME NEW U \in SUBSET T, \A x \in U : U \ {x} \in P
      PROVE  U \in P
  <2>1. /\ g[U] = IF U = {} THEN 0 ELSE f[Taken(U)] + g[U \ {Taken(U)}]
        /\ h[U] = IF U = {} THEN 0 ELSE f[Taken(U)] + h[U \ {Taken(U)}]
    BY AddsFacts
  <2>2. CASE U = {}
    BY <2>1, <2>2
  <2>3. CASE U # {}
    <3>1. Taken(U) \in U
      BY <2>3 DEF Taken
    <3>2. g[U \ {Taken(U)}] = h[U \ {Taken(U)}]
      BY <3>1, <1>1
    <3> QED BY <2>1, <2>3, <3>2
  <2> QED BY <2>2, <2>3
<1>2. IsFiniteSet(T)
  BY FS_Subset
<1>3. SUBSET T \subseteq P
  <2> HIDE DEF P
  <2> QED BY <1>1, <1>2, SubsetInduction
<1> QED BY <1>3

\* The sum over the empty set is zero, and the sum over another set is that over
\* the set without the element taken, and that element.
LEMMA SumSteps ==
  ASSUME NEW S, IsFiniteSet(S), NEW f, \A x \in S : f[x] \in Nat
  PROVE  /\ SumFunctionOnSet(f, S) \in Nat
         /\ S = {} => SumFunctionOnSet(f, S) = 0
         /\ S # {} => SumFunctionOnSet(f, S)
                        = f[Taken(S)] + SumFunctionOnSet(f, S \ {Taken(S)})
<1> DEFINE G(T) == CHOOSE g : Adds(g, f, T)
<1>1. ASSUME NEW T \in SUBSET S
      PROVE  Adds(G(T), f, T)
  <2>1. IsFiniteSet(T) /\ \A x \in T : f[x] \in Nat
    BY FS_Subset
  <2>2. \E g : Adds(g, f, T)
    BY <2>1, TableExists
  <2> QED BY <2>2
<1>2. \A T \in SUBSET S : SumFunctionOnSet(f, T) = G(T)[T]
  BY SumIsFold
<1>3. Adds(G(S), f, S)
  BY <1>1
<1> HIDE DEF G
<1>4. PICK g \in [SUBSET S -> Nat] : Adds(g, f, S)
  BY TableExists
<1>5. ASSUME NEW T \in SUBSET S PROVE SumFunctionOnSet(f, T) = g[T]
  BY <1>1, <1>2, <1>4, TablesAgree
<1>6. g[S] = IF S = {} THEN 0 ELSE f[Taken(S)] + g[S \ {Taken(S)}]
  BY <1>4, AddsFacts
<1>7. S \in SUBSET S /\ S \ {Taken(S)} \in SUBSET S /\ g[S] \in Nat
  BY <1>4
<1> QED BY <1>5, <1>6, <1>7

\* Sums of natural numbers are natural numbers.
LEMMA SumType ==
  ASSUME NEW S, IsFiniteSet(S), NEW f, \A x \in S : f[x] \in Nat
  PROVE  SumFunctionOnSet(f, S) \in Nat
BY SumSteps

\* The sum over no elements.
LEMMA SumEmpty ==
  ASSUME NEW f
  PROVE  SumFunctionOnSet(f, {}) = 0
BY SumSteps, FS_EmptySet

\* Any element may be taken out of a sum.
LEMMA SumWithout ==
  ASSUME NEW S, IsFiniteSet(S), NEW f, \A x \in S : f[x] \in Nat, NEW x \in S
  PROVE  SumFunctionOnSet(f, S) = f[x] + SumFunctionOnSet(f, S \ {x})
<1> DEFINE Sum(T) == SumFunctionOnSet(f, T)
           P == {T \in SUBSET S : \A y \in T : Sum(T) = f[y] + Sum(T \ {y})}
<1>1. ASSUME NEW T \in SUBSET S
      PROVE  /\ Sum(T) \in Nat
             /\ T # {} => Taken(T) \in T /\ Sum(T) = f[Taken(T)] + Sum(T \ {Taken(T)})
  <2>1. IsFiniteSet(T) /\ \A y \in T : f[y] \in Nat
    BY FS_Subset
  <2> QED BY <2>1, SumSteps DEF Taken
<1> HIDE DEF Sum
<1>2. ASSUME NEW T \in SUBSET S, \A y \in T : T \ {y} \in P
      PROVE  T \in P
  <2> SUFFICES ASSUME NEW y \in T PROVE Sum(T) = f[y] + Sum(T \ {y})
    OBVIOUS
  <2> DEFINE z == Taken(T)
  <2>1. z \in T /\ Sum(T) = f[z] + Sum(T \ {z})
    BY <1>1
  <2> HIDE DEF z
  <2>2. CASE z = y
    BY <2>1, <2>2
  <2>3. CASE z # y
    <3>1. Sum(T \ {z}) = f[y] + Sum((T \ {z}) \ {y})
      BY <1>2, <2>1, <2>3
    <3>2. Sum(T \ {y}) = f[z] + Sum((T \ {y}) \ {z})
      BY <1>2, <2>1, <2>3
    <3>3. (T \ {z}) \ {y} = (T \ {y}) \ {z}
      OBVIOUS
    <3>4. Sum((T \ {y}) \ {z}) \in Nat /\ f[y] \in Nat /\ f[z] \in Nat
      BY <1>1, <2>1
    <3> QED BY <2>1, <3>1, <3>2, <3>3, <3>4
  <2> QED BY <2>2, <2>3
<1>3. SUBSET S \subseteq P
  <2> HIDE DEF P
  <2> QED BY <1>2, SubsetInduction
<1> QED BY <1>3 DEF Sum

\* Another element.
LEMMA SumWith ==
  ASSUME NEW S, IsFiniteSet(S), NEW f, \A x \in S : f[x] \in Nat, NEW x, x \notin S,
         f[x] \in Nat
  PROVE  SumFunctionOnSet(f, S \cup {x}) = f[x] + SumFunctionOnSet(f, S)
<1>1. IsFiniteSet(S \cup {x}) /\ (S \cup {x}) \ {x} = S
  BY FS_AddElement
<1> QED BY <1>1, SumWithout, x \in S \cup {x}

\* A sum over fewer elements, each no larger, is no larger.
LEMMA SumMonotone ==
  ASSUME NEW S, IsFiniteSet(S), NEW f, \A x \in S : f[x] \in Nat,
         NEW T \in SUBSET S, NEW g, \A x \in T : g[x] \in Nat /\ g[x] <= f[x]
  PROVE  SumFunctionOnSet(g, T) <= SumFunctionOnSet(f, S)
<1> DEFINE F(U) == SumFunctionOnSet(f, U)
           G(U) == SumFunctionOnSet(g, U)
           P == {U \in SUBSET S : G(U \cap T) <= F(U)}
<1>1. \A U \in SUBSET S : IsFiniteSet(U) /\ IsFiniteSet(U \cap T) /\ F(U) \in Nat /\ G(U \cap T) \in Nat
  <2> SUFFICES ASSUME NEW U \in SUBSET S
               PROVE  IsFiniteSet(U) /\ IsFiniteSet(U \cap T) /\ F(U) \in Nat /\ G(U \cap T) \in Nat
    OBVIOUS
  <2>1. IsFiniteSet(U) /\ IsFiniteSet(U \cap T)
    BY FS_Subset, U \cap T \in SUBSET S
  <2>2. (\A x \in U : f[x] \in Nat) /\ (\A x \in U \cap T : g[x] \in Nat)
    OBVIOUS
  <2> QED BY <2>1, <2>2, SumType
<1>2. ASSUME NEW U \in SUBSET S, \A x \in U : U \ {x} \in P
      PROVE  U \in P
  <2>1. CASE U = {}
    <3>1. G(U \cap T) = 0 /\ F(U) = 0
      <4>1. U \cap T = {}
        BY <2>1
      <4> QED BY <4>1, <2>1, SumEmpty
    <3> HIDE DEF F, G
    <3> QED BY <3>1
  <2>2. ASSUME NEW x \in U PROVE U \in P
    <3>1. F(U) = f[x] + F(U \ {x}) /\ f[x] \in Nat
      BY <1>1, SumWithout
    <3>2. G((U \ {x}) \cap T) <= F(U \ {x})
      BY <1>2
    <3>3. F(U \ {x}) \in Nat /\ G((U \ {x}) \cap T) \in Nat
      BY <1>1
    <3>4. CASE x \in T
      <4>1. (U \cap T) \ {x} = (U \ {x}) \cap T /\ x \in U \cap T
        BY <3>4
      <4>2. (\A y \in U \cap T : g[y] \in Nat) /\ IsFiniteSet(U \cap T)
        BY <1>1
      <4>3. G(U \cap T) = g[x] + G((U \cap T) \ {x})
        BY <4>1, <4>2, SumWithout
      <4>4. g[x] \in Nat /\ g[x] <= f[x]
        BY <3>4
      <4> HIDE DEF F, G
      <4>5. G(U \cap T) <= F(U)
        BY <3>1, <3>2, <3>3, <4>1, <4>3, <4>4
      <4> QED BY <4>5
    <3>5. CASE x \notin T
      <4>1. U \cap T = (U \ {x}) \cap T
        BY <3>5
      <4>2. G(U \cap T) = G((U \ {x}) \cap T)
        BY <4>1
      <4> HIDE DEF F, G
      <4>3. G(U \cap T) <= F(U)
        BY <3>1, <3>2, <3>3, <4>2, x \in S
      <4> QED BY <4>3
    <3> QED BY <3>4, <3>5
  <2> QED BY <2>1, <2>2
<1>3. S \in P
  <2>1. SUBSET S \subseteq P
    <3> HIDE DEF P
    <3> QED BY <1>2, SubsetInduction
  <2> QED BY <2>1
<1>4. S \cap T = T
  OBVIOUS
<1> QED BY <1>3, <1>4

\* A sum depends on the values of its elements alone.
LEMMA SumSame ==
  ASSUME NEW S, IsFiniteSet(S), NEW f, \A x \in S : f[x] \in Nat,
         NEW g, \A x \in S : g[x] = f[x]
  PROVE  SumFunctionOnSet(g, S) = SumFunctionOnSet(f, S)
<1>1. (\A x \in S : g[x] \in Nat /\ g[x] <= f[x]) /\ (\A x \in S : f[x] <= g[x])
  OBVIOUS
<1>2. SumFunctionOnSet(g, S) <= SumFunctionOnSet(f, S)
  BY <1>1, SumMonotone
<1>3. SumFunctionOnSet(f, S) <= SumFunctionOnSet(g, S)
  BY <1>1, SumMonotone
<1> QED BY <1>1, <1>2, <1>3, SumType

\* An element is no larger than the sum.
LEMMA SumCovers ==
  ASSUME NEW S, IsFiniteSet(S), NEW f, \A x \in S : f[x] \in Nat, NEW x \in S
  PROVE  f[x] <= SumFunctionOnSet(f, S)
<1>1. SumFunctionOnSet(f, S) = f[x] + SumFunctionOnSet(f, S \ {x})
  BY SumWithout
<1>2. SumFunctionOnSet(f, S \ {x}) \in Nat
  <2>1. IsFiniteSet(S \ {x}) /\ \A y \in S \ {x} : f[y] \in Nat
    BY FS_RemoveElement
  <2> QED BY <2>1, SumType
<1> QED BY <1>1, <1>2
-----------------------------------------------------------------------------
(* Floors, minima and ratios                                               *)

\* A non-empty set of numbers has a least element, and Min finds it.
LEMMA MinFacts ==
  ASSUME NEW S, S \subseteq Nat, S # {}
  PROVE  Min(S) \in S /\ \A x \in S : Min(S) <= x
<1>1. PICK x \in S : \A y \in S : ~(<<y, x>> \in Below)
  BY BelowWellFounded, WFMin
<1>2. ASSUME NEW y \in S PROVE x <= y
  <2>1. x \in Nat /\ y \in Nat /\ <<y, x>>[1] = y /\ <<y, x>>[2] = x
    OBVIOUS
  <2>2. ~(y < x)
    <3>1. y < x => <<y, x>> \in Below
      BY <2>1 DEF Below
    <3> QED BY <3>1, <1>1
  <2> QED BY <2>1, <2>2
<1> QED BY <1>2 DEF Min

\* There is no first fault if and only if no entry is at fault, and otherwise it
\* is that of an entry before which there is none.
LEMMA FirstFaultFacts ==
  ASSUME NEW n \in Nat, NEW faults, DOMAIN faults = 1..n
  PROVE  /\ FirstFault(faults) = None <=> \A i \in 1..n : faults[i] = None
         /\ FirstFault(faults) # None =>
              \E i \in 1..n : /\ FirstFault(faults) = faults[i]
                              /\ \A j \in 1..(i - 1) : faults[j] = None
<1> DEFINE faulty == {i \in DOMAIN faults : faults[i] # None}
<1>1. CASE faulty = {}
  <2>1. FirstFault(faults) = None
    BY <1>1 DEF FirstFault
  <2> QED BY <2>1, <1>1
<1>2. CASE faulty # {}
  <2>1. Min(faulty) \in faulty /\ \A x \in faulty : Min(faulty) <= x
    BY <1>2, MinFacts, faulty \subseteq Nat
  <2>2. FirstFault(faults) = faults[Min(faulty)]
    BY <1>2 DEF FirstFault
  <2> DEFINE m == Min(faulty)
  <2>3. m \in 1..n
    BY <2>1
  <2>4. \A j \in 1..(m - 1) : j \in 1..n /\ j \notin faulty
    <3> HIDE DEF m
    <3> SUFFICES ASSUME NEW j \in 1..(m - 1), j \in faulty PROVE FALSE
      BY <2>3
    <3>1. m <= j
      BY <2>1 DEF m
    <3> QED BY <3>1, <2>3
  <2>5. faults[m] # None
    BY <2>1
  <2>6. FirstFault(faults) = faults[m] /\ \A j \in 1..(m - 1) : faults[j] = None
    BY <2>2, <2>4
  <2> HIDE DEF m
  <2> QED BY <2>3, <2>5, <2>6
<1> QED BY <1>1, <1>2

\* A larger dividend has no smaller quotient.
LEMMA DivMonotone ==
  ASSUME NEW a \in Nat, NEW b \in Nat, a <= b, NEW n \in Nat \ {0}
  PROVE  a \div n <= b \div n
<1> DEFINE p == a \div n
           q == b \div n
<1>1. /\ p \in Nat /\ q \in Nat
      /\ n * p <= a /\ b < n * q + n
  BY DivModNat
<1> HIDE DEF p, q
<1>2. ~(p >= q + 1)
  <2> SUFFICES ASSUME p >= q + 1 PROVE FALSE
    OBVIOUS
  <2>1. n * p >= n * (q + 1)
    <3>1. \A x, y \in Nat : x >= y => n * x >= n * y
      OBVIOUS
    <3> QED BY <3>1, <1>1
  <2>2. n * (q + 1) = n * q + n
    BY <1>1
  <2>3. n * p \in Nat /\ n * q \in Nat
    BY <1>1
  <2> QED BY <1>1, <2>1, <2>2, <2>3
<1> QED BY <1>1, <1>2 DEF p, q

\* mul_div_floor returns the exact floor, or fails if that is not a word.
LEMMA FloorExact ==
  ASSUME NEW a \in Nat, NEW b \in Nat, NEW d \in Nat \ {0}
  PROVE  /\ (a * b) \div d \in Nat
         /\ mul_div_floor(a, b, d) = Checked((a * b) \div d)
<1>1. a * b \in Nat /\ (a = 0 \/ b = 0 => a * b = 0)
  OBVIOUS
<1>2. (a * b) \div d \in Nat
  BY <1>1, DivModNat
<1>3. 0 \div d = 0 /\ MaxWord \in Nat
  BY WordFacts
<1>4. CASE a = 0 \/ b = 0
  <2>1. (a * b) \div d = 0 /\ mul_div_floor(a, b, d) = 0
    BY <1>1, <1>3, <1>4 DEF mul_div_floor
  <2> QED BY <2>1, <1>3 DEF Checked
<1>5. CASE ~(a = 0 \/ b = 0)
  <2> DEFINE q == (a * b) \div d
             r == (a * b) % d
  <2>1. q \in Nat /\ r \in Nat
    BY <1>1, DivModNat
  <2>2. [rem |-> r, quot |-> q] # None
    <3> HIDE DEF q, r
    <3>1. [rem |-> r, quot |-> q] \in [rem : Nat, quot : Nat]
      BY <2>1
    <3> QED BY <3>1, MulDivAssumption
  <2>3. WideDivision(a, b, d) = IF q > MaxWord THEN None ELSE [rem |-> r, quot |-> q]
    BY DEF WideDivision
  <2>4. mul_div_floor(a, b, d) =
          IF WideDivision(a, b, d) = None THEN None ELSE WideDivision(a, b, d).quot
    BY <1>5 DEF mul_div_floor
  <2> HIDE DEF q, r
  <2>5. CASE q > MaxWord
    <3>1. mul_div_floor(a, b, d) = None
      BY <2>3, <2>4, <2>5
    <3>2. ~(q <= MaxWord)
      BY <2>1, <2>5, <1>3
    <3> QED BY <3>1, <3>2, <1>2 DEF Checked, q
  <2>6. CASE ~(q > MaxWord)
    <3>1. mul_div_floor(a, b, d) = q
      BY <2>2, <2>3, <2>4, <2>6
    <3>2. q <= MaxWord
      BY <2>1, <2>6, <1>3
    <3> QED BY <3>1, <3>2, <1>2 DEF Checked, q
  <2> QED BY <2>5, <2>6
<1> QED BY <1>2, <1>4, <1>5

\* A checked number is a word unless it is None.
LEMMA CheckedFacts ==
  ASSUME NEW n \in Nat
  PROVE  /\ Checked(n) \in Words \cup {None}
         /\ Checked(n) = None <=> n > MaxWord
         /\ Checked(n) # None => Checked(n) = n
<1>1. MaxWord \in Nat /\ None # n
  BY WordFacts, MulDivAssumption
<1> QED BY <1>1 DEF Checked, Words

\* What dividing and rounding down loses is not authority.
LEMMA FloorBelow ==
  ASSUME NEW a \in Nat, NEW b \in Nat, NEW d \in Nat \ {0}, mul_div_floor(a, b, d) # None
  PROVE  /\ mul_div_floor(a, b, d) \in Words
         /\ mul_div_floor(a, b, d) * d <= a * b
<1> DEFINE q == (a * b) \div d
<1>1. q \in Nat /\ mul_div_floor(a, b, d) = q /\ q \in Words
  <2>1. q \in Nat /\ mul_div_floor(a, b, d) = Checked(q)
    BY FloorExact
  <2> HIDE DEF q
  <2> QED BY <2>1, CheckedFacts
<1>2. a * b \in Nat
  OBVIOUS
<1>3. q * d <= a * b
  <2>1. d * q + ((a * b) % d) = a * b /\ ((a * b) % d) \in Nat
    BY <1>2, DivModNat
  <2> HIDE DEF q
  <2> QED BY <2>1, <1>1, <1>2
<1> QED BY <1>1, <1>3

\* A share of a word is a word.
LEMMA ShareFits ==
  ASSUME NEW a \in Words, NEW s \in 0..kPpmScale
  PROVE  mul_div_floor(a, s, kPpmScale) \in Words /\ mul_div_floor(a, s, kPpmScale) <= a
<1>1. kPpmScale \in Nat \ {0} /\ a \in Nat /\ s \in Nat /\ MaxWord \in Nat /\ a <= MaxWord
  BY WordFacts, EngineAssumption DEF Words
<1>2. a * s <= a * kPpmScale /\ a * s \in Nat /\ a * kPpmScale \in Nat
  <2>1. \A x, y \in Nat : x <= y => a * x <= a * y
    BY <1>1
  <2> QED BY <1>1, <2>1
<1>3. (a * s) \div kPpmScale <= (a * kPpmScale) \div kPpmScale
  BY <1>1, <1>2, DivMonotone
<1>4. (a * kPpmScale) \div kPpmScale = a
  <2>1. a * kPpmScale = kPpmScale * a + 0 /\ 0 \in 0..(kPpmScale - 1)
    BY <1>1
  <2> QED BY <2>1, <1>1, <1>2, DivUnique
<1>5. (a * s) \div kPpmScale \in Nat /\ mul_div_floor(a, s, kPpmScale) = Checked((a * s) \div kPpmScale)
  BY <1>1, FloorExact
<1>6. Checked((a * s) \div kPpmScale) = (a * s) \div kPpmScale
  BY <1>1, <1>3, <1>4, <1>5, CheckedFacts
<1> QED BY <1>1, <1>3, <1>4, <1>5, <1>6, CheckedFacts

\* Products keep the order of their factors.
LEMMA TimesMonotone ==
  ASSUME NEW x \in Nat, NEW y \in Nat, NEW z \in Nat, x <= y
  PROVE  x * z <= y * z /\ z * x <= z * y
OBVIOUS

\* A positive factor can be taken out of an inequality.
LEMMA TimesCancel ==
  ASSUME NEW x \in Nat, NEW y \in Nat, NEW z \in Nat \ {0}, x * z <= y * z
  PROVE  x <= y
<1> SUFFICES ASSUME x >= y + 1 PROVE FALSE
  OBVIOUS
<1>1. (y + 1) * z <= x * z
  BY TimesMonotone
<1>2. (y + 1) * z = y * z + z /\ y * z \in Nat /\ x * z \in Nat
  OBVIOUS
<1> QED BY <1>1, <1>2

\* What stays within a ratio stays within a larger one.
LEMMA RatioWithin ==
  ASSUME NEW a \in Ratio, NEW b \in Ratio, ratio_ge(b, a),
         NEW x \in Nat, NEW y \in Nat, x * a.den <= y * a.num
  PROVE  x * b.den <= y * b.num
<1> DEFINE an == a.num
           ad == a.den
           bn == b.num
           bd == b.den
<1>1. an \in Nat \ {0} /\ ad \in Nat \ {0} /\ bn \in Nat \ {0} /\ bd \in Nat \ {0}
  BY DEF Ratio
<1>2. an * bd <= bn * ad /\ x * ad <= y * an
  BY <1>1 DEF ratio_ge
<1> HIDE DEF an, ad, bn, bd
<1>3. x * ad \in Nat /\ y * an \in Nat /\ an * bd \in Nat /\ bn * ad \in Nat
      /\ x * bd \in Nat /\ y * bn \in Nat
  BY <1>1
<1>4. (x * ad) * bd <= (y * an) * bd
  BY <1>1, <1>2, <1>3, TimesMonotone
<1>5. y * (an * bd) <= y * (bn * ad)
  BY <1>1, <1>2, <1>3, TimesMonotone
<1>6. (x * ad) * bd = (x * bd) * ad /\ (y * an) * bd = y * (an * bd) /\ y * (bn * ad) = (y * bn) * ad
  BY <1>1
<1>7. (x * bd) * ad <= (y * bn) * ad
  <2>1. (x * ad) * bd \in Nat /\ (y * an) * bd \in Nat /\ y * (bn * ad) \in Nat
    BY <1>1, <1>3
  <2> QED BY <2>1, <1>4, <1>5, <1>6
<1>8. x * bd <= y * bn
  BY <1>1, <1>3, <1>7, TimesCancel
<1> QED BY <1>8 DEF bn, bd

\* Ratios are compared as numbers are.
LEMMA RatioOrder ==
  ASSUME NEW a \in Ratio, NEW b \in Ratio, NEW c \in Ratio
  PROVE  /\ ratio_ge(a, a)
         /\ ratio_ge(a, b) \/ ratio_ge(b, a)
         /\ ratio_ge(a, b) /\ ratio_ge(b, c) => ratio_ge(a, c)
<1>1. /\ a.num \in Nat \ {0} /\ a.den \in Nat \ {0} /\ b.num \in Nat \ {0}
      /\ b.den \in Nat \ {0} /\ c.num \in Nat \ {0} /\ c.den \in Nat \ {0}
  BY DEF Ratio
<1>2. ratio_ge(a, a)
  <2>1. a.num * a.den \in Nat
    BY <1>1
  <2> QED BY <2>1 DEF ratio_ge
<1>3. ratio_ge(a, b) \/ ratio_ge(b, a)
  <2>1. a.num * b.den \in Nat /\ b.num * a.den \in Nat
    BY <1>1
  <2> QED BY <2>1 DEF ratio_ge
<1>4. ASSUME ratio_ge(a, b), ratio_ge(b, c) PROVE ratio_ge(a, c)
  <2>1. c.num * b.den <= c.den * b.num
    <3>1. b.num * c.den >= c.num * b.den
      BY <1>4 DEF ratio_ge
    <3>2. b.num * c.den = c.den * b.num /\ c.den * b.num \in Nat /\ c.num * b.den \in Nat
      BY <1>1
    <3> QED BY <3>1, <3>2
  <2>2. c.num * a.den <= c.den * a.num
    BY <2>1, <1>1, <1>4, RatioWithin
  <2>3. c.den * a.num = a.num * c.den /\ a.num * c.den \in Nat /\ c.num * a.den \in Nat
    BY <1>1
  <2> QED BY <2>2, <2>3 DEF ratio_ge
<1> QED BY <1>2, <1>3, <1>4

\* Lower is one of the two, and no larger than either.
LEMMA LowerFacts ==
  ASSUME NEW a \in Ratio, NEW b \in Ratio
  PROVE  /\ Lower(a, b) \in {a, b} /\ Lower(a, b) \in Ratio
         /\ ratio_ge(a, Lower(a, b)) /\ ratio_ge(b, Lower(a, b))
<1>1. CASE ratio_lt(b, a)
  <2>1. Lower(a, b) = b /\ ~ratio_ge(b, a)
    BY <1>1 DEF Lower, ratio_lt
  <2> QED BY <2>1, RatioOrder
<1>2. CASE ~ratio_lt(b, a)
  <2>1. Lower(a, b) = a /\ ratio_ge(b, a)
    BY <1>2 DEF Lower, ratio_lt
  <2> QED BY <2>1, RatioOrder
<1> QED BY <1>1, <1>2

\* The one is lower than the other if both its arguments are.
LEMMA LowerMonotone ==
  ASSUME NEW a \in Ratio, NEW b \in Ratio, NEW c \in Ratio, NEW d \in Ratio,
         ratio_ge(c, a), ratio_ge(d, b)
  PROVE  ratio_ge(Lower(c, d), Lower(a, b))
BY LowerFacts, RatioOrder

\* More capacity at a larger ratio is a larger ceiling, as far as it fits a word.
LEMMA FloorMonotone ==
  ASSUME NEW a \in Ratio, NEW b \in Ratio, ratio_ge(b, a),
         NEW x \in Nat, NEW y \in Nat, x <= y, mul_div_floor(y, b.num, b.den) # None
  PROVE  /\ mul_div_floor(x, a.num, a.den) # None
         /\ mul_div_floor(x, a.num, a.den) <= mul_div_floor(y, b.num, b.den)
<1>1. /\ a.num \in Nat \ {0} /\ a.den \in Nat \ {0}
      /\ b.num \in Nat \ {0} /\ b.den \in Nat \ {0}
  BY DEF Ratio
<1> DEFINE p == (x * a.num) \div a.den
           q == (y * b.num) \div b.den
<1>2. /\ p \in Nat /\ q \in Nat
      /\ mul_div_floor(x, a.num, a.den) = Checked(p)
      /\ mul_div_floor(y, b.num, b.den) = Checked(q)
  BY <1>1, FloorExact
<1>3. p * a.den <= x * a.num
  <2>1. x * a.num \in Nat
    BY <1>1
  <2> DEFINE w == x * a.num
             k == a.den
  <2>2. w \in Nat /\ k \in Nat \ {0} /\ p = w \div k
    BY <1>1, <2>1
  <2> HIDE DEF w, k, p
  <2>3. k * p + (w % k) = w /\ (w % k) \in Nat
    BY <2>2, DivModNat
  <2>4. p * k <= w
    BY <2>2, <2>3, <1>2
  <2> QED BY <2>4 DEF w, k
<1>4. p * b.den <= x * b.num
  <2> HIDE DEF p
  <2> QED BY <1>2, <1>3, RatioWithin
<1>5. x * b.num <= y * b.num /\ x * b.num \in Nat /\ y * b.num \in Nat /\ p * b.den \in Nat
  <2> HIDE DEF p
  <2> QED BY <1>1, <1>2, TimesMonotone
<1>6. (p * b.den) \div b.den <= q
  <2>1. p * b.den <= y * b.num
    BY <1>4, <1>5
  <2> HIDE DEF p
  <2> QED BY <2>1, <1>1, <1>5, DivMonotone
<1>7. (p * b.den) \div b.den = p
  <2> HIDE DEF p
  <2>1. p * b.den = b.den * p + 0 /\ 0 \in 0..(b.den - 1)
    BY <1>1, <1>2
  <2> QED BY <2>1, <1>1, <1>2, <1>5, DivUnique
<1> HIDE DEF p, q
<1>8. p <= q
  BY <1>6, <1>7
<1>9. MaxWord \in Nat
  BY WordFacts
<1> QED BY <1>2, <1>8, <1>9, CheckedFacts
-----------------------------------------------------------------------------
(* The state is the inputs and what evaluate_domain makes of them          *)

Inputs ==
  /\ policy \in Policies
  /\ DOMAIN capacity \subseteq Member /\ \A r \in DOMAIN capacity : capacity[r] \in Reports
  /\ guarantees \in Seq(Guarantees) /\ admissions \in Seq(Admissions)

Evaluated ==
  /\ fault = EntryFault /\ totals = Totals /\ outcome = VerdictOutcome
  /\ authorized_increment_units = Increment /\ intents = Intents

IInv == Inputs /\ Evaluated

\* Nothing but the state is an input of evaluate_domain.
LEMMA EvaluatedStutter == Evaluated /\ UNCHANGED vars => Evaluated'
<1> SUFFICES ASSUME Evaluated, UNCHANGED vars PROVE Evaluated'
  OBVIOUS
<1>1. /\ policy' = policy /\ capacity' = capacity /\ guarantees' = guarantees
      /\ admissions' = admissions /\ fault' = fault /\ totals' = totals /\ outcome' = outcome
      /\ authorized_increment_units' = authorized_increment_units /\ intents' = intents
  BY DEF vars
<1> USE <1>1
<1>2. EntryFault' = EntryFault
  BY DEF EntryFault, FirstFault, MemberFault, GuaranteeFault, AdmissionFault, InScope,
         GuaranteedOn, Guaranteed, OfKind, Eligible, Committed, Pending, AdmissionOverflows,
         Reserved, TooLarge
<1>3. Totals' = Totals
  BY DEF Totals, Candidates, EffectiveRatio, degraded, EffectiveUsable, Reserved, Guaranteed,
         InScope, Contingent, Burst, OfKind, Eligible, Committed
<1>4. /\ Closed' = Closed /\ InputFault' = InputFault
      /\ overage' = overage /\ contingent_free' = contingent_free
      /\ contingent_ceiling' = contingent_ceiling /\ BurstExceeded' = BurstExceeded
  BY DEF Closed, InputFault, overage, contingent_free, contingent_ceiling, BurstExceeded,
         protected_required, floor_required, committed_total, ceiling_total,
         guarantees_total, contingent_committed, burst_committed
<1>5. /\ Unmapped' = Unmapped /\ IneligibleDemand' = IneligibleDemand
      /\ ineligible_amount' = ineligible_amount
  BY DEF Unmapped, IneligibleDemand, ineligible_amount, OfKind, InScope, Eligible, Committed,
         Pending, Guaranteed
<1>6. /\ FloorOutcome' = FloorOutcome /\ Shortfall' = Shortfall
  BY DEF FloorOutcome, Shortfall, GuaranteedOn, Guaranteed, InScope, EffectiveUsable,
         protected_required, floor_required, committed_total, ceiling_total, guarantees_total,
         contingent_committed, effective_usable_capacity
<1>7. ShareExceeded' = ShareExceeded /\ ShareIntent' = ShareIntent
  BY <1>4 DEF ShareExceeded, ShareIntent, ShareExcess, ContingentOf, Committed, Contingent,
         OfKind, InScope, Eligible
<1>8. OverageOutcome' = OverageOutcome
  BY <1>4 DEF OverageOutcome, ceiling_total
<1>9. VerdictOutcome' = VerdictOutcome
  BY <1>4, <1>5, <1>6, <1>7, <1>8 DEF VerdictOutcome, DomainOutcome
<1>10. Increment' = Increment
  BY <1>4 DEF Increment
<1>11. RejectIntents' = RejectIntents
  BY DEF RejectIntents
<1>12. FinishIntents' = FinishIntents
  BY <1>4, <1>5, <1>6, <1>7, <1>11 DEF FinishIntents, RejectedForShare, OverageIntent,
         ShortfallIntents, burst_committed, contingent_committed
<1>13. Intents' = Intents
  BY <1>4, <1>11, <1>12 DEF Intents
<1> QED BY <1>2, <1>3, <1>9, <1>10, <1>13 DEF Evaluated

\* A step replaces one input by another admissible one and evaluates.
LEMMA NextInv == IInv /\ [Next]_vars => IInv'
<1> SUFFICES ASSUME IInv, [Next]_vars PROVE IInv'
  OBVIOUS
<1>1. ASSUME NEW g \in Guarantees, Reserve(g) PROVE IInv'
  <2>1. guarantees' \in Seq(Guarantees)
    BY <1>1 DEF IInv, Inputs, Reserve
  <2> QED BY <2>1, <1>1 DEF IInv, Inputs, Evaluated, Reserve, Evaluate
<1>2. ASSUME NEW a \in Admissions, Admit(a) PROVE IInv'
  <2>1. admissions' \in Seq(Admissions)
    BY <1>2 DEF IInv, Inputs, Admit
  <2> QED BY <2>1, <1>2 DEF IInv, Inputs, Evaluated, Admit, Evaluate
<1>3. ASSUME NEW r \in Member, NEW report \in Reports, LoseCapacity(r, report) PROVE IInv'
  <2>1. Inputs'
    BY <1>3 DEF IInv, Inputs, LoseCapacity
  <2> QED BY <2>1, <1>3 DEF IInv, Evaluated, LoseCapacity, Evaluate
<1>4. ASSUME NEW r \in Member, LoseMember(r) PROVE IInv'
  <2>1. Inputs'
    BY <1>4 DEF IInv, Inputs, LoseMember
  <2> QED BY <2>1, <1>4 DEF IInv, Evaluated, LoseMember, Evaluate
<1>5. CASE UNCHANGED vars
  <2>1. Inputs'
    BY <1>5 DEF IInv, Inputs, vars
  <2> QED BY <2>1, <1>5, EvaluatedStutter DEF IInv
<1> QED BY <1>1, <1>2, <1>3, <1>4, <1>5 DEF Next

\* The inputs stay admissible, and the verdict is the one they deserve.
LEMMA Invariance == Spec => []IInv
<1>1. Init => IInv
  <2> SUFFICES ASSUME Init PROVE IInv
    OBVIOUS
  <2>1. << >> \in Seq(Guarantees) /\ << >> \in Seq(Admissions)
    OBVIOUS
  <2> QED BY <2>1 DEF Init, IInv, Inputs, Evaluated
<1> QED BY <1>1, NextInv, PTL DEF Spec
-----------------------------------------------------------------------------
(* Amounts and their sums                                                  *)

\* Guaranteed, Committed and Pending as functions of the snapshot.
Held(s, S)  == SumFunctionOnSet([i \in DOMAIN s |-> s[i].guaranteed_capacity], S)
Used(s, S)  == SumFunctionOnSet([i \in DOMAIN s |-> s[i].committed_capacity], S)
Asked(s, S) == SumFunctionOnSet([i \in DOMAIN s |-> s[i].pending_capacity], S)

\* Entries and members are finitely many.
LEMMA Finitely ==
  /\ IsFiniteSet(Member) /\ Member # {}
  /\ \A V : \A s \in Seq(V) : \A S \in SUBSET DOMAIN s : IsFiniteSet(S)
<1>1. ASSUME NEW V, NEW s \in Seq(V), NEW S \in SUBSET DOMAIN s PROVE IsFiniteSet(S)
  <2>1. DOMAIN s = 1..Len(s) /\ Len(s) \in Nat
    OBVIOUS
  <2>2. IsFiniteSet(1..Len(s))
    BY <2>1, FS_Interval
  <2> QED BY <2>1, <2>2, FS_Subset
<1>2. IsFiniteSet(DOMAIN Members)
  BY <1>1, EngineAssumption
<1>3. Members \in Surjection(DOMAIN Members, Member)
  BY EngineAssumption DEF Surjection, Member
<1>4. IsFiniteSet(Member)
  BY <1>2, <1>3, FS_Surjection
<1>5. Member # {}
  <2>1. Members # << >> /\ Members \in Seq(Member)
    BY EngineAssumption
  <2>2. 1 \in DOMAIN Members
    BY <2>1
  <2> QED BY <2>2 DEF Member
<1> QED BY <1>1, <1>4, <1>5

\* Sums of guarantees are numbers, and grow with the entries counted.
LEMMA HeldFacts ==
  ASSUME NEW s \in Seq(Guarantees), NEW T \in SUBSET DOMAIN s
  PROVE  Held(s, T) \in Nat /\ \A S \in SUBSET T : Held(s, S) <= Held(s, T)
<1> DEFINE f == [i \in DOMAIN s |-> s[i].guaranteed_capacity]
<1>1. \A i \in DOMAIN s : s[i] \in Guarantees
  OBVIOUS
<1>2. \A i \in DOMAIN s : f[i] \in Nat
  BY <1>1, SnapshotAssumption, WordFacts DEF Words
<1>3. IsFiniteSet(T) /\ \A S \in SUBSET T : IsFiniteSet(S)
  BY Finitely, FS_Subset
<1> HIDE DEF f
<1>4. SumFunctionOnSet(f, T) \in Nat
  BY <1>2, <1>3, SumType
<1>5. ASSUME NEW S \in SUBSET T
      PROVE  SumFunctionOnSet(f, S) <= SumFunctionOnSet(f, T)
  <2>1. (\A x \in T : f[x] \in Nat) /\ \A x \in S : f[x] \in Nat /\ f[x] <= f[x]
    BY <1>2
  <2> QED BY <2>1, <1>3, SumMonotone
<1> QED BY <1>4, <1>5 DEF f, Held

\* The same for demand, which also has the demand of a new entry added.
LEMMA DemandFacts ==
  ASSUME NEW s \in Seq(Admissions), NEW T \in SUBSET DOMAIN s
  PROVE  /\ Used(s, T) \in Nat /\ Asked(s, T) \in Nat
         /\ \A S \in SUBSET T : Used(s, S) <= Used(s, T) /\ Asked(s, S) <= Asked(s, T)
<1> DEFINE f == [i \in DOMAIN s |-> s[i].committed_capacity]
           g == [i \in DOMAIN s |-> s[i].pending_capacity]
<1>1. \A i \in DOMAIN s : s[i] \in Admissions
  OBVIOUS
<1>2. \A i \in DOMAIN s : f[i] \in Nat /\ g[i] \in Nat
  BY <1>1, SnapshotAssumption, WordFacts DEF Words
<1>3. IsFiniteSet(T) /\ \A S \in SUBSET T : IsFiniteSet(S)
  BY Finitely, FS_Subset
<1> HIDE DEF f, g
<1>4. SumFunctionOnSet(f, T) \in Nat /\ SumFunctionOnSet(g, T) \in Nat
  BY <1>2, <1>3, SumType
<1>5. ASSUME NEW S \in SUBSET T
      PROVE  /\ SumFunctionOnSet(f, S) <= SumFunctionOnSet(f, T)
             /\ SumFunctionOnSet(g, S) <= SumFunctionOnSet(g, T)
  <2>1. (\A x \in T : f[x] \in Nat) /\ \A x \in S : f[x] \in Nat /\ f[x] <= f[x]
    BY <1>2
  <2>2. (\A x \in T : g[x] \in Nat) /\ \A x \in S : g[x] \in Nat /\ g[x] <= g[x]
    BY <1>2
  <2> QED BY <2>1, <2>2, <1>3, SumMonotone
<1> QED BY <1>4, <1>5 DEF f, g, Used, Asked

\* An entry that is appended adds its demand where it is counted.
LEMMA AppendDemand ==
  ASSUME NEW s \in Seq(Admissions), NEW a \in Admissions, NEW S \in SUBSET DOMAIN s
  PROVE  /\ Used(Append(s, a), S) = Used(s, S) /\ Asked(Append(s, a), S) = Asked(s, S)
         /\ Used(Append(s, a), S \cup {Len(s) + 1}) = a.committed_capacity + Used(s, S)
         /\ Asked(Append(s, a), S \cup {Len(s) + 1}) = a.pending_capacity + Asked(s, S)
<1> DEFINE n == Len(s) + 1
           t == Append(s, a)
           f == [i \in DOMAIN s |-> s[i].committed_capacity]
           g == [i \in DOMAIN s |-> s[i].pending_capacity]
           ff == [i \in DOMAIN t |-> t[i].committed_capacity]
           gg == [i \in DOMAIN t |-> t[i].pending_capacity]
<1>1. /\ t \in Seq(Admissions) /\ DOMAIN t = 1..n /\ DOMAIN s = 1..(n - 1) /\ n \in Nat
      /\ t[n] = a /\ \A i \in DOMAIN s : t[i] = s[i]
  OBVIOUS
<1>2. IsFiniteSet(S) /\ n \notin S
  BY <1>1, Finitely
<1>3. \A i \in DOMAIN s : i \in DOMAIN t /\ s[i] \in Admissions
  BY <1>1
<1>4. \A i \in S : f[i] \in Nat /\ g[i] \in Nat /\ ff[i] = f[i] /\ gg[i] = g[i]
  <2>1. \A i \in S : i \in DOMAIN s /\ i \in DOMAIN t /\ t[i] = s[i] /\ s[i] \in Admissions
    BY <1>1, <1>3
  <2> HIDE DEF t
  <2> QED BY <2>1, SnapshotAssumption, WordFacts DEF Words
<1>5. ff[n] = a.committed_capacity /\ gg[n] = a.pending_capacity
      /\ a.committed_capacity \in Nat /\ a.pending_capacity \in Nat
  <2>1. n \in DOMAIN t
    BY <1>1
  <2> HIDE DEF t
  <2> QED BY <2>1, <1>1, SnapshotAssumption, WordFacts DEF Words
<1> HIDE DEF f, g, ff, gg, n
<1>6. SumFunctionOnSet(ff, S) = SumFunctionOnSet(f, S) /\ SumFunctionOnSet(gg, S) = SumFunctionOnSet(g, S)
  BY <1>2, <1>4, SumSame
<1>7. \A i \in S : ff[i] \in Nat /\ gg[i] \in Nat
  BY <1>4
<1>8. /\ SumFunctionOnSet(ff, S \cup {n}) = ff[n] + SumFunctionOnSet(ff, S)
      /\ SumFunctionOnSet(gg, S \cup {n}) = gg[n] + SumFunctionOnSet(gg, S)
  BY <1>2, <1>5, <1>7, SumWith
<1> QED BY <1>5, <1>6, <1>8 DEF f, g, ff, gg, n, Used, Asked
-----------------------------------------------------------------------------
(* Snapshots without a fault                                               *)

\* None is no outcome.
LEMMA NoneFacts == \A o \in Outcome : o # None
BY EngineAssumption

\* What has been checked when no entry is at fault.
LEMMA CleanFacts ==
  ASSUME Inputs, EntryFault = None
  PROVE  /\ DOMAIN capacity = Member
         /\ \A r \in Member : capacity[r].health # "Unknown"
         /\ \A i \in DOMAIN guarantees : GuaranteeFault(i) = None
         /\ Reserved <= MaxWord
         /\ \A i \in DOMAIN admissions : AdmissionFault(i) = None
         /\ ~TooLarge
<1> DEFINE m == [i \in DOMAIN Members |-> MemberFault(i)]
           g == [i \in DOMAIN guarantees |-> GuaranteeFault(i)]
           a == [i \in DOMAIN admissions |-> AdmissionFault(i)]
<1>1. "Unknown" # None /\ "ConflictingInput" # None
  BY NoneFacts DEF Outcome
<1>2. /\ FirstFault(m) = None /\ FirstFault(g) = None /\ FirstFault(a) = None
      /\ ~(Reserved > MaxWord) /\ ~TooLarge
  BY <1>1 DEF EntryFault
<1>3. /\ DOMAIN Members = 1..Len(Members) /\ Len(Members) \in Nat
      /\ DOMAIN guarantees = 1..Len(guarantees) /\ Len(guarantees) \in Nat
      /\ DOMAIN admissions = 1..Len(admissions) /\ Len(admissions) \in Nat
  BY EngineAssumption DEF Inputs
<1>4. /\ \A i \in DOMAIN Members : m[i] = None
      /\ \A i \in DOMAIN guarantees : g[i] = None
      /\ \A i \in DOMAIN admissions : a[i] = None
  <2>1. DOMAIN m = 1..Len(Members) /\ DOMAIN g = 1..Len(guarantees) /\ DOMAIN a = 1..Len(admissions)
    BY <1>3
  <2> HIDE DEF m, g, a
  <2> QED BY <1>2, <1>3, <2>1, FirstFaultFacts
<1>5. ASSUME NEW r \in Member PROVE r \in DOMAIN capacity /\ capacity[r].health # "Unknown"
  <2>1. PICK i \in DOMAIN Members : r = Members[i]
    BY DEF Member
  <2>2. MemberFault(i) = None
    BY <1>4, <2>1
  <2> QED BY <1>1, <2>1, <2>2 DEF MemberFault
<1>6. Reserved <= MaxWord
  <2>1. Reserved \in Nat /\ MaxWord \in Nat
    BY HeldFacts, WordFacts DEF Inputs, Reserved, Guaranteed, Held, InScope
  <2> QED BY <1>2, <2>1
<1> QED BY <1>2, <1>4, <1>5, <1>6 DEF Inputs

\* A member carries no more than it reports usable, whatever its health.
LEMMA UsableFacts ==
  ASSUME Inputs, EntryFault = None, NEW r \in Member
  PROVE  /\ EffectiveUsable(r) \in Nat /\ capacity[r].usable \in Nat
         /\ capacity[r].physical \in Nat
         /\ EffectiveUsable(r) <= capacity[r].usable
         /\ capacity[r].health = "Healthy" => EffectiveUsable(r) = capacity[r].usable
         /\ capacity[r].health = "Failed" => EffectiveUsable(r) = 0
         /\ capacity[r].health = "Degraded" =>
              EffectiveUsable(r) = mul_div_floor(capacity[r].usable, capacity[r].degraded_capacity_ppm, kPpmScale)
<1> DEFINE c == capacity[r]
<1>1. /\ c \in Reports /\ c.health # "Unknown"
  BY CleanFacts DEF Inputs
<1>2. /\ c.usable \in Words /\ c.physical \in Words /\ c.degraded_capacity_ppm \in 0..kPpmScale
      /\ c.health \in {"Healthy", "Degraded", "Failed"}
  <2> HIDE DEF c
  <2> QED BY <1>1, SnapshotAssumption
<1>3. /\ c.health = "Healthy" => EffectiveUsable(r) = c.usable
      /\ c.health = "Failed" => EffectiveUsable(r) = 0
      /\ c.health = "Degraded" =>
           EffectiveUsable(r) = mul_div_floor(c.usable, c.degraded_capacity_ppm, kPpmScale)
  BY DEF EffectiveUsable
<1> HIDE DEF c
<1>4. c.usable \in Nat /\ c.physical \in Nat
  BY <1>2, WordFacts DEF Words
<1>5. CASE c.health = "Degraded"
  <2> DEFINE q == mul_div_floor(c.usable, c.degraded_capacity_ppm, kPpmScale)
  <2>1. q \in Words /\ q <= c.usable
    BY <1>2, ShareFits
  <2>2. q \in Nat
    BY <2>1, WordFacts DEF Words
  <2> HIDE DEF q
  <2>3. EffectiveUsable(r) = q
    BY <1>3, <1>5 DEF q
  <2> QED BY <1>3, <1>4, <2>1, <2>2, <2>3 DEF c
<1> QED BY <1>2, <1>3, <1>4, <1>5 DEF c

\* The capacity of the domain, of which every member's is a part.
LEMMA CapacityFacts ==
  ASSUME Inputs, EntryFault = None
  PROVE  /\ SumFunction([r \in Member |-> EffectiveUsable(r)]) \in 0..max_capacity_units
         /\ SumFunction([r \in Member |-> EffectiveUsable(r)]) \in Words
<1> DEFINE e == [r \in Member |-> EffectiveUsable(r)]
           u == [r \in Member |-> capacity[r].usable]
<1>1. \A r \in Member : e[r] \in Nat /\ u[r] \in Nat /\ e[r] <= u[r]
  BY UsableFacts
<1>2. DOMAIN e = Member /\ DOMAIN u = Member
  OBVIOUS
<1>3. SumFunction(u) \in Nat /\ ~(SumFunction(u) > max_capacity_units)
  <2>1. ~(SumFunction(u) > max_capacity_units)
    BY CleanFacts DEF TooLarge
  <2> HIDE DEF u
  <2> QED BY <1>1, <1>2, <2>1, Finitely, SumType DEF SumFunction
<1> HIDE DEF e, u
<1>4. SumFunction(e) \in Nat /\ SumFunction(e) <= SumFunction(u)
  <2>1. \A r \in Member : u[r] \in Nat
    BY <1>1
  <2> QED BY <1>1, <1>2, <2>1, Finitely, SumType, SumMonotone DEF SumFunction
<1>5. max_capacity_units \in 1..MaxWord /\ MaxWord \in Nat
  BY EngineAssumption, WordFacts
<1> QED BY <1>3, <1>4, <1>5 DEF e, Words

\* What validate_policy has made sure of.
LEMMA PolicyFacts ==
  ASSUME Inputs
  PROVE  /\ policy.policy_ratio_cap \in Ratio /\ policy.configured_ratio \in Ratio
         /\ policy.degraded_ratio_cap # None => policy.degraded_ratio_cap \in Ratio
         /\ OneToOne \in Ratio
         /\ policy.emergency_reserve_units \in Nat /\ policy.min_protected_headroom_units \in Nat
         /\ policy.burst_pool_cap_units # None => policy.burst_pool_cap_units \in Nat
         /\ policy.max_exposure_units # None => policy.max_exposure_units \in Nat
         /\ policy.max_exposure_ppm # None => policy.max_exposure_ppm \in 0..(10 * kPpmScale)
         /\ policy.emergency_overage_ppm \in 1..kPpmScale
         /\ \A c \in DOMAIN policy.classes :
              policy.classes[c].contingent_share_cap_ppm # None =>
                policy.classes[c].contingent_share_cap_ppm \in 0..kPpmScale
         /\ kPpmScale \in Nat \ {0} /\ max_capacity_units \in Nat
<1>1. ValidPolicy(policy)
  BY EngineAssumption DEF Inputs
<1>2. max_capacity_units \in Nat /\ kPpmScale \in Nat \ {0}
  BY EngineAssumption, WordFacts
<1>3. OneToOne \in Ratio
  BY DEF OneToOne, Ratio
<1> QED BY <1>1, <1>2, <1>3 DEF ValidPolicy, ValidRatio

\* The ratio in force is below every ratio that applies, and its terms are words.
LEMMA RatioFacts ==
  ASSUME Inputs
  PROVE  /\ EffectiveRatio \in Ratio
         /\ EffectiveRatio.num \in Words /\ EffectiveRatio.den \in Words
         /\ ratio_ge(policy.policy_ratio_cap, EffectiveRatio)
         /\ ratio_ge(policy.configured_ratio, EffectiveRatio)
         /\ degraded => ratio_ge(IF policy.degraded_ratio_cap = None
                                 THEN OneToOne ELSE policy.degraded_ratio_cap, EffectiveRatio)
<1> DEFINE p == policy.policy_ratio_cap
           q == policy.configured_ratio
           d == IF policy.degraded_ratio_cap # None THEN policy.degraded_ratio_cap ELSE OneToOne
           Small(r) == r.num <= kHardMaxRatioTermBound /\ r.den <= kHardMaxRatioTermBound
<1>1. p \in Ratio /\ q \in Ratio /\ d \in Ratio
  BY PolicyFacts
<1>2. Small(p) /\ Small(q) /\ Small(d)
  <2>1. ValidPolicy(policy)
    BY EngineAssumption DEF Inputs
  <2>2. kHardMaxRatioTermBound >= 1
    BY EngineAssumption, WordFacts
  <2>3. Small(OneToOne)
    BY <2>2 DEF OneToOne
  <2> QED BY <2>1, <2>3 DEF ValidPolicy, ValidRatio
<1>3. EffectiveRatio = IF degraded THEN Lower(Lower(q, p), d) ELSE Lower(q, p)
  BY DEF EffectiveRatio
<1>4. d = IF policy.degraded_ratio_cap = None THEN OneToOne ELSE policy.degraded_ratio_cap
  OBVIOUS
<1> HIDE DEF p, q, d
<1>5. /\ Lower(q, p) \in Ratio /\ Lower(q, p) \in {p, q}
      /\ ratio_ge(q, Lower(q, p)) /\ ratio_ge(p, Lower(q, p))
  BY <1>1, LowerFacts
<1>6. /\ Lower(Lower(q, p), d) \in Ratio /\ Lower(Lower(q, p), d) \in {p, q, d}
      /\ ratio_ge(Lower(q, p), Lower(Lower(q, p), d)) /\ ratio_ge(d, Lower(Lower(q, p), d))
  BY <1>1, <1>5, LowerFacts
<1>7. /\ EffectiveRatio \in Ratio /\ EffectiveRatio \in {p, q, d}
      /\ ratio_ge(p, EffectiveRatio) /\ ratio_ge(q, EffectiveRatio)
      /\ degraded => ratio_ge(d, EffectiveRatio)
  BY <1>1, <1>3, <1>5, <1>6, RatioOrder
<1>8. EffectiveRatio.num \in Words /\ EffectiveRatio.den \in Words
  <2>1. EffectiveRatio.num \in Nat /\ EffectiveRatio.den \in Nat
    BY <1>7 DEF Ratio
  <2>2. Small(EffectiveRatio)
    BY <1>2, <1>7
  <2>3. kHardMaxRatioTermBound \in Nat /\ kHardMaxRatioTermBound <= MaxWord /\ MaxWord \in Nat
    BY EngineAssumption, WordFacts
  <2> QED BY <2>1, <2>2, <2>3 DEF Words
<1> QED BY <1>4, <1>7, <1>8 DEF p, q, d
-----------------------------------------------------------------------------
(* The totals of snapshots that add up                                     *)

\* What is left of a number, or nothing.
LEMMA ExcessFacts ==
  ASSUME NEW a \in Nat, NEW b \in Nat
  PROVE  /\ Excess(a, b) \in Nat /\ Excess(a, b) <= a
         /\ a > b => Excess(a, b) = a - b /\ Excess(a, b) > 0
         /\ a <= b => Excess(a, b) = 0
BY DEF Excess

\* What can be wrong with the entries of a snapshot.
LEMMA FaultTypes ==
  ASSUME IInv
  PROVE  fault \in {None, "Unknown", "ConflictingInput"}
<1> DEFINE F == {None, "Unknown", "ConflictingInput"}
           m == [i \in DOMAIN Members |-> MemberFault(i)]
           g == [i \in DOMAIN guarantees |-> GuaranteeFault(i)]
           a == [i \in DOMAIN admissions |-> AdmissionFault(i)]
<1>1. /\ DOMAIN m = 1..Len(Members) /\ Len(Members) \in Nat
      /\ DOMAIN g = 1..Len(guarantees) /\ Len(guarantees) \in Nat
      /\ DOMAIN a = 1..Len(admissions) /\ Len(admissions) \in Nat
  BY EngineAssumption DEF IInv, Inputs
<1>2. \A i \in DOMAIN m : m[i] \in F
  BY DEF MemberFault
<1>3. \A i \in DOMAIN g : g[i] \in F
  BY DEF GuaranteeFault
<1>4. \A i \in DOMAIN a : a[i] \in F
  BY DEF AdmissionFault
<1> HIDE DEF m, g, a
<1>5. FirstFault(m) \in F /\ FirstFault(g) \in F /\ FirstFault(a) \in F
  BY <1>1, <1>2, <1>3, <1>4, FirstFaultFacts
<1>6. EntryFault \in F
  BY <1>5 DEF EntryFault, m, g, a
<1> QED BY <1>6 DEF IInv, Evaluated

\* The sums that evaluate_domain works with, and that burst demand is a part of
\* the contingent demand.
LEMMA TotalsFacts ==
  ASSUME IInv, fault = None
  PROVE  /\ EntryFault = None /\ guarantees_total = Reserved
         /\ effective_usable_capacity = SumFunction([r \in Member |-> EffectiveUsable(r)])
         /\ effective_usable_capacity \in Words /\ effective_usable_capacity <= max_capacity_units
         /\ ceiling_total = Ceiling(effective_usable_capacity, Candidates(effective_usable_capacity))
         /\ contingent_committed = Committed(Contingent) /\ burst_committed = Committed(Burst)
         /\ guarantees_total \in Words /\ contingent_committed \in Nat
         /\ burst_committed \in Nat /\ burst_committed <= contingent_committed
<1>1. EntryFault = None /\ Inputs /\ totals = Totals
  BY DEF IInv, Evaluated
<1> DEFINE eff == SumFunction([r \in Member |-> EffectiveUsable(r)])
<1>2. /\ effective_usable_capacity = eff /\ ceiling_total = Ceiling(eff, Candidates(eff))
      /\ guarantees_total = Reserved /\ contingent_committed = Committed(Contingent)
      /\ burst_committed = Committed(Burst)
  BY <1>1 DEF Totals, effective_usable_capacity, ceiling_total, guarantees_total,
              contingent_committed, burst_committed
<1>3. eff \in Words /\ eff <= max_capacity_units
  <2>1. eff \in 0..max_capacity_units /\ eff \in Words
    BY <1>1, CapacityFacts
  <2> HIDE DEF eff
  <2> QED BY <2>1, PolicyFacts, <1>1
<1>4. Reserved \in Words
  <2>1. Reserved \in Nat /\ MaxWord \in Nat
    BY <1>1, HeldFacts, WordFacts DEF Inputs, Reserved, Guaranteed, Held, InScope
  <2>2. Reserved <= MaxWord
    BY <1>1, CleanFacts
  <2> QED BY <2>1, <2>2 DEF Words
<1>5. /\ Committed(Contingent) \in Nat /\ Committed(Burst) \in Nat
      /\ Committed(Burst) <= Committed(Contingent)
  <2>1. Contingent \in SUBSET DOMAIN admissions /\ Burst \in SUBSET Contingent
    BY DEF Contingent, Burst, OfKind, InScope
  <2>2. Burst \in SUBSET DOMAIN admissions /\ admissions \in Seq(Admissions)
    BY <2>1, <1>1 DEF Inputs
  <2>3. \A S : Committed(S) = Used(admissions, S)
    BY DEF Committed, Used
  <2> QED BY <2>1, <2>2, <2>3, DemandFacts
<1> HIDE DEF eff
<1> QED BY <1>1, <1>2, <1>3, <1>4, <1>5 DEF eff

\* The ceiling is the least candidate, so below each of them.
LEMMA CeilingFacts ==
  ASSUME IInv, fault = None
  PROVE  LET eff == effective_usable_capacity
             u == policy.max_exposure_units
             ppm == policy.max_exposure_ppm
         IN  /\ ceiling_total \in Words \cup {None}
             /\ ceiling_total # None =>
                  /\ ceiling_total * EffectiveRatio.den <= eff * EffectiveRatio.num
                  /\ u # None => ceiling_total <= eff + u
                  /\ ppm # None => ceiling_total * kPpmScale <= eff * (kPpmScale + ppm)
<1> DEFINE eff == effective_usable_capacity
           u == policy.max_exposure_units
           ppm == policy.max_exposure_ppm
           num == EffectiveRatio.num
           den == EffectiveRatio.den
           byRatio == mul_div_floor(eff, num, den)
           C == Candidates(eff)
<1>1. /\ ceiling_total = Ceiling(eff, C) /\ eff \in Words /\ Inputs
  BY TotalsFacts DEF IInv
<1>2. /\ eff \in Nat /\ num \in Nat \ {0} /\ den \in Nat \ {0}
      /\ u # None => u \in Nat
      /\ ppm # None => ppm \in Nat
      /\ kPpmScale \in Nat \ {0} /\ 0 \in Words
  <2>1. EffectiveRatio \in Ratio
    BY <1>1, RatioFacts
  <2>2. num \in Nat \ {0} /\ den \in Nat \ {0}
    BY <2>1 DEF Ratio
  <2>3. eff \in Nat /\ 0 \in Words
    BY <1>1, WordFacts DEF Words
  <2>4. ppm # None => ppm \in Nat
    <3>1. ppm # None => ppm \in 0..(10 * kPpmScale)
      BY <1>1, PolicyFacts
    <3> HIDE DEF ppm
    <3> QED BY <3>1
  <2> QED BY <2>2, <2>3, <2>4, <1>1, PolicyFacts
<1>3. /\ byRatio \in C
      /\ u # None => Checked(eff + u) \in C
      /\ ppm # None => mul_div_floor(eff, kPpmScale + ppm, kPpmScale) \in C
      /\ \A c \in C : \/ c = byRatio
                      \/ u # None /\ c = Checked(eff + u)
                      \/ ppm # None /\ c = mul_div_floor(eff, kPpmScale + ppm, kPpmScale)
  BY DEF Candidates
<1> HIDE DEF eff, u, ppm, num, den, C
<1>4. /\ byRatio = Checked((eff * num) \div den) /\ (eff * num) \div den \in Nat
      /\ ppm # None => /\ (eff * (kPpmScale + ppm)) \div kPpmScale \in Nat
                       /\ mul_div_floor(eff, kPpmScale + ppm, kPpmScale)
                            = Checked((eff * (kPpmScale + ppm)) \div kPpmScale)
  <2>1. ppm # None => kPpmScale + ppm \in Nat
    BY <1>2
  <2> QED BY <2>1, <1>2, FloorExact
<1>5. \A c \in C : c \in Words \cup {None}
  <2>1. u # None => eff + u \in Nat
    BY <1>2
  <2> QED BY <2>1, <1>2, <1>3, <1>4, CheckedFacts
<1>6. ASSUME None \notin C, eff # 0
      PROVE  ceiling_total \in C /\ ceiling_total \in Words /\ \A c \in C : ceiling_total <= c
  <2>1. C \subseteq Nat /\ C # {}
    BY <1>3, <1>5, <1>6, WordFacts DEF Words
  <2>2. ceiling_total = Min(C)
    BY <1>1, <1>6 DEF Ceiling
  <2> QED BY <2>1, <2>2, <1>5, <1>6, MinFacts
<1>7. ceiling_total \in Words \cup {None}
  BY <1>1, <1>2, <1>6 DEF Ceiling
<1>8. ASSUME ceiling_total # None
      PROVE  /\ ceiling_total * den <= eff * num
             /\ u # None => ceiling_total <= eff + u
             /\ ppm # None => ceiling_total * kPpmScale <= eff * (kPpmScale + ppm)
  <2>1. None \notin C
    BY <1>1, <1>8 DEF Ceiling
  <2>2. CASE eff = 0
    <3>1. ceiling_total = 0
      BY <1>1, <2>1, <2>2 DEF Ceiling
    <3> QED BY <3>1, <2>2, <1>2
  <2>3. CASE eff # 0
    <3>1. ceiling_total \in Nat /\ \A c \in C : ceiling_total <= c
      BY <1>6, <2>1, <2>3, WordFacts DEF Words
    <3>2. ceiling_total * den <= eff * num
      <4>1. byRatio # None
        BY <1>3, <2>1
      <4>2. byRatio \in Nat /\ byRatio * den <= eff * num /\ ceiling_total <= byRatio
        BY <4>1, <3>1, <1>2, <1>3, FloorBelow, WordFacts DEF Words
      <4> HIDE DEF byRatio
      <4>3. ceiling_total * den <= byRatio * den
        BY <4>2, <3>1, <1>2, TimesMonotone
      <4>4. ceiling_total * den \in Nat /\ byRatio * den \in Nat /\ eff * num \in Nat
        BY <4>2, <3>1, <1>2
      <4> QED BY <4>2, <4>3, <4>4
    <3>3. ASSUME u # None PROVE ceiling_total <= eff + u
      <4>1. Checked(eff + u) # None /\ eff + u \in Nat
        BY <1>2, <1>3, <2>1, <3>3
      <4>2. Checked(eff + u) = eff + u
        BY <4>1, CheckedFacts
      <4> QED BY <4>2, <3>1, <3>3, <1>3
    <3>4. ASSUME ppm # None
          PROVE  ceiling_total * kPpmScale <= eff * (kPpmScale + ppm)
      <4> DEFINE q == mul_div_floor(eff, kPpmScale + ppm, kPpmScale)
      <4>1. q # None /\ ceiling_total <= q /\ kPpmScale + ppm \in Nat
        BY <1>2, <1>3, <2>1, <3>1, <3>4
      <4>2. q \in Nat /\ q * kPpmScale <= eff * (kPpmScale + ppm)
        BY <4>1, <1>2, FloorBelow, WordFacts DEF Words
      <4> HIDE DEF q
      <4>3. ceiling_total * kPpmScale <= q * kPpmScale
        BY <4>1, <4>2, <3>1, <1>2, TimesMonotone
      <4>4. ceiling_total * kPpmScale \in Nat /\ q * kPpmScale \in Nat /\ eff * (kPpmScale + ppm) \in Nat
        BY <4>1, <4>2, <3>1, <1>2
      <4> QED BY <4>2, <4>3, <4>4
    <3> QED BY <3>2, <3>3, <3>4
  <2> QED BY <2>2, <2>3
<1> QED BY <1>7, <1>8 DEF eff, u, ppm, num, den

\* Every quantity of the accounting is a word when the inputs add up.
LEMMA ClosedFacts ==
  ASSUME IInv, InputFault = None
  PROVE  /\ fault = None /\ Closed
         /\ ceiling_total \in Words /\ floor_required \in Words /\ committed_total \in Words
         /\ protected_required \in Nat /\ guarantees_total \in Nat
         /\ effective_usable_capacity \in Words
         /\ contingent_committed \in Nat /\ burst_committed \in Nat
         /\ guarantees_total <= protected_required /\ protected_required <= floor_required
         /\ floor_required = protected_required + policy.min_protected_headroom_units
         /\ committed_total = guarantees_total + contingent_committed
         /\ burst_committed <= contingent_committed
         /\ contingent_ceiling \in Words /\ contingent_ceiling <= ceiling_total
         /\ overage \in Words /\ contingent_free \in Words /\ contingent_free <= contingent_ceiling
<1>1. fault = None /\ Closed /\ Inputs
  BY NoneFacts DEF InputFault, IInv, Outcome
<1>2. /\ guarantees_total \in Words /\ contingent_committed \in Nat
      /\ burst_committed \in Nat /\ burst_committed <= contingent_committed
      /\ effective_usable_capacity \in Words
  BY <1>1, TotalsFacts
<1>3. policy.emergency_reserve_units \in Nat /\ policy.min_protected_headroom_units \in Nat
  BY <1>1, PolicyFacts
<1>4. ceiling_total \in Words
  BY <1>1, CeilingFacts DEF Closed
<1>5. /\ floor_required <= MaxWord /\ committed_total <= MaxWord
      /\ protected_required = guarantees_total + policy.emergency_reserve_units
      /\ floor_required = protected_required + policy.min_protected_headroom_units
      /\ committed_total = guarantees_total + contingent_committed
  BY <1>1 DEF Closed, protected_required, floor_required, committed_total
<1> DEFINE n == guarantees_total
           c == contingent_committed
           e == policy.emergency_reserve_units
           h == policy.min_protected_headroom_units
           p == protected_required
           f == floor_required
           t == committed_total
<1>6. n \in Nat /\ c \in Nat /\ e \in Nat /\ h \in Nat /\ MaxWord \in Nat
      /\ f <= MaxWord /\ t <= MaxWord /\ p = n + e /\ f = p + h /\ t = n + c
  BY <1>2, <1>3, <1>5, WordFacts DEF Words
<1> HIDE DEF n, c, e, h, p, f, t
<1>7. p \in Nat /\ n <= p /\ p <= f /\ f \in Words /\ t \in Words /\ c <= t
  BY <1>6 DEF Words
<1>8. /\ contingent_ceiling = Excess(ceiling_total, p) /\ overage = Excess(t, ceiling_total)
      /\ contingent_free = Excess(contingent_ceiling, c)
  BY DEF contingent_ceiling, overage, contingent_free, p, t, c
<1>9. ceiling_total \in Nat /\ ceiling_total <= MaxWord /\ t \in Nat /\ t <= MaxWord
  BY <1>4, <1>7, WordFacts DEF Words
<1>10. contingent_ceiling \in Words /\ contingent_ceiling <= ceiling_total
  <2>1. contingent_ceiling \in Nat /\ contingent_ceiling <= ceiling_total
    BY <1>7, <1>8, <1>9, ExcessFacts
  <2> QED BY <2>1, <1>6, <1>9 DEF Words
<1>11. overage \in Words
  <2>1. overage \in Nat /\ overage <= t
    BY <1>8, <1>9, ExcessFacts
  <2> QED BY <2>1, <1>6, <1>9 DEF Words
<1>12. contingent_free \in Words /\ contingent_free <= contingent_ceiling
  <2>1. contingent_ceiling \in Nat /\ contingent_ceiling <= MaxWord
    BY <1>10, <1>6 DEF Words
  <2>2. contingent_free \in Nat /\ contingent_free <= contingent_ceiling
    BY <2>1, <1>6, <1>8, ExcessFacts
  <2> QED BY <2>1, <2>2, <1>6 DEF Words
<1> QED BY <1>1, <1>2, <1>4, <1>5, <1>6, <1>7, <1>10, <1>11, <1>12 DEF n, c, p, f, t

\* Only inputs that add up lead to a verdict on the domain.
LEMMA VerdictFacts ==
  ASSUME IInv
  PROVE  /\ InputFault \in {None, "Unknown", "ConflictingInput"}
         /\ outcome = IF InputFault # None THEN InputFault ELSE DomainOutcome
         /\ DomainOutcome \in {"WithinPolicy", "AtLimit", "ReductionRequired", "EmergencyReduction",
                               "PolicyRejected", "ConflictingInput"}
         /\ outcome \in {"WithinPolicy", "AtLimit", "ReductionRequired", "EmergencyReduction"} =>
              /\ InputFault = None
              /\ outcome = DomainOutcome /\ ~Unmapped /\ ~IneligibleDemand
<1>1. InputFault \in {None, "Unknown", "ConflictingInput"}
  BY FaultTypes DEF InputFault
<1>2. outcome = IF InputFault # None THEN InputFault ELSE DomainOutcome
  BY DEF IInv, Evaluated, VerdictOutcome
<1>3. /\ FloorOutcome \in {None, "EmergencyReduction", "PolicyRejected", "AtLimit"}
      /\ OverageOutcome \in {"EmergencyReduction", "ReductionRequired"}
  BY DEF FloorOutcome, OverageOutcome
<1>4. DomainOutcome \in {"WithinPolicy", "AtLimit", "ReductionRequired", "EmergencyReduction",
                         "PolicyRejected", "ConflictingInput"}
  BY <1>3 DEF DomainOutcome
<1> QED BY <1>1, <1>2, <1>4 DEF DomainOutcome
-----------------------------------------------------------------------------
(* Types                                                                   *)

\* The verdict is an outcome the code has, and every quantity that is reported
\* fits a word, whatever the snapshots and the policy.
THEOREM TypeCorrect == Spec => []TypeOK
<1>1. ASSUME IInv PROVE TypeOK
  <2>1. outcome \in Outcome \ {"Stale"}
    BY <1>1, VerdictFacts DEF Outcome
  <2>2. authorized_increment_units \in 0..MaxWord
    <3>1. CASE outcome = "WithinPolicy"
      <4>1. contingent_free \in Words
        BY <1>1, <3>1, VerdictFacts, ClosedFacts
      <4> QED BY <1>1, <3>1, <4>1 DEF IInv, Evaluated, Increment, Words
    <3>2. CASE outcome # "WithinPolicy"
      BY <1>1, <3>2, WordFacts DEF IInv, Evaluated, Increment
    <3> QED BY <3>1, <3>2
  <2>3. ASSUME InputFault = None,
               NEW n \in {effective_usable_capacity, ceiling_total, floor_required, committed_total}
        PROVE  n \in 0..MaxWord
    BY <1>1, <2>3, ClosedFacts DEF Words
  <2> QED BY <2>1, <2>2, <2>3 DEF TypeOK
<1> QED BY <1>1, Invariance, PTL
-----------------------------------------------------------------------------
(* What is authorised                                                      *)

\* All checks on the way to an authorisation have been passed.
LEMMA WithinPolicyFacts ==
  ASSUME IInv, outcome = "WithinPolicy"
  PROVE  /\ InputFault = None /\ ~Unmapped /\ ~IneligibleDemand
         /\ FloorOutcome = None /\ ~(overage > 0)
         /\ ~BurstExceeded /\ ~ShareExceeded /\ contingent_free # 0
         /\ authorized_increment_units = contingent_free
<1>1. InputFault = None /\ DomainOutcome = "WithinPolicy" /\ ~Unmapped /\ ~IneligibleDemand
  BY VerdictFacts
<1>2. FloorOutcome = None
  <2>1. FloorOutcome \in {None, "EmergencyReduction", "PolicyRejected", "AtLimit"}
    BY DEF FloorOutcome
  <2> QED BY <1>1, <2>1 DEF DomainOutcome
<1>3. ~(overage > 0)
  <2>1. OverageOutcome \in {"EmergencyReduction", "ReductionRequired"}
    BY DEF OverageOutcome
  <2> QED BY <1>1, <1>2, <2>1 DEF DomainOutcome
<1>4. ~BurstExceeded /\ ~ShareExceeded /\ contingent_free # 0
  BY <1>1, <1>2, <1>3 DEF DomainOutcome
<1> QED BY <1>1, <1>2, <1>3, <1>4 DEF IInv, Evaluated, Increment

\* A floor that is respected leaves room for every guarantee and withheld unit.
LEMMA FloorFacts ==
  ASSUME IInv, InputFault = None, FloorOutcome = None
  PROVE  /\ \A r \in Member : ~(GuaranteedOn(r, Len(guarantees)) > EffectiveUsable(r))
         /\ protected_required <= effective_usable_capacity
         /\ floor_required <= effective_usable_capacity /\ floor_required <= ceiling_total
         /\ effective_usable_capacity # 0
<1>1. /\ ~(\E r \in Member : GuaranteedOn(r, Len(guarantees)) > EffectiveUsable(r))
      /\ ~(protected_required > effective_usable_capacity)
      /\ ~(floor_required > effective_usable_capacity) /\ ~(floor_required > ceiling_total)
      /\ effective_usable_capacity # 0
  BY NoneFacts DEF FloorOutcome, Outcome
<1>2. /\ protected_required \in Nat /\ effective_usable_capacity \in Nat
      /\ floor_required \in Nat /\ ceiling_total \in Nat
  BY ClosedFacts, WordFacts DEF Words
<1> QED BY <1>1, <1>2

\* Reservations on a resource are a number.
LEMMA GuaranteedOnFacts ==
  ASSUME Inputs, NEW r, NEW upto
  PROVE  GuaranteedOn(r, upto) \in Nat
<1>1. {i \in InScope(guarantees) : i <= upto /\ guarantees[i].resource = r} \in SUBSET DOMAIN guarantees
  BY DEF InScope
<1> QED BY <1>1, HeldFacts DEF Inputs, GuaranteedOn, Guaranteed, Held

\* What is promised, withheld, committed and authorised together is the ceiling.
LEMMA AuthorityFillsCeiling ==
  ASSUME IInv, outcome = "WithinPolicy"
  PROVE  protected_required + contingent_committed + authorized_increment_units = ceiling_total
<1> DEFINE p == protected_required
           c == contingent_committed
           t == ceiling_total
           k == contingent_ceiling
           u == contingent_free
<1>1. u # 0 /\ authorized_increment_units = u
  BY WithinPolicyFacts
<1>2. p \in Nat /\ c \in Nat /\ t \in Nat /\ k \in Nat
  BY WithinPolicyFacts, ClosedFacts, WordFacts DEF Words
<1>3. k = Excess(t, p) /\ u = Excess(k, c)
  BY DEF contingent_ceiling, contingent_free
<1> HIDE DEF p, c, t, k, u
<1>4. k > c /\ u = k - c
  <2>1. k > c \/ k <= c
    BY <1>2
  <2> QED BY <2>1, <1>1, <1>2, <1>3, ExcessFacts
<1>5. t > p /\ k = t - p
  <2>1. ~(t <= p)
    <3>1. t <= p => k = 0
      BY <1>2, <1>3, ExcessFacts
    <3> QED BY <3>1, <1>2, <1>4
  <2>2. t > p
    BY <2>1, <1>2
  <2> QED BY <2>2, <1>2, <1>3, ExcessFacts
<1>6. p + c + u = t
  BY <1>2, <1>4, <1>5
<1> QED BY <1>1, <1>6 DEF p, c, t, u

\* An authorisation stays within the policy's ratios and risk budgets, and every
\* member can carry its guarantees, for every policy that validates.
THEOREM AuthorityIsBounded == Spec => []AuthorityFits
<1>1. ASSUME IInv, outcome = "WithinPolicy"
      PROVE  LET all == protected_required + contingent_committed + authorized_increment_units
                 eff == effective_usable_capacity
                 Within(r) == all * r.den <= eff * r.num
             IN  /\ Within(policy.policy_ratio_cap) /\ Within(policy.configured_ratio)
                 /\ degraded => Within(IF policy.degraded_ratio_cap = None
                                       THEN OneToOne ELSE policy.degraded_ratio_cap)
                 /\ policy.max_exposure_units = None \/ all <= eff + policy.max_exposure_units
                 /\ policy.max_exposure_ppm = None
                      \/ all * kPpmScale <= eff * (kPpmScale + policy.max_exposure_ppm)
                 /\ \A r \in Member : GuaranteedOn(r, Len(guarantees)) <= EffectiveUsable(r)
  <2> DEFINE all == protected_required + contingent_committed + authorized_increment_units
             eff == effective_usable_capacity
             d == IF policy.degraded_ratio_cap = None THEN OneToOne ELSE policy.degraded_ratio_cap
  <2>1. InputFault = None /\ FloorOutcome = None /\ Inputs
    BY <1>1, WithinPolicyFacts DEF IInv
  <2>2. fault = None /\ ceiling_total \in Words /\ ceiling_total # None
    BY <1>1, <2>1, ClosedFacts DEF Closed
  <2>3. all = ceiling_total
    BY <1>1, AuthorityFillsCeiling
  <2>4. all \in Nat /\ eff \in Nat
    <3>1. ceiling_total \in Words /\ effective_usable_capacity \in Words
      BY <1>1, <2>1, ClosedFacts
    <3> HIDE DEF all
    <3> QED BY <2>3, <3>1, WordFacts
  <2>5. /\ all * EffectiveRatio.den <= eff * EffectiveRatio.num
        /\ policy.max_exposure_units # None => all <= eff + policy.max_exposure_units
        /\ policy.max_exposure_ppm # None =>
             all * kPpmScale <= eff * (kPpmScale + policy.max_exposure_ppm)
    BY <1>1, <2>2, <2>3, CeilingFacts
  <2>6. /\ EffectiveRatio \in Ratio /\ policy.policy_ratio_cap \in Ratio
        /\ policy.configured_ratio \in Ratio /\ d \in Ratio
        /\ ratio_ge(policy.policy_ratio_cap, EffectiveRatio)
        /\ ratio_ge(policy.configured_ratio, EffectiveRatio)
        /\ degraded => ratio_ge(d, EffectiveRatio)
    BY <2>1, RatioFacts, PolicyFacts
  <2> HIDE DEF all, eff, d
  <2>7. /\ all * policy.policy_ratio_cap.den <= eff * policy.policy_ratio_cap.num
        /\ all * policy.configured_ratio.den <= eff * policy.configured_ratio.num
        /\ degraded => all * d.den <= eff * d.num
    BY <2>4, <2>5, <2>6, RatioWithin
  <2>8. ASSUME NEW r \in Member
        PROVE  GuaranteedOn(r, Len(guarantees)) <= EffectiveUsable(r)
    <3>1. ~(GuaranteedOn(r, Len(guarantees)) > EffectiveUsable(r))
      BY <1>1, <2>1, FloorFacts
    <3>2. GuaranteedOn(r, Len(guarantees)) \in Nat /\ EffectiveUsable(r) \in Nat
      BY <1>1, <2>1, <2>2, TotalsFacts, UsableFacts, GuaranteedOnFacts
    <3> QED BY <3>1, <3>2
  <2> QED BY <2>5, <2>7, <2>8 DEF all, eff, d
<1>2. ASSUME IInv PROVE AuthorityFits
  BY <1>1, <1>2 DEF AuthorityFits
<1> QED BY <1>2, Invariance, PTL
-----------------------------------------------------------------------------
(* Builds without a wider integer                                          *)

\* The products of a validated policy never ask long division for anything but
\* words, so that both builds come to the same verdict.
THEOREM PortableBuildIsExact == Spec => []PortableBuildAgrees
<1>1. ASSUME IInv, fault = None
      PROVE  LET eff == effective_usable_capacity
                 ppm == policy.max_exposure_ppm
                 Cap(c) == policy.classes[c].contingent_share_cap_ppm
             IN  /\ BuildsAgree(eff, EffectiveRatio.num, EffectiveRatio.den)
                 /\ ppm # None => BuildsAgree(eff, kPpmScale + ppm, kPpmScale)
                 /\ Closed =>
                      /\ BuildsAgree(overage, kPpmScale, ceiling_total)
                      /\ \A c \in DOMAIN policy.classes :
                           Cap(c) # None => BuildsAgree(contingent_ceiling, Cap(c), kPpmScale)
  <2>1. effective_usable_capacity \in Words /\ Inputs
    BY <1>1, TotalsFacts DEF IInv
  <2>2. EffectiveRatio.num \in Words /\ EffectiveRatio.den \in Words
    BY <2>1, RatioFacts
  <2>3. kPpmScale \in Nat /\ 11 * kPpmScale <= MaxWord /\ MaxWord \in Nat
    BY EngineAssumption, WordFacts
  <2>4. kPpmScale \in Words
    BY <2>3 DEF Words
  <2>5. ASSUME policy.max_exposure_ppm # None
        PROVE  kPpmScale + policy.max_exposure_ppm \in Words
    <3> DEFINE ppm == policy.max_exposure_ppm
    <3>1. ppm \in 0..(10 * kPpmScale)
      BY <2>1, <2>5, PolicyFacts
    <3> HIDE DEF ppm
    <3>2. kPpmScale + ppm \in Words
      BY <2>3, <3>1 DEF Words
    <3> QED BY <3>2 DEF ppm
  <2>6. ASSUME Closed
        PROVE  /\ overage \in Words /\ ceiling_total \in Words /\ contingent_ceiling \in Words
    BY <1>1, <2>6, ClosedFacts DEF InputFault
  <2>7. ASSUME NEW c \in DOMAIN policy.classes,
               policy.classes[c].contingent_share_cap_ppm # None
        PROVE  policy.classes[c].contingent_share_cap_ppm \in Words
    <3> DEFINE cap == policy.classes[c].contingent_share_cap_ppm
    <3>1. cap \in 0..kPpmScale
      BY <2>1, <2>7, PolicyFacts
    <3> HIDE DEF cap
    <3>2. cap \in Words
      BY <2>3, <3>1 DEF Words
    <3> QED BY <3>2 DEF cap
  <2> QED BY <2>1, <2>2, <2>4, <2>5, <2>6, <2>7, BuildsComputeTheSame
<1>2. ASSUME IInv PROVE PortableBuildAgrees
  BY <1>1, <1>2 DEF PortableBuildAgrees
<1> QED BY <1>2, Invariance, PTL
-----------------------------------------------------------------------------
(* What is asked of the systems around the governor                        *)

Kind == {"ReduceContingentAdmissionBudget", "IncreaseProtectedHeadroom", "ReduceBurstPool",
         "RequestBorrowedCapacityRecall", "FenceOversubscribedAdmission", "RevalidateEvidence"}
Target == {"Domain", "ServiceClass"}

AnIntent == [kind : Kind, target : Target, amount : Nat]

\* A sum of zeros.
LEMMA SumOfZeros ==
  ASSUME NEW S, IsFiniteSet(S), NEW f, \A x \in S : f[x] = 0
  PROVE  SumFunctionOnSet(f, S) = 0
<1> DEFINE P == {T \in SUBSET S : SumFunctionOnSet(f, T) = 0}
<1>1. ASSUME NEW T \in SUBSET S, \A x \in T : T \ {x} \in P
      PROVE  T \in P
  <2>1. CASE T = {}
    BY <2>1, SumEmpty
  <2>2. ASSUME NEW x \in T PROVE T \in P
    <3>1. IsFiniteSet(T) /\ \A y \in T : f[y] \in Nat
      BY FS_Subset
    <3>2. SumFunctionOnSet(f, T) = f[x] + SumFunctionOnSet(f, T \ {x})
      BY <3>1, SumWithout
    <3> QED BY <3>2, <1>1
  <2> QED BY <2>1, <2>2
<1>2. SUBSET S \subseteq P
  <2> HIDE DEF P
  <2> QED BY <1>1, SubsetInduction
<1> QED BY <1>2

\* The first element of two sequences after each other.
LEMMA FirstOfTwo ==
  ASSUME NEW V, NEW s \in Seq(V), NEW t \in Seq(V)
  PROVE  /\ s \o t \in Seq(V)
         /\ s = << >> => s \o t = t
         /\ s # << >> => s \o t # << >> /\ (s \o t)[1] = s[1]
         /\ t # << >> => s \o t # << >>
<1>1. s \o t \in Seq(V) /\ Len(s \o t) = Len(s) + Len(t) /\ Len(s) \in Nat /\ Len(t) \in Nat
  OBVIOUS
<1>2. s = << >> => s \o t = t
  OBVIOUS
<1>3. ASSUME s # << >> PROVE s \o t # << >> /\ (s \o t)[1] = s[1]
  <2>1. Len(s) >= 1
    BY <1>3
  <2>2. Len(s \o t) # 0 /\ 1 \in 1..Len(s)
    BY <1>1, <2>1
  <2> QED BY <1>1, <2>1, <2>2
<1>4. ASSUME t # << >> PROVE s \o t # << >>
  <2>1. Len(t) >= 1
    BY <1>4
  <2>2. Len(s \o t) # 0
    BY <1>1, <2>1
  <2> QED BY <1>1, <2>2
<1> QED BY <1>1, <1>2, <1>3, <1>4

\* One intent.
LEMMA IntentFacts ==
  ASSUME NEW kind \in Kind, NEW target \in Target, NEW n \in Nat
  PROVE  /\ Intent(kind, target, n) \in Seq(AnIntent) /\ Intent(kind, target, n) # << >>
         /\ Intent(kind, target, n)[1] = [kind |-> kind, target |-> target, amount |-> n]
<1> DEFINE i == [kind |-> kind, target |-> target, amount |-> n]
<1>1. i \in AnIntent
  BY DEF AnIntent
<1> HIDE DEF i
<1>2. <<i>> \in Seq(AnIntent) /\ <<i>> # << >> /\ <<i>>[1] = i
  BY <1>1
<1> QED BY <1>2 DEF Intent, i

\* No guarantee is short when the floor is respected.
LEMMA NoShortfall ==
  ASSUME IInv, InputFault = None
  PROVE  Shortfall \in Nat /\ (FloorOutcome = None => Shortfall = 0)
<1> DEFINE e == [r \in Member |-> Excess(GuaranteedOn(r, Len(guarantees)), EffectiveUsable(r))]
<1>1. fault = None /\ EntryFault = None /\ Inputs
  BY ClosedFacts, TotalsFacts DEF IInv
<1>2. guarantees_total \in Nat /\ effective_usable_capacity \in Nat /\ protected_required \in Nat
      /\ guarantees_total <= protected_required
  BY ClosedFacts, WordFacts DEF Words
<1>3. \A r \in Member : e[r] \in Nat
  BY <1>1, GuaranteedOnFacts, UsableFacts, ExcessFacts
<1>4. SumFunction(e) = SumFunctionOnSet(e, Member)
  BY DEF SumFunction
<1>5. Shortfall = IF guarantees_total > effective_usable_capacity
                  THEN guarantees_total - effective_usable_capacity
                  ELSE SumFunction(e)
  BY DEF Shortfall
<1>6. ASSUME FloorOutcome = None PROVE \A r \in Member : e[r] = 0
  <2> SUFFICES ASSUME NEW r \in Member PROVE e[r] = 0
    OBVIOUS
  <2>1. ~(GuaranteedOn(r, Len(guarantees)) > EffectiveUsable(r))
    BY <1>6, FloorFacts
  <2>2. GuaranteedOn(r, Len(guarantees)) \in Nat /\ EffectiveUsable(r) \in Nat
    BY <1>1, GuaranteedOnFacts, UsableFacts
  <2> QED BY <2>1, <2>2, ExcessFacts
<1> HIDE DEF e
<1>7. SumFunctionOnSet(e, Member) \in Nat
  BY <1>3, Finitely, SumType
<1>8. ASSUME FloorOutcome = None PROVE Shortfall = 0
  <2>1. ~(guarantees_total > effective_usable_capacity)
    BY <1>2, <1>8, FloorFacts
  <2>2. SumFunctionOnSet(e, Member) = 0
    BY <1>6, <1>8, Finitely, SumOfZeros
  <2> QED BY <2>1, <2>2, <1>4, <1>5
<1> QED BY <1>2, <1>4, <1>5, <1>7, <1>8

\* A list that is not empty is not cut off before its first element.
LEMMA FirstIsKept ==
  ASSUME NEW s \in Seq(AnIntent), s # << >>
  PROVE  LET kept == SubSeq(s, 1, Min({Len(s), max_corrective_intents})) IN kept # << >> /\ kept[1] = s[1]
<1> DEFINE m == Min({Len(s), max_corrective_intents})
<1>1. Len(s) \in Nat \ {0} /\ max_corrective_intents \in Nat \ {0}
  BY EngineAssumption
<1>2. m \in {Len(s), max_corrective_intents} /\ m <= Len(s)
  <2>1. {Len(s), max_corrective_intents} \subseteq Nat /\ {Len(s), max_corrective_intents} # {}
    BY <1>1
  <2> QED BY <2>1, MinFacts
<1>3. m \in 1..Len(s)
  BY <1>1, <1>2
<1> HIDE DEF m
<1>4. \A i \in 1..m : s[i] \in AnIntent
  BY <1>1, <1>3
<1>5. SubSeq(s, 1, m) \in Seq(AnIntent) /\ Len(SubSeq(s, 1, m)) = m /\ SubSeq(s, 1, m)[1] = s[1]
  BY <1>1, <1>3, <1>4, SubSeqProperties
<1>6. SubSeq(s, 1, m) # << >>
  <2> DEFINE k == SubSeq(s, 1, m)
  <2>1. k \in Seq(AnIntent) /\ Len(k) # 0
    BY <1>1, <1>3, <1>5
  <2> HIDE DEF k
  <2>2. k # << >>
    BY <2>1
  <2> QED BY <2>2 DEF k
<1> QED BY <1>5, <1>6 DEF m

\* The intents, part by part, when the inputs add up.
LEMMA IntentParts ==
  ASSUME IInv, InputFault = None,
         outcome \in {"ReductionRequired", "EmergencyReduction"}
  PROVE  LET share == When(RejectedForShare, ShareIntent)
             over  == When(overage > 0, OverageIntent)
             burst == When(BurstExceeded, Intent("ReduceBurstPool", "Domain",
                                                burst_committed - policy.burst_pool_cap_units))
             fence == When(outcome = "EmergencyReduction",
                           Intent("FenceOversubscribedAdmission", "Domain", contingent_committed))
         IN  /\ share \in Seq(AnIntent) => Intents # << >> \/ (over = << >> /\ fence = << >>)
             /\ share \in Seq(AnIntent) /\ share # << >> => Intents # << >> /\ Intents[1] = share[1]
             /\ share = << >> /\ over # << >> => Intents # << >> /\ Intents[1] = over[1]
             /\ share = << >> /\ over = << >> /\ FloorOutcome = None /\ burst # << >> =>
                  Intents # << >> /\ Intents[1] = burst[1]
<1> DEFINE s1 == When(RejectedForShare, ShareIntent)
           s2 == When(overage > 0, OverageIntent)
           s3 == When(Unmapped, Intent("RevalidateEvidence", "Domain", 0))
           s4 == When(IneligibleDemand,
                      Intent("FenceOversubscribedAdmission", "ServiceClass", ineligible_amount))
           s5 == ShortfallIntents(Shortfall)
           s6 == When(BurstExceeded, Intent("ReduceBurstPool", "Domain",
                                           burst_committed - policy.burst_pool_cap_units))
           s7 == When(outcome = "EmergencyReduction",
                      Intent("FenceOversubscribedAdmission", "Domain", contingent_committed))
           s8 == When(outcome = "ConflictingInput", RejectIntents)
           s9 == When(outcome = "PolicyRejected", Intent("FenceOversubscribedAdmission", "Domain", 0))
           all == s1 \o s2 \o s3 \o s4 \o s5 \o s6 \o s7 \o s8 \o s9
<1>1. Intents = SubSeq(all, 1, Min({Len(all), max_corrective_intents}))
  BY DEF Intents, FinishIntents
<1>2. ~Unmapped /\ ~IneligibleDemand /\ Inputs
  BY VerdictFacts DEF IInv
<1>3. s3 = << >> /\ s4 = << >> /\ s8 = << >> /\ s9 = << >>
  BY <1>2 DEF When
<1>4. << >> \in Seq(AnIntent)
  OBVIOUS
<1>5. s2 \in Seq(AnIntent)
  <2>1. overage \in Nat
    BY ClosedFacts, WordFacts DEF Words
  <2>2. OverageIntent \in Seq(AnIntent)
    BY <2>1, IntentFacts DEF OverageIntent, Kind, Target
  <2> QED BY <1>4, <2>2 DEF When
<1>6. s5 \in Seq(AnIntent) /\ (FloorOutcome = None => s5 = << >>)
  <2> DEFINE n == Shortfall
  <2>1. n \in Nat /\ (FloorOutcome = None => n = 0)
    BY NoShortfall
  <2> HIDE DEF n
  <2> DEFINE i == Intent("IncreaseProtectedHeadroom", "Domain", n)
             j == Intent("RequestBorrowedCapacityRecall", "Domain", n)
  <2>2. i \in Seq(AnIntent) /\ j \in Seq(AnIntent)
    BY <2>1, IntentFacts DEF Kind, Target
  <2> HIDE DEF i, j
  <2>3. i \o j \in Seq(AnIntent)
    BY <2>2
  <2>4. ShortfallIntents(n) = IF n > 0 THEN i \o j ELSE << >>
    BY DEF ShortfallIntents, When, i, j
  <2>5. ShortfallIntents(n) \in Seq(AnIntent) /\ (n = 0 => ShortfallIntents(n) = << >>)
    BY <1>4, <2>1, <2>3, <2>4
  <2> QED BY <2>1, <2>5 DEF n
<1>7. s6 \in Seq(AnIntent)
  <2>1. ASSUME BurstExceeded PROVE burst_committed - policy.burst_pool_cap_units \in Nat
    <3> DEFINE b == burst_committed
               k == policy.burst_pool_cap_units
    <3>1. k # None /\ b > k
      BY <2>1 DEF BurstExceeded
    <3>2. b \in Nat /\ k \in Nat
      BY <1>2, <3>1, PolicyFacts, ClosedFacts
    <3> HIDE DEF b, k
    <3>3. b - k \in Nat
      BY <3>1, <3>2
    <3> QED BY <3>3 DEF b, k
  <2>2. ASSUME BurstExceeded
        PROVE  Intent("ReduceBurstPool", "Domain", burst_committed - policy.burst_pool_cap_units)
                 \in Seq(AnIntent)
    BY <2>1, <2>2, IntentFacts DEF Kind, Target
  <2> QED BY <1>4, <2>2 DEF When
<1>8. s7 \in Seq(AnIntent)
  <2>1. Intent("FenceOversubscribedAdmission", "Domain", contingent_committed) \in Seq(AnIntent)
    BY ClosedFacts, IntentFacts DEF Kind, Target
  <2> QED BY <1>4, <2>1 DEF When
<1> HIDE DEF s1, s2, s3, s4, s5, s6, s7, s8, s9
<1>9. ASSUME s1 \in Seq(AnIntent)
      PROVE  /\ all \in Seq(AnIntent)
             /\ s1 # << >> => all # << >> /\ all[1] = s1[1]
             /\ s1 = << >> /\ s2 # << >> => all # << >> /\ all[1] = s2[1]
             /\ s1 = << >> /\ s2 = << >> /\ s5 = << >> /\ s6 # << >> =>
                  all # << >> /\ all[1] = s6[1]
             /\ s2 # << >> \/ s7 # << >> => all # << >>
  <2> DEFINE t2 == s1 \o s2
             t3 == t2 \o s3
             t4 == t3 \o s4
             t5 == t4 \o s5
             t6 == t5 \o s6
             t7 == t6 \o s7
             t8 == t7 \o s8
             t9 == t8 \o s9
  <2>1. /\ t2 \in Seq(AnIntent) /\ (s1 # << >> => t2 # << >> /\ t2[1] = s1[1])
        /\ (s1 = << >> => t2 = s2) /\ (s2 # << >> => t2 # << >>)
    BY <1>5, <1>9, FirstOfTwo
  <2>2. t3 = t2 /\ t4 = t2
    <3> HIDE DEF t2
    <3>1. t2 \o << >> = t2
      BY <2>1
    <3> QED BY <1>3, <3>1
  <2>3. /\ t5 \in Seq(AnIntent) /\ (t2 # << >> => t5 # << >> /\ t5[1] = t2[1])
        /\ (t2 = << >> => t5 = s5)
    <3> HIDE DEF t2, t4
    <3> QED BY <2>1, <2>2, <1>6, FirstOfTwo
  <2>4. /\ t6 \in Seq(AnIntent) /\ (t5 # << >> => t6 # << >> /\ t6[1] = t5[1])
        /\ (t5 = << >> => t6 = s6)
    <3> HIDE DEF t5
    <3> QED BY <2>3, <1>7, FirstOfTwo
  <2>5. /\ t7 \in Seq(AnIntent) /\ (t6 # << >> => t7 # << >> /\ t7[1] = t6[1])
        /\ (s7 # << >> => t7 # << >>)
    <3> HIDE DEF t6
    <3> QED BY <2>4, <1>8, FirstOfTwo
  <2>6. t9 = t7
    <3> HIDE DEF t7
    <3>1. t7 \o << >> = t7
      BY <2>5
    <3> QED BY <1>3, <3>1
  <2>7. all = t9
    OBVIOUS
  <2> HIDE DEF t2, t3, t4, t5, t6, t7, t8, t9, all
  <2> QED BY <2>1, <2>2, <2>3, <2>4, <2>5, <2>6, <2>7
<1> HIDE DEF all
<1>10. ASSUME s1 \in Seq(AnIntent), all # << >> PROVE Intents # << >> /\ Intents[1] = all[1]
  BY <1>1, <1>9, <1>10, FirstIsKept
<1> QED BY <1>4, <1>6, <1>9, <1>10 DEF s1, s2, s6, s7

\* A class over its share has demand of its own that ends the excess.
LEMMA ShareFacts ==
  ASSUME IInv, InputFault = None, NEW c \in DOMAIN policy.classes
  PROVE  LET cap == policy.classes[c].contingent_share_cap_ppm
         IN  /\ ContingentOf(c) \in Nat /\ ContingentOf(c) <= contingent_committed
             /\ ShareExcess(c) \in Nat
             /\ cap = None => ShareExcess(c) = 0
             /\ cap # None =>
                  /\ mul_div_floor(contingent_ceiling, cap, kPpmScale) \in Nat
                  /\ ShareExcess(c) = Excess(ContingentOf(c),
                                             mul_div_floor(contingent_ceiling, cap, kPpmScale))
             /\ ShareExcess(c) > 0 =>
                  /\ cap # None /\ ShareExcess(c) <= ContingentOf(c)
                  /\ (ContingentOf(c) - ShareExcess(c)) * kPpmScale <= contingent_ceiling * cap
<1> DEFINE cap == policy.classes[c].contingent_share_cap_ppm
           n == ContingentOf(c)
           q == mul_div_floor(contingent_ceiling, cap, kPpmScale)
           x == ShareExcess(c)
<1>1. Inputs /\ fault = None /\ contingent_ceiling \in Words /\ contingent_ceiling \in Nat
  BY ClosedFacts, WordFacts DEF IInv, Words
<1>2. kPpmScale \in Nat \ {0}
  BY <1>1, PolicyFacts
<1>3. n \in Nat /\ n <= contingent_committed
  <2> DEFINE S == {i \in Contingent : admissions[i].service_class = c}
  <2>1. Contingent \in SUBSET DOMAIN admissions /\ S \in SUBSET Contingent
    BY DEF Contingent, OfKind, InScope
  <2>2. S \in SUBSET DOMAIN admissions /\ admissions \in Seq(Admissions)
    BY <2>1, <1>1 DEF Inputs
  <2>3. n = Used(admissions, S) /\ contingent_committed = Used(admissions, Contingent)
    BY <1>1, TotalsFacts DEF ContingentOf, Committed, Used
  <2> HIDE DEF S, n
  <2> QED BY <2>1, <2>2, <2>3, DemandFacts
<1>4. x = IF cap = None THEN 0 ELSE Excess(n, q)
  BY DEF ShareExcess
<1>5. ASSUME cap # None
      PROVE  /\ cap \in Nat /\ q \in Nat /\ q * kPpmScale <= contingent_ceiling * cap
  <2>1. cap \in 0..kPpmScale
    BY <1>1, <1>5, PolicyFacts
  <2> HIDE DEF cap
  <2>2. q \in Words
    BY <1>1, <2>1, ShareFits
  <2>3. q \in Nat /\ q # None /\ cap \in Nat
    BY <1>2, <2>1, <2>2, WordFacts, MulDivAssumption DEF Words
  <2> QED BY <1>1, <1>2, <2>3, FloorBelow
<1> HIDE DEF cap, n, q, x
<1>6. x \in Nat
  BY <1>3, <1>4, <1>5, ExcessFacts
<1>7. ASSUME x > 0
      PROVE  cap # None /\ x <= n /\ (n - x) * kPpmScale <= contingent_ceiling * cap
  <2>1. cap # None /\ q \in Nat /\ x = Excess(n, q)
    BY <1>4, <1>5, <1>7
  <2>2. ~(n <= q)
    <3>1. n <= q => x = 0
      BY <1>3, <2>1, ExcessFacts
    <3> QED BY <3>1, <1>6, <1>7
  <2>3. n > q
    BY <2>1, <2>2, <1>3
  <2>4. x = n - q
    BY <2>1, <2>3, <1>3, ExcessFacts
  <2>5. n - x = q /\ x <= n
    BY <2>1, <2>3, <2>4, <1>3
  <2> QED BY <2>1, <2>5, <1>5
<1> QED BY <1>3, <1>4, <1>5, <1>6, <1>7 DEF cap, n, q, x

\* A reduction is required for an overage, the burst pool or a class's share.
LEMMA ReductionFacts ==
  ASSUME IInv, outcome = "ReductionRequired"
  PROVE  /\ InputFault = None /\ FloorOutcome = None
         /\ overage > 0 \/ BurstExceeded \/ ShareExceeded
         /\ ~(overage > 0) => overage = 0
<1>1. InputFault = None /\ DomainOutcome = "ReductionRequired" /\ ~Unmapped /\ ~IneligibleDemand
  BY VerdictFacts
<1>2. FloorOutcome = None
  <2>1. FloorOutcome \in {None, "EmergencyReduction", "PolicyRejected", "AtLimit"}
    BY DEF FloorOutcome
  <2> QED BY <1>1, <2>1 DEF DomainOutcome
<1>3. overage \in Nat
  BY <1>1, ClosedFacts, WordFacts DEF Words
<1> QED BY <1>1, <1>2, <1>3 DEF DomainOutcome

\* The first intent of a reduction names an excess and ends it.
LEMMA FirstIntent ==
  ASSUME IInv, outcome = "ReductionRequired"
  PROVE  LET first == intents[1]
         IN  /\ intents # << >> /\ first.amount \in 1..contingent_committed
             /\ first.kind \in {"ReduceBurstPool", "ReduceContingentAdmissionBudget"}
             /\ first.kind = "ReduceBurstPool" =>
                  burst_committed - first.amount = policy.burst_pool_cap_units
             /\ first.kind = "ReduceContingentAdmissionBudget" /\ first.target = "Domain" =>
                  committed_total - first.amount = ceiling_total
             /\ first.target = "ServiceClass" =>
                  \E c \in DOMAIN policy.classes :
                    /\ policy.classes[c].contingent_share_cap_ppm # None
                    /\ first.amount <= ContingentOf(c)
                    /\ (ContingentOf(c) - first.amount) * kPpmScale
                         <= contingent_ceiling * policy.classes[c].contingent_share_cap_ppm
<1> DEFINE share == When(RejectedForShare, ShareIntent)
           over  == When(overage > 0, OverageIntent)
           burst == When(BurstExceeded, Intent("ReduceBurstPool", "Domain",
                                              burst_committed - policy.burst_pool_cap_units))
           first == intents[1]
<1>1. /\ InputFault = None /\ FloorOutcome = None /\ intents = Intents /\ Inputs
      /\ overage > 0 \/ BurstExceeded \/ ShareExceeded
      /\ ~(overage > 0) => overage = 0
  BY ReductionFacts DEF IInv, Evaluated
<1>2. << >> \in Seq(AnIntent)
  OBVIOUS
<1>3. /\ guarantees_total \in Nat /\ contingent_committed \in Nat /\ ceiling_total \in Nat
      /\ committed_total = guarantees_total + contingent_committed
      /\ burst_committed \in Nat /\ burst_committed <= contingent_committed
      /\ overage \in Nat /\ committed_total \in Nat /\ guarantees_total <= ceiling_total
  <2>1. /\ guarantees_total \in Nat /\ contingent_committed \in Nat /\ ceiling_total \in Nat
        /\ committed_total = guarantees_total + contingent_committed
        /\ burst_committed \in Nat /\ burst_committed <= contingent_committed
        /\ overage \in Nat /\ committed_total \in Nat /\ floor_required \in Nat
        /\ protected_required \in Nat
        /\ guarantees_total <= protected_required /\ protected_required <= floor_required
    BY <1>1, ClosedFacts, WordFacts DEF Words
  <2>2. floor_required <= ceiling_total
    BY <1>1, FloorFacts
  <2> HIDE DEF first
  <2> QED BY <2>1, <2>2
<1>4. CASE overage > 0
  <2> DEFINE x == overage
             t == committed_total
             k == ceiling_total
  <2>1. x \in 1..contingent_committed /\ t - x = k
    <3>1. x = Excess(t, k)
      BY DEF overage
    <3> DEFINE g == guarantees_total
               n == contingent_committed
    <3>2. x \in Nat /\ x > 0 /\ t \in Nat /\ k \in Nat /\ t = g + n /\ g \in Nat /\ n \in Nat /\ g <= k
      BY <1>3, <1>4
    <3> HIDE DEF x, t, k, g, n
    <3>3. ~(t <= k)
      <4>1. t <= k => x = 0
        BY <3>1, <3>2, ExcessFacts
      <4> QED BY <4>1, <3>2
    <3>4. x = t - k
      BY <3>1, <3>2, <3>3, ExcessFacts
    <3>5. x \in 1..n /\ t - x = k
      BY <3>2, <3>3, <3>4
    <3> QED BY <3>5 DEF n
  <2>2. share = << >> /\ ~RejectedForShare
    BY <1>3, <1>4 DEF When, RejectedForShare
  <2>3. over = OverageIntent
    BY <1>4 DEF When
  <2>4. /\ over # << >>
        /\ over[1] = [kind |-> "ReduceContingentAdmissionBudget", target |-> "Domain", amount |-> x]
    BY <2>3, <1>3, IntentFacts DEF OverageIntent, Kind, Target
  <2>5. intents # << >> /\ first = over[1]
    BY <1>1, <1>2, <2>2, <2>4, IntentParts
  <2>6. first.kind = "ReduceContingentAdmissionBudget" /\ first.target = "Domain" /\ first.amount = x
    BY <2>4, <2>5
  <2> HIDE DEF first, x, t, k
  <2> QED BY <2>1, <2>5, <2>6 DEF first, t, k
<1>5. CASE ~(overage > 0) /\ BurstExceeded
  <2> DEFINE b == burst_committed
             m == policy.burst_pool_cap_units
  <2>1. m # None /\ b > m
    BY <1>5 DEF BurstExceeded
  <2>2. b \in Nat /\ m \in Nat
    BY <1>1, <1>3, <2>1, PolicyFacts
  <2>3. b - m \in 1..contingent_committed /\ b - (b - m) = m /\ b - m \in Nat
    <3> DEFINE n == contingent_committed
    <3>1. n \in Nat /\ b <= n
      BY <1>3
    <3> HIDE DEF b, m, n
    <3>2. b - m \in 1..n /\ b - (b - m) = m /\ b - m \in Nat
      BY <2>1, <2>2, <3>1
    <3> QED BY <3>2 DEF n
  <2>4. share = << >> /\ over = << >>
    BY <1>5 DEF When, RejectedForShare
  <2>5. burst = Intent("ReduceBurstPool", "Domain", b - m)
    BY <1>5 DEF When
  <2>6. /\ burst # << >>
        /\ burst[1] = [kind |-> "ReduceBurstPool", target |-> "Domain", amount |-> b - m]
    <3> DEFINE n == b - m
    <3>1. n \in Nat
      BY <2>3
    <3> HIDE DEF n, burst
    <3>2. burst = Intent("ReduceBurstPool", "Domain", n)
      BY <2>5 DEF n
    <3>3. burst # << >> /\ burst[1] = [kind |-> "ReduceBurstPool", target |-> "Domain", amount |-> n]
      BY <3>1, <3>2, IntentFacts DEF Kind, Target
    <3> QED BY <3>3 DEF n
  <2>7. intents # << >> /\ first = burst[1]
    BY <1>1, <1>2, <2>4, <2>6, IntentParts
  <2>8. first.kind = "ReduceBurstPool" /\ first.target = "Domain" /\ first.amount = b - m
    BY <2>6, <2>7
  <2> HIDE DEF first, b, m
  <2>9. first.amount \in 1..contingent_committed /\ b - first.amount = m
    BY <2>3, <2>8
  <2>10. burst_committed - first.amount = policy.burst_pool_cap_units
    BY <2>9 DEF b, m
  <2> QED BY <2>7, <2>8, <2>9, <2>10 DEF first
<1>6. CASE ~(overage > 0) /\ ~BurstExceeded
  <2> DEFINE c == CHOOSE c \in DOMAIN policy.classes : ShareExcess(c) > 0
             x == ShareExcess(c)
  <2>1. c \in DOMAIN policy.classes /\ x > 0
    BY <1>1, <1>6 DEF ShareExceeded
  <2>2. ShareIntent = Intent("ReduceContingentAdmissionBudget", "ServiceClass", x)
    BY DEF ShareIntent
  <2>3. share = ShareIntent
    BY <1>1, <1>6 DEF When, RejectedForShare
  <2> HIDE DEF c
  <2>4. /\ ContingentOf(c) \in Nat /\ ContingentOf(c) <= contingent_committed
        /\ x \in Nat /\ policy.classes[c].contingent_share_cap_ppm # None /\ x <= ContingentOf(c)
        /\ (ContingentOf(c) - x) * kPpmScale
             <= contingent_ceiling * policy.classes[c].contingent_share_cap_ppm
    BY <1>1, <2>1, ShareFacts
  <2> HIDE DEF x
  <2>5. x \in 1..contingent_committed
    <3> DEFINE n == contingent_committed
               k == ContingentOf(c)
    <3>1. x \in Nat /\ x > 0 /\ x <= k /\ k <= n /\ n \in Nat /\ k \in Nat
      BY <1>3, <2>1, <2>4
    <3> HIDE DEF n, k
    <3>2. x \in 1..n
      BY <3>1
    <3> QED BY <3>2 DEF n
  <2>6. /\ share \in Seq(AnIntent) /\ share # << >>
        /\ share[1] = [kind |-> "ReduceContingentAdmissionBudget", target |-> "ServiceClass",
                       amount |-> x]
    BY <2>2, <2>3, <2>4, IntentFacts DEF Kind, Target
  <2>7. intents # << >> /\ first = share[1]
    BY <1>1, <2>6, IntentParts
  <2>8. /\ first.kind = "ReduceContingentAdmissionBudget" /\ first.target = "ServiceClass"
        /\ first.amount = x
    BY <2>6, <2>7
  <2> HIDE DEF first
  <2> QED BY <2>1, <2>4, <2>5, <2>7, <2>8 DEF first
<1> QED BY <1>4, <1>5, <1>6

\* The first intent of a reduction can be followed and ends the excess, and no
\* reduction goes without intent, however few intents are kept.
THEOREM CorrectionsSuffice == Spec => []CorrectionSuffices
<1>1. ASSUME IInv, outcome = "EmergencyReduction"
      PROVE  intents # << >>
  <2>1. InputFault = None /\ intents = Intents
    BY <1>1, VerdictFacts DEF IInv, Evaluated
  <2>2. When(RejectedForShare, ShareIntent) = << >> /\ << >> \in Seq(AnIntent)
    BY <1>1 DEF When, RejectedForShare
  <2>3. When(outcome = "EmergencyReduction",
             Intent("FenceOversubscribedAdmission", "Domain", contingent_committed)) # << >>
    <3>1. Intent("FenceOversubscribedAdmission", "Domain", contingent_committed) # << >>
      BY <1>1, <2>1, ClosedFacts, IntentFacts DEF Kind, Target
    <3> QED BY <1>1, <3>1 DEF When
  <2> QED BY <1>1, <2>1, <2>2, <2>3, IntentParts
<1>2. ASSUME IInv PROVE CorrectionSuffices
  BY <1>1, <1>2, FirstIntent DEF CorrectionSuffices
<1> QED BY <1>2, Invariance, PTL
-----------------------------------------------------------------------------
(* The ordered checks as one condition                                     *)

\* Guarantees, reserve and headroom are covered.
FloorHeld ==
  /\ \A r \in Member : GuaranteedOn(r, Len(guarantees)) <= EffectiveUsable(r)
  /\ floor_required <= effective_usable_capacity /\ floor_required <= ceiling_total

\* Nothing exceeds what it may be.
Legal ==
  /\ ~Unmapped /\ ~IneligibleDemand /\ FloorHeld
  /\ committed_total <= ceiling_total /\ ~BurstExceeded /\ ~ShareExceeded

\* The floor's outcome says whether the floor is held.
LEMMA FloorCases ==
  IInv /\ InputFault = None =>
    /\ ~FloorHeld => FloorOutcome \in {"EmergencyReduction", "PolicyRejected"}
    /\ FloorHeld => FloorOutcome = IF effective_usable_capacity = 0
                                   THEN IF committed_total > 0 THEN "EmergencyReduction" ELSE "AtLimit"
                                   ELSE None
    /\ effective_usable_capacity = 0 => ceiling_total = 0
<1> SUFFICES ASSUME IInv, InputFault = None
             PROVE  /\ ~FloorHeld => FloorOutcome \in {"EmergencyReduction", "PolicyRejected"}
                    /\ FloorHeld => FloorOutcome = IF effective_usable_capacity = 0
                                   THEN IF committed_total > 0 THEN "EmergencyReduction" ELSE "AtLimit"
                                   ELSE None
                    /\ effective_usable_capacity = 0 => ceiling_total = 0
  OBVIOUS
<1>1. /\ fault = None /\ Closed /\ Inputs /\ EntryFault = None
      /\ protected_required \in Nat /\ floor_required \in Nat /\ ceiling_total \in Nat
      /\ effective_usable_capacity \in Nat /\ committed_total \in Nat
      /\ protected_required <= floor_required
  BY ClosedFacts, TotalsFacts, WordFacts DEF IInv, Words
<1>2. \A r \in Member : GuaranteedOn(r, Len(guarantees)) \in Nat /\ EffectiveUsable(r) \in Nat
  BY <1>1, GuaranteedOnFacts, UsableFacts
<1> DEFINE short == \E r \in Member : GuaranteedOn(r, Len(guarantees)) > EffectiveUsable(r)
           p == protected_required
           f == floor_required
           e == effective_usable_capacity
           k == ceiling_total
<1>3. FloorHeld <=> ~short /\ ~(p > e) /\ ~(f > e) /\ ~(f > k)
  <2>1. (\A r \in Member : GuaranteedOn(r, Len(guarantees)) <= EffectiveUsable(r)) <=> ~short
    BY <1>2
  <2> HIDE DEF short
  <2> QED BY <1>1, <2>1 DEF FloorHeld
<1>4. FloorOutcome =
        IF short \/ p > e THEN "EmergencyReduction"
        ELSE IF f > e \/ f > k THEN "PolicyRejected"
        ELSE IF e = 0 THEN IF committed_total > 0 THEN "EmergencyReduction" ELSE "AtLimit" ELSE None
  BY DEF FloorOutcome
<1>5. e = 0 => k = 0
  <2>1. k # None /\ k = Ceiling(e, Candidates(e))
    BY <1>1, TotalsFacts DEF Closed
  <2> HIDE DEF e, k
  <2> QED BY <2>1 DEF Ceiling
<1> HIDE DEF short, p, f, e, k
<1> QED BY <1>3, <1>4, <1>5 DEF e, k

\* Snapshots that add up are found within policy or at the limit exactly when
\* every condition holds, in whatever order evaluate_domain looks at them.
LEMMA LegalFacts ==
  IInv /\ InputFault = None =>
    /\ outcome \in {"WithinPolicy", "AtLimit"} <=> Legal
    /\ outcome = "WithinPolicy" <=> Legal /\ contingent_free # 0
<1> SUFFICES ASSUME IInv, InputFault = None
             PROVE  /\ outcome \in {"WithinPolicy", "AtLimit"} <=> Legal
                    /\ outcome = "WithinPolicy" <=> Legal /\ contingent_free # 0
  OBVIOUS
<1> DEFINE t == committed_total
           k == ceiling_total
           b == burst_committed
           n == contingent_committed
<1>1. /\ t \in Nat /\ k \in Nat /\ b \in Nat /\ n \in Nat /\ overage \in Nat
      /\ contingent_ceiling \in Nat /\ contingent_free \in Nat
      /\ guarantees_total \in Nat
      /\ t = guarantees_total + n /\ b <= n /\ contingent_ceiling <= k
      /\ contingent_free <= contingent_ceiling
  BY ClosedFacts, WordFacts DEF Words
<1>2. overage > 0 <=> ~(t <= k)
  <2> DEFINE o == overage
  <2>1. o = Excess(t, k) /\ o \in Nat /\ t \in Nat /\ k \in Nat
    BY <1>1 DEF overage
  <2> HIDE DEF t, k, o
  <2>2. t <= k => o = 0
    BY <2>1, ExcessFacts
  <2>3. ~(t <= k) => t > k
    BY <2>1
  <2>4. ~(t <= k) => o > 0
    BY <2>1, <2>3, ExcessFacts
  <2>5. o > 0 <=> ~(t <= k)
    BY <2>1, <2>2, <2>4
  <2> QED BY <2>5 DEF o
<1>3. outcome = DomainOutcome
  BY VerdictFacts
<1>4. /\ ~FloorHeld => FloorOutcome \in {"EmergencyReduction", "PolicyRejected"}
      /\ FloorHeld => FloorOutcome = IF effective_usable_capacity = 0
                                     THEN IF t > 0 THEN "EmergencyReduction" ELSE "AtLimit"
                                     ELSE None
      /\ effective_usable_capacity = 0 => k = 0
  BY FloorCases
<1>5. OverageOutcome \in {"EmergencyReduction", "ReductionRequired"}
  BY DEF OverageOutcome
<1>6. ASSUME t = 0 PROVE ~BurstExceeded /\ ~ShareExceeded
  <2>1. n = 0 /\ b = 0
    <3> HIDE DEF t, n, b, k
    <3> QED BY <1>1, <1>6
  <2>2. ~BurstExceeded
    <3>1. policy.burst_pool_cap_units # None => policy.burst_pool_cap_units \in Nat
      BY PolicyFacts DEF IInv
    <3>2. policy.burst_pool_cap_units # None => ~(burst_committed > policy.burst_pool_cap_units)
      <4> DEFINE m == policy.burst_pool_cap_units
      <4>1. b = 0 /\ (m # None => m \in Nat)
        BY <2>1, <3>1
      <4> HIDE DEF b, m
      <4>2. m # None => ~(b > m)
        BY <4>1
      <4> QED BY <4>2 DEF b, m
    <3> QED BY <3>2 DEF BurstExceeded
  <2>3. ASSUME NEW c \in DOMAIN policy.classes PROVE ~(ShareExcess(c) > 0)
    <3> DEFINE m == ContingentOf(c)
               x == ShareExcess(c)
    <3>1. m \in Nat /\ m <= n /\ x \in Nat /\ (x > 0 => x <= m)
      BY <2>3, ShareFacts
    <3> HIDE DEF n, m, x
    <3>2. ~(x > 0)
      BY <3>1, <2>1
    <3> QED BY <3>2 DEF x
  <2> QED BY <2>2, <2>3 DEF ShareExceeded
<1>7. None # "AtLimit" /\ None # "EmergencyReduction" /\ None # "PolicyRejected"
  BY NoneFacts DEF Outcome
<1>8. effective_usable_capacity = 0 =>
        contingent_free = 0 /\ (t <= k <=> ~(t > 0)) /\ (t <= k => t = 0)
  <2> HIDE DEF t, k
  <2> QED BY <1>1, <1>4
<1> DEFINE over == overage > 0
           some == t > 0
           fits == t <= k
<1>9. Legal <=> ~Unmapped /\ ~IneligibleDemand /\ FloorHeld /\ fits /\ ~BurstExceeded /\ ~ShareExceeded
  BY DEF Legal
<1>10. (over <=> ~fits) /\ (fits /\ effective_usable_capacity = 0 => ~BurstExceeded /\ ~ShareExceeded)
       /\ (effective_usable_capacity = 0 => (fits <=> ~some))
  BY <1>2, <1>6, <1>8
<1>11. outcome = IF Unmapped THEN "ConflictingInput"
                 ELSE IF IneligibleDemand THEN "PolicyRejected"
                 ELSE IF FloorOutcome # None THEN FloorOutcome
                 ELSE IF over THEN OverageOutcome
                 ELSE IF BurstExceeded \/ ShareExceeded THEN "ReductionRequired"
                 ELSE IF contingent_free = 0 THEN "AtLimit" ELSE "WithinPolicy"
  BY <1>3 DEF DomainOutcome
<1>12. /\ FloorHeld => FloorOutcome = IF effective_usable_capacity = 0
                                      THEN IF some THEN "EmergencyReduction" ELSE "AtLimit"
                                      ELSE None
  BY <1>4
<1> HIDE DEF over, some, fits, t, k, b, n
<1> QED BY <1>4, <1>5, <1>7, <1>8, <1>9, <1>10, <1>11, <1>12

\* The ordered checks of evaluate_domain legalise what every condition allows and
\* nothing else.
THEOREM VerdictIsTheCondition ==
  Spec => [](InputFault = None => (outcome \in {"WithinPolicy", "AtLimit"} <=> Legal))
<1>1. IInv => (InputFault = None => (outcome \in {"WithinPolicy", "AtLimit"} <=> Legal))
  BY LegalFacts
<1> QED BY <1>1, Invariance, PTL
-----------------------------------------------------------------------------
(* Less capacity                                                           *)

\* A smaller product has no larger share, and one that is a word.
LEMMA QuotientMonotone ==
  ASSUME NEW a \in Nat, NEW s \in Nat, NEW b \in Nat, NEW t \in Nat, a <= b, s <= t,
         NEW d \in Nat \ {0}, mul_div_floor(b, t, d) # None
  PROVE  /\ mul_div_floor(a, s, d) # None
         /\ mul_div_floor(a, s, d) <= mul_div_floor(b, t, d)
<1>1. a * s <= b * t /\ a * s \in Nat /\ b * t \in Nat
  <2>1. a * s <= b * s /\ b * s <= b * t
    BY TimesMonotone
  <2>2. a * s \in Nat /\ b * s \in Nat /\ b * t \in Nat
    OBVIOUS
  <2> QED BY <2>1, <2>2
<1> DEFINE p == (a * s) \div d
           q == (b * t) \div d
<1>2. p <= q
  BY <1>1, DivMonotone
<1>3. /\ p \in Nat /\ q \in Nat
      /\ mul_div_floor(a, s, d) = Checked(p) /\ mul_div_floor(b, t, d) = Checked(q)
  BY FloorExact
<1>4. MaxWord \in Nat
  BY WordFacts
<1> HIDE DEF p, q
<1> QED BY <1>2, <1>3, <1>4, CheckedFacts

\* What a member of which report is the snapshot's can carry.
Carried(report) ==
  IF report.health = "Healthy" THEN report.usable
  ELSE IF report.health = "Degraded"
  THEN mul_div_floor(report.usable, report.degraded_capacity_ppm, kPpmScale) ELSE 0

\* A worse report carries no more, and the report of a degraded member can only
\* be followed by one of a degraded or failed one.
LEMMA WorseCarriesLess ==
  ASSUME NEW a \in Reports, NEW b \in Reports, Worse(a, b),
         a.health # "Unknown", b.health # "Unknown"
  PROVE  /\ Carried(a) \in Nat /\ Carried(b) \in Nat /\ Carried(a) <= Carried(b)
         /\ b.health \in {"Degraded", "Failed"} => a.health \in {"Degraded", "Failed"}
<1> DEFINE au == a.usable
           bu == b.usable
           sa == a.degraded_capacity_ppm
           sb == b.degraded_capacity_ppm
           ah == a.health
           bh == b.health
<1>1. /\ au \in Words /\ bu \in Words /\ sa \in 0..kPpmScale /\ sb \in 0..kPpmScale
      /\ ah \in {"Healthy", "Degraded", "Failed"} /\ bh \in {"Healthy", "Degraded", "Failed"}
  BY SnapshotAssumption
<1>2. au <= bu /\ sa <= sb /\ HealthRank[ah] >= HealthRank[bh]
  BY DEF Worse
<1>3. /\ Carried(a) = IF ah = "Healthy" THEN au
                      ELSE IF ah = "Degraded" THEN mul_div_floor(au, sa, kPpmScale) ELSE 0
      /\ Carried(b) = IF bh = "Healthy" THEN bu
                      ELSE IF bh = "Degraded" THEN mul_div_floor(bu, sb, kPpmScale) ELSE 0
  BY DEF Carried
<1> HIDE DEF au, bu, sa, sb, ah, bh
<1>4. \/ ah = bh \/ ah = "Failed"
      \/ ah = "Degraded" /\ bh = "Healthy"
  BY <1>1, <1>2 DEF HealthRank
<1> DEFINE p == mul_div_floor(au, sa, kPpmScale)
           q == mul_div_floor(bu, sb, kPpmScale)
<1>5. p \in Words /\ p <= au /\ q \in Words
  BY <1>1, ShareFits
<1>6. /\ p \in Nat /\ q \in Nat /\ au \in Nat /\ bu \in Nat /\ sa \in Nat /\ sb \in Nat
      /\ kPpmScale \in Nat \ {0} /\ q # None
  <2> HIDE DEF p, q
  <2>1. \A n \in Words : n \in Nat /\ n # None
    BY WordFacts, MulDivAssumption DEF Words
  <2>2. kPpmScale \in Nat \ {0}
    BY EngineAssumption
  <2>3. p \in Nat /\ q \in Nat /\ q # None /\ au \in Nat /\ bu \in Nat
    BY <1>1, <1>5, <2>1
  <2>4. sa \in Nat /\ sb \in Nat
    <3>1. \A n \in 0..kPpmScale : n \in Nat
      BY <2>2
    <3> QED BY <1>1, <3>1
  <2> QED BY <2>2, <2>3, <2>4
<1>7. p <= q
  BY <1>2, <1>6, QuotientMonotone
<1> HIDE DEF p, q
<1>8. Carried(a) \in Nat /\ Carried(b) \in Nat /\ Carried(a) <= Carried(b)
  <2> DEFINE c == Carried(a)
             d == Carried(b)
  <2>1. /\ c = IF ah = "Healthy" THEN au ELSE IF ah = "Degraded" THEN p ELSE 0
        /\ d = IF bh = "Healthy" THEN bu ELSE IF bh = "Degraded" THEN q ELSE 0
    BY <1>3 DEF p, q
  <2> HIDE DEF c, d
  <2>2. c \in Nat /\ d \in Nat
    BY <1>1, <1>6, <2>1
  <2>3. c <= d
    <3>1. CASE ah = "Failed"
      BY <2>1, <2>2, <3>1
    <3>2. CASE ah = "Healthy"
      BY <1>2, <1>4, <2>1, <3>2
    <3>3. CASE ah = "Degraded" /\ bh = "Degraded"
      BY <1>7, <2>1, <3>3
    <3>4. CASE ah = "Degraded" /\ bh = "Healthy"
      BY <1>2, <1>5, <1>6, <2>1, <3>4
    <3> QED BY <1>1, <1>4, <3>1, <3>2, <3>3, <3>4
  <2> QED BY <2>2, <2>3 DEF c, d
<1> QED BY <1>1, <1>4, <1>8 DEF ah, bh

\* The candidates for the ceiling as a function of what they depend on.
Options(p, ratio, eff) ==
  {mul_div_floor(eff, ratio.num, ratio.den)}
    \cup {Checked(eff + u) : u \in {p.max_exposure_units} \ {None}}
    \cup {mul_div_floor(eff, kPpmScale + s, kPpmScale) : s \in {p.max_exposure_ppm} \ {None}}

\* With less capacity and a lower ratio no candidate grows.
LEMMA OptionsFall ==
  ASSUME NEW p \in Policies, NEW a \in Ratio, NEW b \in Ratio, ratio_ge(b, a),
         NEW x \in Nat, NEW y \in Nat, x <= y, None \notin Options(p, b, y),
         NEW c \in Options(p, b, y)
  PROVE  \E d \in Options(p, a, x) : d # None /\ d <= c
<1> DEFINE u == p.max_exposure_units
           s == p.max_exposure_ppm
<1>1. /\ u # None => u \in Nat
      /\ s # None => s \in Nat
      /\ kPpmScale \in Nat \ {0}
  <2>1. ValidPolicy(p) /\ kPpmScale \in Nat \ {0} /\ max_capacity_units \in Nat
    BY EngineAssumption, WordFacts
  <2>2. u = None \/ u \in 0..max_capacity_units
    BY <2>1 DEF ValidPolicy
  <2>3. s = None \/ s \in 0..(10 * kPpmScale)
    BY <2>1 DEF ValidPolicy
  <2> HIDE DEF u, s
  <2> QED BY <2>1, <2>2, <2>3
<1>2. \A r, n : Options(p, r, n) =
        {mul_div_floor(n, r.num, r.den)}
          \cup {Checked(n + v) : v \in {u} \ {None}}
          \cup {mul_div_floor(n, kPpmScale + v, kPpmScale) : v \in {s} \ {None}}
  BY DEF Options
<1> HIDE DEF u, s
<1>3. c # None
  OBVIOUS
<1>4. CASE c = mul_div_floor(y, b.num, b.den)
  <2>1. mul_div_floor(x, a.num, a.den) # None /\ mul_div_floor(x, a.num, a.den) <= c
    BY <1>3, <1>4, FloorMonotone
  <2>2. mul_div_floor(x, a.num, a.den) \in Options(p, a, x)
    BY <1>2
  <2> QED BY <2>1, <2>2
<1>5. CASE u # None /\ c = Checked(y + u)
  <2>1. x + u \in Nat /\ y + u \in Nat /\ x + u <= y + u /\ MaxWord \in Nat
    BY <1>1, <1>5, WordFacts
  <2>2. Checked(x + u) # None /\ Checked(x + u) <= c
    <3> DEFINE m == x + u
               n == y + u
    <3>1. m \in Nat /\ n \in Nat /\ m <= n /\ MaxWord \in Nat /\ c = Checked(n)
      BY <2>1, <1>5
    <3> HIDE DEF m, n
    <3>2. Checked(m) # None /\ Checked(m) <= c
      BY <3>1, <1>3, CheckedFacts
    <3> QED BY <3>2 DEF m
  <2>3. Checked(x + u) \in Options(p, a, x)
    BY <1>2, <1>5
  <2> QED BY <2>2, <2>3
<1>6. CASE s # None /\ c = mul_div_floor(y, kPpmScale + s, kPpmScale)
  <2> DEFINE m == kPpmScale + s
  <2>1. m \in Nat /\ m <= m
    BY <1>1, <1>6
  <2>2. c = mul_div_floor(y, m, kPpmScale)
    BY <1>6
  <2>3. mul_div_floor(x, m, kPpmScale) \in Options(p, a, x)
    BY <1>2, <1>6
  <2> HIDE DEF m
  <2>4. mul_div_floor(x, m, kPpmScale) # None /\ mul_div_floor(x, m, kPpmScale) <= c
    BY <1>1, <1>3, <2>1, <2>2, QuotientMonotone
  <2> QED BY <2>3, <2>4
<1> QED BY <1>2, <1>4, <1>5, <1>6

\* The ceiling in terms of its candidates.
LeastCandidate ==
  /\ policy \in Policies /\ effective_usable_capacity \in Nat /\ ceiling_total \in Nat
  /\ EffectiveRatio \in Ratio
  /\ None \notin Options(policy, EffectiveRatio, effective_usable_capacity)
  /\ Options(policy, EffectiveRatio, effective_usable_capacity) \subseteq Nat
  /\ effective_usable_capacity = 0 => ceiling_total = 0
  /\ effective_usable_capacity # 0 =>
       /\ ceiling_total \in Options(policy, EffectiveRatio, effective_usable_capacity)
       /\ \A c \in Options(policy, EffectiveRatio, effective_usable_capacity) : ceiling_total <= c

\* The ceiling is the least of its candidates, none of which fails.
LEMMA CeilingCases == IInv /\ InputFault = None => LeastCandidate
<1> SUFFICES ASSUME IInv, InputFault = None PROVE LeastCandidate
  OBVIOUS
<1> DEFINE e == effective_usable_capacity
           k == ceiling_total
           C == Options(policy, EffectiveRatio, e)
<1>1. policy \in Policies /\ fault = None /\ Closed /\ e \in Nat /\ k \in Nat /\ Inputs
  BY ClosedFacts, WordFacts DEF IInv, Inputs, Words
<1>2. EffectiveRatio \in Ratio
  BY <1>1, RatioFacts
<1>3. Candidates(e) = C
  BY DEF Candidates, Options
<1>4. k = IF None \in C THEN None ELSE IF e = 0 THEN 0 ELSE Min(C)
  BY <1>1, <1>3, TotalsFacts DEF Ceiling
<1>5. None \notin C /\ (e = 0 => k = 0) /\ (e # 0 => k = Min(C))
  <2>1. k # None
    BY <1>1 DEF Closed
  <2> HIDE DEF k, e, C
  <2> QED BY <1>4, <2>1
<1>6. C \subseteq Nat /\ C # {}
  <2> DEFINE u == policy.max_exposure_units
             s == policy.max_exposure_ppm
             num == EffectiveRatio.num
             den == EffectiveRatio.den
  <2>1. num \in Nat /\ den \in Nat \ {0} /\ kPpmScale \in Nat \ {0}
    BY <1>1, <1>2, PolicyFacts DEF Ratio
  <2>2. (u # None => u \in Nat) /\ (s # None => s \in Nat)
    <3>1. u # None => u \in Nat
      BY <1>1, PolicyFacts
    <3>2. s # None => s \in 0..(10 * kPpmScale)
      BY <1>1, PolicyFacts
    <3> HIDE DEF u, s
    <3> QED BY <3>1, <3>2, <2>1
  <2>3. C = {mul_div_floor(e, num, den)}
              \cup {Checked(e + v) : v \in {u} \ {None}}
              \cup {mul_div_floor(e, kPpmScale + v, kPpmScale) : v \in {s} \ {None}}
    BY DEF Options
  <2> HIDE DEF C, e, u, s, num, den
  <2> SUFFICES ASSUME NEW c \in C PROVE c \in Nat
    BY <2>3
  <2>4. c # None
    BY <1>5
  <2>5. CASE c = mul_div_floor(e, num, den)
    BY <1>1, <2>1, <2>4, <2>5, FloorBelow, WordFacts DEF Words
  <2>6. CASE u # None /\ c = Checked(e + u)
    <3>1. e + u \in Nat
      BY <1>1, <2>2, <2>6
    <3> QED BY <3>1, <2>4, <2>6, CheckedFacts
  <2>7. CASE s # None /\ c = mul_div_floor(e, kPpmScale + s, kPpmScale)
    <3>1. kPpmScale + s \in Nat
      BY <2>1, <2>2, <2>7
    <3> QED BY <3>1, <1>1, <2>1, <2>4, <2>7, FloorBelow, WordFacts DEF Words
  <2> QED BY <2>3, <2>5, <2>6, <2>7
<1> HIDE DEF e, k, C
<1>7. e # 0 => k \in C /\ \A c \in C : k <= c
  BY <1>5, <1>6, MinFacts
<1> QED BY <1>1, <1>2, <1>5, <1>6, <1>7 DEF e, k, C, LeastCandidate

\* What the verdict's increment is, in any state of the system.
IncrementIs ==
  /\ outcome \in Outcome /\ authorized_increment_units \in Nat
  /\ authorized_increment_units = IF outcome = "WithinPolicy" THEN contingent_free ELSE 0
  /\ outcome \in {"WithinPolicy", "AtLimit"} => InputFault = None

\* The accounting of snapshots that add up.
Accounts ==
  /\ DOMAIN capacity = Member
  /\ \A r \in Member : /\ capacity[r] \in Reports /\ capacity[r].health # "Unknown"
                       /\ EffectiveUsable(r) = Carried(capacity[r])
                       /\ GuaranteedOn(r, Len(guarantees)) \in Nat
  /\ effective_usable_capacity = SumFunction([r \in Member |-> EffectiveUsable(r)])
  /\ guarantees_total = Reserved /\ contingent_committed = Committed(Contingent)
  /\ burst_committed = Committed(Burst)
  /\ guarantees_total \in Nat /\ contingent_committed \in Nat /\ burst_committed \in Nat
  /\ effective_usable_capacity \in Nat /\ ceiling_total \in Nat /\ ceiling_total \in Words
  /\ protected_required \in Nat /\ floor_required \in Nat /\ committed_total \in Nat
  /\ protected_required = guarantees_total + policy.emergency_reserve_units
  /\ floor_required = protected_required + policy.min_protected_headroom_units
  /\ committed_total = guarantees_total + contingent_committed
  /\ contingent_ceiling = Excess(ceiling_total, protected_required)
  /\ contingent_free = Excess(contingent_ceiling, contingent_committed)
  /\ contingent_ceiling \in Words /\ contingent_ceiling \in Nat /\ contingent_free \in Nat
  /\ overage = Excess(committed_total, ceiling_total) /\ overage \in Nat
  /\ \A c \in DOMAIN policy.classes :
       LET cap == policy.classes[c].contingent_share_cap_ppm
       IN  /\ ContingentOf(c) \in Nat /\ ShareExcess(c) \in Nat
           /\ cap = None => ShareExcess(c) = 0
           /\ cap # None =>
                /\ cap \in Nat /\ mul_div_floor(contingent_ceiling, cap, kPpmScale) \in Nat
                /\ ShareExcess(c) = Excess(ContingentOf(c),
                                           mul_div_floor(contingent_ceiling, cap, kPpmScale))

\* In every state the increment is what the verdict says, and snapshots that add
\* up are accounted for.
LEMMA AccountFacts == /\ IInv => IncrementIs
                      /\ IInv /\ InputFault = None => Accounts
<1>1. ASSUME IInv PROVE IncrementIs
  <2>1. outcome \in Outcome
    BY <1>1, VerdictFacts DEF Outcome
  <2>2. authorized_increment_units = IF outcome = "WithinPolicy" THEN contingent_free ELSE 0
    BY <1>1 DEF IInv, Evaluated, Increment
  <2>3. outcome \in {"WithinPolicy", "AtLimit"} => InputFault = None
    BY <1>1, VerdictFacts
  <2>4. outcome = "WithinPolicy" => contingent_free \in Nat
    BY <1>1, <2>3, ClosedFacts, WordFacts DEF Words
  <2> QED BY <2>1, <2>2, <2>3, <2>4 DEF IncrementIs
<1>2. ASSUME IInv, InputFault = None PROVE Accounts
  <2>1. Inputs /\ fault = None
    BY <1>2, ClosedFacts DEF IInv
  <2>2. /\ EntryFault = None /\ guarantees_total = Reserved
        /\ effective_usable_capacity = SumFunction([r \in Member |-> EffectiveUsable(r)])
        /\ contingent_committed = Committed(Contingent) /\ burst_committed = Committed(Burst)
    BY <1>2, <2>1, TotalsFacts
  <2>3. DOMAIN capacity = Member
    BY <2>1, <2>2, CleanFacts
  <2>4. ASSUME NEW r \in Member
        PROVE  /\ capacity[r] \in Reports /\ capacity[r].health # "Unknown"
               /\ EffectiveUsable(r) = Carried(capacity[r])
               /\ GuaranteedOn(r, Len(guarantees)) \in Nat
    <3>1. capacity[r] \in Reports /\ capacity[r].health # "Unknown"
      BY <2>1, <2>2, <2>3, CleanFacts DEF Inputs
    <3>2. capacity[r].health \in {"Healthy", "Degraded", "Failed"}
      BY <3>1, SnapshotAssumption
    <3>3. EffectiveUsable(r) = Carried(capacity[r])
      BY <3>2, <2>1, <2>2, UsableFacts DEF Carried
    <3> QED BY <2>1, <3>1, <3>3, GuaranteedOnFacts
  <2>5. /\ guarantees_total \in Nat /\ contingent_committed \in Nat /\ burst_committed \in Nat
        /\ effective_usable_capacity \in Nat /\ ceiling_total \in Nat /\ ceiling_total \in Words
        /\ protected_required \in Nat /\ floor_required \in Nat /\ committed_total \in Nat
        /\ contingent_ceiling \in Words /\ contingent_ceiling \in Nat /\ contingent_free \in Nat
        /\ overage \in Nat
    BY <1>2, ClosedFacts, WordFacts DEF Words
  <2>6. /\ protected_required = guarantees_total + policy.emergency_reserve_units
        /\ floor_required = protected_required + policy.min_protected_headroom_units
        /\ committed_total = guarantees_total + contingent_committed
        /\ contingent_ceiling = Excess(ceiling_total, protected_required)
        /\ contingent_free = Excess(contingent_ceiling, contingent_committed)
        /\ overage = Excess(committed_total, ceiling_total)
    BY DEF protected_required, floor_required, committed_total, contingent_ceiling,
           contingent_free, overage
  <2>7. ASSUME NEW c \in DOMAIN policy.classes
        PROVE  LET cap == policy.classes[c].contingent_share_cap_ppm
               IN  /\ ContingentOf(c) \in Nat /\ ShareExcess(c) \in Nat
                   /\ cap = None => ShareExcess(c) = 0
                   /\ cap # None =>
                        /\ cap \in Nat /\ mul_div_floor(contingent_ceiling, cap, kPpmScale) \in Nat
                        /\ ShareExcess(c) = Excess(ContingentOf(c),
                                                   mul_div_floor(contingent_ceiling, cap, kPpmScale))
    <3> DEFINE cap == policy.classes[c].contingent_share_cap_ppm
    <3>1. cap # None => cap \in 0..kPpmScale /\ kPpmScale \in Nat
      BY <2>1, PolicyFacts
    <3>2. cap # None => cap \in Nat
      <4> HIDE DEF cap
      <4> QED BY <3>1
    <3> QED BY <1>2, <3>2, ShareFacts
  <2> QED BY <2>2, <2>3, <2>4, <2>5, <2>6, <2>7 DEF Accounts
<1> QED BY <1>1, <1>2

\* The same of the next state.
LEMMA AccountNext == (/\ IInv => IncrementIs
                      /\ IInv /\ InputFault = None => Accounts)'
BY AccountFacts, PTL

\* The conditions of the next state.
LEMMA LegalNext ==
  (IInv /\ InputFault = None =>
     /\ outcome \in {"WithinPolicy", "AtLimit"} <=> Legal
     /\ outcome = "WithinPolicy" <=> Legal /\ contingent_free # 0)'
BY LegalFacts, PTL

\* What demand and guarantees come to does not depend on capacity.
LEMMA SameDemand ==
  ASSUME policy' = policy, guarantees' = guarantees, admissions' = admissions
  PROVE  /\ Unmapped' = Unmapped /\ IneligibleDemand' = IneligibleDemand
         /\ Reserved' = Reserved /\ Committed(Contingent)' = Committed(Contingent)
         /\ Committed(Burst)' = Committed(Burst)
         /\ \A c : ContingentOf(c)' = ContingentOf(c)
         /\ \A r : GuaranteedOn(r, Len(guarantees))' = GuaranteedOn(r, Len(guarantees))
<1>1. Contingent' = Contingent /\ Burst' = Burst
  BY DEF Burst, Contingent, OfKind, InScope, Eligible
<1>2. Reserved' = Reserved
  BY DEF Reserved, Guaranteed, InScope
<1>3. Unmapped' = Unmapped
  BY DEF Unmapped, OfKind, InScope, Committed, Guaranteed
<1>4. IneligibleDemand' = IneligibleDemand
  BY DEF IneligibleDemand, OfKind, InScope, Eligible
<1>5. \A r : GuaranteedOn(r, Len(guarantees))' = GuaranteedOn(r, Len(guarantees))
  BY DEF GuaranteedOn, Guaranteed, InScope
<1>6. Committed(Contingent)' = Committed(Contingent) /\ Committed(Burst)' = Committed(Burst)
  BY <1>1 DEF Committed
<1>7. \A c : ContingentOf(c)' = ContingentOf(c)
  BY <1>1 DEF ContingentOf, Committed
<1> QED BY <1>2, <1>3, <1>4, <1>5, <1>6, <1>7

\* The ceiling of the next state.
LEMMA CeilingNext == (IInv /\ InputFault = None => LeastCandidate)'
BY CeilingCases, PTL

\* The ratio in force is no higher when members are degraded that were not.
LEMMA RatioFalls ==
  ASSUME Inputs, policy' = policy, degraded => degraded'
  PROVE  EffectiveRatio \in Ratio /\ EffectiveRatio' \in Ratio /\ ratio_ge(EffectiveRatio, EffectiveRatio')
<1> DEFINE p == policy.policy_ratio_cap
           q == policy.configured_ratio
           d == IF policy.degraded_ratio_cap # None THEN policy.degraded_ratio_cap ELSE OneToOne
<1>1. p \in Ratio /\ q \in Ratio /\ d \in Ratio
  BY PolicyFacts
<1>2. /\ EffectiveRatio = IF degraded THEN Lower(Lower(q, p), d) ELSE Lower(q, p)
      /\ EffectiveRatio' = IF degraded' THEN Lower(Lower(q, p), d) ELSE Lower(q, p)
  BY DEF EffectiveRatio
<1> HIDE DEF p, q, d
<1>3. Lower(q, p) \in Ratio
  BY <1>1, LowerFacts
<1>4. Lower(Lower(q, p), d) \in Ratio /\ ratio_ge(Lower(q, p), Lower(Lower(q, p), d))
  BY <1>1, <1>3, LowerFacts
<1>5. ratio_ge(Lower(q, p), Lower(q, p)) /\ ratio_ge(Lower(Lower(q, p), d), Lower(Lower(q, p), d))
  BY <1>3, <1>4, RatioOrder
<1> QED BY <1>2, <1>3, <1>4, <1>5

\* With worse reports of the members, no capacity and no ceiling grows.
LEMMA LessCapacity ==
  ASSUME IInv, IInv', InputFault = None, InputFault' = None, policy' = policy,
         \A r \in Member : capacity'[r] = capacity[r] \/ Worse(capacity'[r], capacity[r])
  PROVE  /\ \A r \in Member : EffectiveUsable(r)' \in Nat /\ EffectiveUsable(r)' <= EffectiveUsable(r)
         /\ \A r \in Member : EffectiveUsable(r) \in Nat
         /\ effective_usable_capacity' <= effective_usable_capacity
         /\ ceiling_total' <= ceiling_total
<1>1. Accounts /\ Accounts' /\ LeastCandidate /\ LeastCandidate' /\ Inputs
  BY AccountFacts, AccountNext, CeilingCases, CeilingNext DEF IInv
<1> DEFINE e == [r \in Member |-> EffectiveUsable(r)]
           f == [r \in Member |-> EffectiveUsable(r)']
           x == effective_usable_capacity'
           y == effective_usable_capacity
<1>2. ASSUME NEW r \in Member
      PROVE  /\ f[r] \in Nat /\ e[r] \in Nat /\ f[r] <= e[r]
             /\ capacity[r].health \in {"Degraded", "Failed"} =>
                  capacity'[r].health \in {"Degraded", "Failed"}
  <2> DEFINE a == capacity'[r]
             b == capacity[r]
  <2>1. a \in Reports /\ b \in Reports /\ a.health # "Unknown" /\ b.health # "Unknown"
    BY <1>1 DEF Accounts
  <2>2. f[r] = Carried(a) /\ e[r] = Carried(b)
    BY <1>1 DEF Accounts
  <2>3. a = b \/ Worse(a, b)
    OBVIOUS
  <2>4. e[r] \in Nat
    <3>1. EffectiveUsable(r) \in Nat
      BY <1>1, ClosedFacts, TotalsFacts, UsableFacts
    <3> QED BY <3>1
  <2> HIDE DEF a, b, e, f
  <2>5. CASE a = b
    BY <2>2, <2>4, <2>5 DEF a, b
  <2>6. CASE Worse(a, b)
    <3>1. /\ Carried(a) \in Nat /\ Carried(b) \in Nat /\ Carried(a) <= Carried(b)
          /\ b.health \in {"Degraded", "Failed"} => a.health \in {"Degraded", "Failed"}
      BY <2>1, <2>6, WorseCarriesLess
    <3> QED BY <2>2, <3>1 DEF a, b
  <2> QED BY <2>3, <2>5, <2>6
<1>3. degraded => degraded'
  BY <1>2 DEF degraded
<1>4. x = SumFunction(f) /\ y = SumFunction(e) /\ DOMAIN e = Member /\ DOMAIN f = Member
  BY <1>1 DEF Accounts
<1>5. x <= y
  <2>1. (\A r \in Member : e[r] \in Nat) /\ \A r \in Member : f[r] \in Nat /\ f[r] <= e[r]
    BY <1>2
  <2> HIDE DEF e, f
  <2> QED BY <1>4, <2>1, Finitely, SumMonotone DEF SumFunction
<1>6. /\ EffectiveRatio \in Ratio /\ EffectiveRatio' \in Ratio
      /\ ratio_ge(EffectiveRatio, EffectiveRatio')
  BY <1>1, <1>3, RatioFalls
<1> DEFINE C == Options(policy, EffectiveRatio, y)
           D == Options(policy, EffectiveRatio', x)
           k == ceiling_total
           l == ceiling_total'
<1>7. /\ policy \in Policies /\ x \in Nat /\ y \in Nat /\ k \in Nat /\ l \in Nat /\ None \notin C
      /\ D \subseteq Nat
      /\ y # 0 => k \in C
      /\ x = 0 => l = 0
      /\ x # 0 => \A d \in D : l <= d
  BY <1>1 DEF LeastCandidate
<1>8. l <= k
  <2>1. CASE x = 0
    <3> HIDE DEF x, y, k, l, C, D
    <3> QED BY <2>1, <1>7
  <2>2. CASE x # 0
    <3>1. y # 0
      <4> HIDE DEF x, y
      <4> QED BY <2>2, <1>5, <1>7
    <3>2. PICK d \in D : d # None /\ d <= k
      <4>1. k \in C
        BY <1>7, <3>1
      <4> HIDE DEF x, y, k
      <4> QED BY <4>1, <1>5, <1>6, <1>7, OptionsFall
    <3>3. l <= d
      BY <1>7, <2>2
    <3>4. d \in Nat
      BY <1>7
    <3> HIDE DEF x, y, k, l, C, D
    <3> QED BY <3>2, <3>3, <3>4, <1>7
  <2> QED BY <2>1, <2>2
<1> QED BY <1>2, <1>5, <1>8

\* What is legal with less capacity was legal with more, and as much was free.
LEMMA LegalBefore ==
  ASSUME IInv, IInv', InputFault = None, InputFault' = None,
         policy' = policy, guarantees' = guarantees, admissions' = admissions,
         \A r \in Member : capacity'[r] = capacity[r] \/ Worse(capacity'[r], capacity[r])
  PROVE  /\ Legal' => Legal
         /\ contingent_free \in Nat /\ contingent_free' \in Nat
         /\ contingent_free' <= contingent_free
<1>1. Accounts /\ Accounts'
  BY AccountFacts, AccountNext
<1>2. /\ \A r \in Member : EffectiveUsable(r)' \in Nat /\ EffectiveUsable(r)' <= EffectiveUsable(r)
      /\ \A r \in Member : EffectiveUsable(r) \in Nat
      /\ effective_usable_capacity' <= effective_usable_capacity
      /\ ceiling_total' <= ceiling_total
  BY LessCapacity
<1>3. /\ Unmapped' = Unmapped /\ IneligibleDemand' = IneligibleDemand
      /\ Reserved' = Reserved /\ Committed(Contingent)' = Committed(Contingent)
      /\ Committed(Burst)' = Committed(Burst)
      /\ \A c : ContingentOf(c)' = ContingentOf(c)
      /\ \A r : GuaranteedOn(r, Len(guarantees))' = GuaranteedOn(r, Len(guarantees))
  BY SameDemand
<1>4. /\ guarantees_total' = guarantees_total /\ contingent_committed' = contingent_committed
      /\ burst_committed' = burst_committed
  BY <1>1, <1>3 DEF Accounts
<1>5. /\ protected_required' = protected_required /\ floor_required' = floor_required
      /\ committed_total' = committed_total
  BY <1>4 DEF protected_required, floor_required, committed_total
<1> DEFINE k == ceiling_total
           l == ceiling_total'
           p == protected_required
           n == contingent_committed
           cc == contingent_ceiling
           dd == contingent_ceiling'
           cf == contingent_free
           df == contingent_free'
<1>6. /\ cc = Excess(k, p) /\ dd = Excess(l, p) /\ cf = Excess(cc, n) /\ df = Excess(dd, n)
      /\ k \in Nat /\ l \in Nat /\ l <= k /\ p \in Nat /\ n \in Nat
      /\ cc \in Nat /\ dd \in Nat /\ cf \in Nat /\ df \in Nat
  BY <1>1, <1>2, <1>4, <1>5 DEF Accounts
<1>7. dd <= cc /\ df <= cf
  <2> HIDE DEF k, l, p, n, cc, dd, cf, df
  <2>1. \A a, b, c \in Nat : a <= b => Excess(a, c) <= Excess(b, c)
    BY DEF Excess
  <2>2. dd <= cc
    BY <1>6, <2>1
  <2> QED BY <1>6, <2>1, <2>2
<1>8. ASSUME Legal' PROVE Legal
  <2>1. /\ ~Unmapped /\ ~IneligibleDemand /\ FloorHeld' /\ committed_total <= ceiling_total'
        /\ ~BurstExceeded' /\ ~ShareExceeded'
    BY <1>3, <1>5, <1>8 DEF Legal
  <2>2. FloorHeld
    <3>1. /\ \A r \in Member : GuaranteedOn(r, Len(guarantees)) <= EffectiveUsable(r)'
          /\ floor_required <= effective_usable_capacity' /\ floor_required <= ceiling_total'
      BY <2>1, <1>3, <1>5 DEF FloorHeld
    <3>2. ASSUME NEW r \in Member PROVE GuaranteedOn(r, Len(guarantees)) <= EffectiveUsable(r)
      <4>1. GuaranteedOn(r, Len(guarantees)) \in Nat
        BY <1>1 DEF Accounts
      <4> QED BY <1>2, <3>1, <4>1
    <3>3. floor_required <= effective_usable_capacity /\ floor_required <= ceiling_total
      <4>1. /\ floor_required \in Nat /\ effective_usable_capacity \in Nat
            /\ effective_usable_capacity' \in Nat /\ ceiling_total \in Nat /\ ceiling_total' \in Nat
        BY <1>1 DEF Accounts
      <4> QED BY <1>2, <3>1, <4>1
    <3> QED BY <3>2, <3>3 DEF FloorHeld
  <2>3. committed_total <= ceiling_total
    <3>1. committed_total \in Nat /\ ceiling_total \in Nat /\ ceiling_total' \in Nat
      BY <1>1 DEF Accounts
    <3> QED BY <1>2, <2>1, <3>1
  <2>4. ~BurstExceeded
    BY <2>1, <1>4 DEF BurstExceeded
  <2>5. ~ShareExceeded
    <3> SUFFICES ASSUME NEW c \in DOMAIN policy.classes PROVE ~(ShareExcess(c) > 0)
      BY DEF ShareExceeded
    <3> DEFINE cap == policy.classes[c].contingent_share_cap_ppm
               m == ContingentOf(c)
               s == mul_div_floor(cc, cap, kPpmScale)
               t == mul_div_floor(dd, cap, kPpmScale)
               x == ShareExcess(c)
               y == ShareExcess(c)'
    <3>1. /\ m \in Nat /\ x \in Nat /\ (cap = None => x = 0)
          /\ cap # None => cap \in Nat /\ s \in Nat /\ x = Excess(m, s)
      BY <1>1 DEF Accounts
    <3>2. y \in Nat /\ (cap # None => t \in Nat /\ y = Excess(m, t))
      BY <1>1, <1>3 DEF Accounts
    <3>3. ~(y > 0)
      BY <2>1 DEF ShareExceeded
    <3>4. kPpmScale \in Nat \ {0}
      BY EngineAssumption
    <3>5. ASSUME cap # None PROVE t <= s
      <4>1. s # None
        BY <3>1, <3>5, MulDivAssumption
      <4>2. cap \in Nat
        BY <3>1, <3>5
      <4> HIDE DEF cap, cc, dd
      <4> QED BY <4>1, <4>2, <3>4, <1>6, <1>7, QuotientMonotone
    <3> HIDE DEF cap, m, s, t, x, y
    <3>6. ASSUME cap # None PROVE x = 0
      <4>1. m <= t
        <5>1. ~(m > t)
          <6>1. m > t => y > 0
            BY <3>1, <3>2, <3>6, ExcessFacts
          <6> QED BY <6>1, <3>3
        <5> QED BY <5>1, <3>1, <3>2, <3>6
      <4>2. m <= s
        BY <4>1, <3>1, <3>2, <3>5, <3>6
      <4> QED BY <4>2, <3>1, <3>6, ExcessFacts
    <3>7. ~(x > 0)
      BY <3>1, <3>6
    <3> QED BY <3>7 DEF x
  <2> QED BY <2>1, <2>2, <2>3, <2>4, <2>5 DEF Legal
<1> QED BY <1>6, <1>7, <1>8

\* Less capacity or worse health never authorises more, and makes nothing legal
\* that was not: monotonicity of the whole evaluation in its capacity snapshot.
THEOREM CapacityIsMonotone == Spec => CapacityLossNeverAuthorizes
<1> DEFINE Falls ==
      (/\ capacity' # capacity
       /\ InputFault = None)
       => /\ authorized_increment_units' <= authorized_increment_units
          /\ outcome' \in {"WithinPolicy", "AtLimit"} =>
               outcome_severity[outcome'] >= outcome_severity[outcome]
<1>1. ASSUME IInv, IInv', [Next]_vars PROVE [Falls]_vars
  <2> SUFFICES ASSUME capacity' # capacity, InputFault = None
               PROVE  /\ authorized_increment_units' <= authorized_increment_units
                      /\ outcome' \in {"WithinPolicy", "AtLimit"} =>
                           outcome_severity[outcome'] >= outcome_severity[outcome]
    OBVIOUS
  <2>1. IncrementIs /\ IncrementIs'
    BY <1>1, AccountFacts, AccountNext
  <2>2. CASE outcome' \notin {"WithinPolicy", "AtLimit"}
    <3>1. authorized_increment_units' = 0 /\ authorized_increment_units \in Nat
      BY <2>1, <2>2 DEF IncrementIs
    <3> QED BY <2>2, <3>1
  <2>3. CASE outcome' \in {"WithinPolicy", "AtLimit"}
    <3>1. InputFault' = None
      BY <2>1, <2>3 DEF IncrementIs
    <3>2. DOMAIN capacity = Member /\ DOMAIN capacity' = Member
      BY <1>1, <3>1, AccountFacts, AccountNext DEF Accounts
    <3>3. /\ policy' = policy /\ guarantees' = guarantees /\ admissions' = admissions
          /\ \A r \in Member : capacity'[r] = capacity[r] \/ Worse(capacity'[r], capacity[r])
      <4>1. CASE \E g \in Guarantees : Reserve(g)
        BY <4>1 DEF Reserve
      <4>2. CASE \E a \in Admissions : Admit(a)
        BY <4>2 DEF Admit
      <4>3. CASE \E r \in Member, report \in Reports : LoseCapacity(r, report)
        BY <4>3, <3>2 DEF LoseCapacity
      <4>4. CASE \E r \in Member : LoseMember(r)
        BY <4>4, <3>2 DEF LoseMember
      <4>5. CASE UNCHANGED vars
        BY <4>5 DEF vars
      <4> QED BY <1>1, <4>1, <4>2, <4>3, <4>4, <4>5 DEF Next
    <3>4. /\ Legal' => Legal
          /\ contingent_free \in Nat /\ contingent_free' \in Nat
          /\ contingent_free' <= contingent_free
      BY <1>1, <3>1, <3>3, LegalBefore
    <3>5. /\ outcome \in {"WithinPolicy", "AtLimit"} <=> Legal
          /\ outcome = "WithinPolicy" <=> Legal /\ contingent_free # 0
      BY <1>1, LegalFacts
    <3>6. /\ outcome' \in {"WithinPolicy", "AtLimit"} <=> Legal'
          /\ outcome' = "WithinPolicy" <=> Legal' /\ contingent_free' # 0
      BY <1>1, <3>1, LegalNext
    <3>7. outcome \in {"WithinPolicy", "AtLimit"}
      BY <2>3, <3>4, <3>5, <3>6
    <3>8. outcome' = "WithinPolicy" => outcome = "WithinPolicy"
      <4>1. contingent_free' # 0 => contingent_free # 0
        BY <3>4
      <4> QED BY <4>1, <3>4, <3>5, <3>6
    <3>9. outcome_severity[outcome'] >= outcome_severity[outcome]
      BY <2>3, <3>7, <3>8 DEF outcome_severity
    <3>10. authorized_increment_units' <= authorized_increment_units
      <4>1. CASE outcome' = "WithinPolicy"
        BY <4>1, <2>1, <3>4, <3>8 DEF IncrementIs
      <4>2. CASE outcome' # "WithinPolicy"
        BY <4>2, <2>1 DEF IncrementIs
      <4> QED BY <4>1, <4>2
    <3> QED BY <3>9, <3>10
  <2> QED BY <2>2, <2>3
<1>2. [][Falls]_vars => CapacityLossNeverAuthorizes
  BY PTL DEF CapacityLossNeverAuthorizes
<1> HIDE DEF Falls
<1> QED BY <1>1, <1>2, Invariance, PTL DEF Spec
-----------------------------------------------------------------------------
(* More demand                                                             *)

\* An entry at the end changes the first fault only if there was none.
LEMMA FirstFaultAppend ==
  ASSUME NEW n \in Nat, NEW f, DOMAIN f = 1..n, NEW g, DOMAIN g = 1..(n + 1),
         \A i \in 1..n : g[i] = f[i]
  PROVE  FirstFault(g) = IF FirstFault(f) # None THEN FirstFault(f) ELSE g[n + 1]
<1>1. n + 1 \in Nat /\ n + 1 \in 1..(n + 1) /\ \A i \in 1..(n + 1) : i \in 1..n \/ i = n + 1
  OBVIOUS
<1>2. /\ FirstFault(f) = None <=> \A i \in 1..n : f[i] = None
      /\ FirstFault(f) # None =>
           \E i \in 1..n : FirstFault(f) = f[i] /\ \A j \in 1..(i - 1) : f[j] = None
  BY FirstFaultFacts
<1>3. /\ FirstFault(g) = None <=> \A i \in 1..(n + 1) : g[i] = None
      /\ FirstFault(g) # None =>
           \E i \in 1..(n + 1) : FirstFault(g) = g[i] /\ \A j \in 1..(i - 1) : g[j] = None
  BY <1>1, FirstFaultFacts
<1>4. CASE FirstFault(f) # None
  <2>1. PICK i \in 1..n : FirstFault(f) = f[i] /\ \A j \in 1..(i - 1) : f[j] = None
    BY <1>2, <1>4
  <2>2. i \in 1..(n + 1) /\ g[i] # None
    BY <1>4, <2>1
  <2>3. PICK k \in 1..(n + 1) : FirstFault(g) = g[k] /\ \A j \in 1..(k - 1) : g[j] = None
    BY <1>3, <2>2
  <2>4. FirstFault(g) # None
    BY <1>3, <2>2
  <2>5. ~(i < k)
    <3>1. i < k => i \in 1..(k - 1)
      OBVIOUS
    <3> QED BY <3>1, <2>2, <2>3
  <2>6. ~(k < i)
    <3>1. k < i => k \in 1..(i - 1) /\ k \in 1..n
      OBVIOUS
    <3> QED BY <3>1, <2>1, <2>3, <2>4
  <2>7. i = k
    BY <2>5, <2>6
  <2> QED BY <1>4, <2>1, <2>3, <2>7
<1>5. CASE FirstFault(f) = None
  <2>1. \A i \in 1..n : g[i] = None
    BY <1>2, <1>5
  <2>2. CASE g[n + 1] = None
    BY <1>1, <1>3, <1>5, <2>1, <2>2
  <2>3. CASE g[n + 1] # None
    <3>1. FirstFault(g) # None
      BY <1>1, <1>3, <2>3
    <3> QED BY <1>1, <1>3, <1>5, <2>1, <3>1
  <2> QED BY <2>2, <2>3
<1> QED BY <1>4, <1>5

\* The step of an admission: what it leaves alone.
LEMMA SameCapacity ==
  ASSUME policy' = policy, capacity' = capacity, guarantees' = guarantees
  PROVE  /\ \A i : MemberFault(i)' = MemberFault(i) /\ GuaranteeFault(i)' = GuaranteeFault(i)
         /\ Reserved' = Reserved /\ TooLarge' = TooLarge
         /\ \A r : EffectiveUsable(r)' = EffectiveUsable(r)
         /\ \A r, n : GuaranteedOn(r, n)' = GuaranteedOn(r, n)
         /\ \A e : Candidates(e)' = Candidates(e)
         /\ \A S : Guaranteed(S)' = Guaranteed(S)
         /\ InScope(guarantees)' = InScope(guarantees)
<1>1. \A i : MemberFault(i)' = MemberFault(i)
  BY DEF MemberFault
<1>2. \A r, n : GuaranteedOn(r, n)' = GuaranteedOn(r, n)
  BY DEF GuaranteedOn, Guaranteed, InScope
<1>3. InScope(guarantees)' = InScope(guarantees) /\ \A S : Guaranteed(S)' = Guaranteed(S)
  BY DEF InScope, Guaranteed
<1>4. \A i : GuaranteeFault(i)' = GuaranteeFault(i)
  BY <1>2, <1>3 DEF GuaranteeFault
<1>5. Reserved' = Reserved /\ TooLarge' = TooLarge
  BY <1>3 DEF Reserved, TooLarge
<1>6. \A r : EffectiveUsable(r)' = EffectiveUsable(r)
  BY DEF EffectiveUsable
<1>7. \A e : Candidates(e)' = Candidates(e)
  BY DEF Candidates, EffectiveRatio, degraded
<1> QED BY <1>1, <1>2, <1>3, <1>4, <1>5, <1>6, <1>7

\* Where an admission is appended, the entries before it stay what they were, and
\* it is counted with those of its kind if it is about a member.
LEMMA AppendEntry ==
  ASSUME Inputs, NEW a \in Admissions, policy' = policy, admissions' = Append(admissions, a),
         NEW n, n = Len(admissions) + 1
  PROVE  LET Own(b) == IF a.resource \in Member /\ b THEN {n} ELSE {}
             eligible == /\ a.service_class \in DOMAIN policy.classes
                         /\ policy.classes[a.service_class].oversubscription_eligible
         IN  /\ n \in Nat \ {0} /\ DOMAIN admissions = 1..(n - 1) /\ DOMAIN admissions' = 1..n
             /\ n \notin DOMAIN admissions /\ admissions' \in Seq(Admissions) /\ admissions'[n] = a
             /\ \A i \in 1..(n - 1) : /\ i \in DOMAIN admissions' /\ admissions'[i] = admissions[i]
                                      /\ Eligible(i)' = Eligible(i)
             /\ Eligible(n)' <=> eligible
             /\ InScope(admissions)' = InScope(admissions) \cup Own(TRUE)
             /\ \A K : OfKind(K)' = OfKind(K) \cup Own(a.kind \in K)
             /\ Contingent' = Contingent \cup Own(a.kind \in {"Contingent", "Burst"} /\ eligible)
<1> DEFINE Own(b) == IF a.resource \in Member /\ b THEN {n} ELSE {}
           eligible == /\ a.service_class \in DOMAIN policy.classes
                       /\ policy.classes[a.service_class].oversubscription_eligible
<1>1. admissions \in Seq(Admissions)
  BY DEF Inputs
<1>2. /\ n \in Nat \ {0} /\ DOMAIN admissions = 1..(n - 1) /\ DOMAIN admissions' = 1..n
      /\ n \notin DOMAIN admissions /\ admissions' \in Seq(Admissions) /\ admissions'[n] = a
      /\ \A i \in 1..(n - 1) : i \in DOMAIN admissions' /\ admissions'[i] = admissions[i]
      /\ DOMAIN admissions' = DOMAIN admissions \cup {n}
  BY <1>1
<1>3. \A i \in 1..(n - 1) : Eligible(i)' = Eligible(i)
  BY <1>2 DEF Eligible
<1>4. Eligible(n)' <=> eligible
  <2>1. admissions'[n] = a
    BY <1>2
  <2> QED BY <2>1 DEF Eligible
<1>5. InScope(admissions)' = InScope(admissions) \cup Own(TRUE)
  BY <1>2 DEF InScope
<1>6. ASSUME NEW K PROVE OfKind(K)' = OfKind(K) \cup Own(a.kind \in K)
  <2>1. \A i \in InScope(admissions) : i \in 1..(n - 1) /\ admissions'[i] = admissions[i]
    BY <1>2 DEF InScope
  <2>2. OfKind(K)' = {i \in InScope(admissions)' : admissions'[i].kind \in K}
    BY DEF OfKind
  <2>3. OfKind(K) = {i \in InScope(admissions) : admissions[i].kind \in K}
    BY DEF OfKind
  <2> QED BY <1>2, <1>5, <2>1, <2>2, <2>3
<1>7. Contingent' = Contingent \cup Own(a.kind \in {"Contingent", "Burst"} /\ eligible)
  <2> DEFINE K == {"Contingent", "Burst"}
  <2>1. Contingent' = {i \in OfKind(K)' : Eligible(i)'}
    BY DEF Contingent
  <2>2. Contingent = {i \in OfKind(K) : Eligible(i)}
    BY DEF Contingent
  <2>3. OfKind(K)' = OfKind(K) \cup Own(a.kind \in K)
    BY <1>6
  <2>4. \A i \in OfKind(K) : i \in 1..(n - 1)
    BY <1>2 DEF OfKind, InScope
  <2> DEFINE k == a.kind \in K
             m == a.resource \in Member
  <2>5. OfKind(K)' = OfKind(K) \cup IF m /\ k THEN {n} ELSE {}
    BY <2>3
  <2> HIDE DEF K, eligible, k, m
  <2>6. Contingent' = Contingent \cup IF m /\ (k /\ eligible) THEN {n} ELSE {}
    <3>1. \A i \in OfKind(K) : Eligible(i)' <=> Eligible(i)
      BY <1>3, <2>4
    <3> QED BY <1>4, <2>1, <2>2, <2>5, <3>1
  <2>7. Contingent' = Contingent \cup Own(a.kind \in K /\ eligible)
    BY <2>6 DEF k, m
  <2> QED BY <2>7 DEF K
<1> QED BY <1>2, <1>3, <1>4, <1>5, <1>6, <1>7

\* The entries before an admission are at fault as they were.
LEMMA AppendFault ==
  ASSUME Inputs, NEW a \in Admissions, policy' = policy, admissions' = Append(admissions, a),
         NEW n, n = Len(admissions) + 1, NEW i \in 1..(n - 1)
  PROVE  AdmissionFault(i)' = AdmissionFault(i)
<1>1. /\ n \in Nat \ {0} /\ DOMAIN admissions = 1..(n - 1) /\ n \notin DOMAIN admissions
      /\ admissions' \in Seq(Admissions) /\ i \in DOMAIN admissions
      /\ \A j \in 1..(n - 1) : admissions'[j] = admissions[j] /\ Eligible(j)' = Eligible(j)
      /\ \A j \in InScope(admissions)' : j \in InScope(admissions) \/ j = n
      /\ \A j \in InScope(admissions) : j \in InScope(admissions)'
      /\ \A K : \A j \in OfKind(K)' : j \in OfKind(K) \/ j = n
      /\ \A K : \A j \in OfKind(K) : j \in OfKind(K)'
  BY AppendEntry
<1>2. i \in InScope(admissions)' <=> i \in InScope(admissions)
  BY <1>1
<1> DEFINE C == {j \in OfKind({"Guaranteed"}) : j <= i}
           D == {j \in 1..i : j \in OfKind({"Contingent", "Burst"}) /\ Eligible(j)}
           E == {j \in OfKind({"Guaranteed"})' : j <= i}
           F == {j \in 1..i : j \in OfKind({"Contingent", "Burst"})' /\ Eligible(j)'}
<1>3. \A j \in 1..i : j \in 1..(n - 1) /\ j # n
  BY <1>1
<1>4. ~(n <= i)
  BY <1>1
<1>5. E = C
  BY <1>1, <1>4
<1>6. F = D
  BY <1>1, <1>3
<1>7. C \in SUBSET DOMAIN admissions /\ D \in SUBSET DOMAIN admissions
  BY DEF OfKind, InScope
<1>8. admissions[i] = admissions'[i]
  BY <1>1
<1> DEFINE G == IF admissions[i].kind = "Guaranteed" THEN C ELSE D
<1>9. G \in SUBSET DOMAIN admissions
  BY <1>7
<1>10. /\ AdmissionOverflows(i) <=>
            (\/ Used(admissions, G) > MaxWord
             \/ admissions[i].kind # "Guaranteed" /\ Asked(admissions, G) > MaxWord)
       /\ AdmissionOverflows(i)' <=>
            (\/ Used(admissions', G) > MaxWord
             \/ admissions'[i].kind # "Guaranteed" /\ Asked(admissions', G) > MaxWord)
  <2>1. AdmissionOverflows(i) <=>
          (\/ Used(admissions, G) > MaxWord
           \/ admissions[i].kind # "Guaranteed" /\ Asked(admissions, G) > MaxWord)
    BY DEF AdmissionOverflows, Committed, Pending, Used, Asked
  <2>2. AdmissionOverflows(i)' <=>
          LET H == IF admissions'[i].kind = "Guaranteed" THEN E ELSE F
          IN  \/ Used(admissions', H) > MaxWord
              \/ admissions'[i].kind # "Guaranteed" /\ Asked(admissions', H) > MaxWord
    BY DEF AdmissionOverflows, Committed, Pending, Used, Asked
  <2>3. G = IF admissions'[i].kind = "Guaranteed" THEN E ELSE F
    BY <1>5, <1>6, <1>8
  <2> HIDE DEF C, D, E, F, G
  <2> QED BY <2>1, <2>2, <2>3
<1>11. Used(admissions', G) = Used(admissions, G) /\ Asked(admissions', G) = Asked(admissions, G)
  <2> HIDE DEF G
  <2> QED BY <1>9, AppendDemand DEF Inputs
<1>12. AdmissionOverflows(i)' <=> AdmissionOverflows(i)
  <2> HIDE DEF G
  <2> QED BY <1>8, <1>10, <1>11
<1> HIDE DEF C, D, E, F, G
<1> QED BY <1>2, <1>8, <1>12 DEF AdmissionFault

\* A fault of the snapshots stays, but that an overflow of the new entry may come
\* before capacity that is too large; without one, only the new entry can be at
\* fault.
LEMMA AppendFaults ==
  ASSUME Inputs, NEW a \in Admissions, policy' = policy, capacity' = capacity,
         guarantees' = guarantees, admissions' = Append(admissions, a),
         NEW n, n = Len(admissions) + 1
  PROVE  /\ AdmissionFault(n)' \in {None, "Unknown", "ConflictingInput"}
         /\ EntryFault \in {None, "Unknown", "ConflictingInput"}
         /\ EntryFault = None => EntryFault' = AdmissionFault(n)'
         /\ EntryFault = "Unknown" => EntryFault' = "Unknown"
         /\ EntryFault = "ConflictingInput" => EntryFault' \in {"Unknown", "ConflictingInput"}
<1> DEFINE m == FirstFault([i \in DOMAIN Members |-> MemberFault(i)])
           g == FirstFault([i \in DOMAIN guarantees |-> GuaranteeFault(i)])
           f == [i \in DOMAIN admissions |-> AdmissionFault(i)]
           h == [i \in DOMAIN admissions' |-> AdmissionFault(i)']
           F == {None, "Unknown", "ConflictingInput"}
<1>1. /\ \A i : MemberFault(i)' = MemberFault(i) /\ GuaranteeFault(i)' = GuaranteeFault(i)
      /\ Reserved' = Reserved /\ TooLarge' = TooLarge
  BY SameCapacity
<1>2. /\ n \in Nat \ {0} /\ n - 1 \in Nat /\ (n - 1) + 1 = n
      /\ DOMAIN admissions = 1..(n - 1) /\ DOMAIN admissions' = 1..n
  BY AppendEntry
<1>3. \A i \in 1..(n - 1) : AdmissionFault(i)' = AdmissionFault(i)
  BY AppendFault
<1>4. DOMAIN f = 1..(n - 1) /\ DOMAIN h = 1..n /\ \A i \in 1..(n - 1) : h[i] = f[i]
  BY <1>2, <1>3
<1>5. h[n] = AdmissionFault(n)' /\ h[n] \in F
  <2>1. n \in DOMAIN admissions'
    BY <1>2
  <2> QED BY <2>1 DEF AdmissionFault
<1>6. FirstFault(h) = IF FirstFault(f) # None THEN FirstFault(f) ELSE h[n]
  <2> HIDE DEF f, h
  <2> QED BY <1>2, <1>4, FirstFaultAppend
<1>7. m \in F /\ g \in F /\ FirstFault(f) \in F
  <2>1. /\ DOMAIN Members = 1..Len(Members) /\ Len(Members) \in Nat
        /\ DOMAIN guarantees = 1..Len(guarantees) /\ Len(guarantees) \in Nat
        /\ DOMAIN admissions = 1..Len(admissions) /\ Len(admissions) \in Nat
    BY EngineAssumption DEF Inputs
  <2>2. /\ \A i \in DOMAIN Members : MemberFault(i) \in F
        /\ \A i \in DOMAIN guarantees : GuaranteeFault(i) \in F
        /\ \A i \in DOMAIN admissions : AdmissionFault(i) \in F
    BY DEF MemberFault, GuaranteeFault, AdmissionFault
  <2> DEFINE mm == [i \in DOMAIN Members |-> MemberFault(i)]
             gg == [i \in DOMAIN guarantees |-> GuaranteeFault(i)]
  <2>3. /\ DOMAIN mm = 1..Len(Members) /\ DOMAIN gg = 1..Len(guarantees)
        /\ DOMAIN f = 1..Len(admissions)
        /\ \A i \in DOMAIN mm : mm[i] \in F
        /\ \A i \in DOMAIN gg : gg[i] \in F
        /\ \A i \in DOMAIN f : f[i] \in F
    BY <2>1, <2>2
  <2>4. m = FirstFault(mm) /\ g = FirstFault(gg)
    OBVIOUS
  <2> HIDE DEF mm, gg, f, m, g, F
  <2>5. None \in F
    BY DEF F
  <2> QED BY <2>1, <2>3, <2>4, <2>5, FirstFaultFacts
<1>8. EntryFault = IF m # None THEN m ELSE IF g # None THEN g
                   ELSE IF Reserved > MaxWord THEN "Unknown"
                   ELSE IF FirstFault(f) # None THEN FirstFault(f)
                   ELSE IF TooLarge THEN "ConflictingInput" ELSE None
  BY DEF EntryFault
<1>9. EntryFault' = IF m # None THEN m ELSE IF g # None THEN g
                    ELSE IF Reserved > MaxWord THEN "Unknown"
                    ELSE IF FirstFault(h) # None THEN FirstFault(h)
                    ELSE IF TooLarge THEN "ConflictingInput" ELSE None
  BY <1>1 DEF EntryFault
<1>10. "Unknown" # None /\ "ConflictingInput" # None
  BY NoneFacts DEF Outcome
<1> DEFINE big == Reserved > MaxWord
<1> HIDE DEF m, g, f, h, big
<1>11. /\ EntryFault = IF m # None THEN m ELSE IF g # None THEN g
                       ELSE IF big THEN "Unknown"
                       ELSE IF FirstFault(f) # None THEN FirstFault(f)
                       ELSE IF TooLarge THEN "ConflictingInput" ELSE None
       /\ EntryFault' = IF m # None THEN m ELSE IF g # None THEN g
                        ELSE IF big THEN "Unknown"
                        ELSE IF FirstFault(h) # None THEN FirstFault(h)
                        ELSE IF TooLarge THEN "ConflictingInput" ELSE None
  BY <1>8, <1>9 DEF big
<1>12. EntryFault \in F
  BY <1>7, <1>11
<1>13. EntryFault = None => EntryFault' = h[n]
  BY <1>5, <1>6, <1>10, <1>11
<1>14. EntryFault = "Unknown" => EntryFault' = "Unknown"
  BY <1>6, <1>10, <1>11
<1>15. EntryFault = "ConflictingInput" => EntryFault' \in {"Unknown", "ConflictingInput"}
  BY <1>5, <1>6, <1>7, <1>10, <1>11
<1> QED BY <1>5, <1>12, <1>13, <1>14, <1>15

\* What the totals are sums of.
TotalsAre ==
  /\ effective_usable_capacity = SumFunction([r \in Member |-> EffectiveUsable(r)])
  /\ ceiling_total = Ceiling(effective_usable_capacity, Candidates(effective_usable_capacity))
  /\ guarantees_total = Reserved /\ contingent_committed = Committed(Contingent)
  /\ burst_committed = Committed(Burst)

\* They are, in every state and the next.
LEMMA TotalsNext == /\ IInv /\ fault = None => TotalsAre
                    /\ (IInv /\ fault = None => TotalsAre)'
<1>1. IInv /\ fault = None => TotalsAre
  BY TotalsFacts DEF TotalsAre
<1> QED BY <1>1, PTL

\* More entries of a longer snapshot carry no less demand.
LEMMA MoreDemand ==
  ASSUME Inputs, NEW a \in Admissions, admissions' = Append(admissions, a),
         NEW S \in SUBSET DOMAIN admissions, NEW T \in SUBSET DOMAIN admissions', S \subseteq T
  PROVE  /\ Used(admissions, S) \in Nat /\ Used(admissions', T) \in Nat
         /\ Used(admissions, S) <= Used(admissions', T)
<1>1. admissions \in Seq(Admissions) /\ admissions' \in Seq(Admissions)
  BY DEF Inputs
<1>2. Used(admissions', S) = Used(admissions, S)
  BY <1>1, AppendDemand
<1>3. Used(admissions, S) \in Nat
  BY <1>1, DemandFacts
<1>4. Used(admissions', T) \in Nat /\ Used(admissions', S) <= Used(admissions', T)
  BY <1>1, DemandFacts
<1> QED BY <1>2, <1>3, <1>4

\* An admission changes neither capacity nor ceiling and takes no demand away.
LEMMA AppendTotals ==
  ASSUME IInv, IInv', fault = None, fault' = None, NEW a \in Admissions,
         policy' = policy, capacity' = capacity, guarantees' = guarantees,
         admissions' = Append(admissions, a)
  PROVE  /\ effective_usable_capacity' = effective_usable_capacity
         /\ ceiling_total' = ceiling_total /\ guarantees_total' = guarantees_total
         /\ contingent_committed \in Nat /\ contingent_committed' \in Nat
         /\ contingent_committed <= contingent_committed'
         /\ burst_committed \in Nat /\ burst_committed' \in Nat /\ burst_committed <= burst_committed'
         /\ \A c : /\ ContingentOf(c) \in Nat /\ ContingentOf(c)' \in Nat
                   /\ ContingentOf(c) <= ContingentOf(c)'
         /\ Unmapped => Unmapped'
         /\ IneligibleDemand => IneligibleDemand'
<1>1. Inputs /\ admissions \in Seq(Admissions)
  BY DEF IInv, Inputs
<1>2. PICK n : n = Len(admissions) + 1
  OBVIOUS
<1>3. /\ \A r : EffectiveUsable(r)' = EffectiveUsable(r)
      /\ \A e : Candidates(e)' = Candidates(e)
      /\ Reserved' = Reserved /\ \A S : Guaranteed(S)' = Guaranteed(S)
      /\ InScope(guarantees)' = InScope(guarantees)
  BY SameCapacity
<1>4. TotalsAre /\ TotalsAre'
  BY TotalsNext
<1>5. /\ effective_usable_capacity' = effective_usable_capacity
      /\ guarantees_total' = guarantees_total
  BY <1>3, <1>4 DEF TotalsAre
<1>6. ceiling_total' = ceiling_total
  <2> DEFINE e == effective_usable_capacity
  <2>1. ceiling_total = Ceiling(e, Candidates(e))
    BY <1>4 DEF TotalsAre
  <2>2. ceiling_total' = Ceiling(e, Candidates(e))
    <3>1. ceiling_total' = Ceiling(effective_usable_capacity', Candidates(effective_usable_capacity)')
      BY <1>4 DEF TotalsAre, Ceiling
    <3>2. Candidates(effective_usable_capacity)' = Candidates(effective_usable_capacity)
      <4>1. Candidates(effective_usable_capacity)' = Options(policy', EffectiveRatio', effective_usable_capacity')
        BY DEF Candidates, Options
      <4>2. EffectiveRatio' = EffectiveRatio
        BY DEF EffectiveRatio, degraded
      <4>3. Candidates(effective_usable_capacity) = Options(policy, EffectiveRatio, effective_usable_capacity)
        BY DEF Candidates, Options
      <4> QED BY <4>1, <4>2, <4>3, <1>5
    <3> QED BY <3>1, <3>2, <1>5
  <2> QED BY <2>1, <2>2
<1>7. /\ n \in Nat \ {0} /\ DOMAIN admissions = 1..(n - 1) /\ DOMAIN admissions' = 1..n
      /\ n \notin DOMAIN admissions /\ admissions'[n] = a
      /\ \A i \in DOMAIN admissions : /\ i \in DOMAIN admissions' /\ admissions'[i] = admissions[i]
                                      /\ Eligible(i)' = Eligible(i)
      /\ InScope(admissions) \subseteq InScope(admissions)'
      /\ \A K : OfKind(K) \subseteq OfKind(K)'
      /\ Contingent \subseteq Contingent'
  BY <1>1, <1>2, AppendEntry
<1>8. /\ Contingent \subseteq DOMAIN admissions /\ Contingent' \subseteq DOMAIN admissions'
      /\ \A K : OfKind(K) \subseteq DOMAIN admissions /\ OfKind(K)' \subseteq DOMAIN admissions'
  BY DEF Contingent, OfKind, InScope
<1>9. /\ \A S : Committed(S) = Used(admissions, S)
      /\ \A S : Committed(S)' = Used(admissions', S)
  BY DEF Committed, Used
<1>10. /\ contingent_committed \in Nat /\ contingent_committed' \in Nat
       /\ contingent_committed <= contingent_committed'
  <2>1. /\ contingent_committed = Used(admissions, Contingent)
        /\ contingent_committed' = Used(admissions', Contingent')
    BY <1>4 DEF TotalsAre, Committed, Used
  <2> QED BY <2>1, <1>1, <1>7, <1>8, MoreDemand
<1>11. /\ burst_committed \in Nat /\ burst_committed' \in Nat /\ burst_committed <= burst_committed'
  <2>1. burst_committed = Used(admissions, Burst) /\ burst_committed' = Used(admissions', Burst')
    BY <1>4 DEF TotalsAre, Committed, Used
  <2>2. /\ Burst \subseteq DOMAIN admissions /\ Burst' \subseteq DOMAIN admissions'
        /\ Burst \subseteq Burst'
    BY <1>7, <1>8 DEF Burst
  <2> QED BY <2>1, <2>2, <1>1, MoreDemand
<1>12. ASSUME NEW c
       PROVE  /\ ContingentOf(c) \in Nat /\ ContingentOf(c)' \in Nat
              /\ ContingentOf(c) <= ContingentOf(c)'
  <2> DEFINE S == {i \in Contingent : admissions[i].service_class = c}
             T == {i \in Contingent' : admissions'[i].service_class = c}
  <2>1. ContingentOf(c) = Used(admissions, S) /\ ContingentOf(c)' = Used(admissions', T)
    BY DEF ContingentOf, Committed, Used
  <2>2. S \in SUBSET DOMAIN admissions /\ T \in SUBSET DOMAIN admissions' /\ S \subseteq T
    BY <1>7, <1>8
  <2> HIDE DEF S, T
  <2> QED BY <2>1, <2>2, <1>1, MoreDemand
<1>13. ASSUME Unmapped PROVE Unmapped'
  <2> DEFINE S(r, c) == {i \in OfKind({"Guaranteed"}) : /\ admissions[i].resource = r
                                                      /\ admissions[i].service_class = c}
             T(r, c) == {i \in OfKind({"Guaranteed"})' : /\ admissions'[i].resource = r
                                                       /\ admissions'[i].service_class = c}
             G(r, c) == {i \in InScope(guarantees) : /\ guarantees[i].resource = r
                                                    /\ guarantees[i].service_class = c}
  <2>1. PICK r \in Member, c \in DOMAIN policy.classes : Used(admissions, S(r, c)) > Held(guarantees, G(r, c))
    BY <1>13 DEF Unmapped, Committed, Guaranteed, Used, Held
  <2>2. S(r, c) \in SUBSET DOMAIN admissions /\ T(r, c) \in SUBSET DOMAIN admissions'
        /\ S(r, c) \subseteq T(r, c)
    BY <1>7, <1>8
  <2>3. G(r, c) \in SUBSET DOMAIN guarantees
    BY DEF InScope
  <2>4. Unmapped' <=> \E x \in Member, y \in DOMAIN policy.classes :
                        Used(admissions', T(x, y)) > Held(guarantees, G(x, y))
    BY <1>3 DEF Unmapped, Committed, Guaranteed, Used, Held
  <2> DEFINE p == Used(admissions, S(r, c))
             q == Used(admissions', T(r, c))
             k == Held(guarantees, G(r, c))
  <2>5. p \in Nat /\ q \in Nat /\ p <= q
    <3> HIDE DEF S, T
    <3> QED BY <2>2, <1>1, MoreDemand
  <2>6. k \in Nat /\ p > k
    <3> HIDE DEF G, S
    <3> QED BY <2>1, <2>3, HeldFacts DEF IInv, Inputs
  <2> HIDE DEF p, q, k, S, T, G
  <2>7. q > k
    BY <2>5, <2>6
  <2> QED BY <2>4, <2>7 DEF q, k
<1>14. ASSUME IneligibleDemand PROVE IneligibleDemand'
  <2>1. PICK i \in OfKind({"Contingent", "Burst"}) :
          /\ ~Eligible(i) /\ admissions[i].committed_capacity + admissions[i].pending_capacity > 0
    BY <1>14 DEF IneligibleDemand
  <2>2. /\ i \in OfKind({"Contingent", "Burst"})' /\ ~Eligible(i)' /\ admissions'[i] = admissions[i]
    BY <2>1, <1>7, <1>8
  <2>3. admissions'[i].committed_capacity + admissions'[i].pending_capacity > 0
    BY <2>1, <2>2
  <2> QED BY <2>2, <2>3 DEF IneligibleDemand
<1> QED BY <1>5, <1>6, <1>10, <1>11, <1>12, <1>13, <1>14

\* The least number of d that cover m.
CeilDiv(m, d) == IF m % d = 0 THEN m \div d ELSE m \div d + 1

\* mul_div_ceil returns it, or fails if it is not a word.
LEMMA CeilExact ==
  ASSUME NEW a \in Nat, NEW b \in Nat, NEW d \in Nat \ {0}
  PROVE  CeilDiv(a * b, d) \in Nat /\ mul_div_ceil(a, b, d) = Checked(CeilDiv(a * b, d))
<1> DEFINE m == a * b
           q == m \div d
           r == m % d
           W == WideDivision(a, b, d)
           c == CeilDiv(m, d)
<1>1. m \in Nat /\ (a = 0 \/ b = 0 => m = 0)
  OBVIOUS
<1>2. q \in Nat /\ r \in Nat /\ MaxWord \in Nat /\ None \notin Nat
  <2>1. q \in Nat /\ r \in Nat
    <3> HIDE DEF m
    <3> QED BY <1>1, DivModNat
  <2>2. MaxWord \in Nat
    BY WordFacts
  <2>3. None \notin Nat
    BY MulDivAssumption
  <2> QED BY <2>1, <2>2, <2>3
<1>3. c = IF r = 0 THEN q ELSE q + 1
  BY DEF CeilDiv
<1>4. CASE a = 0 \/ b = 0
  <2>1. q = 0 /\ r = 0
    BY <1>1, <1>4
  <2>2. mul_div_ceil(a, b, d) = 0
    BY <1>4 DEF mul_div_ceil
  <2> HIDE DEF c, q, r
  <2>3. c = 0
    BY <1>3, <2>1
  <2> QED BY <2>2, <2>3, <1>2 DEF Checked, c, m
<1>5. CASE ~(a = 0 \/ b = 0)
  <2>1. mul_div_ceil(a, b, d) = RoundUp(W)
    BY <1>5 DEF mul_div_ceil
  <2>2. W = IF q > MaxWord THEN None ELSE [rem |-> r, quot |-> q]
    BY DEF WideDivision
  <2>3. [rem |-> r, quot |-> q] # None
    <3> HIDE DEF q, r
    <3>1. [rem |-> r, quot |-> q] \in [rem : Nat, quot : Nat]
      BY <1>2
    <3> QED BY <3>1, MulDivAssumption
  <2> HIDE DEF W, q, r, c, m
  <2>4. RoundUp(W) = IF q > MaxWord THEN None
                     ELSE IF r = 0 THEN q ELSE IF q > MaxWord - 1 THEN None ELSE q + 1
    BY <1>2, <2>2, <2>3 DEF RoundUp, add_checked
  <2>5. RoundUp(W) = Checked(c) /\ c \in Nat
    BY <1>2, <1>3, <2>4 DEF Checked
  <2> QED BY <2>1, <2>5 DEF c, m
<1>6. c \in Nat
  <2> HIDE DEF q, r, c
  <2> QED BY <1>2, <1>3
<1> QED BY <1>4, <1>5, <1>6

\* A larger number needs no fewer.
LEMMA CeilDivMonotone ==
  ASSUME NEW m \in Nat, NEW n \in Nat, m <= n, NEW d \in Nat \ {0}
  PROVE  CeilDiv(m, d) <= CeilDiv(n, d)
<1> DEFINE p == m \div d
           r == m % d
           q == n \div d
           s == n % d
           t == CeilDiv(n, d)
<1>1. /\ p \in Nat /\ r \in Nat /\ q \in Nat /\ s \in Nat
      /\ m = d * p + r /\ n = d * q + s /\ r < d /\ s < d
  BY DivModNat
<1>2. t = IF s = 0 THEN q ELSE q + 1
  BY DEF CeilDiv
<1>3. CeilDiv(m, d) = IF r = 0 THEN p ELSE p + 1
  BY DEF CeilDiv
<1> HIDE DEF p, r, q, s, t
<1>4. t \in Nat /\ n <= d * t
  <2>1. CASE s = 0
    <3>1. t = q /\ n = d * q
      BY <1>1, <1>2, <2>1
    <3> QED BY <3>1, <1>1
  <2>2. CASE s # 0
    <3>1. t = q + 1 /\ d * t = d * q + d
      BY <1>1, <1>2, <2>2
    <3>2. d * q \in Nat
      BY <1>1
    <3> QED BY <3>1, <3>2, <1>1
  <2> QED BY <2>1, <2>2
<1>5. d * p \in Nat /\ d * t \in Nat /\ d * p + r <= d * t
  <2>1. d * p \in Nat /\ d * t \in Nat
    BY <1>1, <1>4
  <2> QED BY <2>1, <1>1, <1>4
<1>6. CASE r = 0
  <2>1. p * d <= t * d
    BY <1>1, <1>4, <1>5, <1>6
  <2>2. p <= t
    BY <2>1, <1>1, <1>4, TimesCancel
  <2> QED BY <2>2, <1>3, <1>6 DEF t
<1>7. CASE r # 0
  <2>1. ~(t <= p)
    <3> SUFFICES ASSUME t <= p PROVE FALSE
      OBVIOUS
    <3>1. d * t <= d * p
      BY <1>1, <1>4, TimesMonotone
    <3> QED BY <3>1, <1>1, <1>5, <1>7
  <2>2. p + 1 <= t
    BY <2>1, <1>1, <1>4
  <2> QED BY <2>2, <1>3, <1>7 DEF t
<1> QED BY <1>6, <1>7

\* A larger overage is no smaller a part of the ceiling, and too large to be
\* expressed if the smaller one was.
LEMMA CeilMonotone ==
  ASSUME NEW a \in Nat, NEW b \in Nat, a <= b, NEW k \in Nat, NEW d \in Nat \ {0}
  PROVE  /\ mul_div_ceil(a, k, d) \in Nat \cup {None} /\ mul_div_ceil(b, k, d) \in Nat \cup {None}
         /\ mul_div_ceil(a, k, d) = None => mul_div_ceil(b, k, d) = None
         /\ mul_div_ceil(b, k, d) # None => mul_div_ceil(a, k, d) <= mul_div_ceil(b, k, d)
<1>1. a * k \in Nat /\ b * k \in Nat /\ a * k <= b * k
  <2>1. a * k \in Nat /\ b * k \in Nat
    OBVIOUS
  <2> QED BY <2>1, TimesMonotone
<1> DEFINE p == CeilDiv(a * k, d)
           q == CeilDiv(b * k, d)
<1>2. p \in Nat /\ q \in Nat /\ mul_div_ceil(a, k, d) = Checked(p) /\ mul_div_ceil(b, k, d) = Checked(q)
  BY CeilExact
<1>3. p <= q
  BY <1>1, CeilDivMonotone
<1>4. MaxWord \in Nat /\ \A n \in Words : n \in Nat
  BY WordFacts DEF Words
<1> HIDE DEF p, q
<1> QED BY <1>2, <1>3, <1>4, CheckedFacts

\* An overage that is an emergency remains one when it grows.
LEMMA OverageGrows ==
  ASSUME Inputs, policy' = policy, ceiling_total' = ceiling_total, ceiling_total \in Nat,
         overage \in Nat, overage' \in Nat, overage <= overage',
         OverageOutcome = "EmergencyReduction"
  PROVE  OverageOutcome' = "EmergencyReduction"
<1> DEFINE k == ceiling_total
           e == policy.emergency_overage_ppm
           p == IF k = 0 THEN None ELSE mul_div_ceil(overage, kPpmScale, k)
           q == IF k = 0 THEN None ELSE mul_div_ceil(overage', kPpmScale, k)
<1>1. e \in 1..kPpmScale /\ kPpmScale \in Nat
  BY PolicyFacts
<1>2. e \in Nat /\ e <= kPpmScale
  <2> HIDE DEF e
  <2> QED BY <1>1
<1>3. OverageOutcome = IF (IF p = None THEN kPpmScale ELSE p) >= e
                       THEN "EmergencyReduction" ELSE "ReductionRequired"
  BY DEF OverageOutcome
<1>4. OverageOutcome' = IF (IF q = None THEN kPpmScale ELSE q) >= e
                        THEN "EmergencyReduction" ELSE "ReductionRequired"
  BY DEF OverageOutcome
<1>5. /\ p \in Nat \cup {None} /\ q \in Nat \cup {None}
      /\ p = None => q = None
      /\ q # None => p <= q
  <2>1. CASE k = 0
    BY <2>1
  <2>2. CASE k # 0
    <3> DEFINE a == overage
               b == overage'
    <3>1. a \in Nat /\ b \in Nat /\ a <= b /\ k \in Nat \ {0}
      BY <2>2
    <3>2. p = mul_div_ceil(a, kPpmScale, k) /\ q = mul_div_ceil(b, kPpmScale, k)
      BY <2>2
    <3> HIDE DEF p, q, a, b, k
    <3> QED BY <1>1, <3>1, <3>2, CeilMonotone
  <2> QED BY <2>1, <2>2
<1>6. None \notin Nat
  BY MulDivAssumption
<1> HIDE DEF p, q, e, k
<1>7. (IF p = None THEN kPpmScale ELSE p) >= e
  BY <1>3
<1>8. (IF q = None THEN kPpmScale ELSE q) >= e
  <2>1. CASE q = None
    BY <1>1, <1>2, <2>1
  <2>2. CASE q # None
    <3>1. p # None /\ p \in Nat /\ q \in Nat /\ p <= q
      BY <1>5, <2>2
    <3> QED BY <3>1, <1>2, <1>7, <2>2
  <2> QED BY <2>1, <2>2
<1> QED BY <1>4, <1>8

\* The verdict of a state and of the next.
VerdictIs ==
  /\ InputFault \in {None, "Unknown", "ConflictingInput"}
  /\ outcome = IF InputFault # None THEN InputFault ELSE DomainOutcome
  /\ DomainOutcome \in {"WithinPolicy", "AtLimit", "ReductionRequired", "EmergencyReduction",
                        "PolicyRejected", "ConflictingInput"}
  /\ fault = EntryFault

\* What VerdictFacts says, of both states of a step.
LEMMA VerdictNext == /\ IInv => VerdictIs
                     /\ (IInv => VerdictIs)'
<1>1. ASSUME IInv PROVE VerdictIs
  BY <1>1, VerdictFacts DEF VerdictIs, IInv, Evaluated
<1> QED BY <1>1, PTL

\* Sums that leave a word still do with an admission more.
LEMMA ClosedBefore ==
  ASSUME IInv, IInv', fault = None, fault' = None, NEW a \in Admissions,
         policy' = policy, capacity' = capacity, guarantees' = guarantees,
         admissions' = Append(admissions, a), Closed'
  PROVE  Closed
<1>1. /\ ceiling_total' = ceiling_total /\ guarantees_total' = guarantees_total
      /\ contingent_committed \in Nat /\ contingent_committed' \in Nat
      /\ contingent_committed <= contingent_committed'
  BY AppendTotals
<1>2. guarantees_total \in Nat /\ MaxWord \in Nat
  BY TotalsFacts, WordFacts DEF Words
<1>3. floor_required' = floor_required
  BY <1>1 DEF floor_required, protected_required
<1>4. committed_total <= committed_total' /\ committed_total \in Nat /\ committed_total' \in Nat
  <2> DEFINE g == guarantees_total
             c == contingent_committed
             d == contingent_committed'
  <2>1. committed_total = g + c /\ committed_total' = g + d
    BY <1>1 DEF committed_total
  <2>2. g \in Nat /\ c \in Nat /\ d \in Nat /\ c <= d
    BY <1>1, <1>2
  <2> HIDE DEF g, c, d
  <2> QED BY <2>1, <2>2
<1>5. ceiling_total' # None /\ floor_required' <= MaxWord /\ committed_total' <= MaxWord
  BY DEF Closed
<1>6. committed_total <= MaxWord
  BY <1>2, <1>4, <1>5
<1> QED BY <1>1, <1>3, <1>5, <1>6 DEF Closed

\* Each quantity the checks look at moves one way with an admission.
LEMMA MoreIsNoBetter ==
  ASSUME IInv, IInv', InputFault = None, InputFault' = None, NEW a \in Admissions,
         policy' = policy, capacity' = capacity, guarantees' = guarantees,
         admissions' = Append(admissions, a)
  PROVE  /\ Unmapped => Unmapped'
         /\ IneligibleDemand => IneligibleDemand'
         /\ \/ FloorOutcome' = FloorOutcome
            \/ (FloorOutcome = "AtLimit" /\ FloorOutcome' = "EmergencyReduction")
         /\ overage > 0 => overage' > 0
         /\ overage > 0 /\ OverageOutcome = "EmergencyReduction" =>
              OverageOutcome' = "EmergencyReduction"
         /\ BurstExceeded => BurstExceeded'
         /\ ShareExceeded => ShareExceeded'
         /\ contingent_free \in Nat /\ contingent_free' \in Nat
         /\ contingent_free' <= contingent_free
<1>1. Accounts /\ Accounts' /\ fault = None /\ fault' = None /\ Inputs
  <2>1. Accounts /\ Accounts'
    BY AccountFacts, AccountNext
  <2>2. fault = None /\ fault' = None
    BY DEF InputFault
  <2> QED BY <2>1, <2>2 DEF IInv
<1>2. /\ effective_usable_capacity' = effective_usable_capacity
      /\ ceiling_total' = ceiling_total /\ guarantees_total' = guarantees_total
      /\ contingent_committed <= contingent_committed' /\ burst_committed <= burst_committed'
      /\ \A c : /\ ContingentOf(c) \in Nat /\ ContingentOf(c)' \in Nat
                /\ ContingentOf(c) <= ContingentOf(c)'
      /\ Unmapped => Unmapped'
      /\ IneligibleDemand => IneligibleDemand'
  BY <1>1, AppendTotals
<1>3. /\ \A r : EffectiveUsable(r)' = EffectiveUsable(r)
      /\ \A r, n : GuaranteedOn(r, n)' = GuaranteedOn(r, n)
  BY SameCapacity
<1>4. /\ protected_required' = protected_required /\ floor_required' = floor_required
      /\ contingent_ceiling' = contingent_ceiling
  BY <1>2 DEF protected_required, floor_required, contingent_ceiling
<1> DEFINE g == guarantees_total
           k == ceiling_total
           c == contingent_committed
           d == contingent_committed'
           t == committed_total
           u == committed_total'
<1>5. /\ g \in Nat /\ k \in Nat /\ c \in Nat /\ d \in Nat /\ c <= d
      /\ t = g + c /\ u = g + d /\ t \in Nat /\ u \in Nat
  BY <1>1, <1>2 DEF Accounts, committed_total
<1>6. t <= u
  <2> HIDE DEF g, c, d, t, u, k
  <2> QED BY <1>5
<1>7. overage <= overage' /\ overage \in Nat /\ overage' \in Nat
  <2>1. overage = Excess(t, k) /\ overage' = Excess(u, k)
    BY <1>2 DEF overage
  <2> HIDE DEF t, u, k
  <2>2. \A x, y, z \in Nat : x <= y => Excess(x, z) <= Excess(y, z)
    BY DEF Excess
  <2> QED BY <2>1, <2>2, <1>5, <1>6, ExcessFacts
<1>8. overage > 0 => overage' > 0
  BY <1>7
<1>9. OverageOutcome = "EmergencyReduction" => OverageOutcome' = "EmergencyReduction"
  BY <1>1, <1>2, <1>5, <1>7, OverageGrows
<1>10. contingent_free \in Nat /\ contingent_free' \in Nat /\ contingent_free' <= contingent_free
  <2> DEFINE m == contingent_ceiling
  <2>1. contingent_free = Excess(m, c) /\ contingent_free' = Excess(m, d) /\ m \in Nat
    BY <1>1, <1>4 DEF contingent_free, Accounts
  <2> HIDE DEF m, c, d
  <2>2. \A x, y, z \in Nat : x <= y => Excess(z, y) <= Excess(z, x)
    BY DEF Excess
  <2> QED BY <2>1, <2>2, <1>5, ExcessFacts
<1>11. BurstExceeded => BurstExceeded'
  <2> SUFFICES ASSUME BurstExceeded PROVE BurstExceeded'
    OBVIOUS
  <2> DEFINE b == burst_committed
             e == burst_committed'
             cap == policy.burst_pool_cap_units
  <2>1. cap # None /\ b > cap
    BY DEF BurstExceeded
  <2>2. cap \in Nat /\ b \in Nat /\ e \in Nat /\ b <= e
    BY <1>1, <1>2, <2>1, PolicyFacts DEF Accounts
  <2> HIDE DEF b, e, cap
  <2>3. e > cap
    BY <2>1, <2>2
  <2> QED BY <2>1, <2>3 DEF BurstExceeded, e, cap
<1>12. ShareExceeded => ShareExceeded'
  <2> SUFFICES ASSUME NEW x \in DOMAIN policy.classes, ShareExcess(x) > 0
               PROVE  ShareExcess(x)' > 0
    BY DEF ShareExceeded
  <2> DEFINE cap == policy.classes[x].contingent_share_cap_ppm
             s == mul_div_floor(contingent_ceiling, cap, kPpmScale)
             p == ContingentOf(x)
             q == ContingentOf(x)'
  <2>1. cap # None /\ s \in Nat /\ ShareExcess(x) = Excess(p, s)
    <3>1. /\ cap = None => ShareExcess(x) = 0
          /\ cap # None => s \in Nat /\ ShareExcess(x) = Excess(p, s)
      BY <1>1 DEF Accounts
    <3> HIDE DEF cap, s, p
    <3> QED BY <3>1
  <2>2. ShareExcess(x)' = Excess(q, s)
    BY <2>1, <1>4 DEF ShareExcess
  <2>3. p \in Nat /\ q \in Nat /\ p <= q
    BY <1>2
  <2>4. Excess(p, s) > 0
    BY <2>1
  <2> HIDE DEF cap, s, p, q
  <2>5. p > s
    BY <2>1, <2>3, <2>4, ExcessFacts
  <2>6. q > s
    BY <2>1, <2>3, <2>5
  <2>7. Excess(q, s) > 0
    BY <2>1, <2>3, <2>6, ExcessFacts
  <2> QED BY <2>2, <2>7
<1>13. \/ FloorOutcome' = FloorOutcome
       \/ (FloorOutcome = "AtLimit" /\ FloorOutcome' = "EmergencyReduction")
  <2> DEFINE short == \E r \in Member : GuaranteedOn(r, Len(guarantees)) > EffectiveUsable(r)
             eff == effective_usable_capacity
             F(z) == IF short \/ protected_required > eff THEN "EmergencyReduction"
                     ELSE IF floor_required > eff \/ floor_required > k THEN "PolicyRejected"
                     ELSE IF eff = 0 THEN IF z THEN "EmergencyReduction" ELSE "AtLimit" ELSE None
  <2>1. FloorOutcome = F(t > 0)
    BY DEF FloorOutcome
  <2>2. FloorOutcome' = F(u > 0)
    BY <1>2, <1>3, <1>4 DEF FloorOutcome
  <2>3. t > 0 => u > 0
    <3>1. t \in Nat /\ u \in Nat /\ t <= u
      BY <1>5, <1>6
    <3> HIDE DEF t, u
    <3> QED BY <3>1
  <2>4. F(u > 0) = F(t > 0) \/ (F(t > 0) = "AtLimit" /\ F(u > 0) = "EmergencyReduction")
    <3>1. \A y, z \in BOOLEAN : (y => z) => F(z) = F(y) \/ (F(y) = "AtLimit" /\ F(z) = "EmergencyReduction")
      <4> HIDE DEF t, u, short, eff, k
      <4> QED OBVIOUS
    <3> QED BY <2>3, <3>1
  <2> HIDE DEF F, t, u
  <2> QED BY <2>1, <2>2, <2>4
<1> QED BY <1>2, <1>8, <1>9, <1>10, <1>11, <1>12, <1>13

\* So an admission makes the verdict no better.
LEMMA VerdictRises ==
  ASSUME IInv, IInv', InputFault = None, InputFault' = None, NEW a \in Admissions,
         policy' = policy, capacity' = capacity, guarantees' = guarantees,
         admissions' = Append(admissions, a)
  PROVE  outcome_severity[outcome'] >= outcome_severity[outcome]
<1>1. /\ Unmapped => Unmapped'
      /\ IneligibleDemand => IneligibleDemand'
      /\ \/ FloorOutcome' = FloorOutcome
         \/ (FloorOutcome = "AtLimit" /\ FloorOutcome' = "EmergencyReduction")
      /\ overage > 0 => overage' > 0
      /\ overage > 0 /\ OverageOutcome = "EmergencyReduction" =>
           OverageOutcome' = "EmergencyReduction"
      /\ BurstExceeded => BurstExceeded'
      /\ ShareExceeded => ShareExceeded'
      /\ contingent_free \in Nat /\ contingent_free' \in Nat
      /\ contingent_free' <= contingent_free
  BY MoreIsNoBetter
<1>2. outcome = DomainOutcome /\ outcome' = DomainOutcome'
  BY VerdictNext DEF VerdictIs
<1>3. FloorOutcome \in {None, "EmergencyReduction", "PolicyRejected", "AtLimit"}
  BY DEF FloorOutcome
<1>4. /\ OverageOutcome \in {"EmergencyReduction", "ReductionRequired"}
      /\ OverageOutcome' \in {"EmergencyReduction", "ReductionRequired"}
  BY DEF OverageOutcome
<1>5. "EmergencyReduction" # None /\ "AtLimit" # None /\ "PolicyRejected" # None
  BY NoneFacts DEF Outcome
<1>6. contingent_free = 0 => contingent_free' = 0
  BY <1>1
<1> DEFINE o == overage > 0
           x == overage' > 0
           b == BurstExceeded \/ ShareExceeded
           c == BurstExceeded' \/ ShareExceeded'
           z == contingent_free = 0
           y == contingent_free' = 0
           f == FloorOutcome
           g == FloorOutcome'
           p == OverageOutcome
           q == OverageOutcome'
<1>7. DomainOutcome =
        IF Unmapped THEN "ConflictingInput" ELSE IF IneligibleDemand THEN "PolicyRejected"
        ELSE IF f # None THEN f ELSE IF o THEN p ELSE IF b THEN "ReductionRequired"
        ELSE IF z THEN "AtLimit" ELSE "WithinPolicy"
  BY DEF DomainOutcome
<1>8. DomainOutcome' =
        IF Unmapped' THEN "ConflictingInput" ELSE IF IneligibleDemand' THEN "PolicyRejected"
        ELSE IF g # None THEN g ELSE IF x THEN q ELSE IF c THEN "ReductionRequired"
        ELSE IF y THEN "AtLimit" ELSE "WithinPolicy"
  BY DEF DomainOutcome
<1>9. /\ o => x
      /\ o /\ p = "EmergencyReduction" => q = "EmergencyReduction"
      /\ b => c
      /\ z => y
      /\ g = f \/ (f = "AtLimit" /\ g = "EmergencyReduction")
  BY <1>1, <1>6
<1> DEFINE v == DomainOutcome
           w == DomainOutcome'
<1> HIDE DEF o, x, b, c, z, y, f, g, p, q
<1>10. CASE Unmapped'
  BY <1>1, <1>2, <1>3, <1>4, <1>7, <1>8, <1>10 DEF outcome_severity, f, p
<1>11. CASE ~Unmapped' /\ IneligibleDemand'
  BY <1>1, <1>2, <1>3, <1>4, <1>7, <1>8, <1>11 DEF outcome_severity, f, p
<1>12. CASE ~Unmapped' /\ ~IneligibleDemand' /\ g # None
  <2>1. w = g /\ v = f
    BY <1>1, <1>5, <1>7, <1>8, <1>9, <1>12
  <2>2. f \in {"EmergencyReduction", "PolicyRejected", "AtLimit"}
    BY <1>3, <1>9, <1>12, <1>5 DEF f
  <2> QED BY <1>2, <1>9, <2>1, <2>2 DEF outcome_severity
<1>13. CASE ~Unmapped' /\ ~IneligibleDemand' /\ ~(g # None)
  <2>1. f = None
    BY <1>5, <1>9, <1>13
  <2>2. /\ v = IF o THEN p ELSE IF b THEN "ReductionRequired" ELSE IF z THEN "AtLimit" ELSE "WithinPolicy"
        /\ w = IF x THEN q ELSE IF c THEN "ReductionRequired" ELSE IF y THEN "AtLimit" ELSE "WithinPolicy"
    BY <1>1, <1>7, <1>8, <1>13, <2>1
  <2>3. p \in {"EmergencyReduction", "ReductionRequired"} /\ q \in {"EmergencyReduction", "ReductionRequired"}
    BY <1>4 DEF p, q
  <2> HIDE DEF v, w
  <2>4. outcome_severity[w] >= outcome_severity[v]
    BY <1>9, <2>2, <2>3 DEF outcome_severity
  <2> QED BY <1>2, <2>4 DEF v, w
<1> QED BY <1>10, <1>11, <1>12, <1>13

\* More demand never relaxes the verdict and never raises the increment, across
\* the reading of the snapshots and every one of the ordered checks.
THEOREM DemandIsMonotone == Spec => DemandNeverRelaxes
<1> DEFINE Rises ==
      admissions' # admissions =>
        /\ \/ outcome_severity[outcome'] >= outcome_severity[outcome]
           \/ outcome = "Unknown" /\ outcome' = "ConflictingInput"
        /\ authorized_increment_units' <= authorized_increment_units
<1>1. ASSUME IInv, IInv', [Next]_vars PROVE [Rises]_vars
  <2> SUFFICES ASSUME admissions' # admissions
               PROVE  /\ \/ outcome_severity[outcome'] >= outcome_severity[outcome]
                         \/ outcome = "Unknown" /\ outcome' = "ConflictingInput"
                      /\ authorized_increment_units' <= authorized_increment_units
    OBVIOUS
  <2>1. PICK a \in Admissions : Admit(a)
    BY <1>1 DEF Next, Reserve, LoseCapacity, LoseMember, vars
  <2>2. /\ policy' = policy /\ capacity' = capacity /\ guarantees' = guarantees
        /\ admissions' = Append(admissions, a)
    BY <2>1 DEF Admit
  <2>3. IncrementIs /\ IncrementIs' /\ VerdictIs /\ VerdictIs' /\ Inputs
    BY <1>1, AccountFacts, AccountNext, VerdictNext DEF IInv
  <2>4. "Unknown" # None /\ "ConflictingInput" # None
    BY NoneFacts DEF Outcome
  <2>5. \/ outcome_severity[outcome'] >= outcome_severity[outcome]
        \/ outcome = "Unknown" /\ outcome' = "ConflictingInput"
    <3>1. CASE fault # None
      <4>1. PICK n : n = Len(admissions) + 1
        OBVIOUS
      <4>2. /\ EntryFault \in {None, "Unknown", "ConflictingInput"}
            /\ EntryFault = "Unknown" => EntryFault' = "Unknown"
            /\ EntryFault = "ConflictingInput" => EntryFault' \in {"Unknown", "ConflictingInput"}
        BY <2>2, <2>3, <4>1, AppendFaults
      <4>3. fault = EntryFault /\ fault' = EntryFault'
        BY <2>3 DEF VerdictIs
      <4>4. outcome = fault
        BY <2>3, <3>1 DEF VerdictIs, InputFault
      <4>5. fault' # None
        BY <3>1, <2>4, <4>2, <4>3
      <4>6. outcome' = fault'
        BY <2>3, <4>5 DEF VerdictIs, InputFault
      <4> QED BY <3>1, <4>2, <4>3, <4>4, <4>6 DEF outcome_severity
    <3>2. CASE fault = None /\ InputFault' # None
      <4>1. outcome' \in {"Unknown", "ConflictingInput"}
        BY <2>3, <3>2 DEF VerdictIs
      <4>2. outcome = "Unknown" \/ outcome = DomainOutcome
        BY <2>3, <3>2 DEF VerdictIs, InputFault
      <4>3. DomainOutcome \in {"WithinPolicy", "AtLimit", "ReductionRequired", "EmergencyReduction",
                               "PolicyRejected", "ConflictingInput"}
        BY <2>3 DEF VerdictIs
      <4> QED BY <4>1, <4>2, <4>3 DEF outcome_severity
    <3>3. CASE fault = None /\ InputFault' = None
      <4>1. fault' = None /\ Closed'
        BY <3>3, <2>4 DEF InputFault
      <4>2. InputFault = None
        BY <1>1, <2>2, <3>3, <4>1, ClosedBefore DEF InputFault
      <4> QED BY <1>1, <2>2, <3>3, <4>2, VerdictRises
    <3> QED BY <3>1, <3>2, <3>3
  <2>6. authorized_increment_units' <= authorized_increment_units
    <3>1. CASE outcome' # "WithinPolicy"
      <4>1. authorized_increment_units' = 0 /\ authorized_increment_units \in Nat
        BY <2>3, <3>1 DEF IncrementIs
      <4> QED BY <4>1
    <3>2. CASE outcome' = "WithinPolicy"
      <4>1. outcome = "WithinPolicy"
        BY <2>3, <2>5, <3>2 DEF outcome_severity, Outcome, IncrementIs
      <4>2. InputFault = None /\ InputFault' = None
        BY <2>3, <3>2, <4>1 DEF IncrementIs
      <4>3. contingent_free' <= contingent_free
        BY <1>1, <2>2, <4>2, MoreIsNoBetter
      <4> QED BY <2>3, <3>2, <4>1, <4>3 DEF IncrementIs
    <3> QED BY <3>1, <3>2
  <2> QED BY <2>5, <2>6
<1>2. [][Rises]_vars => DemandNeverRelaxes
  BY PTL DEF DemandNeverRelaxes
<1> HIDE DEF Rises
<1> QED BY <1>1, <1>2, Invariance, PTL DEF Spec
-----------------------------------------------------------------------------
(* Using the increment                                                     *)

\* Contingent demand of an eligible class of the domain.
Contingently(a) ==
  /\ a.kind = "Contingent" /\ a.in_pool /\ a.resource \in Member
  /\ a.service_class \in DOMAIN policy.classes
  /\ policy.classes[a.service_class].oversubscription_eligible

\* It is counted as such and as nothing else.
LEMMA AppendContingent ==
  ASSUME Inputs, NEW a \in Admissions, policy' = policy, guarantees' = guarantees,
         admissions' = Append(admissions, a), Contingently(a)
  PROVE  /\ Committed(Contingent)' = a.committed_capacity + Committed(Contingent)
         /\ Pending(Contingent)' = a.pending_capacity + Pending(Contingent)
         /\ Committed(Burst)' = Committed(Burst)
         /\ \A c : c # a.service_class => ContingentOf(c)' = ContingentOf(c)
         /\ Unmapped' = Unmapped /\ IneligibleDemand' = IneligibleDemand
<1>1. PICK n : n = Len(admissions) + 1
  OBVIOUS
<1>2. /\ n \notin DOMAIN admissions /\ admissions'[n] = a
      /\ \A i \in DOMAIN admissions : /\ i \in DOMAIN admissions' /\ admissions'[i] = admissions[i]
                                      /\ Eligible(i)' = Eligible(i)
      /\ Eligible(n)'
      /\ OfKind({"Guaranteed"})' = OfKind({"Guaranteed"})
      /\ OfKind({"Contingent", "Burst"})' = OfKind({"Contingent", "Burst"}) \cup {n}
      /\ Contingent' = Contingent \cup {n}
  <2> DEFINE Own(b) == IF a.resource \in Member /\ b THEN {n} ELSE {}
             eligible == /\ a.service_class \in DOMAIN policy.classes
                         /\ policy.classes[a.service_class].oversubscription_eligible
  <2>1. /\ DOMAIN admissions = 1..(n - 1) /\ n \notin DOMAIN admissions /\ admissions'[n] = a
        /\ \A i \in 1..(n - 1) : /\ i \in DOMAIN admissions' /\ admissions'[i] = admissions[i]
                                 /\ Eligible(i)' = Eligible(i)
    BY <1>1, AppendEntry
  <2>2. Eligible(n)' <=> eligible
    BY <1>1, AppendEntry
  <2>3. \A K : OfKind(K)' = OfKind(K) \cup Own(a.kind \in K)
    BY <1>1, AppendEntry
  <2>4. Contingent' = Contingent \cup Own(a.kind \in {"Contingent", "Burst"} /\ eligible)
    BY <1>1, AppendEntry
  <2>5. eligible /\ a.resource \in Member /\ a.kind = "Contingent"
    BY DEF Contingently
  <2>6. Own(TRUE) = {n} /\ Own(FALSE) = {}
    BY <2>5
  <2>7. OfKind({"Guaranteed"})' = OfKind({"Guaranteed"}) \cup Own(FALSE)
    <3>1. (a.kind \in {"Guaranteed"}) = FALSE
      BY <2>5
    <3> HIDE DEF Own
    <3> QED BY <2>3, <3>1
  <2>8. OfKind({"Contingent", "Burst"})' = OfKind({"Contingent", "Burst"}) \cup Own(TRUE)
    <3>1. (a.kind \in {"Contingent", "Burst"}) = TRUE
      BY <2>5
    <3> HIDE DEF Own
    <3> QED BY <2>3, <3>1
  <2>9. Contingent' = Contingent \cup Own(TRUE)
    <3>1. (a.kind \in {"Contingent", "Burst"} /\ eligible) = TRUE
      BY <2>5
    <3> HIDE DEF Own
    <3> QED BY <2>4, <3>1
  <2> HIDE DEF Own
  <2> QED BY <2>1, <2>2, <2>5, <2>6, <2>7, <2>8, <2>9
<1>3. /\ admissions \in Seq(Admissions)
      /\ Contingent \subseteq DOMAIN admissions
      /\ \A K : OfKind(K) \subseteq DOMAIN admissions
  BY DEF Inputs, Contingent, OfKind, InScope
<1>4. \A S \in SUBSET DOMAIN admissions :
        /\ Used(admissions', S) = Used(admissions, S)
        /\ Used(admissions', S \cup {n}) = a.committed_capacity + Used(admissions, S)
        /\ Asked(admissions', S \cup {n}) = a.pending_capacity + Asked(admissions, S)
  BY <1>1, <1>3, AppendDemand
<1>5. /\ Committed(Contingent)' = a.committed_capacity + Committed(Contingent)
      /\ Pending(Contingent)' = a.pending_capacity + Pending(Contingent)
  <2>1. /\ Committed(Contingent) = Used(admissions, Contingent)
        /\ Pending(Contingent) = Asked(admissions, Contingent)
    BY DEF Committed, Pending, Used, Asked
  <2>2. /\ Committed(Contingent)' = Used(admissions', Contingent')
        /\ Pending(Contingent)' = Asked(admissions', Contingent')
    BY DEF Committed, Pending, Used, Asked
  <2> QED BY <1>2, <1>3, <1>4, <2>1, <2>2
<1>6. Committed(Burst)' = Committed(Burst)
  <2>1. Burst' = Burst
    <3>1. a.kind # "Burst"
      BY DEF Contingently
    <3> QED BY <1>2, <1>3, <3>1 DEF Burst
  <2>2. Burst \in SUBSET DOMAIN admissions
    BY <1>3 DEF Burst
  <2>3. Committed(Burst) = Used(admissions, Burst) /\ Committed(Burst)' = Used(admissions', Burst')
    BY DEF Committed, Used
  <2> QED BY <1>4, <2>1, <2>2, <2>3
<1>7. ASSUME NEW c, c # a.service_class PROVE ContingentOf(c)' = ContingentOf(c)
  <2> DEFINE S == {i \in Contingent : admissions[i].service_class = c}
             T == {i \in Contingent' : admissions'[i].service_class = c}
  <2>1. S = T /\ S \in SUBSET DOMAIN admissions
    BY <1>2, <1>3, <1>7
  <2>2. ContingentOf(c) = Used(admissions, S) /\ ContingentOf(c)' = Used(admissions', T)
    BY DEF ContingentOf, Committed, Used
  <2> HIDE DEF S, T
  <2> QED BY <1>4, <2>1, <2>2
<1>8. Unmapped' = Unmapped
  <2> DEFINE S(r, c) == {i \in OfKind({"Guaranteed"}) : /\ admissions[i].resource = r
                                                      /\ admissions[i].service_class = c}
             T(r, c) == {i \in OfKind({"Guaranteed"})' : /\ admissions'[i].resource = r
                                                       /\ admissions'[i].service_class = c}
             G(r, c) == {i \in InScope(guarantees) : /\ guarantees[i].resource = r
                                                    /\ guarantees[i].service_class = c}
  <2>1. Unmapped <=> \E r \in Member, c \in DOMAIN policy.classes :
                       Used(admissions, S(r, c)) > Held(guarantees, G(r, c))
    BY DEF Unmapped, Committed, Guaranteed, Used, Held
  <2>2. InScope(guarantees)' = InScope(guarantees)
    BY DEF InScope
  <2>3. Unmapped' <=> \E r \in Member, c \in DOMAIN policy.classes :
                        Used(admissions', T(r, c)) > Held(guarantees, G(r, c))
    BY <2>2 DEF Unmapped, Committed, Guaranteed, Used, Held
  <2>4. ASSUME NEW r, NEW c PROVE Used(admissions', T(r, c)) = Used(admissions, S(r, c))
    <3>1. S(r, c) = T(r, c) /\ S(r, c) \in SUBSET DOMAIN admissions
      BY <1>2, <1>3
    <3> HIDE DEF S, T
    <3> QED BY <1>4, <3>1
  <2> HIDE DEF S, T, G
  <2>5. Unmapped' <=> Unmapped
    BY <2>1, <2>3, <2>4
  <2> QED BY <2>5 DEF Unmapped
<1>9. IneligibleDemand' = IneligibleDemand
  <2>1. \A i \in OfKind({"Contingent", "Burst"}) :
          Eligible(i)' = Eligible(i) /\ admissions'[i] = admissions[i]
    BY <1>2, <1>3
  <2>2. IneligibleDemand' <=> \E i \in OfKind({"Contingent", "Burst"}) :
          /\ ~Eligible(i)
          /\ admissions[i].committed_capacity + admissions[i].pending_capacity > 0
    BY <1>2, <2>1 DEF IneligibleDemand
  <2> QED BY <2>2 DEF IneligibleDemand
<1> QED BY <1>5, <1>6, <1>7, <1>8, <1>9

\* Demand within the increment that was authorised.
Within(a) ==
  /\ outcome = "WithinPolicy" /\ Contingently(a)
  /\ policy.classes[a.service_class].contingent_share_cap_ppm = None
  /\ a.committed_capacity <= authorized_increment_units
  /\ Pending(Contingent) + a.pending_capacity <= MaxWord

\* What it leaves below the ceiling.
LEMMA WithinFits ==
  ASSUME IInv, NEW a \in Admissions, Within(a)
  PROVE  /\ a.committed_capacity \in Nat /\ contingent_committed \in Nat /\ protected_required \in Nat
         /\ ceiling_total \in Nat /\ ceiling_total <= MaxWord /\ MaxWord \in Nat
         /\ authorized_increment_units = contingent_free
         /\ contingent_free \in Nat /\ a.committed_capacity <= contingent_free
         /\ protected_required + contingent_committed + contingent_free = ceiling_total
         /\ guarantees_total \in Nat /\ guarantees_total <= protected_required
<1>1. outcome = "WithinPolicy" /\ a.committed_capacity <= authorized_increment_units
  BY DEF Within
<1>2. InputFault = None /\ authorized_increment_units = contingent_free
  BY <1>1, WithinPolicyFacts
<1>3. protected_required + contingent_committed + authorized_increment_units = ceiling_total
  BY <1>1, AuthorityFillsCeiling
<1>4. a.committed_capacity \in Words /\ MaxWord \in Nat /\ Words = 0..MaxWord
  <2>1. MaxWord = Word - 1 /\ Words = 0..(Word - 1) /\ Word \in Nat \ {0}
    BY WordFacts
  <2> QED BY <2>1, SnapshotAssumption
<1>5. ceiling_total \in Words /\ contingent_free \in Words /\ contingent_committed \in Nat
      /\ protected_required \in Nat /\ guarantees_total \in Nat
      /\ guarantees_total <= protected_required
  BY <1>2, ClosedFacts
<1>6. /\ a.committed_capacity \in Nat /\ ceiling_total \in Nat /\ ceiling_total <= MaxWord
      /\ contingent_free \in Nat
  BY <1>4, <1>5
<1> QED BY <1>1, <1>2, <1>3, <1>4, <1>5, <1>6

\* The snapshot with it adds up.
LEMMA WithinAddsUp ==
  ASSUME IInv, IInv', NEW a \in Admissions, Within(a),
         policy' = policy, capacity' = capacity, guarantees' = guarantees,
         admissions' = Append(admissions, a)
  PROVE  /\ InputFault = None /\ InputFault' = None
         /\ contingent_committed' = a.committed_capacity + contingent_committed
         /\ burst_committed' = burst_committed /\ ceiling_total' = ceiling_total
         /\ guarantees_total' = guarantees_total
         /\ effective_usable_capacity' = effective_usable_capacity
<1>1. Inputs /\ Contingently(a) /\ outcome = "WithinPolicy" /\ admissions \in Seq(Admissions)
  BY DEF IInv, Inputs, Within
<1>2. InputFault = None /\ fault = None /\ Closed
  BY <1>1, WithinPolicyFacts, ClosedFacts
<1>3. TotalsAre /\ (fault' = None => TotalsAre') /\ VerdictIs /\ VerdictIs'
  BY <1>2, TotalsNext, VerdictNext
<1>4. /\ Committed(Contingent)' = a.committed_capacity + Committed(Contingent)
      /\ Pending(Contingent)' = a.pending_capacity + Pending(Contingent)
      /\ Committed(Burst)' = Committed(Burst)
  BY <1>1, AppendContingent
<1>5. /\ a.committed_capacity \in Nat /\ contingent_committed \in Nat /\ protected_required \in Nat
      /\ ceiling_total \in Nat /\ ceiling_total <= MaxWord /\ MaxWord \in Nat
      /\ contingent_free \in Nat /\ a.committed_capacity <= contingent_free
      /\ protected_required + contingent_committed + contingent_free = ceiling_total
      /\ guarantees_total \in Nat /\ guarantees_total <= protected_required
  BY WithinFits
<1> DEFINE c == a.committed_capacity
           d == contingent_committed
           f == contingent_free
           p == protected_required
           g == guarantees_total
           k == ceiling_total
<1>6. c + d <= MaxWord /\ g + (c + d) <= MaxWord
  <2>1. /\ c \in Nat /\ d \in Nat /\ f \in Nat /\ p \in Nat /\ g \in Nat /\ k \in Nat /\ MaxWord \in Nat
        /\ c <= f /\ p + d + f = k /\ g <= p /\ k <= MaxWord
    BY <1>5
  <2> HIDE DEF c, d, f, p, g, k
  <2> QED BY <2>1
<1>7. /\ Committed(Contingent)' <= MaxWord
      /\ Pending(Contingent)' <= MaxWord
  <2>1. Committed(Contingent) = d
    BY <1>3 DEF TotalsAre
  <2>2. Committed(Contingent)' <= MaxWord
    BY <1>4, <1>6, <2>1
  <2>3. Pending(Contingent) + a.pending_capacity <= MaxWord
    BY DEF Within
  <2>4. Pending(Contingent) \in Nat
    <3>1. Pending(Contingent) = Asked(admissions, Contingent)
      BY DEF Pending, Asked
    <3>2. Contingent \in SUBSET DOMAIN admissions
      BY DEF Contingent, OfKind, InScope
    <3> QED BY <1>1, <3>1, <3>2, DemandFacts
  <2>5. a.pending_capacity \in Nat
    <3>1. a.pending_capacity \in Words
      BY SnapshotAssumption
    <3> QED BY <3>1, WordFacts
  <2>6. Pending(Contingent)' <= MaxWord
    <3> DEFINE x == Pending(Contingent)
               y == Pending(Contingent)'
               z == a.pending_capacity
    <3>1. x \in Nat /\ z \in Nat /\ y = z + x /\ x + z <= MaxWord
      BY <1>4, <2>3, <2>4, <2>5
    <3> HIDE DEF x, y, z
    <3> QED BY <3>1 DEF y
  <2> QED BY <2>2, <2>6
<1>8. PICK n : n = Len(admissions) + 1
  OBVIOUS
<1>9. AdmissionFault(n)' = None
  <2>1. /\ DOMAIN admissions' = 1..n /\ n \in Nat \ {0} /\ admissions'[n] = a
    BY <1>1, <1>8, AppendEntry
  <2>2. n \in InScope(admissions)'
    BY <2>1, <1>1 DEF InScope, Contingently
  <2>3. a.in_pool /\ a.service_class \in DOMAIN policy.classes /\ a.kind = "Contingent"
    BY <1>1 DEF Contingently
  <2>4. ~AdmissionOverflows(n)'
    <3> DEFINE S == {j \in 1..n : /\ j \in OfKind({"Contingent", "Burst"})'
                                  /\ Eligible(j)'}
    <3>1. S = Contingent'
      BY <2>1 DEF Contingent, OfKind, InScope
    <3>2. AdmissionOverflows(n)' <=> \/ Used(admissions', S) > MaxWord
                                     \/ Asked(admissions', S) > MaxWord
      <4>1. a.kind # "Guaranteed"
        BY <2>3
      <4> QED BY <2>1, <4>1 DEF AdmissionOverflows, Committed, Pending, Used, Asked
    <3>3. /\ Committed(Contingent)' = Used(admissions', Contingent')
          /\ Pending(Contingent)' = Asked(admissions', Contingent')
      BY DEF Committed, Pending, Used, Asked
    <3>4. /\ Used(admissions', S) <= MaxWord /\ Asked(admissions', S) <= MaxWord
      BY <3>1, <3>3, <1>7
    <3>5. Used(admissions', S) \in Nat /\ Asked(admissions', S) \in Nat
      <4>1. admissions' \in Seq(Admissions)
        BY <1>1
      <4>2. S \in SUBSET DOMAIN admissions'
        BY <2>1
      <4> HIDE DEF S
      <4> QED BY <4>1, <4>2, DemandFacts
    <3> HIDE DEF S
    <3> QED BY <3>2, <3>4, <3>5, <1>5
  <2> QED BY <2>1, <2>2, <2>3, <2>4 DEF AdmissionFault
<1>10. fault' = None
  <2>1. EntryFault = None => EntryFault' = AdmissionFault(n)'
    BY <1>1, <1>8, AppendFaults
  <2>2. fault = EntryFault /\ fault' = EntryFault'
    BY <1>3 DEF VerdictIs
  <2> QED BY <1>2, <1>9, <2>1, <2>2
<1>11. /\ effective_usable_capacity' = effective_usable_capacity
       /\ ceiling_total' = ceiling_total /\ guarantees_total' = guarantees_total
  BY <1>2, <1>10, AppendTotals
<1>12. contingent_committed' = c + contingent_committed /\ burst_committed' = burst_committed
  <2>1. /\ contingent_committed = Committed(Contingent) /\ burst_committed = Committed(Burst)
        /\ contingent_committed' = Committed(Contingent)' /\ burst_committed' = Committed(Burst)'
    BY <1>3, <1>10 DEF TotalsAre
  <2> QED BY <1>4, <2>1
<1>13. Closed'
  <2>1. floor_required' = floor_required
    BY <1>11 DEF floor_required, protected_required
  <2>2. committed_total' = g + (c + d)
    BY <1>11, <1>12 DEF committed_total
  <2> QED BY <1>2, <1>6, <1>11, <2>1, <2>2 DEF Closed
<1> QED BY <1>2, <1>10, <1>11, <1>12, <1>13 DEF InputFault

\* And everything in it is as it should be.
LEMMA WithinIsLegal ==
  ASSUME IInv, IInv', NEW a \in Admissions, Within(a),
         policy' = policy, capacity' = capacity, guarantees' = guarantees,
         admissions' = Append(admissions, a)
  PROVE  /\ Legal' /\ contingent_free' \in Nat
         /\ contingent_free' + a.committed_capacity = authorized_increment_units
<1>1. Inputs /\ Contingently(a) /\ outcome = "WithinPolicy"
      /\ policy.classes[a.service_class].contingent_share_cap_ppm = None
  BY DEF IInv, Inputs, Within
<1>2. /\ InputFault = None /\ InputFault' = None
      /\ contingent_committed' = a.committed_capacity + contingent_committed
      /\ burst_committed' = burst_committed /\ ceiling_total' = ceiling_total
      /\ guarantees_total' = guarantees_total
      /\ effective_usable_capacity' = effective_usable_capacity
  BY WithinAddsUp
<1>3. /\ \A c : c # a.service_class => ContingentOf(c)' = ContingentOf(c)
      /\ Unmapped' = Unmapped /\ IneligibleDemand' = IneligibleDemand
  BY <1>1, AppendContingent
<1>4. Legal /\ contingent_free # 0
  BY <1>1, <1>2, LegalFacts
<1>5. Accounts /\ Accounts'
  BY <1>2, AccountFacts, AccountNext
<1>6. /\ a.committed_capacity \in Nat /\ contingent_committed \in Nat /\ protected_required \in Nat
      /\ ceiling_total \in Nat
      /\ authorized_increment_units = contingent_free
      /\ contingent_free \in Nat /\ a.committed_capacity <= contingent_free
      /\ protected_required + contingent_committed + contingent_free = ceiling_total
      /\ guarantees_total \in Nat /\ guarantees_total <= protected_required
  BY WithinFits
<1>7. /\ protected_required' = protected_required /\ floor_required' = floor_required
      /\ contingent_ceiling' = contingent_ceiling
  BY <1>2 DEF protected_required, floor_required, contingent_ceiling
<1> DEFINE ac == a.committed_capacity
           c == contingent_committed
           d == contingent_committed'
           f == contingent_free
           h == contingent_free'
           p == protected_required
           g == guarantees_total
           k == ceiling_total
           m == contingent_ceiling
<1>8. /\ ac \in Nat /\ c \in Nat /\ p \in Nat /\ k \in Nat /\ f \in Nat /\ g \in Nat /\ m \in Nat
      /\ ac <= f /\ p + c + f = k /\ g <= p /\ d = ac + c
      /\ m = Excess(k, p) /\ h = Excess(m, d)
  BY <1>2, <1>5, <1>6, <1>7 DEF Accounts, contingent_free, contingent_ceiling
<1>9. h \in Nat /\ h + ac = f
  <2> HIDE DEF ac, c, d, f, h, p, g, k, m
  <2>1. k - p = c + f /\ k >= p
    BY <1>8
  <2>2. m = c + f
    BY <1>8, <2>1 DEF Excess
  <2>3. h = IF m > d THEN m - d ELSE 0
    BY <1>8 DEF Excess
  <2> QED BY <1>8, <2>2, <2>3
<1>10. committed_total' <= ceiling_total'
  <2>1. committed_total' = g + d
    BY <1>2 DEF committed_total
  <2>2. g + d <= k
    <3> HIDE DEF ac, c, d, f, h, p, g, k, m
    <3> QED BY <1>8
  <2> QED BY <1>2, <2>1, <2>2
<1>11. FloorHeld'
  <2>1. /\ \A r : EffectiveUsable(r)' = EffectiveUsable(r)
        /\ \A r, n : GuaranteedOn(r, n)' = GuaranteedOn(r, n)
    BY SameCapacity
  <2>2. FloorHeld
    BY <1>4 DEF Legal
  <2>3. \A r \in Member : GuaranteedOn(r, Len(guarantees))' <= EffectiveUsable(r)'
    BY <2>1, <2>2 DEF FloorHeld
  <2> QED BY <1>2, <1>7, <2>2, <2>3 DEF FloorHeld
<1>12. ~BurstExceeded'
  BY <1>2, <1>4 DEF Legal, BurstExceeded
<1>13. ~ShareExceeded'
  <2> SUFFICES ASSUME NEW x \in DOMAIN policy.classes PROVE ~(ShareExcess(x)' > 0)
    BY DEF ShareExceeded
  <2>1. CASE x = a.service_class
    <3>1. ShareExcess(x)' = 0
      BY <1>1, <2>1 DEF ShareExcess
    <3> QED BY <3>1
  <2>2. CASE x # a.service_class
    <3>1. ShareExcess(x)' = ShareExcess(x)
      BY <1>3, <1>7, <2>2 DEF ShareExcess
    <3>2. ~(ShareExcess(x) > 0)
      BY <1>4 DEF Legal, ShareExceeded
    <3> QED BY <3>1, <3>2
  <2> QED BY <2>1, <2>2
<1>14. Legal'
  BY <1>3, <1>4, <1>10, <1>11, <1>12, <1>13 DEF Legal
<1> QED BY <1>6, <1>9, <1>14

\* The increment that is authorised can be used to the last unit: the ceiling,
\* the shares and the sums were left that much room.
THEOREM IncrementCanBeUsed == Spec => IncrementIsUsable
<1> DEFINE Usable ==
      \A a \in Admissions :
        /\ admissions' = Append(admissions, a) /\ outcome = "WithinPolicy"
        /\ a.kind = "Contingent" /\ a.in_pool /\ a.resource \in Member
        /\ a.service_class \in DOMAIN policy.classes
        /\ policy.classes[a.service_class].oversubscription_eligible
        /\ policy.classes[a.service_class].contingent_share_cap_ppm = None
        /\ a.committed_capacity <= authorized_increment_units
        /\ Pending(Contingent) + a.pending_capacity <= MaxWord
        => outcome' = IF a.committed_capacity = authorized_increment_units
                      THEN "AtLimit" ELSE "WithinPolicy"
<1>1. ASSUME IInv, IInv', [Next]_vars PROVE [Usable]_vars
  <2> SUFFICES ASSUME NEW a \in Admissions, admissions' = Append(admissions, a), Within(a)
               PROVE  outcome' = IF a.committed_capacity = authorized_increment_units
                                 THEN "AtLimit" ELSE "WithinPolicy"
    BY DEF Within, Contingently
  <2>1. policy' = policy /\ capacity' = capacity /\ guarantees' = guarantees
    <3>1. admissions \in Seq(Admissions)
      BY <1>1 DEF IInv, Inputs
    <3>2. Append(admissions, a) # admissions
      BY <3>1
    <3>3. PICK b \in Admissions : Admit(b)
      BY <1>1, <3>2 DEF Next, Reserve, LoseCapacity, LoseMember, vars
    <3> QED BY <3>3 DEF Admit
  <2>2. /\ Legal' /\ contingent_free' \in Nat
        /\ contingent_free' + a.committed_capacity = authorized_increment_units
    BY <1>1, <2>1, WithinIsLegal
  <2>3. InputFault' = None
    BY <1>1, <2>1, WithinAddsUp
  <2>4. /\ outcome' \in {"WithinPolicy", "AtLimit"} <=> Legal'
        /\ outcome' = "WithinPolicy" <=> Legal' /\ contingent_free' # 0
    BY <1>1, <2>3, LegalNext
  <2>5. a.committed_capacity \in Nat
    BY <1>1, WithinFits
  <2>6. contingent_free' = 0 <=> a.committed_capacity = authorized_increment_units
    <3> DEFINE h == contingent_free'
               c == a.committed_capacity
               u == authorized_increment_units
    <3>1. h \in Nat /\ c \in Nat /\ h + c = u
      BY <2>2, <2>5
    <3> HIDE DEF h, c, u
    <3>2. h = 0 <=> c = u
      BY <3>1
    <3> QED BY <3>2 DEF h, c, u
  <2> QED BY <2>2, <2>4, <2>6
<1>2. [][Usable]_vars => IncrementIsUsable
  BY PTL DEF IncrementIsUsable
<1> HIDE DEF Usable
<1> QED BY <1>1, <1>2, Invariance, PTL DEF Spec
=============================================================================
