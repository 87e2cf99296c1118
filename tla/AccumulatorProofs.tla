-------------------------- MODULE AccumulatorProofs --------------------------
(* The accumulators of a kernel: whatever the copies, lanes and widenings,     *)
(* what the epilogue collapses them to is one number; and a row that enters    *)
(* any one of them enters that number, once, by the operator of the aggregate. *)
(*                                                                             *)
(* So for the arithmetic of an aggregate (a commutative operator on words,     *)
(* laid over pairs of copies, halves of a register and small lanes widened to  *)
(* I32), for the bits of a predicate, and for the two halves of a sum of 128   *)
(* bits, which are collapsed apart from each other.                            *)
EXTENDS MirKernel, InductionLemmas, FiniteSetTheorems, SequenceTheorems

(***************************************************************************)
(* Division and congruence.                                                 *)
(***************************************************************************)
LEMMA Divides ==
  ASSUME NEW m \in Nat \ {0}, NEW a \in Int
  PROVE  a = m * (a \div m) + (a % m) /\ a % m \in 0 .. m - 1 /\ a \div m \in Int
<1>1. a % m \in 0 .. m - 1 /\ a \div m \in Int
  BY SMT
<1>2. a = m * (a \div m) + (a % m)
  BY SMT
<1> QED BY <1>1, <1>2

\* What is m * q + r, r below m, has the quotient q and the remainder r.
LEMMA QuotientIsUnique ==
  ASSUME NEW m \in Nat \ {0}, NEW q \in Int, NEW r \in 0 .. m - 1, NEW a \in Int, a = m * q + r
  PROVE  a % m = r /\ a \div m = q
BY SMT

Congruent(m, a, b) == \E k \in Int : a = b + m * k

\* A number is congruent to its remainder.
LEMMA CongruentMod ==
  ASSUME NEW m \in Nat \ {0}, NEW a \in Int
  PROVE  Congruent(m, a % m, a) /\ Congruent(m, a, a % m) /\ Congruent(m, a, a)
<1> DEFINE q == a \div m
           r == a % m
<1>1. a = m * q + r /\ r \in Int /\ q \in Int
  BY Divides
<1> HIDE DEF q, r
<1>2. a = r + m * q /\ q \in Int
  BY <1>1
<1>3. r = a + m * (-q) /\ -q \in Int
  BY <1>1
<1>4. a = a + m * 0
  OBVIOUS
<1>5. Congruent(m, a, r)
  BY Zenon, <1>2 DEF Congruent
<1>6. Congruent(m, r, a)
  BY Zenon, <1>3 DEF Congruent
<1>7. Congruent(m, a, a)
  BY <1>4 DEF Congruent
<1> QED BY <1>5, <1>6, <1>7 DEF r

\* Congruent numbers have one remainder.
LEMMA SameRemainder ==
  ASSUME NEW m \in Nat \ {0}, NEW a \in Int, NEW b \in Int, Congruent(m, a, b)
  PROVE  a % m = b % m
<1>1. PICK k \in Int : a = b + m * k
  BY DEF Congruent
<1>2. b = m * (b \div m) + (b % m) /\ b % m \in 0 .. m - 1 /\ b \div m \in Int
  BY Divides
<1> DEFINE q == b \div m
           r == b % m
<1>3. b = m * q + r /\ r \in 0 .. m - 1 /\ q \in Int
  BY <1>2
<1> HIDE DEF q, r
<1>4. a = m * (q + k) + r /\ q + k \in Int
  BY <1>1, <1>3, SMT
<1> DEFINE z == q + k
<1>5. a = m * z + r /\ z \in Int
  BY <1>4
<1> HIDE DEF z
<1>6. a % m = r
  BY Zenon, <1>3, <1>5, QuotientIsUnique
<1> QED BY <1>6 DEF r

LEMMA CongruentSums ==
  ASSUME NEW m \in Nat \ {0}, NEW a \in Int, NEW b \in Int, NEW c \in Int, NEW d \in Int,
         Congruent(m, a, b), Congruent(m, c, d)
  PROVE  Congruent(m, a + c, b + d) /\ Congruent(m, a * c, b * d)
<1>1. PICK k \in Int : a = b + m * k
  BY Zenon DEF Congruent
<1>2. PICK l \in Int : c = d + m * l
  BY Zenon DEF Congruent
<1>3. a + c = (b + d) + m * (k + l) /\ k + l \in Int
  BY <1>1, <1>2
<1> DEFINE z == b * l + k * d + m * k * l
<1>4. z \in Int
  BY <1>1, <1>2
<1>5. (b + m * k) * (d + m * l) = b * d + m * z
  BY <1>1, <1>2, SMT
<1> HIDE DEF z
<1>6. a * c = b * d + m * z
  BY <1>1, <1>2, <1>5
<1> QED BY Zenon, <1>3, <1>4, <1>6 DEF Congruent

LEMMA CongruentChain ==
  ASSUME NEW m \in Nat \ {0}, NEW a \in Int, NEW b \in Int, NEW c \in Int,
         Congruent(m, a, b), Congruent(m, b, c)
  PROVE  Congruent(m, a, c)
<1>1. PICK k \in Int : a = b + m * k
  BY Zenon DEF Congruent
<1>2. PICK l \in Int : b = c + m * l
  BY Zenon DEF Congruent
<1>3. a = c + m * (k + l) /\ k + l \in Int
  BY <1>1, <1>2
<1> QED BY Zenon, <1>3 DEF Congruent

LEMMA CongruentBack ==
  ASSUME NEW m \in Nat \ {0}, NEW a \in Int, NEW b \in Int, Congruent(m, a, b)
  PROVE  Congruent(m, b, a)
<1>1. PICK k \in Int : a = b + m * k
  BY DEF Congruent
<1>2. b = a + m * (-k) /\ -k \in Int
  BY <1>1
<1> QED BY <1>2 DEF Congruent

\* A remainder may be taken of an operand, or of the result only.
LEMMA ModSums ==
  ASSUME NEW m \in Nat \ {0}, NEW a \in Int, NEW b \in Int
  PROVE  /\ ((a % m) + b) % m = (a + b) % m /\ (a + (b % m)) % m = (a + b) % m
         /\ ((a % m) * b) % m = (a * b) % m /\ (a * (b % m)) % m = (a * b) % m
<1> DEFINE x == a % m
           y == b % m
<1>1. x \in Int /\ y \in Int /\ Congruent(m, x, a) /\ Congruent(m, y, b) /\ Congruent(m, a, a) /\ Congruent(m, b, b)
  BY CongruentMod, Divides
<1> HIDE DEF x, y
<1>2. /\ Congruent(m, x + b, a + b) /\ Congruent(m, a + y, a + b)
      /\ Congruent(m, x * b, a * b) /\ Congruent(m, a * y, a * b)
  BY <1>1, CongruentSums
<1>3. x + b \in Int /\ a + y \in Int /\ a + b \in Int /\ x * b \in Int /\ a * y \in Int /\ a * b \in Int
  BY <1>1
<1>4. (x + b) % m = (a + b) % m /\ (a + y) % m = (a + b) % m
  BY Zenon, <1>2, <1>3, SameRemainder
<1>5. (x * b) % m = (a * b) % m /\ (a * y) % m = (a * b) % m
  BY Zenon, <1>2, <1>3, SameRemainder
<1> QED BY <1>4, <1>5 DEF x, y

LEMMA SmallRemainder ==
  ASSUME NEW m \in Nat \ {0}, NEW a \in 0 .. m - 1
  PROVE  a % m = a
BY QuotientIsUnique, a = m * 0 + a

\* Wrapping to a narrow type after a wide one is wrapping to the narrow one.
LEMMA RemainderOfRemainder ==
  ASSUME NEW m \in Nat \ {0}, NEW c \in Nat \ {0}, NEW a \in Int
  PROVE  (a % (m * c)) % m = a % m
<1> DEFINE M == m * c
<1>1. M \in Nat \ {0}
  BY SMT
<1> DEFINE q == a \div M
           r == a % M
<1>2. a = M * q + r /\ r \in Int /\ q \in Int
  <2> HIDE DEF M
  <2> QED BY <1>1, Divides
<1>3. a = (m * c) * q + r /\ r \in Int /\ q \in Int
  BY <1>2
<1> HIDE DEF q, r
<1>4. a = r + m * (c * q) /\ c * q \in Int
  BY <1>3, SMT
<1>5. Congruent(m, a, r)
  BY Zenon, <1>4 DEF Congruent
<1>6. a % m = r % m
  BY Zenon, <1>3, <1>5, SameRemainder
<1> QED BY <1>6 DEF r

(***************************************************************************)
(* Powers of two and the widths of the types.                               *)
(***************************************************************************)
LEMMA Powers ==
  ASSUME NEW n \in 0 .. 8 * Byte
  PROVE  2 ^ n \in Nat \ {0} /\ 2 ^ (n + 1) = 2 * 2 ^ n /\ 2 ^ (n + 1) \in Nat \ {0} /\ 2 ^ 0 = 1
<1> DEFINE T == {k \in Nat : k <= 8 * Byte => 2 ^ k \in Nat \ {0}}
<1>1. 0 \in T
  BY PowersAssumption
<1>2. ASSUME NEW k \in Nat, k \in T PROVE k + 1 \in T
  <2> SUFFICES ASSUME k + 1 <= 8 * Byte PROVE 2 ^ (k + 1) \in Nat \ {0}
    OBVIOUS
  <2>1. 8 * Byte \in Nat
    BY ByteAssumption
  <2>2. k \in 0 .. 8 * Byte
    BY <2>1
  <2>3. 2 ^ k \in Nat \ {0}
    BY <1>2, <2>2
  <2>4. 2 ^ (k + 1) = 2 * 2 ^ k
    BY <2>2, PowersAssumption
  <2> QED BY <2>3, <2>4
<1> HIDE DEF T
<1>3. n \in Nat /\ n \in T
  BY <1>1, <1>2, NaturalInduction, ByteAssumption
<1>4. 2 ^ n \in Nat \ {0}
  BY <1>3 DEF T
<1>5. 2 ^ (n + 1) = 2 * 2 ^ n /\ 2 ^ 0 = 1
  BY PowersAssumption
<1> QED BY <1>4, <1>5

\* A lower power of two divides a higher one.
LEMMA PowersDivide ==
  ASSUME NEW a \in Nat, NEW b \in Nat, a <= b, b <= 8 * Byte
  PROVE  \E c \in Nat \ {0} : 2 ^ b = 2 ^ a * c
<1>0. 8 * Byte \in Nat
  BY ByteAssumption
<1> DEFINE T == {d \in Nat : a + d <= 8 * Byte => \E c \in Nat \ {0} : 2 ^ (a + d) = 2 ^ a * c}
<1>1. 0 \in T
  <2>1. a \in 0 .. 8 * Byte /\ a + 0 = a
    BY <1>0
  <2>2. 2 ^ a = 2 ^ a * 1
    BY <2>1, Powers
  <2> QED BY <2>1, <2>2
<1>2. ASSUME NEW d \in Nat, d \in T PROVE d + 1 \in T
  <2> SUFFICES ASSUME a + (d + 1) <= 8 * Byte
               PROVE  \E c \in Nat \ {0} : 2 ^ (a + (d + 1)) = 2 ^ a * c
    OBVIOUS
  <2>1. PICK c \in Nat \ {0} : 2 ^ (a + d) = 2 ^ a * c
    BY <1>0, <1>2
  <2>2. a + d \in 0 .. 8 * Byte /\ a \in 0 .. 8 * Byte /\ a + (d + 1) = (a + d) + 1
    BY <1>0
  <2>3. 2 ^ (a + (d + 1)) = 2 * 2 ^ (a + d) /\ 2 ^ a \in Nat
    BY <2>2, Powers
  <2>4. 2 ^ (a + (d + 1)) = 2 ^ a * (2 * c) /\ 2 * c \in Nat \ {0}
    BY <2>1, <2>3, SMT
  <2> QED BY Zenon, <2>4
<1> HIDE DEF T
<1>3. b - a \in T
  BY <1>1, <1>2, NaturalInduction
<1>4. a + (b - a) = b
  OBVIOUS
<1> QED BY <1>3, <1>4 DEF T

LEMMA PowersGrow ==
  ASSUME NEW a \in Nat, NEW b \in Nat, a <= b, b <= 8 * Byte
  PROVE  2 ^ a <= 2 ^ b /\ (a < b => 2 * 2 ^ a <= 2 ^ b)
<1>0. 8 * Byte \in Nat
  BY ByteAssumption
<1>1. PICK c \in Nat \ {0} : 2 ^ b = 2 ^ a * c
  BY PowersDivide
<1>2. a \in 0 .. 8 * Byte
  BY <1>0
<1>3. 2 ^ a \in Nat \ {0}
  BY <1>2, Powers
<1>4. 2 ^ a <= 2 ^ a * c
  BY <1>1, <1>3, SMT
<1>5. CASE a < b
  <2>1. a + 1 <= b /\ a + 1 \in Nat
    BY <1>5
  <2>2. PICK d \in Nat \ {0} : 2 ^ b = 2 ^ (a + 1) * d
    BY <2>1, PowersDivide
  <2>3. 2 ^ (a + 1) = 2 * 2 ^ a
    BY <1>2, Powers
  <2>4. 2 * 2 ^ a <= (2 * 2 ^ a) * d
    BY <1>3, <2>2, SMT
  <2> QED BY <1>1, <1>4, <2>2, <2>3, <2>4
<1> QED BY <1>1, <1>4, <1>5

Half(t) == 2 ^ (Width(t) - 1)

\* What the proofs know of a type.
LEMMA Widths ==
  ASSUME NEW t \in IntTypes
  PROVE  /\ Width(t) \in 1 .. 8 * Byte /\ 8 * Byte \in Nat
         /\ Modulus(t) \in Nat \ {0} /\ Half(t) \in Nat \ {0} /\ Modulus(t) = 2 * Half(t)
         /\ IntMin(t) = -Half(t) /\ AllOnes(t) = 2 * Half(t) - 1 /\ AllOnes(t) \in Nat
         /\ Residues(t) = 0 .. Modulus(t) - 1
<1>1. Width(t) \in 1 .. 8 * Byte /\ 8 * Byte \in Nat
  BY ByteAssumption DEF IntTypes, Width, Size
<1> DEFINE w == Width(t)
           h == 2 ^ (w - 1)
<1>2. w - 1 \in 0 .. 8 * Byte /\ (w - 1) + 1 = w
  BY <1>1
<1>3. h \in Nat \ {0} /\ 2 ^ ((w - 1) + 1) = 2 * h
  BY <1>2, Powers
<1>4. 2 ^ w = 2 * h
  BY <1>2, <1>3
<1>5. Modulus(t) = 2 * h /\ Half(t) = h
  BY <1>4 DEF Modulus, Half
<1> HIDE DEF h
<1> QED BY <1>1, <1>3, <1>5 DEF IntMin, AllOnes, Residues, Half, h

LEMMA WidthsNest ==
  /\ Width("I8") = Byte /\ Width("I16") = 2 * Byte /\ Width("I32") = 4 * Byte /\ Width("I64") = 8 * Byte
  /\ Byte \in Nat \ {0}
BY ByteAssumption DEF Width, Size

\* The signed reading of a word: between the two halves, congruent to the word.
LEMMA SignedValue ==
  ASSUME NEW t \in IntTypes, NEW v \in Residues(t)
  PROVE  /\ Signed(v, t) \in -Half(t) .. Half(t) - 1
         /\ Signed(v, t) = IF v >= Half(t) THEN v - Modulus(t) ELSE v
         /\ Congruent(Modulus(t), Signed(v, t), v)
         /\ Signed(v, t) % Modulus(t) = v
<1>1. Modulus(t) \in Nat \ {0} /\ Half(t) \in Nat /\ Modulus(t) = 2 * Half(t) /\ v \in 0 .. Modulus(t) - 1
  BY Zenon, Widths
<1>2. Signed(v, t) = IF v >= Half(t) THEN v - Modulus(t) ELSE v
  BY <1>1 DEF Signed
<1>3. v - Modulus(t) = v + Modulus(t) * (-1) /\ v = v + Modulus(t) * 0
  BY <1>1
<1>4. Congruent(Modulus(t), Signed(v, t), v)
  BY <1>1, <1>2, <1>3 DEF Congruent
<1>5. Signed(v, t) % Modulus(t) = v % Modulus(t)
  BY <1>1, <1>2, <1>4, SameRemainder
<1>6. v % Modulus(t) = v
  BY <1>1, SmallRemainder
<1> QED BY <1>1, <1>2, <1>4, <1>5, <1>6

\* No two words have one signed reading.
LEMMA SignedIsOneToOne ==
  ASSUME NEW t \in IntTypes, NEW v \in Residues(t), NEW u \in Residues(t), Signed(v, t) = Signed(u, t)
  PROVE  v = u
<1>1. Signed(v, t) % Modulus(t) = v /\ Signed(u, t) % Modulus(t) = u
  BY SignedValue
<1> QED BY <1>1

LEMMA WrapInRange ==
  ASSUME NEW t \in IntTypes, NEW n \in Int
  PROVE  Wrap(n, t) \in Residues(t)
BY Zenon, Widths, Divides DEF Wrap

(***************************************************************************)
(* Bits: the low bits of a number are the number, and a set of bits is that *)
(* of the number it makes.                                                  *)
(***************************************************************************)
LEMMA NextBit ==
  ASSUME NEW n \in Nat, NEW k \in 0 .. 8 * Byte
  PROVE  /\ Bit(n, k) \in {0, 1}
         /\ n % 2 ^ (k + 1) = (n % 2 ^ k) + 2 ^ k * Bit(n, k)
<1>1. 2 ^ k \in Nat \ {0} /\ 2 ^ (k + 1) = 2 * 2 ^ k
  BY Powers
<1> DEFINE m == 2 ^ k
           q == n \div m
           r == n % m
           b == q % 2
           c == q \div 2
<1>2. m \in Nat \ {0} /\ n \in Int
  BY <1>1
<1>3. n = m * q + r /\ r \in 0 .. m - 1 /\ q \in Int
  <2> HIDE DEF m
  <2> QED BY Zenon, <1>2, Divides
<1>4. q = 2 * c + b /\ b \in 0 .. 1 /\ c \in Int
  <2>1. q \in Int
    BY <1>3
  <2> HIDE DEF q
  <2>2. 2 \in Nat \ {0}
    OBVIOUS
  <2>3. q = 2 * (q \div 2) + (q % 2) /\ q % 2 \in 0 .. 2 - 1 /\ q \div 2 \in Int
    BY Zenon, <2>1, <2>2, Divides
  <2> QED BY <2>3
<1>5. Bit(n, k) = b
  BY DEF Bit
<1>6. 2 ^ (k + 1) = 2 * m
  BY <1>1
<1> HIDE DEF m, q, r, b, c
<1>7. n = m * (2 * c + b) + r
  BY <1>3, <1>4
<1>8. m * (2 * c + b) + r = (2 * m) * c + (r + m * b)
  BY <1>2, <1>3, <1>4, SMT
<1>9. r + m * b \in 0 .. (2 * m) - 1
  <2>1. CASE b = 0
    BY <1>2, <1>3, <2>1
  <2>2. CASE b = 1
    BY <1>2, <1>3, <2>2
  <2> QED BY <1>4, <2>1, <2>2
<1> DEFINE z == r + m * b
           d == 2 * m
<1>10. n = d * c + z /\ z \in 0 .. d - 1 /\ d \in Nat \ {0}
  BY <1>2, <1>7, <1>8, <1>9
<1> HIDE DEF z, d
<1>11. n % d = z
  BY <1>2, <1>4, <1>10, QuotientIsUnique
<1>12. n % 2 ^ (k + 1) = (n % 2 ^ k) + 2 ^ k * b
  BY <1>6, <1>11 DEF z, d, r, m
<1> QED BY <1>4, <1>5, <1>12

\* The number that the first k bits of a set make.
IsSumOfBits(f, S, w) ==
  /\ f[0] = 0
  /\ \A k \in 1 .. w : f[k] = f[k - 1] + (IF k - 1 \in S THEN 2 ^ (k - 1) ELSE 0)
  /\ \A k \in 0 .. w : f[k] \in 0 .. 2 ^ k - 1

\* FromBits, as the recursion that the provers can follow.
LEMMA SumOfBits ==
  ASSUME NEW t \in IntTypes, NEW S
  PROVE  \E f : IsSumOfBits(f, S, Width(t)) /\ FromBits(S, t) = f[Width(t)]
<1> DEFINE w == Width(t)
           term(k) == IF k - 1 \in S THEN 2 ^ (k - 1) ELSE 0
           step == [k \in 1 .. w |-> [a \in Nat |-> a + term(k)]]
<1>1. w \in 1 .. 8 * Byte /\ 8 * Byte \in Nat
  BY Widths
<1>2. ASSUME NEW k \in 1 .. w
      PROVE  term(k) \in 0 .. 2 ^ (k - 1) /\ 2 ^ (k - 1) \in Nat \ {0} /\ 2 ^ k = 2 * 2 ^ (k - 1)
  <2>1. k - 1 \in 0 .. 8 * Byte /\ (k - 1) + 1 = k
    BY <1>1
  <2>2. 2 ^ (k - 1) \in Nat \ {0} /\ 2 ^ ((k - 1) + 1) = 2 * 2 ^ (k - 1)
    BY <2>1, Powers
  <2> QED BY <2>1, <2>2
<1> HIDE DEF w, term
<1>3. step \in [1 .. w -> [Nat -> Nat]]
  <2>1. ASSUME NEW k \in 1 .. w, NEW a \in Nat PROVE a + term(k) \in Nat
    BY <1>2
  <2> QED BY <2>1
<1>4. PICK g : IsIteration(g, Nat, 0, w, step)
  <2> HIDE DEF step
  <2>1. w \in Nat /\ 0 \in Nat
    BY <1>1
  <2> QED BY Zenon, <1>3, <2>1, Iteration
<1>5. g \in [0 .. w -> Nat] /\ g[0] = 0
  BY <1>4 DEF IsIteration
<1>6. ASSUME NEW k \in 1 .. w PROVE g[k] = g[k - 1] + term(k)
  <2>1. g[k] = step[k][g[k - 1]]
    <3> HIDE DEF step
    <3> QED BY <1>4 DEF IsIteration
  <2>2. g[k - 1] \in Nat
    <3>1. k - 1 \in 0 .. w
      BY <1>1
    <3> QED BY <1>5, <3>1
  <2> QED BY <2>1, <2>2
<1>7. ASSUME NEW k \in 0 .. w PROVE g[k] \in 0 .. 2 ^ k - 1
  <2> DEFINE T == {j \in Nat : j <= w => g[j] \in 0 .. 2 ^ j - 1}
  <2>1. 0 \in T
    BY <1>5, PowersAssumption
  <2>2. ASSUME NEW j \in Nat, j \in T PROVE j + 1 \in T
    <3> SUFFICES ASSUME j + 1 <= w PROVE g[j + 1] \in 0 .. 2 ^ (j + 1) - 1
      OBVIOUS
    <3>1. j + 1 \in 1 .. w /\ (j + 1) - 1 = j
      BY <1>1
    <3>2. g[j] \in 0 .. 2 ^ j - 1
      <4>1. j <= w
        BY <1>1, <3>1
      <4> QED BY Zenon, <2>2, <4>1
    <3>3. term(j + 1) \in 0 .. 2 ^ j /\ 2 ^ j \in Nat \ {0} /\ 2 ^ (j + 1) = 2 * 2 ^ j
      BY <1>2, <3>1
    <3>4. g[j + 1] = g[j] + term(j + 1)
      BY <1>6, <3>1
    <3> QED BY <3>2, <3>3, <3>4
  <2> HIDE DEF T
  <2>3. k \in T
    BY <2>1, <2>2, <1>1, NaturalInduction
  <2> QED BY <2>3 DEF T
<1> DEFINE up[k \in 0 .. w] == IF k = 0 THEN 0 ELSE up[k - 1] + term(k)
<1>8. g = [k \in 0 .. w |-> IF k = 0 THEN 0 ELSE g[k - 1] + term(k)]
  <2>1. ASSUME NEW k \in 0 .. w PROVE g[k] = IF k = 0 THEN 0 ELSE g[k - 1] + term(k)
    BY <1>1, <1>5, <1>6
  <2> QED BY <1>5, <2>1
<1>9. up = [k \in 0 .. w |-> IF k = 0 THEN 0 ELSE up[k - 1] + term(k)]
  <2> QED BY Zenon, <1>8
<1>10. FromBits(S, t) = up[w]
  BY DEF FromBits, w, term
<1> HIDE DEF up
<1>11. ASSUME NEW k \in 0 .. w PROVE up[k] = g[k]
  <2> DEFINE T == {j \in Nat : j <= w => up[j] = g[j]}
  <2>1. 0 \in T
    BY <1>1, <1>5, <1>9
  <2>2. ASSUME NEW j \in Nat, j \in T PROVE j + 1 \in T
    <3> SUFFICES ASSUME j + 1 <= w PROVE up[j + 1] = g[j + 1]
      OBVIOUS
    <3>1. j + 1 \in 0 .. w /\ (j + 1) - 1 = j /\ j + 1 # 0 /\ j + 1 \in 1 .. w
      BY <1>1
    <3>2. up[j + 1] = up[j] + term(j + 1)
      BY Zenon, <1>9, <3>1
    <3>3. g[j + 1] = g[j] + term(j + 1)
      BY <1>6, <3>1
    <3>4. up[j] = g[j]
      <4>1. j <= w
        BY <1>1, <3>1
      <4> QED BY Zenon, <2>2, <4>1
    <3> QED BY <3>2, <3>3, <3>4
  <2> HIDE DEF T
  <2>3. k \in T
    BY <2>1, <2>2, <1>1, NaturalInduction
  <2> QED BY <2>3 DEF T
<1>12. FromBits(S, t) = g[w]
  BY <1>1, <1>10, <1>11
<1>13. IsSumOfBits(g, S, w)
  BY <1>5, <1>6, <1>7 DEF IsSumOfBits, term
<1> QED BY <1>12, <1>13 DEF w

LEMMA FromBitsInRange ==
  ASSUME NEW t \in IntTypes, NEW S
  PROVE  FromBits(S, t) \in Residues(t)
<1>1. PICK f : IsSumOfBits(f, S, Width(t)) /\ FromBits(S, t) = f[Width(t)]
  BY SumOfBits
<1>2. Width(t) \in 0 .. Width(t)
  BY Widths
<1>3. f[Width(t)] \in 0 .. 2 ^ Width(t) - 1
  BY <1>1, <1>2 DEF IsSumOfBits
<1> QED BY <1>1, <1>3 DEF Residues, AllOnes, Modulus

LEMMA BitsBelow ==
  ASSUME NEW t, NEW n
  PROVE  BitsOf(n, t) \subseteq 0 .. Width(t) - 1
BY DEF BitsOf

\* The bits of the number that a set of bits makes are that set.
LEMMA BitsOfSum ==
  ASSUME NEW t \in IntTypes, NEW S \in SUBSET (0 .. Width(t) - 1)
  PROVE  BitsOf(FromBits(S, t), t) = S
<1> DEFINE w == Width(t)
           n == FromBits(S, t)
<1>1. PICK f : IsSumOfBits(f, S, w) /\ n = f[w]
  BY SumOfBits
<1>2. w \in 1 .. 8 * Byte /\ 8 * Byte \in Nat /\ n \in Nat
  <2>1. n \in Residues(t)
    BY FromBitsInRange
  <2> QED BY <2>1, Widths
<1> HIDE DEF w, n
<1>3. ASSUME NEW k \in Nat, k < w, f[k + 1] = n % 2 ^ (k + 1)
      PROVE  f[k] = n % 2 ^ k /\ (k \in S <=> Bit(n, k) = 1)
  <2>1. k \in 0 .. 8 * Byte /\ k + 1 \in 1 .. w /\ (k + 1) - 1 = k /\ k \in 0 .. w
    BY <1>2, <1>3
  <2> DEFINE b == IF k \in S THEN 1 ELSE 0
             m == 2 ^ k
             c == Bit(n, k)
             r == n % m
  <2>2. m \in Nat \ {0}
    BY <2>1, Powers
  <2>3. f[k + 1] = f[k] + (IF k \in S THEN m ELSE 0) /\ f[k] \in 0 .. m - 1
    BY <1>1, <2>1 DEF IsSumOfBits
  <2>4. n % 2 ^ (k + 1) = r + m * c /\ c \in {0, 1}
    BY <1>2, <2>1, NextBit
  <2>5. r \in 0 .. m - 1
    <3>1. n \in Int
      BY <1>2
    <3> HIDE DEF m
    <3> QED BY <3>1, <2>2, Divides
  <2> HIDE DEF m, c, r
  <2>6. f[k + 1] = m * b + f[k]
    BY <2>2, <2>3
  <2>7. f[k + 1] = m * c + r
    BY <1>3, <2>2, <2>4, <2>5
  <2>8. f[k + 1] % m = f[k] /\ f[k + 1] \div m = b
    <3>1. b \in Int /\ f[k + 1] \in Int
      BY <2>2, <2>3
    <3> HIDE DEF b
    <3> QED BY Zenon, <2>2, <2>3, <2>6, <3>1, QuotientIsUnique
  <2>9. f[k + 1] % m = r /\ f[k + 1] \div m = c
    <3>1. c \in Int /\ f[k + 1] \in Int
      BY <2>2, <2>3, <2>4
    <3> QED BY Zenon, <2>2, <2>5, <2>7, <3>1, QuotientIsUnique
  <2> QED BY <2>8, <2>9 DEF r, m, c
<1>4. ASSUME NEW k \in 0 .. w PROVE f[k] = n % 2 ^ k
  <2> DEFINE T == {j \in Nat : j <= w => f[w - j] = n % 2 ^ (w - j)}
  <2>1. 0 \in T
    <3>1. w \in 0 .. w /\ w - 0 = w /\ w \in 0 .. 8 * Byte
      BY <1>2
    <3>2. n \in 0 .. 2 ^ w - 1 /\ 2 ^ w \in Nat \ {0}
      BY <1>1, <3>1, Powers DEF IsSumOfBits
    <3>3. n % 2 ^ w = n
      BY <3>2, SmallRemainder
    <3> QED BY <1>1, <3>1, <3>3
  <2>2. ASSUME NEW j \in Nat, j \in T PROVE j + 1 \in T
    <3> SUFFICES ASSUME j + 1 <= w PROVE f[w - (j + 1)] = n % 2 ^ (w - (j + 1))
      OBVIOUS
    <3> DEFINE i == w - (j + 1)
    <3>1. i \in Nat /\ i < w /\ i + 1 = w - j /\ j <= w
      BY <1>2
    <3> HIDE DEF i
    <3>2. f[i + 1] = n % 2 ^ (i + 1)
      BY <2>2, <3>1
    <3>3. f[i] = n % 2 ^ i
      BY <1>3, <3>1, <3>2
    <3> QED BY <3>3 DEF i
  <2> HIDE DEF T
  <2>3. w - k \in Nat /\ w - (w - k) = k /\ w - k <= w
    BY <1>2
  <2>4. w - k \in T
    BY <2>1, <2>2, <2>3, NaturalInduction
  <2> QED BY <2>3, <2>4 DEF T
<1>5. ASSUME NEW k \in 0 .. w - 1 PROVE k \in S <=> Bit(n, k) = 1
  <2>1. k \in Nat /\ k < w /\ k + 1 \in 0 .. w
    BY <1>2
  <2> QED BY <1>3, <1>4, <2>1
<1>6. BitsOf(n, t) = {k \in 0 .. w - 1 : Bit(n, k) = 1}
  BY DEF BitsOf, w
<1>7. S \subseteq 0 .. w - 1
  BY DEF w
<1> QED BY Zenon, <1>5, <1>6, <1>7 DEF n

\* The number that the bits of a word make is the word.
LEMMA SumOfBitsOf ==
  ASSUME NEW t \in IntTypes, NEW x \in Residues(t)
  PROVE  FromBits(BitsOf(x, t), t) = x
<1> DEFINE w == Width(t)
           S == BitsOf(x, t)
<1>1. PICK f : IsSumOfBits(f, S, w) /\ FromBits(S, t) = f[w]
  BY SumOfBits
<1>2. w \in 1 .. 8 * Byte /\ 8 * Byte \in Nat /\ x \in 0 .. 2 ^ w - 1 /\ 2 ^ w \in Nat \ {0}
  BY Zenon, Widths DEF Modulus
<1>3. ASSUME NEW k \in 0 .. w - 1 PROVE k \in S <=> Bit(x, k) = 1
  BY <1>3 DEF BitsOf
<1> HIDE DEF S, w
<1> DEFINE T == {j \in Nat : j <= w => f[j] = x % 2 ^ j}
<1>4. 0 \in T
  <2>1. x % 1 = 0 /\ 2 ^ 0 = 1
    BY <1>2, PowersAssumption
  <2>2. f[0] = 0
    BY <1>1 DEF IsSumOfBits
  <2> QED BY <2>1, <2>2
<1>5. ASSUME NEW j \in Nat, j \in T PROVE j + 1 \in T
  <2> SUFFICES ASSUME j + 1 <= w PROVE f[j + 1] = x % 2 ^ (j + 1)
    OBVIOUS
  <2>1. j + 1 \in 1 .. w /\ (j + 1) - 1 = j /\ j \in 0 .. w - 1 /\ j \in 0 .. 8 * Byte /\ x \in Nat
    BY <1>2
  <2>2. f[j + 1] = f[j] + (IF j \in S THEN 2 ^ j ELSE 0)
    BY <1>1, <2>1 DEF IsSumOfBits
  <2>3. f[j] = x % 2 ^ j
    <3>1. j <= w
      BY <1>2, <2>1
    <3> QED BY Zenon, <1>5, <3>1
  <2>4. x % 2 ^ (j + 1) = (x % 2 ^ j) + 2 ^ j * Bit(x, j) /\ Bit(x, j) \in {0, 1}
    BY <2>1, NextBit
  <2>5. 2 ^ j \in Nat
    BY <2>1, Powers
  <2>6. 2 ^ j * Bit(x, j) = IF j \in S THEN 2 ^ j ELSE 0
    <3>1. CASE j \in S
      BY <1>3, <2>1, <2>5, <3>1
    <3>2. CASE j \notin S
      BY <1>3, <2>1, <2>4, <2>5, <3>2
    <3> QED BY <3>1, <3>2
  <2> QED BY <2>2, <2>3, <2>4, <2>6
<1> HIDE DEF T
<1>6. w \in T
  BY <1>2, <1>4, <1>5, NaturalInduction
<1>7. f[w] = x % 2 ^ w
  BY <1>2, <1>6 DEF T
<1>8. x % 2 ^ w = x
  BY <1>2, SmallRemainder
<1> QED BY <1>1, <1>7, <1>8 DEF S, w

(***************************************************************************)
(* The operators of aggregates: what folds a row into an accumulator, and    *)
(* what combines two accumulators.                                          *)
(***************************************************************************)
MergeOp(op) == IF op = "AndNot" THEN "And" ELSE op

LEMMA SumsAndProducts ==
  ASSUME NEW t, NEW f, NEW x, NEW y
  PROVE  /\ ArithInt("Add", f, t, x, y) = (x + y) % Modulus(t)
         /\ ArithInt("Mul", f, t, x, y) = (Signed(x, t) * Signed(y, t)) % Modulus(t)
<1>1. ArithInt("Add", f, t, x, y) = (x + y) % Modulus(t)
  BY DEF ArithInt, Wrap, ShiftOps
<1>2. ArithInt("Mul", f, t, x, y) = (Signed(x, t) * Signed(y, t)) % Modulus(t)
  BY DEF ArithInt, Wrap, ShiftOps
<1> QED BY <1>1, <1>2

LEMMA Choices ==
  ASSUME NEW t, NEW f, NEW x, NEW y
  PROVE  /\ ArithInt("Min", f, t, x, y) = IF Signed(x, t) <= Signed(y, t) THEN x ELSE y
         /\ ArithInt("Max", f, t, x, y) = IF Signed(x, t) >= Signed(y, t) THEN x ELSE y
         /\ ArithInt("UMin", f, t, x, y) = IF x <= y THEN x ELSE y
         /\ ArithInt("UMax", f, t, x, y) = IF x >= y THEN x ELSE y
<1>1. ArithInt("Min", f, t, x, y) = IF Signed(x, t) <= Signed(y, t) THEN x ELSE y
  BY DEF ArithInt, ShiftOps
<1>2. ArithInt("Max", f, t, x, y) = IF Signed(x, t) >= Signed(y, t) THEN x ELSE y
  BY DEF ArithInt, ShiftOps
<1>3. ArithInt("UMin", f, t, x, y) = IF x <= y THEN x ELSE y
  BY DEF ArithInt, ShiftOps
<1>4. ArithInt("UMax", f, t, x, y) = IF x >= y THEN x ELSE y
  BY DEF ArithInt, ShiftOps
<1> QED BY <1>1, <1>2, <1>3, <1>4

LEMMA Masks ==
  \A t, f, x, y :
    /\ ArithInt("And", f, t, x, y) = FromBits(BitsOf(x, t) \intersect BitsOf(y, t), t)
    /\ ArithInt("Or", f, t, x, y) = FromBits(BitsOf(x, t) \union BitsOf(y, t), t)
    /\ ArithInt("Xor", f, t, x, y) = FromBits((BitsOf(x, t) \union BitsOf(y, t)) \ (BitsOf(x, t) \intersect BitsOf(y, t)), t)
    /\ ArithInt("AndNot", f, t, x, y) = FromBits(BitsOf(y, t) \ BitsOf(x, t), t)
<1> TAKE t, f, x, y
<1>1. ArithInt("And", f, t, x, y) = FromBits(BitsOf(x, t) \intersect BitsOf(y, t), t)
  BY DEF ArithInt, ShiftOps
<1>2. ArithInt("Or", f, t, x, y) = FromBits(BitsOf(x, t) \union BitsOf(y, t), t)
  BY DEF ArithInt, ShiftOps
<1>3. ArithInt("Xor", f, t, x, y) = FromBits((BitsOf(x, t) \union BitsOf(y, t)) \ (BitsOf(x, t) \intersect BitsOf(y, t)), t)
  BY DEF ArithInt, ShiftOps
<1>4. ArithInt("AndNot", f, t, x, y) = FromBits(BitsOf(y, t) \ BitsOf(x, t), t)
  BY DEF ArithInt, ShiftOps
<1> QED BY <1>1, <1>2, <1>3, <1>4

\* The scalar instruction of an operator of aggregates computes the operator.
LEMMA SameUnderFlags ==
  ASSUME NEW t, NEW op \in AggOps, NEW x, NEW y
  PROVE  ScalarInstr(op, t, x, y) = ArithInt(op, "No", t, x, y)
<1>1. op \notin DivisionOps
  BY DEF AggOps, DivisionOps
<1>2. ScalarInstr(op, t, x, y) = ArithInt(op, "ShiftWraparound", t, x, y)
  BY <1>1 DEF ScalarInstr
<1>3. ArithInt(op, "ShiftWraparound", t, x, y) = ArithInt(op, "No", t, x, y)
  <2>1. CASE op \in {"Add", "Mul"} BY <2>1, SumsAndProducts
  <2>2. CASE op \in {"Min", "Max", "UMin", "UMax"} BY <2>2, Choices
  <2>3. CASE op = "And"
    <3>1. ArithInt("And", "ShiftWraparound", t, x, y) = ArithInt("And", "No", t, x, y)
      BY DEF ArithInt, ShiftOps
    <3> QED BY Zenon, <2>3, <3>1
  <2>4. CASE op = "Or"
    <3>1. ArithInt("Or", "ShiftWraparound", t, x, y) = ArithInt("Or", "No", t, x, y)
      BY DEF ArithInt, ShiftOps
    <3> QED BY Zenon, <2>4, <3>1
  <2>5. CASE op = "Xor"
    <3>1. ArithInt("Xor", "ShiftWraparound", t, x, y) = ArithInt("Xor", "No", t, x, y)
      BY DEF ArithInt, ShiftOps
    <3> QED BY Zenon, <2>5, <3>1
  <2>6. CASE op = "AndNot"
    <3>1. ArithInt("AndNot", "ShiftWraparound", t, x, y) = ArithInt("AndNot", "No", t, x, y)
      BY DEF ArithInt, ShiftOps
    <3> QED BY Zenon, <2>6, <3>1
  <2> QED BY <2>1, <2>2, <2>3, <2>4, <2>5, <2>6 DEF AggOps
<1> QED BY <1>2, <1>3

\* Where a fold starts (agg_acc_init_value).
StartOf(op, t) ==
  CASE op \in {"UMax", "Xor", "Or", "Add"} -> 0
    [] op = "Mul" -> 1
    [] op \in {"AndNot", "UMin", "And"} -> AllOnes(t)
    [] op = "Min" -> AllOnes(t) \div 2
    [] op = "Max" -> Modulus(t) \div 2

\* A row may be folded into either operand of the combination or into its result.
Lawful(op, t) ==
  LET R == Residues(t)
      row(x, a) == ArithInt(op, "No", t, x, a)
      both(a, b) == ArithInt(MergeOp(op), "No", t, a, b)
  IN  /\ StartOf(op, t) \in R
      /\ \A a \in R : both(StartOf(op, t), a) = a
      /\ \A a, b \in R : both(a, b) \in R
      /\ \A x, a \in R : row(x, a) \in R /\ (op # "AndNot" => row(a, x) = row(x, a))
      /\ \A x, a, b \in R : both(row(x, a), b) = row(x, both(a, b)) /\ both(a, row(x, b)) = row(x, both(a, b))

LEMMA AddLawful ==
  ASSUME NEW t \in IntTypes
  PROVE  Lawful("Add", t)
<1> DEFINE R == Residues(t)
           M == Modulus(t)
           F(x, y) == ArithInt("Add", "No", t, x, y)
<1>1. M \in Nat \ {0} /\ R = 0 .. M - 1 /\ 0 \in R
  BY Widths
<1>2. \A x, y : F(x, y) = (x + y) % M
  BY SumsAndProducts
<1>3. StartOf("Add", t) = 0 /\ MergeOp("Add") = "Add"
  BY DEF StartOf, MergeOp
<1> HIDE DEF M, R, F
<1>4. \A x, y \in R : F(x, y) \in R /\ F(y, x) = F(x, y)
  <2> TAKE x, y \in R
  <2>1. x + y \in Int /\ x + y = y + x
    BY <1>1
  <2> QED BY Zenon, <1>1, <1>2, <2>1, Divides
<1>5. \A a \in R : F(0, a) = a
  <2> TAKE a \in R
  <2>1. 0 + a = a /\ a \in 0 .. M - 1
    BY <1>1
  <2>2. a % M = a
    BY <1>1, <2>1, SmallRemainder
  <2> QED BY <1>2, <2>1, <2>2
<1>6. \A x, a, b \in R : F(F(x, a), b) = F(x, F(a, b)) /\ F(a, F(x, b)) = F(x, F(a, b))
  <2> TAKE x, a, b \in R
  <2>1. x \in Int /\ a \in Int /\ b \in Int /\ x + a \in Int /\ a + b \in Int /\ x + b \in Int
    BY <1>1
  <2>2. (((x + a) % M) + b) % M = ((x + a) + b) % M
    BY Zenon, <1>1, <2>1, ModSums
  <2>3. (x + ((a + b) % M)) % M = (x + (a + b)) % M
    BY Zenon, <1>1, <2>1, ModSums
  <2>4. (a + ((x + b) % M)) % M = (a + (x + b)) % M
    BY Zenon, <1>1, <2>1, ModSums
  <2>5. (x + a) + b = x + (a + b) /\ a + (x + b) = x + (a + b)
    BY <2>1
  <2> QED BY <1>2, <2>2, <2>3, <2>4, <2>5
<1> QED BY <1>1, <1>3, <1>4, <1>5, <1>6 DEF Lawful, F, R

LEMMA MulLawful ==
  ASSUME NEW t \in IntTypes
  PROVE  Lawful("Mul", t) /\ \A x, y \in Residues(t) : ArithInt("Mul", "No", t, x, y) = (x * y) % Modulus(t)
<1> DEFINE R == Residues(t)
           M == Modulus(t)
           F(x, y) == ArithInt("Mul", "No", t, x, y)
<1>1. M \in Nat \ {0} /\ R = 0 .. M - 1 /\ 1 \in R
  BY Widths
<1>2. \A x, y \in R : F(x, y) = (x * y) % M
  <2> TAKE x, y \in R
  <2>1. F(x, y) = (Signed(x, t) * Signed(y, t)) % M
    BY SumsAndProducts
  <2>2. /\ Signed(x, t) \in Int /\ Signed(y, t) \in Int
        /\ Congruent(M, Signed(x, t), x) /\ Congruent(M, Signed(y, t), y)
    BY SignedValue, Widths
  <2>3. x \in Int /\ y \in Int
    BY <1>1
  <2> DEFINE p == Signed(x, t)
             q == Signed(y, t)
  <2>4. p \in Int /\ q \in Int /\ Congruent(M, p, x) /\ Congruent(M, q, y) /\ F(x, y) = (p * q) % M
    BY <2>1, <2>2
  <2> HIDE DEF p, q, M, F
  <2>5. Congruent(M, p * q, x * y) /\ p * q \in Int /\ x * y \in Int
    BY <1>1, <2>3, <2>4, CongruentSums
  <2> QED BY Zenon, <1>1, <2>4, <2>5, SameRemainder
<1>3. StartOf("Mul", t) = 1 /\ MergeOp("Mul") = "Mul"
  BY DEF StartOf, MergeOp
<1> HIDE DEF M, R, F
<1>4. \A x, y \in R : F(x, y) \in R /\ F(y, x) = F(x, y)
  <2> TAKE x, y \in R
  <2>1. x * y \in Int /\ x * y = y * x
    BY <1>1
  <2>2. (x * y) % M \in R
    BY <1>1, <2>1, Divides
  <2> QED BY <1>2, <2>1, <2>2
<1>5. \A a \in R : F(1, a) = a
  <2> TAKE a \in R
  <2>1. 1 * a = a /\ a \in 0 .. M - 1 /\ 1 \in R
    BY <1>1
  <2>2. a % M = a
    BY <1>1, <2>1, SmallRemainder
  <2> QED BY <1>2, <2>1, <2>2
<1>6. \A x, a, b \in R : F(F(x, a), b) = F(x, F(a, b)) /\ F(a, F(x, b)) = F(x, F(a, b))
  <2> TAKE x, a, b \in R
  <2>1. x \in Int /\ a \in Int /\ b \in Int /\ x * a \in Int /\ a * b \in Int /\ x * b \in Int
    BY <1>1
  <2>2. (((x * a) % M) * b) % M = ((x * a) * b) % M
    BY Zenon, <1>1, <2>1, ModSums
  <2>3. (x * ((a * b) % M)) % M = (x * (a * b)) % M
    BY Zenon, <1>1, <2>1, ModSums
  <2>4. (a * ((x * b) % M)) % M = (a * (x * b)) % M
    BY Zenon, <1>1, <2>1, ModSums
  <2>5. (x * a) * b = x * (a * b) /\ a * (x * b) = x * (a * b)
    BY <2>1, SMT
  <2>6. F(x, a) \in R /\ F(a, b) \in R /\ F(x, b) \in R
    BY <1>4
  <2>7. F(F(x, a), b) = (((x * a) % M) * b) % M
    BY <1>2, <2>6
  <2>8. F(x, F(a, b)) = (x * ((a * b) % M)) % M
    BY <1>2, <2>6
  <2>9. F(a, F(x, b)) = (a * ((x * b) % M)) % M
    BY <1>2, <2>6
  <2> QED BY <2>2, <2>3, <2>4, <2>5, <2>7, <2>8, <2>9
<1>7. Lawful("Mul", t)
  BY <1>1, <1>3, <1>4, <1>5, <1>6 DEF Lawful, F, R
<1> QED BY <1>2, <1>7 DEF F, R, M

LEMMA ChoiceLawful ==
  ASSUME NEW t \in IntTypes, NEW op \in {"Min", "Max", "UMin", "UMax"}
  PROVE  Lawful(op, t)
<1> DEFINE R == Residues(t)
           h == Half(t)
           key(x) == IF op = "Min" THEN Signed(x, t) ELSE IF op = "Max" THEN -Signed(x, t)
                     ELSE IF op = "UMin" THEN x ELSE -x
           F(x, y) == ArithInt(op, "No", t, x, y)
           e == StartOf(op, t)
<1>1. R = 0 .. 2 * h - 1 /\ h \in Nat \ {0}
  BY Widths
<1>2. \A x \in R : key(x) \in Int
  BY <1>1, SignedValue, Widths
<1>3. \A x, y \in R : key(x) = key(y) => x = y
  <2> TAKE x, y \in R
  <2>1. Signed(x, t) \in Int /\ Signed(y, t) \in Int /\ x \in Int /\ y \in Int
    BY <1>1, SignedValue, Widths
  <2> QED BY <2>1, SignedIsOneToOne
<1>4. \A x, y \in R : F(x, y) = IF key(x) <= key(y) THEN x ELSE y
  <2> TAKE x, y \in R
  <2>1. Signed(x, t) \in Int /\ Signed(y, t) \in Int /\ x \in Int /\ y \in Int
    BY <1>1, SignedValue, Widths
  <2>2. CASE op = "Min" BY <2>2, Choices
  <2>3. CASE op = "Max" BY <2>1, <2>3, Choices
  <2>4. CASE op = "UMin" BY <2>4, Choices
  <2>5. CASE op = "UMax" BY <2>1, <2>5, Choices
  <2> QED BY <2>2, <2>3, <2>4, <2>5
<1>5. e \in R /\ \A x \in R : key(x) <= key(e)
  <2>1. CASE op = "Min"
    <3>1. e = h - 1
      BY <1>1, <2>1, Widths DEF StartOf
    <3>2. h - 1 \in R
      BY <1>1
    <3>3. Signed(h - 1, t) = h - 1
      BY <1>1, <3>2, SignedValue
    <3>4. \A x \in R : Signed(x, t) <= h - 1
      BY <1>1, SignedValue
    <3> QED BY <2>1, <3>1, <3>2, <3>3, <3>4
  <2>2. CASE op = "Max"
    <3>1. e = h
      BY <1>1, <2>2, Widths DEF StartOf
    <3>2. h \in R
      BY <1>1
    <3>3. Signed(h, t) = -h
      <4>1. Signed(h, t) = IF h >= Half(t) THEN h - Modulus(t) ELSE h
        BY <3>2, SignedValue
      <4> QED BY <1>1, <4>1, Widths
    <3>4. \A x \in R : Signed(x, t) >= -h /\ Signed(x, t) \in Int
      BY <1>1, SignedValue
    <3> QED BY <1>1, <2>2, <3>1, <3>2, <3>3, <3>4
  <2>3. CASE op = "UMin"
    <3>1. e = 2 * h - 1
      BY <2>3, Widths DEF StartOf
    <3> QED BY <1>1, <2>3, <3>1
  <2>4. CASE op = "UMax"
    <3>1. e = 0
      BY <2>4 DEF StartOf
    <3> QED BY <1>1, <2>4, <3>1
  <2> QED BY <2>1, <2>2, <2>3, <2>4
<1>6. MergeOp(op) = op /\ op # "AndNot"
  BY DEF MergeOp
<1> HIDE DEF R, h, key, F, e
<1>7. \A x, y \in R : F(x, y) \in R /\ F(y, x) = F(x, y)
  <2> TAKE x, y \in R
  <2>1. key(x) \in Int /\ key(y) \in Int /\ (key(x) = key(y) => x = y)
    BY <1>2, <1>3
  <2> QED BY <1>4, <2>1
<1>8. \A a \in R : F(e, a) = a
  <2> TAKE a \in R
  <2>1. key(a) \in Int /\ key(e) \in Int /\ key(a) <= key(e) /\ (key(a) = key(e) => a = e)
    BY <1>2, <1>3, <1>5
  <2> QED BY <1>4, <1>5, <2>1
<1>9. \A x, a, b \in R : F(F(x, a), b) = F(x, F(a, b)) /\ F(a, F(x, b)) = F(x, F(a, b))
  <2> TAKE x, a, b \in R
  <2>1. key(x) \in Int /\ key(a) \in Int /\ key(b) \in Int
    BY <1>2
  <2>2. (key(x) = key(a) => x = a) /\ (key(x) = key(b) => x = b) /\ (key(a) = key(b) => a = b)
    BY <1>3
  <2>3. /\ F(x, a) = IF key(x) <= key(a) THEN x ELSE a
        /\ F(a, b) = IF key(a) <= key(b) THEN a ELSE b
        /\ F(x, b) = IF key(x) <= key(b) THEN x ELSE b
        /\ F(a, x) = IF key(a) <= key(x) THEN a ELSE x
        /\ F(a, a) = a /\ F(x, x) = x /\ F(b, b) = b
    BY <1>4
  <2> QED BY <2>1, <2>2, <2>3
<1>10. /\ e \in R
       /\ \A a \in R : F(e, a) = a
       /\ \A a, b \in R : F(a, b) \in R
       /\ \A x, a \in R : F(x, a) \in R /\ (op # "AndNot" => F(a, x) = F(x, a))
  BY <1>5, <1>7, <1>8
<1>11. /\ e \in R
       /\ \A a \in R : ArithInt(MergeOp(op), "No", t, e, a) = a
       /\ \A a, b \in R : ArithInt(MergeOp(op), "No", t, a, b) \in R
  BY Zenon, <1>6, <1>10 DEF F
<1>12. \A x, a, b \in R :
         /\ ArithInt(MergeOp(op), "No", t, F(x, a), b) = F(x, ArithInt(MergeOp(op), "No", t, a, b))
         /\ ArithInt(MergeOp(op), "No", t, a, F(x, b)) = F(x, ArithInt(MergeOp(op), "No", t, a, b))
  <2>1. \A x, y : ArithInt(MergeOp(op), "No", t, x, y) = F(x, y)
    BY <1>6 DEF F
  <2> QED BY <1>9, <2>1
<1> QED BY Zenon, <1>10, <1>11, <1>12 DEF Lawful, F, R, e

LEMMA AllBits ==
  ASSUME NEW t \in IntTypes
  PROVE  BitsOf(AllOnes(t), t) = 0 .. Width(t) - 1 /\ BitsOf(0, t) = {}
<1> DEFINE w == Width(t)
<1>1. w \in 1 .. 8 * Byte /\ 8 * Byte \in Nat /\ AllOnes(t) = 2 ^ w - 1 /\ 2 ^ w \in Nat \ {0} /\ AllOnes(t) \in Nat
  BY Widths DEF AllOnes, Modulus
<1>2. ASSUME NEW k \in 0 .. w - 1 PROVE Bit(AllOnes(t), k) = 1 /\ Bit(0, k) = 0
  <2>1. k \in Nat /\ k + 1 \in Nat /\ k + 1 <= w /\ w <= 8 * Byte /\ w \in Nat /\ k \in 0 .. 8 * Byte
    BY <1>1
  <2>2. PICK c \in Nat \ {0} : 2 ^ w = 2 ^ (k + 1) * c
    BY Zenon, <2>1, PowersDivide
  <2>3. 2 ^ (k + 1) = 2 * 2 ^ k /\ 2 ^ k \in Nat \ {0}
    BY <2>1, Powers
  <2> DEFINE m == 2 ^ k
  <2>4. m \in Nat \ {0} /\ AllOnes(t) = m * (2 * c - 1) + (m - 1) /\ AllOnes(t) \in Int /\ 2 * c - 1 \in Int
    <3>1. 2 ^ w = (2 * m) * c
      BY <2>2, <2>3
    <3>2. (2 * m) * c - 1 = m * (2 * c - 1) + (m - 1)
      BY <2>3, SMT
    <3> QED BY <1>1, <2>3, <3>1, <3>2
  <2> DEFINE q == 2 * c - 1
             r == m - 1
             A == AllOnes(t)
  <2>5. m \in Nat \ {0} /\ A = m * q + r /\ A \in Int /\ q \in Int /\ r \in 0 .. m - 1
    BY <2>4
  <2>6. q % 2 = 1
    OBVIOUS
  <2>7. A \div m = q
    <3> HIDE DEF m, q, r, A
    <3> QED BY <2>5, QuotientIsUnique
  <2>8. 0 \div m = 0
    <3> HIDE DEF m, q, r, A
    <3>1. 0 = m * 0 + 0 /\ 0 \in 0 .. m - 1
      BY <2>5
    <3> QED BY <2>5, <3>1, QuotientIsUnique
  <2>9. Bit(AllOnes(t), k) = (A \div m) % 2 /\ Bit(0, k) = (0 \div m) % 2
    BY DEF Bit
  <2> HIDE DEF q, m, A
  <2>10. Bit(AllOnes(t), k) = q % 2 /\ Bit(0, k) = 0 % 2
    BY <2>7, <2>8, <2>9
  <2> QED BY <2>6, <2>10
<1> QED BY <1>1, <1>2 DEF BitsOf

LEMMA BitwiseLawful ==
  ASSUME NEW t \in IntTypes, NEW op \in {"And", "Or", "Xor", "AndNot"}
  PROVE  Lawful(op, t)
<1> DEFINE R == Residues(t)
           U == 0 .. Width(t) - 1
           B(x) == BitsOf(x, t)
           N(A) == FromBits(A, t)
           j(X, A) == CASE op = "And" -> X \cap A [] op = "Or" -> X \cup A
                        [] op = "Xor" -> (X \cup A) \ (X \cap A) [] op = "AndNot" -> A \ X
           k(X, A) == CASE op \in {"And", "AndNot"} -> X \cap A [] op = "Or" -> X \cup A
                        [] op = "Xor" -> (X \cup A) \ (X \cap A)
           F(x, y) == ArithInt(op, "No", t, x, y)
           G(x, y) == ArithInt(MergeOp(op), "No", t, x, y)
           e == StartOf(op, t)
<1>1. \A A \in SUBSET U : N(A) \in R /\ B(N(A)) = A
  BY FromBitsInRange, BitsOfSum
<1>2. \A x \in R : B(x) \in SUBSET U /\ N(B(x)) = x
  BY BitsBelow, SumOfBitsOf
<1>3. \A x, y : F(x, y) = N(j(B(x), B(y))) /\ G(x, y) = N(k(B(x), B(y)))
  <2> TAKE x, y
  <2>1. CASE op = "And"
    <3>1. F(x, y) = ArithInt("And", "No", t, x, y) /\ G(x, y) = ArithInt("And", "No", t, x, y)
      BY <2>1 DEF MergeOp
    <3>2. j(B(x), B(y)) = B(x) \cap B(y) /\ k(B(x), B(y)) = B(x) \cap B(y)
      BY <2>1
    <3>3. ArithInt("And", "No", t, x, y) = N(B(x) \cap B(y))
      BY Masks
    <3> HIDE DEF B, N, F, G, j, k
    <3> QED BY <3>1, <3>2, <3>3
  <2>2. CASE op = "Or"
    <3>1. F(x, y) = ArithInt("Or", "No", t, x, y) /\ G(x, y) = ArithInt("Or", "No", t, x, y)
      BY <2>2 DEF MergeOp
    <3>2. j(B(x), B(y)) = B(x) \cup B(y) /\ k(B(x), B(y)) = B(x) \cup B(y)
      BY <2>2
    <3>3. ArithInt("Or", "No", t, x, y) = N(B(x) \cup B(y))
      BY Masks
    <3> HIDE DEF B, N, F, G, j, k
    <3> QED BY <3>1, <3>2, <3>3
  <2>3. CASE op = "Xor"
    <3>1. F(x, y) = ArithInt("Xor", "No", t, x, y) /\ G(x, y) = ArithInt("Xor", "No", t, x, y)
      BY <2>3 DEF MergeOp
    <3>2. /\ j(B(x), B(y)) = (B(x) \cup B(y)) \ (B(x) \cap B(y))
          /\ k(B(x), B(y)) = (B(x) \cup B(y)) \ (B(x) \cap B(y))
      BY <2>3
    <3>3. ArithInt("Xor", "No", t, x, y) = N((B(x) \cup B(y)) \ (B(x) \cap B(y)))
      BY Masks
    <3> HIDE DEF B, N, F, G, j, k
    <3> QED BY <3>1, <3>2, <3>3
  <2>4. CASE op = "AndNot"
    <3>1. F(x, y) = ArithInt("AndNot", "No", t, x, y) /\ G(x, y) = ArithInt("And", "No", t, x, y)
      BY <2>4 DEF MergeOp
    <3>2. j(B(x), B(y)) = B(y) \ B(x) /\ k(B(x), B(y)) = B(x) \cap B(y)
      BY <2>4
    <3>3. ArithInt("AndNot", "No", t, x, y) = N(B(y) \ B(x)) /\ ArithInt("And", "No", t, x, y) = N(B(x) \cap B(y))
      BY Masks
    <3> HIDE DEF B, N, F, G, j, k
    <3> QED BY <3>1, <3>2, <3>3
  <2> QED BY <2>1, <2>2, <2>3, <2>4
<1>4. e \in R /\ \A A \in SUBSET U : k(B(e), A) = A
  <2>1. e = IF op \in {"And", "AndNot"} THEN AllOnes(t) ELSE 0
    BY DEF StartOf
  <2>2. AllOnes(t) \in R /\ 0 \in R
    BY Widths
  <2>3. B(AllOnes(t)) = U /\ B(0) = {}
    BY AllBits
  <2>4. CASE op \in {"And", "AndNot"}
    BY <2>1, <2>2, <2>3, <2>4
  <2>5. CASE op \in {"Or", "Xor"}
    BY <2>1, <2>2, <2>3, <2>5
  <2> QED BY <2>4, <2>5
<1>5. \A X, A, C \in SUBSET U :
        /\ j(X, A) \in SUBSET U /\ k(X, A) \in SUBSET U
        /\ (op # "AndNot" => j(A, X) = j(X, A))
        /\ k(j(X, A), C) = j(X, k(A, C)) /\ k(A, j(X, C)) = j(X, k(A, C))
  <2> TAKE X, A, C \in SUBSET U
  <2>1. CASE op = "And" BY <2>1
  <2>2. CASE op = "Or" BY <2>2
  <2>3. CASE op = "Xor" BY <2>3
  <2>4. CASE op = "AndNot" BY <2>4
  <2> QED BY Zenon, <2>1, <2>2, <2>3, <2>4
<1> HIDE DEF R, U, B, N, j, k, F, G, e
<1>6. \A a \in R : G(e, a) = a
  BY <1>2, <1>3, <1>4
<1>7. \A a, b \in R : G(a, b) \in R
  BY <1>1, <1>2, <1>3, <1>5
<1>8. \A x, a \in R : F(x, a) \in R /\ (op # "AndNot" => F(a, x) = F(x, a))
  BY Zenon, <1>1, <1>2, <1>3, <1>5
<1>9. \A x, a, b \in R : G(F(x, a), b) = F(x, G(a, b)) /\ G(a, F(x, b)) = F(x, G(a, b))
  <2> TAKE x, a, b \in R
  <2>1. B(x) \in SUBSET U /\ B(a) \in SUBSET U /\ B(b) \in SUBSET U
    BY <1>2
  <2>2. B(F(x, a)) = j(B(x), B(a)) /\ B(F(x, b)) = j(B(x), B(b)) /\ B(G(a, b)) = k(B(a), B(b))
    BY Zenon, <1>1, <1>3, <1>5, <2>1
  <2>3. /\ G(F(x, a), b) = N(k(j(B(x), B(a)), B(b))) /\ F(x, G(a, b)) = N(j(B(x), k(B(a), B(b))))
        /\ G(a, F(x, b)) = N(k(B(a), j(B(x), B(b))))
    BY <1>3, <2>2
  <2> QED BY <1>5, <2>1, <2>3
<1> QED BY Zenon, <1>4, <1>6, <1>7, <1>8, <1>9 DEF Lawful, F, G, R, e

\* Every operator of an aggregate merges accumulators as it folds rows into them.
LEMMA OperatorsAreLawful ==
  ASSUME NEW t \in IntTypes, NEW op \in AggOps
  PROVE  Lawful(op, t)
BY AddLawful, MulLawful, ChoiceLawful, BitwiseLawful DEF AggOps

(***************************************************************************)
(* Lists that are folded until one element is left.                         *)
(***************************************************************************)
Lists(S) == UNION {[1 .. m -> S] : m \in Nat \ {0}}

LEMMA ListLength ==
  ASSUME NEW S, NEW m \in Nat, NEW s \in [1 .. m -> S]
  PROVE  Len(s) = m /\ DOMAIN s = 1 .. m /\ (m # 0 => s \in Lists(S))
<1>1. s \in Seq(S)
  OBVIOUS
<1>2. Len(s) = m /\ DOMAIN s = 1 .. m
  BY <1>1, LenProperties
<1> QED BY <1>2 DEF Lists

\* An operator that a change of either operand passes through.
Acts(op, u, S) ==
  /\ op \in [S \X S -> S] /\ u \in [S -> S]
  /\ \A a, b \in S : op[<<u[a], b>>] = u[op[<<a, b>>]] /\ op[<<a, u[b]>>] = u[op[<<a, b>>]]

\* What holds before every round of a recursion and after it.
LEMMA Descent ==
  ASSUME NEW n \in Nat, NEW f, NEW g, NEW Q,
         <<f[0], g[0]>> \in Q[0],
         \A k \in 1 .. n : <<f[k - 1], g[k - 1]>> \in Q[k - 1] => <<f[k], g[k]>> \in Q[k]
  PROVE  <<f[n], g[n]>> \in Q[n]
<1> DEFINE T == {k \in Nat : k <= n => <<f[k], g[k]>> \in Q[k]}
<1>1. 0 \in T
  OBVIOUS
<1>2. ASSUME NEW k \in Nat, k \in T PROVE k + 1 \in T
  <2> SUFFICES ASSUME k + 1 <= n PROVE <<f[k + 1], g[k + 1]>> \in Q[k + 1]
    OBVIOUS
  <2>1. <<f[k], g[k]>> \in Q[k] /\ k + 1 \in 1 .. n /\ (k + 1) - 1 = k
    BY <1>2
  <2> QED BY <2>1
<1> HIDE DEF T
<1>3. Nat \subseteq T
  BY Zenon, <1>1, <1>2, NaturalInduction
<1>4. n \in T
  BY <1>3
<1> QED BY <1>4 DEF T

IsPaired(F, s, op, m, S) ==
  /\ F \in [1 .. (m + 1) \div 2 -> S]
  /\ \A i \in 1 .. (m + 1) \div 2 : F[i] = IF 2 * i <= m THEN op[<<s[2 * i - 1], s[2 * i]>>] ELSE s[2 * i - 1]

IsHalved(F, s, op, h, S) ==
  F \in [1 .. h -> S] /\ \A i \in 1 .. h : F[i] = op[<<s[i], s[i + h]>>]

\* A round of pairs halves the list, rounding up.
LEMMA PairsTyped ==
  ASSUME NEW S, NEW op \in [S \X S -> S], NEW m \in Nat \ {0}, NEW s \in [1 .. m -> S]
  PROVE  IsPaired(FoldPairs(s, op), s, op, m, S)
<1>1. Len(s) = m
  BY ListLength
<1>2. FoldPairs(s, op) = [i \in 1 .. (m + 1) \div 2 |->
                            IF 2 * i <= m THEN op[<<s[2 * i - 1], s[2 * i]>>] ELSE s[2 * i - 1]]
  BY <1>1 DEF FoldPairs
<1>3. ASSUME NEW i \in 1 .. (m + 1) \div 2
      PROVE  (IF 2 * i <= m THEN op[<<s[2 * i - 1], s[2 * i]>>] ELSE s[2 * i - 1]) \in S
  <2>1. i \in Nat /\ 2 * i - 1 \in 1 .. m
    OBVIOUS
  <2>2. CASE 2 * i <= m
    <3>1. 2 * i \in 1 .. m
      BY <2>1, <2>2
    <3>2. s[2 * i - 1] \in S /\ s[2 * i] \in S
      BY <2>1, <3>1
    <3> QED BY <2>2, <3>2
  <2>3. CASE ~(2 * i <= m)
    BY <2>1, <2>3
  <2> QED BY <2>2, <2>3
<1> QED BY <1>2, <1>3 DEF IsPaired

\* A round of halves halves the register.
LEMMA HalvesTyped ==
  ASSUME NEW S, NEW op \in [S \X S -> S], NEW h \in Nat \ {0}, NEW s \in [1 .. 2 * h -> S]
  PROVE  IsHalved(FoldHalves(s, op), s, op, h, S)
<1>1. Len(s) = 2 * h
  BY ListLength
<1>2. (2 * h) \div 2 = h
  OBVIOUS
<1>3. FoldHalves(s, op) = [i \in 1 .. h |-> op[<<s[i], s[i + h]>>]]
  BY Zenon, <1>1, <1>2 DEF FoldHalves
<1>4. ASSUME NEW i \in 1 .. h PROVE op[<<s[i], s[i + h]>>] \in S
  <2>1. i \in 1 .. 2 * h /\ i + h \in 1 .. 2 * h
    OBVIOUS
  <2>2. s[i] \in S /\ s[i + h] \in S
    BY <2>1
  <2> QED BY <2>2
<1> QED BY <1>3, <1>4 DEF IsHalved

\* A list that one of its elements is changed in.
Changed(s, j, u) == [s EXCEPT ![j] = u[@]]

\* What changes one element by u changes one pair by u.
LEMMA PairsOnePoint ==
  ASSUME NEW S, NEW op, NEW u, Acts(op, u, S), NEW m \in Nat \ {0}, NEW s \in [1 .. m -> S], NEW j \in 1 .. m
  PROVE  FoldPairs(Changed(s, j, u), op) = Changed(FoldPairs(s, op), (j + 1) \div 2, u)
<1> DEFINE z == [s EXCEPT ![j] = u[@]]
           i0 == (j + 1) \div 2
           F == FoldPairs(s, op)
           G == FoldPairs(z, op)
           M == (m + 1) \div 2
<1>1. op \in [S \X S -> S] /\ u \in [S -> S]
  BY DEF Acts
<1>2. z \in [1 .. m -> S]
  BY <1>1
<1>3. F \in [1 .. M -> S] /\ \A i \in 1 .. M : F[i] = IF 2 * i <= m THEN op[<<s[2 * i - 1], s[2 * i]>>] ELSE s[2 * i - 1]
  <2>1. IsPaired(F, s, op, m, S)
    BY Zenon, <1>1, PairsTyped
  <2> HIDE DEF z, F, G
  <2> QED BY <2>1 DEF IsPaired
<1>4. G \in [1 .. M -> S] /\ \A i \in 1 .. M : G[i] = IF 2 * i <= m THEN op[<<z[2 * i - 1], z[2 * i]>>] ELSE z[2 * i - 1]
  <2>1. IsPaired(G, z, op, m, S)
    BY Zenon, <1>1, <1>2, PairsTyped
  <2> HIDE DEF z, F, G
  <2> QED BY <2>1 DEF IsPaired
<1>5. i0 \in 1 .. M /\ (j = 2 * i0 \/ j = 2 * i0 - 1) /\ i0 \in Nat
  OBVIOUS
<1>6. \A i \in 1 .. M : i # i0 => G[i] = F[i]
  <2> SUFFICES ASSUME NEW i \in 1 .. M, i # i0 PROVE G[i] = F[i]
    BY Zenon
  <2>1. 2 * i - 1 # j /\ 2 * i # j /\ 2 * i - 1 \in 1 .. m
    BY <1>5
  <2>2. z[2 * i - 1] = s[2 * i - 1]
    BY <2>1
  <2>3. 2 * i <= m => z[2 * i] = s[2 * i]
    BY <2>1
  <2> HIDE DEF z, F, G, M, i0
  <2> QED BY Zenon, <1>3, <1>4, <2>2, <2>3
<1>7. G[i0] = u[F[i0]]
  <2>1. CASE j = 2 * i0 - 1 /\ 2 * i0 <= m
    <3>1. z[2 * i0 - 1] = u[s[2 * i0 - 1]] /\ z[2 * i0] = s[2 * i0] /\ s[2 * i0 - 1] \in S /\ s[2 * i0] \in S
      BY <1>5, <2>1
    <3> HIDE DEF z, F, G, M, i0
    <3>2. G[i0] = op[<<u[s[2 * i0 - 1]], s[2 * i0]>>] /\ F[i0] = op[<<s[2 * i0 - 1], s[2 * i0]>>]
      BY <1>3, <1>4, <1>5, <2>1, <3>1
    <3> QED BY Zenon, <3>1, <3>2 DEF Acts
  <2>2. CASE j = 2 * i0 - 1 /\ ~(2 * i0 <= m)
    <3>1. z[2 * i0 - 1] = u[s[2 * i0 - 1]]
      BY <1>5, <2>2
    <3> HIDE DEF z, F, G, M, i0
    <3> QED BY Zenon, <1>3, <1>4, <1>5, <2>2, <3>1
  <2>3. CASE j = 2 * i0
    <3>1. /\ z[2 * i0] = u[s[2 * i0]] /\ z[2 * i0 - 1] = s[2 * i0 - 1] /\ s[2 * i0 - 1] \in S /\ s[2 * i0] \in S
          /\ 2 * i0 <= m
      BY <1>5, <2>3
    <3> HIDE DEF z, F, G, M, i0
    <3>2. G[i0] = op[<<s[2 * i0 - 1], u[s[2 * i0]]>>] /\ F[i0] = op[<<s[2 * i0 - 1], s[2 * i0]>>]
      BY <1>3, <1>4, <1>5, <2>3, <3>1
    <3> QED BY Zenon, <3>1, <3>2 DEF Acts
  <2> QED BY <1>5, <2>1, <2>2, <2>3
<1> HIDE DEF z, F, G, M, i0
<1>8. G = [F EXCEPT ![i0] = u[@]]
  BY <1>3, <1>4, <1>5, <1>6, <1>7
<1> QED BY <1>8 DEF z, F, G, i0, Changed

\* What changes one lane by u changes one lane of the halves by u.
LEMMA HalvesOnePoint ==
  ASSUME NEW S, NEW op, NEW u, Acts(op, u, S), NEW h \in Nat \ {0}, NEW s \in [1 .. 2 * h -> S], NEW j \in 1 .. 2 * h
  PROVE  FoldHalves(Changed(s, j, u), op) = Changed(FoldHalves(s, op), IF j <= h THEN j ELSE j - h, u)
<1> DEFINE z == [s EXCEPT ![j] = u[@]]
           i0 == IF j <= h THEN j ELSE j - h
           F == FoldHalves(s, op)
           G == FoldHalves(z, op)
<1>1. op \in [S \X S -> S] /\ u \in [S -> S]
  BY DEF Acts
<1>2. z \in [1 .. 2 * h -> S]
  BY <1>1
<1>3. F \in [1 .. h -> S] /\ \A i \in 1 .. h : F[i] = op[<<s[i], s[i + h]>>]
  <2>1. IsHalved(F, s, op, h, S)
    BY Zenon, <1>1, HalvesTyped
  <2> HIDE DEF z, F, G
  <2> QED BY <2>1 DEF IsHalved
<1>4. G \in [1 .. h -> S] /\ \A i \in 1 .. h : G[i] = op[<<z[i], z[i + h]>>]
  <2>1. IsHalved(G, z, op, h, S)
    BY Zenon, <1>1, <1>2, HalvesTyped
  <2> HIDE DEF z, F, G
  <2> QED BY <2>1 DEF IsHalved
<1>5. i0 \in 1 .. h /\ (j = i0 \/ j = i0 + h)
  OBVIOUS
<1>6. \A i \in 1 .. h : i # i0 => G[i] = F[i]
  <2> SUFFICES ASSUME NEW i \in 1 .. h, i # i0 PROVE G[i] = F[i]
    BY Zenon
  <2>1. i # j /\ i + h # j /\ i \in 1 .. 2 * h /\ i + h \in 1 .. 2 * h
    BY <1>5
  <2>2. z[i] = s[i] /\ z[i + h] = s[i + h]
    BY <2>1
  <2> HIDE DEF z, F, G, i0
  <2> QED BY Zenon, <1>3, <1>4, <2>2
<1>7. G[i0] = u[F[i0]]
  <2>0. i0 \in 1 .. 2 * h /\ i0 + h \in 1 .. 2 * h /\ i0 # i0 + h
    BY <1>5
  <2>1. CASE j = i0
    <3>1. z[i0] = u[s[i0]] /\ z[i0 + h] = s[i0 + h] /\ s[i0] \in S /\ s[i0 + h] \in S
      BY <2>0, <2>1
    <3> HIDE DEF z, F, G, i0
    <3>2. G[i0] = op[<<u[s[i0]], s[i0 + h]>>] /\ F[i0] = op[<<s[i0], s[i0 + h]>>]
      BY <1>3, <1>4, <1>5, <3>1
    <3> QED BY Zenon, <3>1, <3>2 DEF Acts
  <2>2. CASE j = i0 + h
    <3>1. z[i0 + h] = u[s[i0 + h]] /\ z[i0] = s[i0] /\ s[i0] \in S /\ s[i0 + h] \in S
      BY <2>0, <2>2
    <3> HIDE DEF z, F, G, i0
    <3>2. G[i0] = op[<<s[i0], u[s[i0 + h]]>>] /\ F[i0] = op[<<s[i0], s[i0 + h]>>]
      BY <1>3, <1>4, <1>5, <3>1
    <3> QED BY Zenon, <3>1, <3>2 DEF Acts
  <2> QED BY <1>5, <2>1, <2>2
<1> HIDE DEF z, F, G, i0
<1>8. G = [F EXCEPT ![i0] = u[@]]
  BY <1>3, <1>4, <1>5, <1>6, <1>7
<1> QED BY <1>8 DEF z, F, G, i0, Changed

(***************************************************************************)
(* The epilogue's tree of copies.                                           *)
(***************************************************************************)
Rounds(m) == CHOOSE k \in Positions : m <= 2 ^ k

\* As many rounds as a 64-bit integer has bits fold every list of copies.
LEMMA EnoughRounds ==
  ASSUME NEW m \in Nat \ {0}, m <= Modulus("I64")
  PROVE  Rounds(m) \in Nat /\ Rounds(m) <= 8 * Byte /\ m <= 2 ^ Rounds(m) /\ 8 * Byte \in Nat
<1>1. 8 * Byte \in Nat
  BY ByteAssumption
<1>2. 8 * Byte \in Positions /\ m <= 2 ^ (8 * Byte)
  BY <1>1, WidthsNest DEF Positions, Modulus
<1>3. Rounds(m) \in Positions /\ m <= 2 ^ Rounds(m)
  BY <1>2 DEF Rounds
<1> QED BY <1>1, <1>3 DEF Positions

IsTree(f, s, op, n) ==
  /\ f[0] = s
  /\ \A k \in 1 .. n : f[k] = FoldPairs(f[k - 1], op)
  /\ Tree(s, op) = f[n][1]

\* The rounds that Tree defines exist: each from the one before it.
LEMMA TreeRecursion ==
  ASSUME NEW S, NEW op \in [S \X S -> S], NEW m \in Nat \ {0}, NEW s \in [1 .. m -> S], m <= Modulus("I64")
  PROVE  \E f : IsTree(f, s, op, Rounds(m))
<1> DEFINE n == Rounds(m)
           step == [k \in 1 .. n |-> [a \in Lists(S) |-> FoldPairs(a, op)]]
           up[k \in 0 .. n] == IF k = 0 THEN s ELSE FoldPairs(up[k - 1], op)
<1>1. n \in Nat /\ Len(s) = m /\ s \in Lists(S)
  BY EnoughRounds, ListLength
<1>2. Tree(s, op) = up[n][1]
  BY <1>1 DEF Tree, Rounds
<1>3. ASSUME NEW a \in Lists(S) PROVE FoldPairs(a, op) \in Lists(S)
  <2>1. PICK h \in Nat \ {0} : a \in [1 .. h -> S]
    BY DEF Lists
  <2>2. IsPaired(FoldPairs(a, op), a, op, h, S)
    BY Zenon, <2>1, PairsTyped
  <2>3. FoldPairs(a, op) \in [1 .. (h + 1) \div 2 -> S] /\ (h + 1) \div 2 \in Nat \ {0}
    BY <2>2 DEF IsPaired
  <2> QED BY Zenon, <2>3 DEF Lists
<1>4. step \in [1 .. n -> [Lists(S) -> Lists(S)]]
  BY <1>3
<1> HIDE DEF step, n
<1>5. PICK f : IsIteration(f, Lists(S), s, n, step)
  BY Zenon, <1>1, <1>4, Iteration
<1>6. f \in [0 .. n -> Lists(S)] /\ f[0] = s /\ \A k \in 1 .. n : f[k] = FoldPairs(f[k - 1], op)
  <2>1. f \in [0 .. n -> Lists(S)] /\ f[0] = s /\ \A k \in 1 .. n : f[k] = step[k][f[k - 1]]
    BY Zenon, <1>5 DEF IsIteration
  <2>2. ASSUME NEW k \in 1 .. n PROVE f[k] = FoldPairs(f[k - 1], op)
    <3>1. k - 1 \in 0 .. n
      BY <1>1
    <3>2. f[k - 1] \in Lists(S)
      BY <2>1, <3>1
    <3> QED BY Zenon, <2>1, <3>2 DEF step
  <2> QED BY <2>1, <2>2
<1>7. f = [k \in 0 .. n |-> IF k = 0 THEN s ELSE FoldPairs(f[k - 1], op)]
  BY <1>1, <1>6
<1>8. up = [k \in 0 .. n |-> IF k = 0 THEN s ELSE FoldPairs(up[k - 1], op)]
  BY Zenon, <1>7
<1> HIDE DEF up
<1>9. up[0] = s /\ \A k \in 1 .. n : up[k] = FoldPairs(up[k - 1], op)
  BY <1>1, <1>8
<1> QED BY <1>2, <1>9 DEF IsTree, n

\* The lists of the rounds that are left.
Below(S, k) == {s \in Lists(S) : Len(s) <= 2 ^ k}

LEMMA PairsDescend ==
  ASSUME NEW S, NEW op \in [S \X S -> S], NEW k \in 0 .. 8 * Byte, NEW s \in Below(S, k + 1)
  PROVE  FoldPairs(s, op) \in Below(S, k)
<1>1. PICK m \in Nat \ {0} : s \in [1 .. m -> S]
  BY DEF Below, Lists
<1>2. m <= 2 ^ (k + 1) /\ 2 ^ (k + 1) = 2 * 2 ^ k /\ 2 ^ k \in Nat
  BY <1>1, ListLength, PowersAssumption DEF Below
<1>3. IsPaired(FoldPairs(s, op), s, op, m, S)
  BY Zenon, <1>1, PairsTyped
<1>4. FoldPairs(s, op) \in [1 .. (m + 1) \div 2 -> S] /\ (m + 1) \div 2 \in Nat \ {0}
  BY <1>3 DEF IsPaired
<1>5. Len(FoldPairs(s, op)) = (m + 1) \div 2 /\ FoldPairs(s, op) \in Lists(S)
  BY <1>4, ListLength
<1> QED BY <1>2, <1>5 DEF Below

LEMMA LastRound ==
  ASSUME NEW S, NEW s \in Below(S, 0)
  PROVE  s \in [1 .. 1 -> S]
<1>1. PICK m \in Nat \ {0} : s \in [1 .. m -> S]
  BY DEF Below, Lists
<1>2. m <= 1
  BY <1>1, ListLength, PowersAssumption DEF Below
<1> QED BY <1>1, <1>2

LEMMA FirstRound ==
  ASSUME NEW S, NEW m \in Nat \ {0}, NEW s \in [1 .. m -> S], m <= Modulus("I64")
  PROVE  s \in Below(S, Rounds(m))
BY ListLength, EnoughRounds DEF Below

\* Two trees whose operands differ in one place.
Differ(s, z, u) == \E j \in DOMAIN s : z = Changed(s, j, u)

LEMMA PairsDiffer ==
  ASSUME NEW S, NEW op, NEW u, Acts(op, u, S), NEW s \in Lists(S), NEW z, Differ(s, z, u)
  PROVE  Differ(FoldPairs(s, op), FoldPairs(z, op), u)
<1>1. PICK m \in Nat \ {0} : s \in [1 .. m -> S]
  BY DEF Lists
<1>2. PICK j \in 1 .. m : z = Changed(s, j, u)
  BY <1>1 DEF Differ
<1>3. FoldPairs(z, op) = Changed(FoldPairs(s, op), (j + 1) \div 2, u)
  <2>1. FoldPairs(Changed(s, j, u), op) = Changed(FoldPairs(s, op), (j + 1) \div 2, u)
    BY SMT, <1>1, PairsOnePoint
  <2> QED BY Zenon, <1>2, <2>1
<1>4. IsPaired(FoldPairs(s, op), s, op, m, S)
  BY Zenon, <1>1, PairsTyped DEF Acts
<1>5. DOMAIN FoldPairs(s, op) = 1 .. (m + 1) \div 2 /\ (j + 1) \div 2 \in 1 .. (m + 1) \div 2
  BY <1>4 DEF IsPaired
<1> QED BY <1>3, <1>5 DEF Differ

\* The tree of a list is one of its elements' set.
LEMMA TreeTyped ==
  ASSUME NEW S, NEW op \in [S \X S -> S], NEW m \in Nat \ {0}, NEW s \in [1 .. m -> S], m <= Modulus("I64")
  PROVE  Tree(s, op) \in S
<1> DEFINE n == Rounds(m)
           Q == [k \in 0 .. n |-> Below(S, n - k) \X Below(S, n - k)]
<1>1. PICK f : IsTree(f, s, op, n)
  BY Zenon, TreeRecursion
<1>2. n \in Nat /\ n <= 8 * Byte /\ 8 * Byte \in Nat
  BY EnoughRounds
<1>3. s \in Below(S, n)
  BY FirstRound
<1> HIDE DEF n
<1>4. <<f[0], f[0]>> \in Q[0]
  BY <1>1, <1>2, <1>3 DEF IsTree
<1>5. \A k \in 1 .. n : <<f[k - 1], f[k - 1]>> \in Q[k - 1] => <<f[k], f[k]>> \in Q[k]
  <2> SUFFICES ASSUME NEW k \in 1 .. n, <<f[k - 1], f[k - 1]>> \in Q[k - 1] PROVE <<f[k], f[k]>> \in Q[k]
    BY Zenon
  <2>1. k \in 0 .. n /\ k - 1 \in 0 .. n /\ n - k \in 0 .. 8 * Byte /\ n - (k - 1) = (n - k) + 1
    BY <1>2
  <2>2. f[k - 1] \in Below(S, (n - k) + 1)
    BY <2>1
  <2>3. FoldPairs(f[k - 1], op) \in Below(S, n - k)
    BY Zenon, <2>1, <2>2, PairsDescend
  <2>4. f[k] \in Below(S, n - k)
    BY <1>1, <2>3 DEF IsTree
  <2> QED BY <2>1, <2>4
<1> HIDE DEF Q
<1>6. <<f[n], f[n]>> \in Q[n]
  BY Zenon, <1>2, <1>4, <1>5, Descent
<1>7. f[n] \in Below(S, 0)
  BY <1>2, <1>6 DEF Q
<1>8. f[n][1] \in S
  BY <1>7, LastRound
<1> QED BY <1>1, <1>8 DEF IsTree

\* What changes one element by u changes the tree by u.
LEMMA TreeOnePoint ==
  ASSUME NEW S, NEW op, NEW u, Acts(op, u, S), NEW m \in Nat \ {0}, NEW s \in [1 .. m -> S], NEW j \in 1 .. m,
         m <= Modulus("I64")
  PROVE  Tree(Changed(s, j, u), op) = u[Tree(s, op)]
<1> DEFINE n == Rounds(m)
           z == Changed(s, j, u)
           Q == [k \in 0 .. n |-> {w \in Below(S, n - k) \X Below(S, n - k) : Differ(w[1], w[2], u)}]
<1>0. op \in [S \X S -> S] /\ u \in [S -> S]
  BY DEF Acts
<1>1. PICK f : IsTree(f, s, op, n)
  BY Zenon, <1>0, TreeRecursion
<1>z. z \in [1 .. m -> S]
  BY <1>0 DEF Changed
<1>g. PICK g : IsTree(g, z, op, n)
  <2> HIDE DEF z
  <2> QED BY Zenon, <1>0, <1>z, TreeRecursion
<1>2. n \in Nat /\ n <= 8 * Byte /\ 8 * Byte \in Nat
  BY EnoughRounds
<1>3. s \in Below(S, n) /\ z \in Below(S, n)
  <2> HIDE DEF z
  <2> QED BY <1>z, FirstRound
<1>d. Differ(s, z, u)
  BY DEF Differ
<1> HIDE DEF n, z
<1>4. <<f[0], g[0]>> \in Q[0]
  BY <1>1, <1>g, <1>2, <1>3, <1>d DEF IsTree
<1>5. \A k \in 1 .. n : <<f[k - 1], g[k - 1]>> \in Q[k - 1] => <<f[k], g[k]>> \in Q[k]
  <2> SUFFICES ASSUME NEW k \in 1 .. n, <<f[k - 1], g[k - 1]>> \in Q[k - 1] PROVE <<f[k], g[k]>> \in Q[k]
    BY Zenon
  <2>1. k \in 0 .. n /\ k - 1 \in 0 .. n /\ n - k \in 0 .. 8 * Byte /\ n - (k - 1) = (n - k) + 1
    BY <1>2
  <2>2. f[k - 1] \in Below(S, (n - k) + 1) /\ g[k - 1] \in Below(S, (n - k) + 1) /\ Differ(f[k - 1], g[k - 1], u)
    BY <2>1
  <2>3. FoldPairs(f[k - 1], op) \in Below(S, n - k) /\ FoldPairs(g[k - 1], op) \in Below(S, n - k)
    BY Zenon, <1>0, <2>1, <2>2, PairsDescend
  <2>4. Differ(FoldPairs(f[k - 1], op), FoldPairs(g[k - 1], op), u)
    <3>1. f[k - 1] \in Lists(S)
      BY <2>2 DEF Below
    <3> QED BY <2>2, <3>1, PairsDiffer
  <2>5. f[k] \in Below(S, n - k) /\ g[k] \in Below(S, n - k) /\ Differ(f[k], g[k], u)
    BY <1>1, <1>g, <2>3, <2>4 DEF IsTree
  <2> QED BY <2>1, <2>5
<1> HIDE DEF Q
<1>6. <<f[n], g[n]>> \in Q[n]
  BY Zenon, <1>2, <1>4, <1>5, Descent
<1>7. f[n] \in Below(S, 0) /\ Differ(f[n], g[n], u)
  BY <1>2, <1>6 DEF Q
<1>8. f[n] \in [1 .. 1 -> S]
  BY <1>7, LastRound
<1>9. g[n][1] = u[f[n][1]]
  BY <1>7, <1>8 DEF Differ, Changed
<1> QED BY <1>1, <1>g, <1>9 DEF IsTree, z

\* Neutral elements only.
LEMMA TreeNeutral ==
  ASSUME NEW S, NEW op \in [S \X S -> S], NEW e \in S, op[<<e, e>>] = e, NEW m \in Nat \ {0}, m <= Modulus("I64")
  PROVE  Tree(Seq1(m, e), op) = e
<1> DEFINE n == Rounds(m)
           s == Seq1(m, e)
           Q == [k \in 0 .. n |-> Below({e}, n - k) \X Below({e}, n - k)]
<1>1. PICK f : IsTree(f, s, op, n)
  <2>1. s \in [1 .. m -> S]
    BY DEF Seq1
  <2> HIDE DEF s
  <2> QED BY Zenon, <2>1, TreeRecursion
<1>2. n \in Nat /\ n <= 8 * Byte /\ 8 * Byte \in Nat
  BY EnoughRounds
<1>3. s \in Below({e}, n)
  <2>1. s \in [1 .. m -> {e}]
    BY DEF Seq1
  <2> QED BY <2>1, FirstRound
<1> HIDE DEF n, s
<1>4. <<f[0], f[0]>> \in Q[0]
  BY <1>1, <1>2, <1>3 DEF IsTree
<1>5. \A k \in 1 .. n : <<f[k - 1], f[k - 1]>> \in Q[k - 1] => <<f[k], f[k]>> \in Q[k]
  <2> SUFFICES ASSUME NEW k \in 1 .. n, <<f[k - 1], f[k - 1]>> \in Q[k - 1] PROVE <<f[k], f[k]>> \in Q[k]
    BY Zenon
  <2>1. k \in 0 .. n /\ k - 1 \in 0 .. n /\ n - k \in 0 .. 8 * Byte /\ n - (k - 1) = (n - k) + 1
    BY <1>2
  <2>2. f[k - 1] \in Below({e}, (n - k) + 1)
    BY <2>1
  <2>3. FoldPairs(f[k - 1], op) \in Below({e}, n - k)
    <3> DEFINE a == f[k - 1]
    <3>1. PICK h \in Nat \ {0} : a \in [1 .. h -> {e}]
      BY <2>2 DEF Below, Lists
    <3>2. h <= 2 ^ ((n - k) + 1) /\ 2 ^ ((n - k) + 1) = 2 * 2 ^ (n - k) /\ 2 ^ (n - k) \in Nat
      BY <2>1, <2>2, <3>1, ListLength, PowersAssumption DEF Below
    <3> HIDE DEF a
    <3>3. a \in [1 .. h -> S] /\ \A i \in 1 .. h : a[i] = e
      BY <3>1
    <3>4. IsPaired(FoldPairs(a, op), a, op, h, S)
      BY Zenon, <3>3, PairsTyped
    <3> DEFINE F == FoldPairs(a, op)
    <3>5. /\ F \in [1 .. (h + 1) \div 2 -> S]
          /\ \A i \in 1 .. (h + 1) \div 2 : F[i] = IF 2 * i <= h THEN op[<<a[2 * i - 1], a[2 * i]>>] ELSE a[2 * i - 1]
      BY <3>4 DEF IsPaired
    <3> HIDE DEF F
    <3>6. \A i \in 1 .. (h + 1) \div 2 : F[i] = e
      <4> TAKE i \in 1 .. (h + 1) \div 2
      <4>1. 2 * i - 1 \in 1 .. h /\ (2 * i <= h => 2 * i \in 1 .. h)
        OBVIOUS
      <4>2. a[2 * i - 1] = e /\ (2 * i <= h => a[2 * i] = e)
        BY <3>3, <4>1
      <4> QED BY Zenon, <3>5, <4>2
    <3>7. F \in [1 .. (h + 1) \div 2 -> {e}] /\ (h + 1) \div 2 \in Nat \ {0}
      BY <3>5, <3>6
    <3>8. Len(F) = (h + 1) \div 2 /\ F \in Lists({e})
      BY <3>7, ListLength
    <3> QED BY <3>2, <3>8 DEF Below, F, a
  <2>4. f[k] \in Below({e}, n - k)
    BY <1>1, <2>3 DEF IsTree
  <2> QED BY <2>1, <2>4
<1> HIDE DEF Q
<1>6. <<f[n], f[n]>> \in Q[n]
  BY Zenon, <1>2, <1>4, <1>5, Descent
<1>7. f[n] \in Below({e}, 0)
  BY <1>2, <1>6 DEF Q
<1>8. f[n] \in [1 .. 1 -> {e}]
  BY <1>7, LastRound
<1>9. f[n][1] = e
  BY <1>8
<1> QED BY <1>1, <1>9 DEF IsTree, s

\* Lane by lane.
IsFoldTree(F, v, op, m, n, S) ==
  F \in [1 .. n -> S] /\ \A l \in 1 .. n : F[l] = Tree([c \in 1 .. m |-> v[c][l]], op)

LEMMA FoldTreeTyped ==
  ASSUME NEW S, NEW op \in [S \X S -> S], NEW m \in Nat \ {0}, m <= Modulus("I64"), NEW n \in Nat \ {0},
         NEW v \in [1 .. m -> [1 .. n -> S]]
  PROVE  IsFoldTree(FoldTree(v, op), v, op, m, n, S)
<1>1. DOMAIN v[1] = 1 .. n /\ DOMAIN v = 1 .. m
  OBVIOUS
<1>2. FoldTree(v, op) = [l \in 1 .. n |-> Tree([c \in 1 .. m |-> v[c][l]], op)]
  BY <1>1 DEF FoldTree
<1>3. ASSUME NEW l \in 1 .. n PROVE Tree([c \in 1 .. m |-> v[c][l]], op) \in S
  <2>1. [c \in 1 .. m |-> v[c][l]] \in [1 .. m -> S]
    OBVIOUS
  <2> QED BY Zenon, <2>1, TreeTyped
<1> QED BY <1>2, <1>3 DEF IsFoldTree

\* One lane of one copy.
ChangedAt(v, a, j, u) == [v EXCEPT ![a] = Changed(@, j, u)]

IsChangedAt(z, v, a, j, u, m, n, S) ==
  /\ z \in [1 .. m -> [1 .. n -> S]]
  /\ \A c \in 1 .. m, l \in 1 .. n : z[c][l] = IF c = a /\ l = j THEN u[v[c][l]] ELSE v[c][l]

LEMMA ChangedLanes ==
  ASSUME NEW S, NEW u \in [S -> S], NEW m \in Nat, NEW n \in Nat,
         NEW v \in [1 .. m -> [1 .. n -> S]], NEW a \in 1 .. m, NEW j \in 1 .. n
  PROVE  IsChangedAt(ChangedAt(v, a, j, u), v, a, j, u, m, n, S)
<1>1. ASSUME NEW w \in [1 .. n -> S]
      PROVE  Changed(w, j, u) \in [1 .. n -> S] /\ \A l \in 1 .. n : Changed(w, j, u)[l] = IF l = j THEN u[w[l]] ELSE w[l]
  BY DEF Changed
<1>2. v[a] \in [1 .. n -> S]
  OBVIOUS
<1>3. ChangedAt(v, a, j, u) = [c \in 1 .. m |-> IF c = a THEN Changed(v[a], j, u) ELSE v[c]]
  BY Zenon DEF ChangedAt
<1>4. ASSUME NEW c \in 1 .. m
      PROVE  /\ ChangedAt(v, a, j, u)[c] \in [1 .. n -> S]
             /\ \A l \in 1 .. n : ChangedAt(v, a, j, u)[c][l] = IF c = a /\ l = j THEN u[v[c][l]] ELSE v[c][l]
  <2>1. ChangedAt(v, a, j, u)[c] = IF c = a THEN Changed(v[a], j, u) ELSE v[c]
    BY <1>3
  <2>2. CASE c = a
    BY <1>1, <1>2, <2>1, <2>2
  <2>3. CASE c # a
    BY <2>1, <2>3
  <2> QED BY <2>2, <2>3
<1>5. ChangedAt(v, a, j, u) \in [1 .. m -> [1 .. n -> S]]
  <2>1. DOMAIN ChangedAt(v, a, j, u) = 1 .. m /\ ChangedAt(v, a, j, u) = [c \in 1 .. m |-> ChangedAt(v, a, j, u)[c]]
    BY <1>3
  <2> QED BY <1>4, <2>1
<1> QED BY <1>4, <1>5 DEF IsChangedAt

\* What changes one lane of one copy by u changes that lane of the folded copies by u.
LEMMA FoldTreeOnePoint ==
  ASSUME NEW S, NEW op, NEW u, Acts(op, u, S), NEW m \in Nat \ {0}, m <= Modulus("I64"), NEW n \in Nat \ {0},
         NEW v \in [1 .. m -> [1 .. n -> S]], NEW a \in 1 .. m, NEW j \in 1 .. n
  PROVE  FoldTree(ChangedAt(v, a, j, u), op) = Changed(FoldTree(v, op), j, u)
<1> DEFINE z == ChangedAt(v, a, j, u)
           col(w, l) == [c \in 1 .. m |-> w[c][l]]
           F == FoldTree(v, op)
           G == FoldTree(z, op)
<1>1. op \in [S \X S -> S] /\ u \in [S -> S]
  BY DEF Acts
<1>2. /\ z \in [1 .. m -> [1 .. n -> S]]
      /\ \A c \in 1 .. m, l \in 1 .. n : z[c][l] = IF c = a /\ l = j THEN u[v[c][l]] ELSE v[c][l]
  <2>1. IsChangedAt(z, v, a, j, u, m, n, S)
    BY Zenon, <1>1, ChangedLanes
  <2> HIDE DEF z
  <2> QED BY <2>1 DEF IsChangedAt
<1> HIDE DEF z
<1>3. F \in [1 .. n -> S] /\ \A l \in 1 .. n : F[l] = Tree(col(v, l), op)
  <2>1. IsFoldTree(FoldTree(v, op), v, op, m, n, S)
    BY Zenon, <1>1, FoldTreeTyped
  <2> QED BY <2>1 DEF IsFoldTree
<1>4. G \in [1 .. n -> S] /\ \A l \in 1 .. n : G[l] = Tree(col(z, l), op)
  <2>1. IsFoldTree(FoldTree(z, op), z, op, m, n, S)
    BY Zenon, <1>1, <1>2, FoldTreeTyped
  <2> QED BY Zenon, <2>1 DEF IsFoldTree
<1>5. ASSUME NEW l \in 1 .. n, l # j PROVE col(z, l) = col(v, l)
  <2>1. ASSUME NEW c \in 1 .. m PROVE z[c][l] = v[c][l]
    BY <1>2, <1>5
  <2> QED BY <2>1
<1>6. col(z, j) = Changed(col(v, j), a, u)
  <2>1. \A c \in 1 .. m : z[c][j] = IF c = a THEN u[v[c][j]] ELSE v[c][j]
    BY <1>2
  <2> QED BY Zenon, <2>1 DEF Changed
<1>7. col(v, j) \in [1 .. m -> S]
  OBVIOUS
<1> HIDE DEF col, F, G
<1>8. Tree(col(z, j), op) = u[Tree(col(v, j), op)]
  <2>1. Tree(Changed(col(v, j), a, u), op) = u[Tree(col(v, j), op)]
    BY SMT, <1>7, TreeOnePoint
  <2> QED BY Zenon, <1>6, <2>1
<1>9. \A l \in 1 .. n : G[l] = IF l = j THEN u[F[l]] ELSE F[l]
  BY <1>3, <1>4, <1>5, <1>8
<1>10. G = Changed(F, j, u)
  BY <1>3, <1>4, <1>9 DEF Changed
<1> QED BY <1>10 DEF F, G, z

(***************************************************************************)
(* The epilogue's reduction of a register.                                  *)
(***************************************************************************)
LEMMA Logarithm ==
  ASSUME NEW e \in Positions
  PROVE  Log2(2 ^ e) = e /\ e \in Nat /\ e <= 8 * Byte /\ 8 * Byte \in Nat /\ 2 ^ e \in Nat \ {0}
<1>0. 8 * Byte \in Nat
  BY ByteAssumption
<1>1. e \in Nat /\ e <= 8 * Byte
  BY <1>0 DEF Positions
<1>2. 2 ^ e \in Nat \ {0} /\ 2 ^ (e + 1) = 2 * 2 ^ e
  BY <1>0, <1>1, Powers
<1>3. 2 ^ e <= 2 ^ e /\ 2 ^ e < 2 ^ (e + 1)
  BY <1>2
<1>4. ASSUME NEW k \in Positions, 2 ^ k <= 2 ^ e, 2 ^ e < 2 ^ (k + 1) PROVE k = e
  <2>1. k \in Nat /\ k <= 8 * Byte
    BY <1>0 DEF Positions
  <2>2. 2 ^ k \in Nat \ {0} /\ 2 ^ (k + 1) = 2 * 2 ^ k
    BY <1>0, <2>1, Powers
  <2>3. k < e => 2 * 2 ^ k <= 2 ^ e
    BY <1>1, <2>1, PowersGrow
  <2>4. e < k => 2 * 2 ^ e <= 2 ^ k
    BY <1>1, <2>1, PowersGrow
  <2>5. ~(k < e)
    BY <1>4, <1>2, <2>2, <2>3
  <2>6. ~(e < k)
    BY <1>4, <1>2, <2>2, <2>4
  <2> QED BY <1>1, <2>1, <2>5, <2>6
<1>5. Log2(2 ^ e) = CHOOSE k \in Positions : 2 ^ k <= 2 ^ e /\ 2 ^ e < 2 ^ (k + 1)
  BY DEF Log2
<1>6. Log2(2 ^ e) = e
  BY Zenon, <1>3, <1>4, <1>5
<1> QED BY <1>0, <1>1, <1>2, <1>6

Row(S, k) == [1 .. 2 ^ k -> S]
Slice(v, first, n) == [i \in 1 .. n |-> v[first + i]]

LEMMA HalvesDescend ==
  ASSUME NEW S, NEW op \in [S \X S -> S], NEW k \in 0 .. 8 * Byte, NEW s \in Row(S, k + 1)
  PROVE  FoldHalves(s, op) \in Row(S, k) /\ IsHalved(FoldHalves(s, op), s, op, 2 ^ k, S)
<1>1. 2 ^ (k + 1) = 2 * 2 ^ k /\ 2 ^ k \in Nat \ {0}
  BY Powers
<1>2. s \in [1 .. 2 * 2 ^ k -> S]
  BY <1>1 DEF Row
<1>3. IsHalved(FoldHalves(s, op), s, op, 2 ^ k, S)
  BY Zenon, <1>1, <1>2, HalvesTyped
<1> QED BY <1>3 DEF IsHalved, Row

IsReduction(f, s, op, e) == f[0] = s /\ \A k \in 1 .. e : f[k] = FoldHalves(f[k - 1], op)

ReducesTo(s, op, e, r) == \E f : IsReduction(f, s, op, e) /\ r = f[e][1]

\* The rounds that Reduce defines exist.
LEMMA ReduceRecursion ==
  ASSUME NEW S, NEW op \in [S \X S -> S], NEW e \in Positions, NEW v, NEW first, Slice(v, first, 2 ^ e) \in Row(S, e)
  PROVE  ReducesTo(Slice(v, first, 2 ^ e), op, e, Reduce(v, first, 2 ^ e, op))
<1> DEFINE s == Slice(v, first, 2 ^ e)
           up[k \in 0 .. e] == IF k = 0 THEN s ELSE FoldHalves(up[k - 1], op)
           X(k) == Row(S, e - k)
           T == {m \in Nat : m <= e => \E f : /\ DOMAIN f = 0 .. m /\ f[0] = s
                                              /\ \A k \in 0 .. m : f[k] \in X(k)
                                              /\ \A k \in 1 .. m : f[k] = FoldHalves(f[k - 1], op)}
<1>1. Log2(2 ^ e) = e /\ e \in Nat /\ e <= 8 * Byte /\ 8 * Byte \in Nat
  BY Logarithm
<1>2. Reduce(v, first, 2 ^ e, op) = up[e][1]
  BY Zenon, <1>1 DEF Reduce, Slice
<1>3. 0 \in T
  <2> DEFINE f == [k \in 0 .. 0 |-> s]
  <2>1. DOMAIN f = 0 .. 0 /\ f[0] = s
    OBVIOUS
  <2>2. e - 0 = e /\ f[0] \in X(0)
    BY <1>1
  <2> HIDE DEF f, s
  <2>3. (\A k \in 0 .. 0 : f[k] \in X(k)) /\ \A k \in 1 .. 0 : f[k] = FoldHalves(f[k - 1], op)
    BY <2>2
  <2> QED BY <2>1, <2>3
<1> HIDE DEF s, X
<1>4. ASSUME NEW m \in Nat, m \in T PROVE m + 1 \in T
  <2> SUFFICES ASSUME m + 1 <= e
               PROVE  \E g : /\ DOMAIN g = 0 .. m + 1 /\ g[0] = s
                             /\ \A k \in 0 .. m + 1 : g[k] \in X(k)
                             /\ \A k \in 1 .. m + 1 : g[k] = FoldHalves(g[k - 1], op)
    OBVIOUS
  <2>1. PICK f : /\ DOMAIN f = 0 .. m /\ f[0] = s
                 /\ \A k \in 0 .. m : f[k] \in X(k)
                 /\ \A k \in 1 .. m : f[k] = FoldHalves(f[k - 1], op)
    BY <1>1, <1>4
  <2> DEFINE g == [k \in 0 .. m + 1 |-> IF k = m + 1 THEN FoldHalves(f[m], op) ELSE f[k]]
  <2>2. FoldHalves(f[m], op) \in X(m + 1)
    <3>1. f[m] \in Row(S, (e - (m + 1)) + 1)
      <4>1. f[m] \in X(m) /\ e - m = (e - (m + 1)) + 1
        BY <1>1, <2>1
      <4> QED BY <4>1 DEF X
    <3>2. e - (m + 1) \in 0 .. 8 * Byte
      BY <1>1
    <3> QED BY <3>1, <3>2, HalvesDescend DEF X
  <2>3. DOMAIN g = 0 .. m + 1 /\ g[m + 1] = FoldHalves(f[m], op) /\ \A k \in 0 .. m : g[k] = f[k]
    OBVIOUS
  <2> HIDE DEF g
  <2>4. \A k \in 0 .. m + 1 : g[k] \in X(k)
    <3> TAKE k \in 0 .. m + 1
    <3>1. CASE k = m + 1 BY <2>2, <2>3, <3>1
    <3>2. CASE k # m + 1
      <4>1. k \in 0 .. m
        BY <3>2
      <4> QED BY <2>1, <2>3, <4>1
    <3> QED BY <3>1, <3>2
  <2>5. \A k \in 1 .. m + 1 : g[k] = FoldHalves(g[k - 1], op)
    <3> TAKE k \in 1 .. m + 1
    <3>1. CASE k = m + 1
      <4>1. k - 1 = m /\ m \in 0 .. m
        BY <3>1
      <4> QED BY <2>3, <3>1, <4>1
    <3>2. CASE k # m + 1
      <4>1. k \in 1 .. m /\ k - 1 \in 0 .. m /\ k \in 0 .. m
        BY <3>2
      <4> QED BY <2>1, <2>3, <4>1
    <3> QED BY <3>1, <3>2
  <2>6. g[0] = s
    BY <2>1, <2>3
  <2> QED BY Zenon, <2>3, <2>4, <2>5, <2>6
<1> HIDE DEF T
<1>5. e \in T
  BY <1>1, <1>3, <1>4, NaturalInduction
<1>6. PICK f : DOMAIN f = 0 .. e /\ f[0] = s /\ (\A k \in 0 .. e : f[k] \in X(k)) /\ \A k \in 1 .. e : f[k] = FoldHalves(f[k - 1], op)
  BY <1>1, <1>5 DEF T
<1>7. \E g : g = [k \in 0 .. e |-> IF k = 0 THEN s ELSE FoldHalves(g[k - 1], op)]
  <2> DEFINE g == [k \in 0 .. e |-> f[k]]
  <2>1. \A k \in 0 .. e : g[k] = IF k = 0 THEN s ELSE FoldHalves(g[k - 1], op)
    <3> TAKE k \in 0 .. e
    <3>1. k # 0 => k \in 1 .. e /\ k - 1 \in 0 .. e
      BY <1>1
    <3> QED BY <1>6, <3>1
  <2>2. DOMAIN g = 0 .. e /\ g = [k \in 0 .. e |-> g[k]]
    OBVIOUS
  <2> HIDE DEF g
  <2>3. g = [k \in 0 .. e |-> IF k = 0 THEN s ELSE FoldHalves(g[k - 1], op)]
    BY <2>1, <2>2
  <2> QED BY Zenon, <2>3
<1>8. up = [k \in 0 .. e |-> IF k = 0 THEN s ELSE FoldHalves(up[k - 1], op)]
  BY Zenon, <1>7
<1> HIDE DEF up
<1>9. up[0] = s /\ \A k \in 1 .. e : up[k] = FoldHalves(up[k - 1], op)
  BY <1>1, <1>8
<1> QED BY <1>2, <1>9 DEF s, IsReduction, ReducesTo

\* Two reductions of the same shape, element by element.
Related(R, s, z) == \A i \in DOMAIN s : <<s[i], z[i]>> \in R

\* Registers whose lanes are related by what the operators keep reduce to related scalars.
LEMMA ReduceRelated ==
  ASSUME NEW S, NEW op \in [S \X S -> S], NEW Z, NEW oz \in [Z \X Z -> Z], NEW R,
         \A a, b \in S : \A x, y \in Z :
           <<a, x>> \in R /\ <<b, y>> \in R => <<op[<<a, b>>], oz[<<x, y>>]>> \in R,
         NEW e \in Positions, NEW v, NEW w, NEW first,
         Slice(v, first, 2 ^ e) \in Row(S, e), Slice(w, first, 2 ^ e) \in Row(Z, e),
         Related(R, Slice(v, first, 2 ^ e), Slice(w, first, 2 ^ e))
  PROVE  /\ Reduce(v, first, 2 ^ e, op) \in S /\ Reduce(w, first, 2 ^ e, oz) \in Z
         /\ <<Reduce(v, first, 2 ^ e, op), Reduce(w, first, 2 ^ e, oz)>> \in R
<1> DEFINE s == Slice(v, first, 2 ^ e)
           z == Slice(w, first, 2 ^ e)
           Q == [k \in 0 .. e |-> {p \in Row(S, e - k) \X Row(Z, e - k) : Related(R, p[1], p[2])}]
<1>1. PICK f : IsReduction(f, s, op, e) /\ Reduce(v, first, 2 ^ e, op) = f[e][1]
  <2>1. ReducesTo(s, op, e, Reduce(v, first, 2 ^ e, op))
    BY Zenon, ReduceRecursion
  <2> QED BY Zenon, <2>1 DEF ReducesTo
<1>2. PICK g : IsReduction(g, z, oz, e) /\ Reduce(w, first, 2 ^ e, oz) = g[e][1]
  <2>1. ReducesTo(z, oz, e, Reduce(w, first, 2 ^ e, oz))
    BY Zenon, ReduceRecursion
  <2> QED BY Zenon, <2>1 DEF ReducesTo
<1>3. e \in Nat /\ e <= 8 * Byte /\ 8 * Byte \in Nat
  BY Logarithm
<1>4. s \in Row(S, e) /\ z \in Row(Z, e) /\ Related(R, s, z)
  OBVIOUS
<1> HIDE DEF s, z
<1>5. <<f[0], g[0]>> \in Q[0]
  <2>1. e - 0 = e /\ f[0] = s /\ g[0] = z
    BY <1>1, <1>2, <1>3 DEF IsReduction
  <2> QED BY <1>3, <1>4, <2>1
<1>6. \A k \in 1 .. e : <<f[k - 1], g[k - 1]>> \in Q[k - 1] => <<f[k], g[k]>> \in Q[k]
  <2> SUFFICES ASSUME NEW k \in 1 .. e, <<f[k - 1], g[k - 1]>> \in Q[k - 1] PROVE <<f[k], g[k]>> \in Q[k]
    BY Zenon
  <2> DEFINE a == f[k - 1]
             b == g[k - 1]
             h == 2 ^ (e - k)
  <2>1. k \in 0 .. e /\ k - 1 \in 0 .. e /\ e - k \in 0 .. 8 * Byte /\ e - (k - 1) = (e - k) + 1
    BY <1>3
  <2>2. a \in Row(S, (e - k) + 1) /\ b \in Row(Z, (e - k) + 1) /\ Related(R, a, b)
    BY <2>1
  <2>3. h \in Nat \ {0} /\ 2 ^ ((e - k) + 1) = 2 * h
    BY Zenon, <2>1, Powers
  <2>4. f[k] = FoldHalves(a, op) /\ g[k] = FoldHalves(b, oz)
    BY <1>1, <1>2 DEF IsReduction
  <2>5. FoldHalves(a, op) \in Row(S, e - k) /\ IsHalved(FoldHalves(a, op), a, op, h, S)
    BY Zenon, <2>1, <2>2, HalvesDescend
  <2>6. FoldHalves(b, oz) \in Row(Z, e - k) /\ IsHalved(FoldHalves(b, oz), b, oz, h, Z)
    BY Zenon, <2>1, <2>2, HalvesDescend
  <2>7. a \in [1 .. 2 * h -> S] /\ b \in [1 .. 2 * h -> Z]
    BY <2>2, <2>3 DEF Row
  <2> HIDE DEF a, b, h
  <2>8. Related(R, FoldHalves(a, op), FoldHalves(b, oz))
    <3> DEFINE F == FoldHalves(a, op)
               G == FoldHalves(b, oz)
    <3>1. F \in [1 .. h -> S] /\ \A i \in 1 .. h : F[i] = op[<<a[i], a[i + h]>>]
      BY <2>5 DEF IsHalved
    <3>2. G \in [1 .. h -> Z] /\ \A i \in 1 .. h : G[i] = oz[<<b[i], b[i + h]>>]
      BY <2>6 DEF IsHalved
    <3> HIDE DEF F, G
    <3>3. ASSUME NEW i \in 1 .. h PROVE <<F[i], G[i]>> \in R
      <4>1. i \in 1 .. 2 * h /\ i + h \in 1 .. 2 * h
        BY <2>3
      <4>2. a[i] \in S /\ a[i + h] \in S /\ b[i] \in Z /\ b[i + h] \in Z
        BY <2>7, <4>1
      <4>3. <<a[i], b[i]>> \in R /\ <<a[i + h], b[i + h]>> \in R
        BY <2>2, <2>7, <4>1 DEF Related
      <4>4. <<op[<<a[i], a[i + h]>>], oz[<<b[i], b[i + h]>>]>> \in R
        BY <4>2, <4>3
      <4> QED BY Zenon, <3>1, <3>2, <4>4
    <3>4. DOMAIN F = 1 .. h
      BY <3>1
    <3> QED BY <3>3, <3>4 DEF Related, F, G
  <2> QED BY <2>1, <2>4, <2>5, <2>6, <2>8
<1> HIDE DEF Q
<1>7. <<f[e], g[e]>> \in Q[e]
  BY Zenon, <1>3, <1>5, <1>6, Descent
<1>8. f[e] \in Row(S, 0) /\ g[e] \in Row(Z, 0) /\ Related(R, f[e], g[e])
  BY <1>3, <1>7 DEF Q
<1>9. f[e] \in [1 .. 1 -> S] /\ g[e] \in [1 .. 1 -> Z]
  BY <1>8, PowersAssumption DEF Row
<1>10. f[e][1] \in S /\ g[e][1] \in Z /\ <<f[e][1], g[e][1]>> \in R
  <2>1. 1 \in DOMAIN f[e]
    BY <1>9
  <2> QED BY Zenon, <1>8, <1>9, <2>1 DEF Related
<1> QED BY Zenon, <1>1, <1>2, <1>10

\* A register reduces to a number of its lanes' set.
LEMMA ReduceTyped ==
  ASSUME NEW S, NEW op \in [S \X S -> S], NEW e \in Positions, NEW v, NEW first, Slice(v, first, 2 ^ e) \in Row(S, e)
  PROVE  Reduce(v, first, 2 ^ e, op) \in S
<1> DEFINE R == S \X S
<1>1. \A a, b \in S : \A x, y \in S :
        <<a, x>> \in R /\ <<b, y>> \in R => <<op[<<a, b>>], op[<<x, y>>]>> \in R
  OBVIOUS
<1>2. Related(R, Slice(v, first, 2 ^ e), Slice(v, first, 2 ^ e))
  BY Zenon DEF Related, Row
<1> HIDE DEF R
<1> QED BY Zenon, <1>1, <1>2, ReduceRelated

\* A register of neutral elements reduces to the neutral one.
LEMMA ReduceNeutral ==
  ASSUME NEW S, NEW op \in [S \X S -> S], NEW c \in S, op[<<c, c>>] = c, NEW e \in Positions, NEW v, NEW first,
         Slice(v, first, 2 ^ e) = Seq1(2 ^ e, c)
  PROVE  Reduce(v, first, 2 ^ e, op) = c
<1> DEFINE R == {<<c, c>>}
<1>1. \A a, b \in S : \A x, y \in S :
        <<a, x>> \in R /\ <<b, y>> \in R => <<op[<<a, b>>], op[<<x, y>>]>> \in R
  OBVIOUS
<1>2. Slice(v, first, 2 ^ e) \in Row(S, e) /\ Related(R, Slice(v, first, 2 ^ e), Slice(v, first, 2 ^ e))
  BY Zenon DEF Related, Row, Seq1
<1> HIDE DEF R
<1>3. <<Reduce(v, first, 2 ^ e, op), Reduce(v, first, 2 ^ e, op)>> \in R
  BY Zenon, <1>1, <1>2, ReduceRelated
<1> QED BY <1>3 DEF R

LEMMA HalvesDiffer ==
  ASSUME NEW S, NEW op, NEW u, Acts(op, u, S), NEW h \in Nat \ {0}, NEW s \in [1 .. 2 * h -> S], NEW z, Differ(s, z, u)
  PROVE  Differ(FoldHalves(s, op), FoldHalves(z, op), u)
<1>1. PICK j \in 1 .. 2 * h : z = Changed(s, j, u)
  BY DEF Differ
<1> DEFINE i0 == IF j <= h THEN j ELSE j - h
<1>2. i0 \in 1 .. h
  OBVIOUS
<1> HIDE DEF i0
<1>3. FoldHalves(Changed(s, j, u), op) = Changed(FoldHalves(s, op), i0, u)
  BY HalvesOnePoint DEF i0
<1>4. IsHalved(FoldHalves(s, op), s, op, h, S)
  BY Zenon, HalvesTyped DEF Acts
<1>5. DOMAIN FoldHalves(s, op) = 1 .. h
  BY <1>4 DEF IsHalved
<1> QED BY <1>1, <1>2, <1>3, <1>5 DEF Differ

\* What changes one lane by u changes the reduced scalar by u.
LEMMA ReduceOnePoint ==
  ASSUME NEW S, NEW op, NEW u, Acts(op, u, S), NEW e \in Positions, NEW v, NEW w, NEW first,
         Slice(v, first, 2 ^ e) \in Row(S, e), NEW j \in 1 .. 2 ^ e,
         Slice(w, first, 2 ^ e) = Changed(Slice(v, first, 2 ^ e), j, u)
  PROVE  Reduce(w, first, 2 ^ e, op) = u[Reduce(v, first, 2 ^ e, op)]
<1> DEFINE s == Slice(v, first, 2 ^ e)
           z == Slice(w, first, 2 ^ e)
           Q == [k \in 0 .. e |-> {p \in Row(S, e - k) \X Row(S, e - k) : Differ(p[1], p[2], u)}]
<1>0. op \in [S \X S -> S] /\ u \in [S -> S]
  BY DEF Acts
<1>a. s \in Row(S, e) /\ z = Changed(s, j, u)
  OBVIOUS
<1> HIDE DEF s, z
<1>b. z \in Row(S, e) /\ Differ(s, z, u)
  BY Zenon, <1>0, <1>a DEF Row, Changed, Differ
<1>1. PICK f : IsReduction(f, s, op, e) /\ Reduce(v, first, 2 ^ e, op) = f[e][1]
  <2>1. ReducesTo(s, op, e, Reduce(v, first, 2 ^ e, op))
    BY Zenon, <1>0, <1>a, ReduceRecursion DEF s
  <2> QED BY Zenon, <2>1 DEF ReducesTo
<1>2. PICK g : IsReduction(g, z, op, e) /\ Reduce(w, first, 2 ^ e, op) = g[e][1]
  <2>1. ReducesTo(z, op, e, Reduce(w, first, 2 ^ e, op))
    BY Zenon, <1>0, <1>b, ReduceRecursion DEF z
  <2> QED BY Zenon, <2>1 DEF ReducesTo
<1>3. e \in Nat /\ e <= 8 * Byte /\ 8 * Byte \in Nat
  BY Logarithm
<1>5. <<f[0], g[0]>> \in Q[0]
  <2>1. e - 0 = e /\ f[0] = s /\ g[0] = z
    BY <1>1, <1>2, <1>3 DEF IsReduction
  <2> QED BY <1>3, <1>a, <1>b, <2>1
<1>6. \A k \in 1 .. e : <<f[k - 1], g[k - 1]>> \in Q[k - 1] => <<f[k], g[k]>> \in Q[k]
  <2> SUFFICES ASSUME NEW k \in 1 .. e, <<f[k - 1], g[k - 1]>> \in Q[k - 1] PROVE <<f[k], g[k]>> \in Q[k]
    BY Zenon
  <2> DEFINE a == f[k - 1]
             b == g[k - 1]
             h == 2 ^ (e - k)
  <2>1. k \in 0 .. e /\ k - 1 \in 0 .. e /\ e - k \in 0 .. 8 * Byte /\ e - (k - 1) = (e - k) + 1
    BY <1>3
  <2>2. a \in Row(S, (e - k) + 1) /\ b \in Row(S, (e - k) + 1) /\ Differ(a, b, u)
    BY <2>1
  <2>3. h \in Nat \ {0} /\ 2 ^ ((e - k) + 1) = 2 * h
    BY <2>1, Powers
  <2>4. f[k] = FoldHalves(a, op) /\ g[k] = FoldHalves(b, op)
    BY <1>1, <1>2 DEF IsReduction
  <2>5. FoldHalves(a, op) \in Row(S, e - k) /\ FoldHalves(b, op) \in Row(S, e - k)
    BY Zenon, <1>0, <2>1, <2>2, HalvesDescend
  <2>7. a \in [1 .. 2 * h -> S]
    BY <2>2, <2>3 DEF Row
  <2> HIDE DEF a, b, h
  <2>8. Differ(FoldHalves(a, op), FoldHalves(b, op), u)
    BY Zenon, <2>2, <2>3, <2>7, HalvesDiffer
  <2> QED BY <2>1, <2>4, <2>5, <2>8
<1> HIDE DEF Q
<1>7. <<f[e], g[e]>> \in Q[e]
  BY Zenon, <1>3, <1>5, <1>6, Descent
<1>8. f[e] \in Row(S, 0) /\ Differ(f[e], g[e], u)
  BY <1>3, <1>7 DEF Q
<1>9. f[e] \in [1 .. 1 -> S]
  BY <1>8, PowersAssumption DEF Row
<1>10. g[e][1] = u[f[e][1]]
  BY <1>8, <1>9 DEF Differ, Changed
<1> QED BY <1>1, <1>2, <1>10

\* What is outside of the lanes does not matter.
LEMMA ReduceElsewhere ==
  ASSUME NEW op, NEW n, NEW v, NEW w, NEW first, Slice(v, first, n) = Slice(w, first, n)
  PROVE  Reduce(v, first, n, op) = Reduce(w, first, n, op)
BY Zenon DEF Reduce, Slice

(***************************************************************************)
(* Small lanes are reduced as I32.                                          *)
(***************************************************************************)
Small == {"I8", "I16"}
MergeOps == {"Add", "Mul", "Min", "Max", "UMin", "UMax", "And", "Or", "Xor"}
Extension(op) == IF op \in {"Min", "Max"} THEN "Sext" ELSE "Zext"

LEMMA SmallWidths ==
  ASSUME NEW t \in Small
  PROVE  /\ t \in IntTypes /\ "I32" \in IntTypes
         /\ Width(t) \in Nat /\ Width("I32") \in Nat /\ Width(t) < Width("I32")
         /\ \E c \in Nat \ {0} : Modulus("I32") = Modulus(t) * c
         /\ Half(t) <= Half("I32") /\ Modulus(t) <= Half("I32")
<1>1. t \in IntTypes /\ "I32" \in IntTypes
  BY DEF Small, IntTypes
<1>2. /\ Width(t) \in Nat /\ Width("I32") \in Nat /\ Width(t) < Width("I32") /\ Width("I32") <= 8 * Byte
      /\ 8 * Byte \in Nat
  BY WidthsNest DEF Small
<1>3. PICK c \in Nat \ {0} : 2 ^ Width("I32") = 2 ^ Width(t) * c
  <2>1. Width(t) <= Width("I32")
    BY <1>2
  <2> QED BY Zenon, <1>2, <2>1, PowersDivide
<1>4. 2 * 2 ^ Width(t) <= 2 ^ Width("I32")
  BY <1>2, PowersGrow
<1>5. /\ Modulus(t) \in Nat \ {0} /\ Half(t) \in Nat \ {0} /\ Modulus(t) = 2 * Half(t)
      /\ Modulus("I32") \in Nat \ {0} /\ Half("I32") \in Nat \ {0} /\ Modulus("I32") = 2 * Half("I32")
  BY <1>1, Widths
<1>6. Half(t) <= Half("I32") /\ Modulus(t) <= Half("I32")
  BY <1>4, <1>5 DEF Modulus
<1> QED BY <1>1, <1>2, <1>3, <1>6 DEF Modulus

LEMMA SmallResidues ==
  ASSUME NEW t \in Small, NEW a \in Residues(t)
  PROVE  a \in Residues("I32") /\ Wrap(a, "I32") = a /\ Wrap(a, t) = a
<1>1. /\ Modulus(t) \in Nat \ {0} /\ Modulus("I32") \in Nat \ {0} /\ a \in 0 .. Modulus(t) - 1
      /\ Modulus(t) <= Half("I32") /\ Modulus("I32") = 2 * Half("I32") /\ Half("I32") \in Nat
      /\ Residues("I32") = 0 .. Modulus("I32") - 1
  BY Zenon, SmallWidths, Widths
<1>2. a \in 0 .. Modulus("I32") - 1
  BY <1>1
<1> QED BY Zenon, <1>1, <1>2, SmallRemainder DEF Wrap

\* A sign-extended small word has the signed reading it had.
LEMMA SmallSext ==
  ASSUME NEW t \in Small, NEW a \in Residues(t)
  PROVE  /\ Cast("Sext", t, "I32", a) \in Residues("I32")
         /\ Signed(Cast("Sext", t, "I32", a), "I32") = Signed(a, t)
         /\ Wrap(Cast("Sext", t, "I32", a), t) = a
<1> DEFINE M == Modulus("I32")
           h == Half("I32")
           n == Modulus(t)
           s == Signed(a, t)
           x == s % M
<1>1. /\ t \in IntTypes /\ "I32" \in IntTypes /\ n \in Nat \ {0} /\ M \in Nat \ {0} /\ M = 2 * h /\ h \in Nat
      /\ Half(t) \in Nat /\ Half(t) <= h /\ Residues("I32") = 0 .. M - 1
  BY SmallWidths, Widths
<1>2. s \in -Half(t) .. Half(t) - 1 /\ s % n = a
  BY <1>1, SignedValue
<1>3. s \in Int /\ -h <= s /\ s <= h - 1
  BY <1>1, <1>2
<1>4. PICK c \in Nat \ {0} : M = n * c
  BY SmallWidths
<1>5. Cast("Sext", t, "I32", a) = x
  BY DEF Cast, Wrap
<1> HIDE DEF M, h, n, s
<1>6. x \in 0 .. M - 1 /\ x = IF s < 0 THEN s + M ELSE s
  <2> DEFINE q == IF s < 0 THEN -1 ELSE 0
             r == IF s < 0 THEN s + M ELSE s
  <2>1. q \in Int /\ r \in 0 .. M - 1 /\ s = M * q + r
    BY <1>1, <1>3
  <2> HIDE DEF q
  <2>2. s % M = r
    <3> HIDE DEF r
    <3> QED BY Zenon, <1>1, <1>3, <2>1, QuotientIsUnique
  <2> QED BY <2>1, <2>2
<1>7. (s % M) % n = s % n
  <2>1. (s % (n * c)) % n = s % n
    BY Zenon, <1>1, <1>3, <1>4, RemainderOfRemainder
  <2> QED BY Zenon, <1>4, <2>1
<1> HIDE DEF x
<1>8. x \in Residues("I32")
  BY <1>1, <1>6
<1>9. Signed(x, "I32") = IF x >= h THEN x - M ELSE x
  BY <1>1, <1>8, SignedValue DEF h, M
<1>10. Signed(x, "I32") = s
  BY <1>1, <1>3, <1>6, <1>9
<1>11. Wrap(x, t) = a
  BY <1>2, <1>7 DEF Wrap, n, x
<1> QED BY <1>5, <1>8, <1>10, <1>11 DEF s

LEMMA SmallFromBits ==
  ASSUME NEW t \in Small, NEW B \in SUBSET (0 .. Width(t) - 1)
  PROVE  FromBits(B, "I32") = FromBits(B, t)
<1> DEFINE w == Width(t)
           W == Width("I32")
<1>1. w \in Nat /\ W \in Nat /\ w < W /\ t \in IntTypes /\ "I32" \in IntTypes
  BY SmallWidths
<1>2. PICK f : IsSumOfBits(f, B, w) /\ FromBits(B, t) = f[w]
  BY <1>1, SumOfBits
<1>3. PICK g : IsSumOfBits(g, B, W) /\ FromBits(B, "I32") = g[W]
  BY <1>1, SumOfBits
<1> HIDE DEF w, W
<1> DEFINE T == {k \in Nat : k <= w => g[k] = f[k]}
           U == {d \in Nat : w + d <= W => g[w + d] = g[w]}
<1>4. 0 \in T
  BY <1>2, <1>3 DEF IsSumOfBits
<1>5. ASSUME NEW k \in Nat, k \in T PROVE k + 1 \in T
  <2> SUFFICES ASSUME k + 1 <= w PROVE g[k + 1] = f[k + 1]
    OBVIOUS
  <2>1. k + 1 \in 1 .. w /\ k + 1 \in 1 .. W /\ (k + 1) - 1 = k /\ k <= w
    BY <1>1
  <2>2. g[k] = f[k]
    BY Zenon, <1>5, <2>1
  <2> QED BY <1>2, <1>3, <2>1, <2>2 DEF IsSumOfBits
<1>6. 0 \in U
  BY <1>1
<1>7. ASSUME NEW d \in Nat, d \in U PROVE d + 1 \in U
  <2> SUFFICES ASSUME w + (d + 1) <= W PROVE g[w + (d + 1)] = g[w]
    OBVIOUS
  <2>1. w + (d + 1) \in 1 .. W /\ (w + (d + 1)) - 1 = w + d /\ w + d <= W /\ w + d \in 0 .. W
    BY <1>1
  <2>2. g[w + d] = g[w]
    BY Zenon, <1>7, <2>1
  <2>3. w + d \notin B
    BY <1>1 DEF w
  <2>4. g[w + d] \in Int
    BY <1>3, <2>1 DEF IsSumOfBits
  <2> QED BY <1>3, <2>1, <2>2, <2>3, <2>4 DEF IsSumOfBits
<1> HIDE DEF T, U
<1>8. w \in T
  BY <1>1, <1>4, <1>5, NaturalInduction
<1>9. g[w] = f[w]
  BY <1>1, <1>8 DEF T
<1>10. W - w \in U
  BY <1>1, <1>6, <1>7, NaturalInduction
<1>11. g[w + (W - w)] = g[w] /\ w + (W - w) = W
  BY <1>1, <1>10 DEF U
<1> QED BY <1>2, <1>3, <1>9, <1>11

LEMMA SmallBits ==
  ASSUME NEW t \in Small, NEW a \in Residues(t)
  PROVE  BitsOf(a, "I32") = BitsOf(a, t) /\ BitsOf(a, t) \in SUBSET (0 .. Width(t) - 1)
<1> DEFINE B == BitsOf(a, t)
<1>1. B \in SUBSET (0 .. Width(t) - 1) /\ t \in IntTypes /\ "I32" \in IntTypes
  BY BitsBelow, SmallWidths
<1>2. Width(t) \in Nat /\ Width("I32") \in Nat /\ Width(t) < Width("I32")
  BY SmallWidths
<1>3. B \in SUBSET (0 .. Width("I32") - 1)
  BY <1>1, <1>2
<1>4. FromBits(B, t) = a
  BY <1>1, SumOfBitsOf
<1> HIDE DEF B
<1>5. FromBits(B, "I32") = a
  BY <1>1, <1>4, SmallFromBits
<1>6. BitsOf(FromBits(B, "I32"), "I32") = B
  BY <1>1, <1>3, BitsOfSum
<1> QED BY <1>1, <1>5, <1>6 DEF B

Pairwise(op, t) == [z \in Residues(t) \X Residues(t) |-> VecInstr(op, t, z[1], z[2])]

\* The instruction that merges two accumulators computes the operator.
LEMMA PairwiseTyped ==
  ASSUME NEW t \in IntTypes, NEW op \in MergeOps
  PROVE  /\ Pairwise(op, t) \in [Residues(t) \X Residues(t) -> Residues(t)]
         /\ \A x, y \in Residues(t) : Pairwise(op, t)[<<x, y>>] = ArithInt(op, "No", t, x, y)
<1>1. op \in AggOps /\ MergeOp(op) = op
  BY DEF MergeOps, AggOps, MergeOp
<1>2. \A x, y \in Residues(t) : ArithInt(op, "No", t, x, y) \in Residues(t)
  BY <1>1, OperatorsAreLawful DEF Lawful
<1> QED BY <1>2 DEF Pairwise, VecInstr

\* A narrow lane and the I32 it is widened to.
Widened(op, t) ==
  {w \in Residues(t) \X Residues("I32") :
     IF op \in {"Add", "Mul"} THEN Wrap(w[2], t) = w[1] ELSE w[2] = Cast(Extension(op), t, "I32", w[1])}

\* An extended lane is related to the small one it was.
LEMMA WidenedLane ==
  ASSUME NEW t \in Small, NEW op \in MergeOps, NEW a \in Residues(t)
  PROVE  <<a, Cast(Extension(op), t, "I32", a)>> \in Widened(op, t)
<1>1. CASE op \in {"Min", "Max"}
  <2>1. Cast(Extension(op), t, "I32", a) \in Residues("I32")
    BY <1>1, SmallSext DEF Extension
  <2> QED BY <1>1, <2>1 DEF Widened
<1>2. CASE op \notin {"Min", "Max"}
  <2>1. Cast(Extension(op), t, "I32", a) = a
    BY <1>2, SmallResidues DEF Extension, Cast
  <2>2. a \in Residues("I32") /\ Wrap(a, t) = a
    BY SmallResidues
  <2> QED BY <2>1, <2>2 DEF Widened
<1> QED BY <1>1, <1>2

\* What is related to a small lane wraps to it.
LEMMA NarrowedLane ==
  ASSUME NEW t \in Small, NEW op \in MergeOps, NEW a, NEW x, <<a, x>> \in Widened(op, t)
  PROVE  Wrap(x, t) = a /\ a \in Residues(t) /\ x \in Residues("I32")
<1>1. a \in Residues(t) /\ x \in Residues("I32")
  BY DEF Widened
<1>2. CASE op \in {"Add", "Mul"}
  BY <1>1, <1>2 DEF Widened
<1>3. CASE op \in {"Min", "Max"}
  <2>1. x = Cast("Sext", t, "I32", a)
    BY <1>3 DEF Widened, Extension
  <2> QED BY <1>1, <2>1, SmallSext
<1>4. CASE op \notin {"Add", "Mul", "Min", "Max"}
  <2>1. x = Wrap(a, "I32")
    BY <1>4 DEF Widened, Extension, Cast
  <2> QED BY <1>1, <2>1, SmallResidues
<1> QED BY <1>1, <1>2, <1>3, <1>4

\* The operator on I32 keeps the relation to the one on small lanes.
LEMMA WidenedOperator ==
  ASSUME NEW t \in Small, NEW op \in MergeOps, NEW a, NEW b, NEW x, NEW y,
         <<a, x>> \in Widened(op, t), <<b, y>> \in Widened(op, t)
  PROVE  <<ArithInt(op, "No", t, a, b), ArithInt(op, "No", "I32", x, y)>> \in Widened(op, t)
<1> DEFINE r == ArithInt(op, "No", t, a, b)
           s == ArithInt(op, "No", "I32", x, y)
           m == Modulus(t)
           M == Modulus("I32")
<1>1. a \in Residues(t) /\ b \in Residues(t) /\ x \in Residues("I32") /\ y \in Residues("I32")
  BY NarrowedLane
<1>2. r \in Residues(t) /\ s \in Residues("I32")
  <2>1. op \in AggOps /\ MergeOp(op) = op /\ t \in IntTypes /\ "I32" \in IntTypes
    BY SmallWidths DEF MergeOps, AggOps, MergeOp
  <2> QED BY <1>1, <2>1, OperatorsAreLawful DEF Lawful
<1>3. /\ m \in Nat \ {0} /\ M \in Nat \ {0} /\ t \in IntTypes /\ "I32" \in IntTypes
      /\ \A v \in Residues(t) : v \in Int
      /\ \A v \in Residues("I32") : v \in Int
  <2>1. t \in IntTypes /\ "I32" \in IntTypes
    BY SmallWidths
  <2>2. m \in Nat \ {0} /\ M \in Nat \ {0} /\ Residues(t) = 0 .. m - 1 /\ Residues("I32") = 0 .. M - 1
    BY <2>1, Widths
  <2> HIDE DEF m, M
  <2> QED BY <2>1, <2>2
<1>4. PICK c \in Nat \ {0} : M = m * c
  BY SmallWidths
<1>5. CASE op \in {"Add", "Mul"}
  <2>1. x % m = a /\ y % m = b
    BY <1>5 DEF Widened, Wrap
  <2>2. x \in Int /\ y \in Int
    BY <1>1, <1>3
  <2>3. CASE op = "Add"
    <3>1. s = (x + y) % M /\ r = (a + b) % m
      BY <2>3, SumsAndProducts
    <3> HIDE DEF r, s, m, M
    <3>0. x + y \in Int
      BY <2>2
    <3>2. ((x + y) % (m * c)) % m = (x + y) % m
      BY Zenon, <1>3, <3>0, RemainderOfRemainder
    <3>3. ((x % m) + y) % m = (x + y) % m /\ (a + (y % m)) % m = (a + y) % m
      BY Zenon, <1>1, <1>3, <2>2, ModSums
    <3>4. s % m = (x + y) % m
      BY Zenon, <1>4, <3>1, <3>2
    <3>5. (a + b) % m = (x + y) % m
      BY Zenon, <2>1, <3>3
    <3>6. Wrap(s, t) = r
      BY <3>1, <3>4, <3>5 DEF Wrap, m
    <3> QED BY <1>2, <1>5, <3>6 DEF Widened, r, s
  <2>4. CASE op = "Mul"
    <3>1. s = (x * y) % M /\ r = (a * b) % m
      BY <1>1, <1>3, <2>4, MulLawful
    <3> HIDE DEF r, s, m, M
    <3>0. x * y \in Int
      BY <2>2
    <3>2. ((x * y) % (m * c)) % m = (x * y) % m
      BY Zenon, <1>3, <3>0, RemainderOfRemainder
    <3>3. ((x % m) * y) % m = (x * y) % m /\ (a * (y % m)) % m = (a * y) % m
      BY Zenon, <1>1, <1>3, <2>2, ModSums
    <3>4. s % m = (x * y) % m
      BY Zenon, <1>4, <3>1, <3>2
    <3>5. (a * b) % m = (x * y) % m
      BY Zenon, <2>1, <3>3
    <3>6. Wrap(s, t) = r
      BY <3>1, <3>4, <3>5 DEF Wrap, m
    <3> QED BY <1>2, <1>5, <3>6 DEF Widened, r, s
  <2> QED BY <1>5, <2>3, <2>4
<1>6. CASE op \in {"Min", "Max"}
  <2>1. x = Cast("Sext", t, "I32", a) /\ y = Cast("Sext", t, "I32", b)
    BY <1>6 DEF Widened, Extension
  <2>2. Signed(x, "I32") = Signed(a, t) /\ Signed(y, "I32") = Signed(b, t)
    BY <1>1, <2>1, SmallSext
  <2>3. \/ r = a /\ s = x
        \/ r = b /\ s = y
    <3>1. CASE op = "Min" BY <2>2, <3>1, Choices
    <3>2. CASE op = "Max" BY <2>2, <3>2, Choices
    <3> QED BY <1>6, <3>1, <3>2
  <2> QED BY <2>3
<1>7. CASE op \in {"UMin", "UMax"}
  <2>1. x = a /\ y = b
    BY <1>1, <1>7, SmallResidues DEF Widened, Extension, Cast
  <2>2. \/ r = a /\ s = x
        \/ r = b /\ s = y
    <3>1. CASE op = "UMin" BY <2>1, <3>1, Choices
    <3>2. CASE op = "UMax" BY <2>1, <3>2, Choices
    <3> QED BY <1>7, <3>1, <3>2
  <2> QED BY <2>2
<1>8. CASE op \in {"And", "Or", "Xor"}
  <2>1. x = a /\ y = b
    BY <1>1, <1>8, SmallResidues DEF Widened, Extension, Cast
  <2> DEFINE A == BitsOf(a, t)
             B == BitsOf(b, t)
             U == 0 .. Width(t) - 1
             D == IF op = "And" THEN A \cap B ELSE IF op = "Or" THEN A \cup B ELSE (A \cup B) \ (A \cap B)
  <2>2. A \in SUBSET U /\ B \in SUBSET U /\ BitsOf(a, "I32") = A /\ BitsOf(b, "I32") = B
    BY <1>1, SmallBits
  <2>3. D \in SUBSET U
    <3> HIDE DEF A, B, U
    <3> QED BY <2>2
  <2>4. r = FromBits(D, t) /\ s = FromBits(D, "I32")
    <3>1. s = ArithInt(op, "No", "I32", a, b)
      BY <2>1
    <3>2. CASE op = "And"
      <4>1. ArithInt("And", "No", t, a, b) = FromBits(A \cap B, t)
        BY Masks
      <4>2. ArithInt("And", "No", "I32", a, b) = FromBits(BitsOf(a, "I32") \cap BitsOf(b, "I32"), "I32")
        BY Masks
      <4> HIDE DEF A, B
      <4> QED BY <2>2, <3>1, <3>2, <4>1, <4>2
    <3>3. CASE op = "Or"
      <4>1. ArithInt("Or", "No", t, a, b) = FromBits(A \cup B, t)
        BY Masks
      <4>2. ArithInt("Or", "No", "I32", a, b) = FromBits(BitsOf(a, "I32") \cup BitsOf(b, "I32"), "I32")
        BY Masks
      <4> HIDE DEF A, B
      <4> QED BY <2>2, <3>1, <3>3, <4>1, <4>2
    <3>4. CASE op = "Xor"
      <4>1. ArithInt("Xor", "No", t, a, b) = FromBits((A \cup B) \ (A \cap B), t)
        BY Masks
      <4>2. ArithInt("Xor", "No", "I32", a, b)
              = FromBits((BitsOf(a, "I32") \cup BitsOf(b, "I32")) \ (BitsOf(a, "I32") \cap BitsOf(b, "I32")), "I32")
        BY Masks
      <4> HIDE DEF A, B
      <4> QED BY <2>2, <3>1, <3>4, <4>1, <4>2
    <3> QED BY <1>8, <3>2, <3>3, <3>4
  <2> HIDE DEF A, B, D, U, r, s
  <2>5. s = r
    BY <2>3, <2>4, SmallFromBits DEF U
  <2>6. Cast(Extension(op), t, "I32", r) = r
    BY <1>2, <1>8, SmallResidues DEF Extension, Cast
  <2> QED BY <1>2, <1>8, <2>5, <2>6 DEF Widened, r, s
<1> QED BY <1>5, <1>6, <1>7, <1>8 DEF MergeOps

LEMMA SliceTyped ==
  ASSUME NEW S, NEW N \in Nat, NEW v \in [1 .. N -> S], NEW e \in Positions, NEW first \in Nat, first + 2 ^ e <= N
  PROVE  Slice(v, first, 2 ^ e) \in Row(S, e)
<1>1. 2 ^ e \in Nat \ {0}
  BY Logarithm
<1>2. \A i \in 1 .. 2 ^ e : v[first + i] \in S
  BY <1>1
<1> QED BY <1>2 DEF Slice, Row

LEMMA ReduceChanged ==
  ASSUME NEW S, NEW op, NEW u, Acts(op, u, S), NEW N \in Nat, NEW v \in [1 .. N -> S], NEW e \in Positions,
         NEW first \in Nat, first + 2 ^ e <= N, NEW j \in 1 .. N
  PROVE  Reduce(Changed(v, j, u), first, 2 ^ e, op) =
           IF j \in first + 1 .. first + 2 ^ e THEN u[Reduce(v, first, 2 ^ e, op)] ELSE Reduce(v, first, 2 ^ e, op)
<1> DEFINE w == Changed(v, j, u)
           n == 2 ^ e
<1>1. n \in Nat \ {0} /\ first + n <= N
  BY Logarithm
<1>2. \A i \in 1 .. N : w[i] = IF i = j THEN u[v[i]] ELSE v[i]
  BY DEF Changed
<1>3. Slice(v, first, n) \in Row(S, e)
  BY SliceTyped
<1> HIDE DEF w
<1>4. CASE j \in first + 1 .. first + n
  <2> DEFINE i0 == j - first
  <2>1. i0 \in 1 .. n /\ first + i0 = j
    BY <1>1, <1>4
  <2> HIDE DEF i0
  <2>2. ASSUME NEW i \in 1 .. n PROVE w[first + i] = IF i = i0 THEN u[v[first + i]] ELSE v[first + i]
    <3>1. first + i \in 1 .. N /\ (first + i = j <=> i = i0)
      BY <1>1, <2>1
    <3> QED BY <1>2, <3>1
  <2> HIDE DEF n
  <2>3. Slice(w, first, n) = Changed(Slice(v, first, n), i0, u)
    BY Zenon, <2>1, <2>2 DEF Slice, Changed
  <2>4. Reduce(w, first, n, op) = u[Reduce(v, first, n, op)]
    BY <1>3, <2>1, <2>3, ReduceOnePoint DEF n
  <2> QED BY Zenon, <1>4, <2>4 DEF n, w
<1>5. CASE j \notin first + 1 .. first + n
  <2>2. ASSUME NEW i \in 1 .. n PROVE w[first + i] = v[first + i]
    <3>1. first + i \in 1 .. N /\ first + i # j
      BY <1>1, <1>5
    <3> QED BY <1>2, <3>1
  <2> HIDE DEF n
  <2>3. Slice(w, first, n) = Slice(v, first, n)
    BY <2>2 DEF Slice
  <2>4. Reduce(w, first, n, op) = Reduce(v, first, n, op)
    BY <2>3, ReduceElsewhere
  <2> QED BY Zenon, <1>5, <2>4 DEF n, w
<1> QED BY <1>4, <1>5

(***************************************************************************)
(* A register of narrow lanes is reduced as its widened registers are.      *)
(***************************************************************************)
Both(v, first, m, o) == o[<<Reduce(v, first, m, o), Reduce(v, first + m, m, o)>>]

Narrow(v, n, o, t) ==
  CASE t = "I8" -> o[<<Both(v, 0, n \div 4, o), Both(v, n \div 2, n \div 4, o)>>]
    [] t = "I16" -> Both(v, 0, n \div 2, o)
    [] t \in {"I32", "I64"} -> Reduce(v, 0, n, o)

\* Registers have as many lanes as the widening of their type splits.
LEMMA Quarters ==
  ASSUME NEW e \in Positions, NEW t \in IntTypes, 2 ^ e >= FewestLanes(t)
  PROVE  /\ t = "I8" => \E d \in Positions : 2 ^ e \div 4 = 2 ^ d /\ 2 ^ e \div 2 = 2 * 2 ^ d /\ 2 ^ e = 4 * 2 ^ d
         /\ t = "I16" => \E d \in Positions : 2 ^ e \div 2 = 2 ^ d /\ 2 ^ e = 2 * 2 ^ d
<1>1. e \in Nat /\ e <= 8 * Byte /\ 8 * Byte \in Nat /\ Positions = 0 .. 8 * Byte
  BY Logarithm DEF Positions
<1>2. 2 ^ 0 = 1 /\ 2 ^ (0 + 1) = 2 * 2 ^ 0
  BY <1>1, Powers
<1>3. FewestLanes("I8") = 4 /\ FewestLanes("I16") = 2
  BY DEF FewestLanes
<1>4. ASSUME t = "I16" PROVE \E d \in Positions : 2 ^ e \div 2 = 2 ^ d /\ 2 ^ e = 2 * 2 ^ d
  <2>1. 2 ^ e >= 2
    BY <1>3, <1>4
  <2>2. e # 0
    <3>1. e = 0 => 2 ^ e = 2 ^ 0
      BY Zenon
    <3> QED BY <1>2, <2>1, <3>1
  <2>3. e - 1 \in 0 .. 8 * Byte /\ (e - 1) + 1 = e
    BY <1>1, <2>2
  <2>4. 2 ^ e = 2 * 2 ^ (e - 1) /\ 2 ^ (e - 1) \in Nat
    BY <2>3, PowersAssumption
  <2>5. 2 ^ e \div 2 = 2 ^ (e - 1)
    BY <2>4
  <2> QED BY <1>1, <2>3, <2>4, <2>5
<1>5. ASSUME t = "I8"
      PROVE  \E d \in Positions : 2 ^ e \div 4 = 2 ^ d /\ 2 ^ e \div 2 = 2 * 2 ^ d /\ 2 ^ e = 4 * 2 ^ d
  <2>1. 2 ^ e >= 4
    BY <1>3, <1>5
  <2>2. 2 ^ 1 = 2
    BY <1>2
  <2>3. e # 0 /\ e # 1
    <3>1. (e = 0 => 2 ^ e = 2 ^ 0) /\ (e = 1 => 2 ^ e = 2 ^ 1)
      BY Zenon
    <3> QED BY <1>2, <2>1, <2>2, <3>1
  <2>4. e - 1 \in 0 .. 8 * Byte /\ (e - 1) + 1 = e /\ e - 2 \in 0 .. 8 * Byte /\ (e - 2) + 1 = e - 1
    BY <1>1, <2>3
  <2>5. 2 ^ e = 2 * 2 ^ (e - 1) /\ 2 ^ (e - 1) = 2 * 2 ^ (e - 2) /\ 2 ^ (e - 2) \in Nat
    BY <2>4, PowersAssumption
  <2>6. 2 ^ e = 4 * 2 ^ (e - 2) /\ 2 ^ e \div 4 = 2 ^ (e - 2) /\ 2 ^ e \div 2 = 2 * 2 ^ (e - 2)
    BY <2>5
  <2> QED BY <1>1, <2>4, <2>6
<1> QED BY <1>4, <1>5

LEMMA BothChanged ==
  ASSUME NEW S, NEW op, NEW u, Acts(op, u, S), NEW N \in Nat, NEW v \in [1 .. N -> S], NEW d \in Positions,
         NEW first \in Nat, first + 2 * 2 ^ d <= N, NEW j \in 1 .. N
  PROVE  /\ Both(v, first, 2 ^ d, op) \in S
         /\ Both(Changed(v, j, u), first, 2 ^ d, op) =
              IF j \in first + 1 .. first + 2 * 2 ^ d THEN u[Both(v, first, 2 ^ d, op)] ELSE Both(v, first, 2 ^ d, op)
<1> DEFINE w == Changed(v, j, u)
           m == 2 ^ d
           a == Reduce(v, first, m, op)
           b == Reduce(v, first + m, m, op)
           x == Reduce(w, first, m, op)
           y == Reduce(w, first + m, m, op)
<1>0. op \in [S \X S -> S] /\ u \in [S -> S]
  BY DEF Acts
<1>1. m \in Nat \ {0} /\ first + m \in Nat /\ first + m <= N /\ (first + m) + m <= N
  BY Logarithm
<1>2. Slice(v, first, m) \in Row(S, d) /\ Slice(v, first + m, m) \in Row(S, d)
  BY <1>1, SliceTyped
<1>3. a \in S /\ b \in S
  BY Zenon, <1>0, <1>2, ReduceTyped
<1>4. x = IF j \in first + 1 .. first + m THEN u[a] ELSE a
  BY <1>1, ReduceChanged
<1>5. y = IF j \in (first + m) + 1 .. (first + m) + m THEN u[b] ELSE b
  <2> DEFINE q == first + m
  <2>1. q \in Nat /\ q + m <= N
    BY <1>1
  <2>2. b = Reduce(v, q, m, op) /\ y = Reduce(w, q, m, op)
    OBVIOUS
  <2> HIDE DEF q
  <2>3. Reduce(w, q, m, op) = IF j \in q + 1 .. q + m THEN u[Reduce(v, q, m, op)] ELSE Reduce(v, q, m, op)
    BY <2>1, ReduceChanged
  <2> HIDE DEF b, y, m, w
  <2> QED BY <2>2, <2>3 DEF q
<1>6. Both(v, first, m, op) = op[<<a, b>>] /\ Both(w, first, m, op) = op[<<x, y>>]
  BY DEF Both
<1> HIDE DEF a, b, x, y, m, w
<1>7. op[<<a, b>>] \in S /\ op[<<u[a], b>>] = u[op[<<a, b>>]] /\ op[<<a, u[b]>>] = u[op[<<a, b>>]]
  BY <1>0, <1>3 DEF Acts
<1>8. op[<<x, y>>] = IF j \in first + 1 .. first + 2 * m THEN u[op[<<a, b>>]] ELSE op[<<a, b>>]
  <2>1. CASE j \in first + 1 .. first + m
    <3>1. x = u[a] /\ y = b /\ j \in first + 1 .. first + 2 * m
      BY <1>1, <1>4, <1>5, <2>1
    <3> QED BY <1>7, <3>1
  <2>2. CASE j \in (first + m) + 1 .. (first + m) + m
    <3>1. x = a /\ y = u[b] /\ j \in first + 1 .. first + 2 * m
      BY <1>1, <1>4, <1>5, <2>2
    <3> QED BY <1>7, <3>1
  <2>3. CASE j \notin first + 1 .. first + m /\ j \notin (first + m) + 1 .. (first + m) + m
    <3>1. x = a /\ y = b /\ j \notin first + 1 .. first + 2 * m
      BY <1>1, <1>4, <1>5, <2>3
    <3> QED BY <1>7, <3>1
  <2> QED BY <2>1, <2>2, <2>3
<1> QED BY <1>6, <1>7, <1>8 DEF m, w

\* What changes one lane by u changes the reduction by u, whatever the lanes are widened to.
LEMMA NarrowChanged ==
  ASSUME NEW S, NEW op, NEW u, Acts(op, u, S), NEW e \in Positions, NEW t \in IntTypes, 2 ^ e >= FewestLanes(t),
         NEW v \in [1 .. 2 ^ e -> S], NEW j \in 1 .. 2 ^ e
  PROVE  /\ Narrow(v, 2 ^ e, op, t) \in S
         /\ Narrow(Changed(v, j, u), 2 ^ e, op, t) = u[Narrow(v, 2 ^ e, op, t)]
<1> DEFINE n == 2 ^ e
           w == Changed(v, j, u)
<1>0. op \in [S \X S -> S] /\ u \in [S -> S]
  BY DEF Acts
<1>1. n \in Nat \ {0}
  BY Logarithm
<1>2. CASE t = "I8"
  <2>1. PICK d \in Positions : n \div 4 = 2 ^ d /\ n \div 2 = 2 * 2 ^ d /\ n = 4 * 2 ^ d
    BY <1>2, Quarters
  <2> DEFINE m == 2 ^ d
             h == 2 * m
             a == Both(v, 0, m, op)
             b == Both(v, h, m, op)
             x == Both(w, 0, m, op)
             y == Both(w, h, m, op)
  <2>2. m \in Nat \ {0} /\ 0 + 2 * m <= n /\ h \in Nat /\ h + 2 * m <= n /\ n = 4 * m
    <3>1. m \in Nat \ {0} /\ n = 4 * m
      BY <2>1, Logarithm
    <3> HIDE DEF m, n
    <3> QED BY <3>1
  <2>3. a \in S /\ x = IF j \in 0 + 1 .. 0 + 2 * m THEN u[a] ELSE a
    BY <1>1, <2>2, BothChanged
  <2>4. b \in S /\ y = IF j \in h + 1 .. h + 2 * m THEN u[b] ELSE b
    <3> HIDE DEF h
    <3> QED BY <1>1, <2>2, BothChanged
  <2>5. Narrow(v, n, op, t) = op[<<a, b>>] /\ Narrow(w, n, op, t) = op[<<x, y>>]
    BY <1>2, <2>1 DEF Narrow
  <2>6. (j \in 0 + 1 .. 0 + 2 * m /\ j \notin h + 1 .. h + 2 * m) \/ (j \notin 0 + 1 .. 0 + 2 * m /\ j \in h + 1 .. h + 2 * m)
    BY <2>2
  <2> HIDE DEF a, b, x, y, m, w, h
  <2>7. op[<<a, b>>] \in S /\ op[<<u[a], b>>] = u[op[<<a, b>>]] /\ op[<<a, u[b]>>] = u[op[<<a, b>>]]
    BY <1>0, <2>3, <2>4 DEF Acts
  <2>8. (x = u[a] /\ y = b) \/ (x = a /\ y = u[b])
    BY <2>3, <2>4, <2>6
  <2> QED BY <2>5, <2>7, <2>8 DEF w
<1>3. CASE t = "I16"
  <2>1. PICK d \in Positions : n \div 2 = 2 ^ d /\ n = 2 * 2 ^ d
    BY <1>3, Quarters
  <2>2. 2 ^ d \in Nat /\ 0 + 2 * 2 ^ d <= n /\ j \in 0 + 1 .. 0 + 2 * 2 ^ d
    BY <2>1, Logarithm
  <2>3. Both(v, 0, 2 ^ d, op) \in S /\ Both(w, 0, 2 ^ d, op) = u[Both(v, 0, 2 ^ d, op)]
    BY <1>1, <2>2, BothChanged
  <2>4. Narrow(v, n, op, t) = Both(v, 0, 2 ^ d, op) /\ Narrow(w, n, op, t) = Both(w, 0, 2 ^ d, op)
    BY <1>3, <2>1 DEF Narrow
  <2> QED BY <2>3, <2>4
<1>4. CASE t \in {"I32", "I64"}
  <2>1. 0 + n <= n /\ j \in 0 + 1 .. 0 + n
    BY <1>1
  <2>2. Reduce(w, 0, n, op) = u[Reduce(v, 0, n, op)]
    BY <1>1, <2>1, ReduceChanged
  <2>3. Slice(v, 0, n) \in Row(S, e)
    BY <1>1, <2>1, SliceTyped
  <2>4. Reduce(v, 0, n, op) \in S
    BY Zenon, <1>0, <2>3, ReduceTyped
  <2>5. Narrow(v, n, op, t) = Reduce(v, 0, n, op) /\ Narrow(w, n, op, t) = Reduce(w, 0, n, op)
    BY <1>4 DEF Narrow
  <2> QED BY <2>2, <2>4, <2>5
<1> QED BY <1>2, <1>3, <1>4 DEF IntTypes

LEMMA SameReduced ==
  ASSUME NEW S, NEW op \in [S \X S -> S], NEW c \in S, op[<<c, c>>] = c, NEW n \in Nat,
         NEW d \in Positions, NEW first \in Nat, first + 2 ^ d <= n
  PROVE  Reduce(Seq1(n, c), first, 2 ^ d, op) = c
<1> DEFINE v == Seq1(n, c)
           m == 2 ^ d
<1>1. m \in Nat \ {0} /\ first + m <= n
  BY Logarithm
<1>2. \A i \in 1 .. m : v[first + i] = c
  BY <1>1 DEF Seq1
<1> HIDE DEF v, m
<1>3. Slice(v, first, m) = Seq1(m, c)
  BY <1>2 DEF Slice, Seq1
<1>4. Reduce(v, first, m, op) = c
  BY <1>3, ReduceNeutral DEF m
<1> QED BY Zenon, <1>4 DEF m, v

\* Neutral lanes reduce to the neutral element, whatever they are widened to.
LEMMA NarrowNeutral ==
  ASSUME NEW S, NEW op \in [S \X S -> S], NEW c \in S, op[<<c, c>>] = c,
         NEW e \in Positions, NEW t \in IntTypes, 2 ^ e >= FewestLanes(t)
  PROVE  Narrow(Seq1(2 ^ e, c), 2 ^ e, op, t) = c
<1> DEFINE n == 2 ^ e
           v == Seq1(n, c)
<1>1. n \in Nat \ {0}
  BY Logarithm
<1>2. ASSUME NEW d \in Positions, NEW first \in Nat, first + 2 ^ d <= n PROVE Reduce(v, first, 2 ^ d, op) = c
  BY <1>1, <1>2, SameReduced
<1> HIDE DEF v
<1>3. ASSUME NEW d \in Positions, NEW first \in Nat, first + 2 * 2 ^ d <= n PROVE Both(v, first, 2 ^ d, op) = c
  <2> DEFINE m == 2 ^ d
             q == first + m
  <2>1. m \in Nat \ {0}
    BY Logarithm
  <2>2. q \in Nat /\ q + m <= n /\ first + m <= n
    <3> HIDE DEF m, n
    <3> QED BY <1>1, <1>3, <2>1 DEF m
  <2> HIDE DEF q
  <2>3. Reduce(v, first, m, op) = c /\ Reduce(v, q, m, op) = c
    BY <1>2, <2>2
  <2> QED BY <2>3 DEF Both, q
<1>4. CASE t = "I8"
  <2>1. PICK d \in Positions : n \div 4 = 2 ^ d /\ n \div 2 = 2 * 2 ^ d /\ n = 4 * 2 ^ d
    BY <1>4, Quarters
  <2>2. 2 ^ d \in Nat /\ 2 * 2 ^ d \in Nat /\ 0 + 2 * 2 ^ d <= n /\ 2 * 2 ^ d + 2 * 2 ^ d <= n
    <3> DEFINE m == 2 ^ d
    <3>1. m \in Nat /\ n = 4 * m
      BY <2>1, Logarithm
    <3> HIDE DEF m, n
    <3>2. m \in Nat /\ 2 * m \in Nat /\ 0 + 2 * m <= n /\ 2 * m + 2 * m <= n
      BY <3>1
    <3> QED BY <3>2 DEF m
  <2>3. Both(v, 0, 2 ^ d, op) = c /\ Both(v, 2 * 2 ^ d, 2 ^ d, op) = c
    BY <1>3, <2>2
  <2> QED BY <1>4, <2>1, <2>3 DEF Narrow, v
<1>5. CASE t = "I16"
  <2>1. PICK d \in Positions : n \div 2 = 2 ^ d /\ n = 2 * 2 ^ d
    BY <1>5, Quarters
  <2>2. 2 ^ d \in Nat /\ 0 + 2 * 2 ^ d <= n
    BY <2>1, Logarithm
  <2>3. Both(v, 0, 2 ^ d, op) = c
    BY <1>3, <2>2
  <2> QED BY <1>5, <2>1, <2>3 DEF Narrow, v
<1>6. CASE t \in {"I32", "I64"}
  <2>1. 0 + n <= n
    BY <1>1
  <2>2. Reduce(v, 0, n, op) = c
    BY <1>2, <2>1
  <2> QED BY <1>6, <2>2 DEF Narrow, v
<1> QED BY <1>4, <1>5, <1>6 DEF IntTypes

LEMMA BothRelated ==
  ASSUME NEW S, NEW op \in [S \X S -> S], NEW Z, NEW oz \in [Z \X Z -> Z], NEW R,
         \A a, b \in S : \A x, y \in Z :
           <<a, x>> \in R /\ <<b, y>> \in R => <<op[<<a, b>>], oz[<<x, y>>]>> \in R,
         NEW n \in Nat, NEW v \in [1 .. n -> S], NEW w \in [1 .. n -> Z], Related(R, v, w),
         NEW d \in Positions, NEW first \in Nat, first + 2 * 2 ^ d <= n
  PROVE  /\ Both(v, first, 2 ^ d, op) \in S /\ Both(w, first, 2 ^ d, oz) \in Z
         /\ <<Both(v, first, 2 ^ d, op), Both(w, first, 2 ^ d, oz)>> \in R
<1> DEFINE m == 2 ^ d
<1>1. m \in Nat \ {0}
  BY Logarithm
<1>2. ASSUME NEW q \in Nat, q + m <= n
      PROVE  /\ Reduce(v, q, m, op) \in S /\ Reduce(w, q, m, oz) \in Z
             /\ <<Reduce(v, q, m, op), Reduce(w, q, m, oz)>> \in R
  <2>1. Slice(v, q, m) \in Row(S, d) /\ Slice(w, q, m) \in Row(Z, d)
    BY <1>2, SliceTyped
  <2>2. Related(R, Slice(v, q, m), Slice(w, q, m))
    <3> HIDE DEF m
    <3>1. ASSUME NEW i \in 1 .. m PROVE <<v[q + i], w[q + i]>> \in R
      <4>1. q + i \in 1 .. n
        BY <1>1, <1>2
      <4> QED BY <4>1 DEF Related
    <3> QED BY <3>1 DEF Related, Slice
  <2> QED BY Zenon, <2>1, <2>2, ReduceRelated
<1> DEFINE q == first + m
<1>3. q \in Nat /\ q + m <= n /\ first + m <= n
  <2>1. first + 2 * m <= n
    OBVIOUS
  <2> HIDE DEF m
  <2> QED BY <1>1, <2>1
<1> HIDE DEF q
<1> DEFINE a == Reduce(v, first, m, op)
           b == Reduce(v, q, m, op)
           x == Reduce(w, first, m, oz)
           y == Reduce(w, q, m, oz)
<1>4. a \in S /\ x \in Z /\ <<a, x>> \in R
  BY <1>2, <1>3
<1>5. b \in S /\ y \in Z /\ <<b, y>> \in R
  BY <1>2, <1>3
<1>6. Both(v, first, m, op) = op[<<a, b>>] /\ Both(w, first, m, oz) = oz[<<x, y>>]
  BY DEF Both, q
<1> HIDE DEF a, b, x, y, m
<1> QED BY <1>4, <1>5, <1>6 DEF m

\* The widened reduction is the reduction of the small lanes: nothing is lost.
LEMMA ReduceArithIsNarrow ==
  ASSUME NEW p, p.t \in IntTypes, CombineOp(p) \in MergeOps, NEW e \in Positions, 2 ^ e >= FewestLanes(p.t),
         NEW v \in [1 .. 2 ^ e -> Residues(p.t)]
  PROVE  ReduceArith(p, v, 2 ^ e) = Narrow(v, 2 ^ e, Pairwise(CombineOp(p), p.t), p.t)
<1> DEFINE op == CombineOp(p)
           t == p.t
           n == 2 ^ e
           S == Residues(t)
           Z == Residues("I32")
           o == Pairwise(op, t)
           oz == Pairwise(op, "I32")
           R == Widened(op, t)
           w == [l \in 1 .. n |-> Cast(Extension(op), t, "I32", v[l])]
<1>1. n \in Nat \ {0} /\ "I32" \in IntTypes
  BY Logarithm DEF IntTypes
<1>2. o \in [S \X S -> S] /\ oz \in [Z \X Z -> Z]
  BY Zenon, <1>1, PairwiseTyped
<1>3. CASE t \in {"I32", "I64"}
  <2>1. ReduceArith(p, v, n) = Reduce(v, 0, n, o)
    BY <1>3 DEF ReduceArith, Pairwise
  <2>2. Narrow(v, n, o, t) = Reduce(v, 0, n, o)
    BY <1>3 DEF Narrow
  <2> QED BY Zenon, <2>1, <2>2
<1>4. CASE t \in Small
  <2>1. \A a, b \in S : \A x, y \in Z : <<a, x>> \in R /\ <<b, y>> \in R => <<o[<<a, b>>], oz[<<x, y>>]>> \in R
    <3> SUFFICES ASSUME NEW a \in S, NEW b \in S, NEW x \in Z, NEW y \in Z, <<a, x>> \in R, <<b, y>> \in R
                 PROVE  <<o[<<a, b>>], oz[<<x, y>>]>> \in R
      BY Zenon
    <3>1. <<ArithInt(op, "No", t, a, b), ArithInt(op, "No", "I32", x, y)>> \in R
      BY <1>4, WidenedOperator
    <3>2. o[<<a, b>>] = ArithInt(op, "No", t, a, b) /\ oz[<<x, y>>] = ArithInt(op, "No", "I32", x, y)
      BY Zenon, <1>1, PairwiseTyped
    <3> QED BY Zenon, <3>1, <3>2
  <2>2. ASSUME NEW l \in 1 .. n PROVE <<v[l], w[l]>> \in R /\ w[l] \in Z
    <3>1. v[l] \in S /\ w[l] = Cast(Extension(op), t, "I32", v[l])
      OBVIOUS
    <3>2. <<v[l], Cast(Extension(op), t, "I32", v[l])>> \in R
      BY <1>4, <3>1, WidenedLane
    <3> QED BY <3>1, <3>2 DEF Widened
  <2>3. w \in [1 .. n -> Z] /\ Related(R, v, w)
    <3>1. w \in [1 .. n -> Z]
      BY Zenon, <2>2
    <3>2. DOMAIN v = 1 .. n
      OBVIOUS
    <3> HIDE DEF w, R
    <3> QED BY <2>2, <3>1, <3>2 DEF Related
  <2> DEFINE both(first, m) == oz[<<Reduce(w, first, m, oz), Reduce(w, first + m, m, oz)>>]
  <2>4. /\ t = "I8" => ReduceArith(p, v, n) = Wrap(oz[<<Both(w, 0, n \div 4, oz), Both(w, n \div 2, n \div 4, oz)>>], t)
        /\ t = "I16" => ReduceArith(p, v, n) = Wrap(Both(w, 0, n \div 2, oz), t)
    BY Zenon DEF ReduceArith, Pairwise, Both, Extension
  <2> HIDE DEF w, o, oz, R, S, Z, n
  <2>5. ASSUME NEW d \in Positions, NEW first \in Nat, first + 2 * 2 ^ d <= n
        PROVE  /\ Both(v, first, 2 ^ d, o) \in S /\ Both(w, first, 2 ^ d, oz) \in Z
               /\ <<Both(v, first, 2 ^ d, o), Both(w, first, 2 ^ d, oz)>> \in R
    <3>1. v \in [1 .. n -> S]
      BY DEF n, S
    <3> QED BY Zenon, <1>1, <1>2, <2>1, <2>3, <2>5, <3>1, BothRelated
  <2>6. CASE t = "I8"
    <3>1. PICK d \in Positions : n \div 4 = 2 ^ d /\ n \div 2 = 2 * 2 ^ d /\ n = 4 * 2 ^ d
      BY <2>6, Quarters DEF n
    <3>2. 2 ^ d \in Nat /\ 2 * 2 ^ d \in Nat /\ 0 + 2 * 2 ^ d <= n /\ 2 * 2 ^ d + 2 * 2 ^ d <= n
      <4> DEFINE m == 2 ^ d
      <4>1. m \in Nat /\ n = 4 * m
        BY <3>1, Logarithm
      <4> HIDE DEF m, n
      <4>2. m \in Nat /\ 2 * m \in Nat /\ 0 + 2 * m <= n /\ 2 * m + 2 * m <= n
        BY <4>1
      <4> QED BY <4>2 DEF m
    <3> DEFINE a == Both(v, 0, n \div 4, o)
               b == Both(v, n \div 2, n \div 4, o)
               x == Both(w, 0, n \div 4, oz)
               y == Both(w, n \div 2, n \div 4, oz)
    <3>3. a \in S /\ x \in Z /\ <<a, x>> \in R
      BY Zenon, <2>5, <3>1, <3>2
    <3>4. b \in S /\ y \in Z /\ <<b, y>> \in R
      BY Zenon, <2>5, <3>1, <3>2
    <3>5. ReduceArith(p, v, n) = Wrap(oz[<<x, y>>], t) /\ Narrow(v, n, o, t) = o[<<a, b>>]
      BY <2>4, <2>6 DEF Narrow
    <3> HIDE DEF a, b, x, y
    <3>6. <<o[<<a, b>>], oz[<<x, y>>]>> \in R
      BY <2>1, <3>3, <3>4
    <3>7. Wrap(oz[<<x, y>>], t) = o[<<a, b>>]
      BY <1>4, <3>6, NarrowedLane DEF R
    <3> QED BY <3>5, <3>7 DEF n, o
  <2>7. CASE t = "I16"
    <3>1. PICK d \in Positions : n \div 2 = 2 ^ d /\ n = 2 * 2 ^ d
      BY <2>7, Quarters DEF n
    <3>2. 2 ^ d \in Nat /\ 0 + 2 * 2 ^ d <= n
      BY <3>1, Logarithm
    <3> DEFINE a == Both(v, 0, n \div 2, o)
               x == Both(w, 0, n \div 2, oz)
    <3>3. <<a, x>> \in R
      BY <2>5, <3>1, <3>2
    <3>5. ReduceArith(p, v, n) = Wrap(x, t) /\ Narrow(v, n, o, t) = a
      BY <2>4, <2>7 DEF Narrow
    <3> HIDE DEF a, x
    <3>7. Wrap(x, t) = a
      BY <1>4, <3>3, NarrowedLane DEF R
    <3> QED BY <3>5, <3>7 DEF n, o
  <2> QED BY <1>4, <2>6, <2>7 DEF Small
<1> QED BY <1>3, <1>4 DEF IntTypes, Small

(***************************************************************************)
(* The instructions that the loops and the epilogue use compute the         *)
(* operators, also where a product is taken in a wider type.                *)
(***************************************************************************)
LEMMA WiderProduct ==
  ASSUME NEW t \in IntTypes, NEW T \in IntTypes, Width(t) <= Width(T), NEW x \in Residues(t), NEW y \in Residues(t)
  PROVE  /\ Cast("Zext", t, T, x) = x /\ x \in Residues(T)
         /\ ArithInt("Mul", "No", T, x, y) \in Nat
         /\ Wrap(ArithInt("Mul", "No", T, x, y), t) = ArithInt("Mul", "No", t, x, y)
<1> DEFINE m == Modulus(t)
           M == Modulus(T)
<1>1. /\ m \in Nat \ {0} /\ M \in Nat \ {0} /\ Residues(t) = 0 .. m - 1 /\ Residues(T) = 0 .. M - 1
      /\ Width(t) \in Nat /\ Width(T) \in Nat /\ Width(T) <= 8 * Byte /\ 8 * Byte \in Nat
  <2>1. m \in Nat \ {0} /\ Residues(t) = 0 .. m - 1
    BY Widths
  <2>2. M \in Nat \ {0} /\ Residues(T) = 0 .. M - 1
    BY Widths
  <2>3. 8 * Byte \in Nat
    BY WidthsNest
  <2>4. Width(t) \in 1 .. 8 * Byte /\ Width(T) \in 1 .. 8 * Byte
    BY Zenon, Widths
  <2>5. Width(t) \in Nat /\ Width(T) \in Nat /\ Width(T) <= 8 * Byte
    BY <2>3, <2>4
  <2> QED BY <2>1, <2>2, <2>3, <2>5
<1>2. PICK c \in Nat \ {0} : M = m * c
  BY Zenon, <1>1, PowersDivide DEF Modulus
<1>3. m <= M
  BY Zenon, <1>1, PowersGrow DEF Modulus
<1> HIDE DEF m, M
<1>4. x \in Residues(T) /\ y \in Residues(T) /\ x \in Int /\ y \in Int /\ x * y \in Int
  BY <1>1, <1>3
<1>5. x % M = x
  BY Zenon, <1>1, <1>4, SmallRemainder
<1>6. ArithInt("Mul", "No", T, x, y) = (x * y) % M /\ ArithInt("Mul", "No", t, x, y) = (x * y) % m
  BY <1>4, MulLawful DEF m, M
<1>7. ((x * y) % (m * c)) % m = (x * y) % m
  BY Zenon, <1>1, <1>4, RemainderOfRemainder
<1>8. ((x * y) % M) % m = (x * y) % m
  BY Zenon, <1>2, <1>7
<1>9. (x * y) % M \in Nat
  BY <1>1, <1>4, Divides
<1>10. Cast("Zext", t, T, x) = x
  BY <1>5 DEF Cast, Wrap, M
<1>11. Wrap((x * y) % M, t) = (x * y) % m
  BY <1>8 DEF Wrap, m
<1> QED BY <1>4, <1>6, <1>9, <1>10, <1>11

\* The vector instruction of every emitter computes the operator.
LEMMA VectorInstruction ==
  ASSUME NEW arch, NEW t \in IntTypes, NEW op \in AggOps, NEW x \in Residues(t), NEW y \in Residues(t)
  PROVE  VecArith(arch, op, t, x, y) = ArithInt(op, "No", t, x, y)
<1>1. CASE t = "I8" /\ X86(arch) /\ op = "Mul"
  <2>1. Width("I8") <= Width("I16") /\ "I8" \in IntTypes /\ "I16" \in IntTypes
    BY WidthsNest DEF IntTypes
  <2>2. Cast("Zext", "I8", "I16", x) = x /\ Cast("Zext", "I8", "I16", y) = y
    BY <1>1, <2>1, WiderProduct
  <2>3. Wrap(ArithInt("Mul", "No", "I16", x, y), "I8") = ArithInt("Mul", "No", "I8", x, y)
    BY <1>1, <2>1, WiderProduct
  <2>4. VecArith(arch, op, t, x, y) = WidenedByte("Mul", x, y)
    BY <1>1 DEF VecArith
  <2>5. WidenedByte("Mul", x, y)
          = Wrap(VecInstr("Mul", "I16", Cast("Zext", "I8", "I16", x), Cast("Zext", "I8", "I16", y)), "I8")
    BY DEF WidenedByte
  <2> QED BY Zenon, <1>1, <2>2, <2>3, <2>4, <2>5 DEF VecInstr
<1>2. CASE ~(t = "I8" /\ X86(arch) /\ op = "Mul")
  <2>1. op \notin {"ShiftRightArith", "ShiftRightLogical", "ShiftLeftLogical"}
    BY DEF AggOps
  <2> QED BY <1>2, <2>1 DEF VecArith, VecInstr
<1> QED BY <1>1, <1>2

\* A product of small words computed as an I32 is their product.
LEMMA SmallProduct ==
  ASSUME NEW t \in Small, NEW x \in Residues(t), NEW y \in Residues(t)
  PROVE  SmallScalar("Mul", t, x, y) = ArithInt("Mul", "No", t, x, y)
<1>1. t \in IntTypes /\ "I32" \in IntTypes /\ Width(t) <= Width("I32")
  BY SmallWidths
<1>2. /\ Cast("Zext", t, "I32", x) = x /\ Cast("Zext", t, "I32", y) = y
      /\ ArithInt("Mul", "No", "I32", x, y) \in Nat
      /\ Wrap(ArithInt("Mul", "No", "I32", x, y), t) = ArithInt("Mul", "No", t, x, y)
  BY <1>1, WiderProduct
<1>3. ScalarInstr("Mul", "I32", x, y) = ArithInt("Mul", "No", "I32", x, y)
  BY SameUnderFlags DEF AggOps
<1>4. SmallScalar("Mul", t, x, y)
        = LET v == ScalarInstr("Mul", "I32", Cast("Zext", t, "I32", x), Cast("Zext", t, "I32", y))
          IN  IF v = Trap THEN Trap ELSE Wrap(v, t)
  BY DEF SmallScalar
<1> DEFINE v == ArithInt("Mul", "No", "I32", x, y)
<1>5. v # Trap
  BY <1>2 DEF Trap
<1>6. SmallScalar("Mul", t, x, y) = IF v = Trap THEN Trap ELSE Wrap(v, t)
  BY <1>2, <1>3, <1>4
<1> QED BY <1>2, <1>5, <1>6

(***************************************************************************)
(* collapse_arith_accs.                                                     *)
(***************************************************************************)
Lanes(p) == IF p.agg = "Countif" THEN 1 ELSE p.lanes
Vector(p, copies) ==
  LET o == Pairwise(CombineOp(p), p.t)
      folded == FoldTree(copies, o)
  IN  IF p.agg = "Countif" THEN folded[1] ELSE Narrow(folded, p.lanes, o, p.t)

IsArith(p) == IsProgram(p) /\ p.agg \in {"Arith", "Countif"} /\ p.vector

LEMMA ArithProgram ==
  ASSUME NEW p, IsArith(p)
  PROVE  /\ p.t \in IntTypes /\ CombineOp(p) \in MergeOps /\ CombineOp(p) \in AggOps /\ MergeOp(CombineOp(p)) = CombineOp(p)
         /\ Lanes(p) \in Nat \ {0}
         /\ p.agg = "Arith" => \E e \in Positions : p.lanes = 2 ^ e /\ 2 ^ e >= FewestLanes(p.t)
<1>1. p.t \in IntTypes /\ CombineOp(p) \in MergeOps
  BY DEF IsArith, IsProgram, CombineOp, AggOps, MergeOps
<1>2. CombineOp(p) \in AggOps /\ MergeOp(CombineOp(p)) = CombineOp(p)
  BY <1>1 DEF MergeOps, AggOps, MergeOp
<1>3. PICK e \in Positions : p.lanes = 2 ^ e
  BY DEF IsArith, IsProgram
<1>4. p.lanes \in Nat \ {0}
  BY <1>3, Logarithm
<1>5. p.agg = "Arith" => p.lanes >= FewestLanes(p.t)
  BY DEF IsArith, IsProgram
<1> QED BY <1>1, <1>2, <1>3, <1>4, <1>5 DEF Lanes

\* The shape of the accumulators of the main loop.
Copies(S, m, n) == [1 .. m -> [1 .. n -> S]]

\* The epilogue merges the reduced copies with the accumulator of the remainder.
LEMMA CollapseArithIs ==
  ASSUME NEW p, IsArith(p), NEW m \in 1 .. Modulus("I64"), NEW A \in Copies(Residues(p.t), m, Lanes(p)),
         NEW R \in Residues(p.t)
  PROVE  /\ Vector(p, A) \in Residues(p.t)
         /\ CollapseArith(p, A, R) = ArithInt(CombineOp(p), "No", p.t, Vector(p, A), R)
<1> DEFINE op == CombineOp(p)
           t == p.t
           S == Residues(t)
           n == Lanes(p)
           o == Pairwise(op, t)
           lanes == [z \in S \X S |-> VecArith(Arch(p), op, t, z[1], z[2])]
           F == FoldTree(A, o)
           v == Vector(p, A)
<1>1. /\ t \in IntTypes /\ op \in MergeOps /\ op \in AggOps /\ MergeOp(op) = op /\ n \in Nat \ {0}
      /\ p.agg = "Arith" => \E e \in Positions : p.lanes = 2 ^ e /\ 2 ^ e >= FewestLanes(t)
  BY ArithProgram
<1>2. o \in [S \X S -> S] /\ \A x, y \in S : o[<<x, y>>] = ArithInt(op, "No", t, x, y)
  BY Zenon, <1>1, PairwiseTyped
<1>3. lanes = o
  <2>1. ASSUME NEW z \in S \X S PROVE VecArith(Arch(p), op, t, z[1], z[2]) = VecInstr(op, t, z[1], z[2])
    BY <1>1, VectorInstruction DEF VecInstr
  <2> QED BY <2>1 DEF Pairwise
<1>4. m \in Nat \ {0} /\ m <= Modulus("I64") /\ A \in [1 .. m -> [1 .. n -> S]]
  <2>1. "I64" \in IntTypes
    BY DEF IntTypes
  <2>2. Modulus("I64") \in Nat
    BY <2>1, Widths
  <2>3. A \in [1 .. m -> [1 .. n -> S]]
    BY DEF Copies
  <2> HIDE DEF S, n
  <2> QED BY <2>2, <2>3
<1>5. F \in [1 .. n -> S]
  <2> HIDE DEF o, S, n
  <2>1. IsFoldTree(FoldTree(A, o), A, o, m, n, S)
    BY Zenon, <1>1, <1>2, <1>4, FoldTreeTyped
  <2> QED BY <2>1 DEF IsFoldTree
<1>6. A # <<>>
  BY <1>4
<1>7. /\ v = IF p.agg = "Countif" THEN F[1] ELSE ReduceArith(p, F, p.lanes)
      /\ v \in S
  <2>1. CASE p.agg = "Countif"
    <3>1. v = F[1] /\ n = 1
      BY <2>1 DEF Vector, Lanes
    <3> QED BY <1>5, <2>1, <3>1
  <2>2. CASE p.agg # "Countif"
    <3>1. p.agg = "Arith" /\ n = p.lanes
      BY <2>2 DEF IsArith, Lanes
    <3>2. PICK e \in Positions : p.lanes = 2 ^ e /\ 2 ^ e >= FewestLanes(t)
      BY <1>1, <3>1
    <3>3. v = Narrow(F, 2 ^ e, o, t)
      BY <2>2, <3>2 DEF Vector
    <3>4. F \in [1 .. 2 ^ e -> S]
      BY <1>5, <3>1, <3>2
    <3> HIDE DEF F
    <3>5. ReduceArith(p, F, 2 ^ e) = Narrow(F, 2 ^ e, o, t)
      BY <1>1, <3>2, <3>4, ReduceArithIsNarrow
    <3> DEFINE id == [x \in S |-> x]
    <3>6. Acts(o, id, S)
      BY <1>2 DEF Acts
    <3> HIDE DEF id, o, S
    <3>7. 1 \in 1 .. 2 ^ e
      BY Logarithm
    <3>8. Narrow(F, 2 ^ e, o, t) \in S
      BY <1>1, <3>2, <3>4, <3>6, <3>7, NarrowChanged
    <3> QED BY <2>2, <3>2, <3>3, <3>5, <3>8
  <2> QED BY <2>1, <2>2
<1> DEFINE vector == IF p.agg = "Countif" THEN FoldTree(A, lanes)[1] ELSE ReduceArith(p, FoldTree(A, lanes), p.lanes)
<1>8. vector = v
  BY <1>3, <1>7
<1>9. CollapseArith(p, A, R) = IF t \in {"I8", "I16"} /\ op = "Mul" THEN SmallScalar(op, t, vector, R)
                               ELSE ScalarInstr(op, t, vector, R)
  BY <1>6 DEF CollapseArith
<1> HIDE DEF v, vector
<1>10. CollapseArith(p, A, R) = ArithInt(op, "No", t, v, R)
  <2>1. CASE t \in {"I8", "I16"} /\ op = "Mul"
    <3>1. SmallScalar("Mul", t, v, R) = ArithInt("Mul", "No", t, v, R)
      BY <1>7, <2>1, SmallProduct DEF Small
    <3> QED BY <1>8, <1>9, <2>1, <3>1
  <2>2. CASE ~(t \in {"I8", "I16"} /\ op = "Mul")
    <3>1. ScalarInstr(op, t, v, R) = ArithInt(op, "No", t, v, R)
      BY <1>1, SameUnderFlags
    <3> QED BY <1>8, <1>9, <2>2, <3>1
  <2> QED BY <2>1, <2>2
<1> QED BY <1>7, <1>10 DEF v

\* What a row does to a residue: an operation that may be done to either operand
\* of the combining operator, instead of to its result.
LEMMA RowsAct ==
  ASSUME NEW t \in IntTypes, NEW op \in AggOps, NEW x \in Residues(t), NEW u,
         u = [a \in Residues(t) |-> ArithInt(op, "No", t, x, a)]
  PROVE  Acts(Pairwise(MergeOp(op), t), u, Residues(t))
<1> DEFINE S == Residues(t)
           o == Pairwise(MergeOp(op), t)
<1>1. Lawful(op, t)
  BY OperatorsAreLawful
<1>2. MergeOp(op) \in MergeOps
  BY DEF MergeOp, MergeOps, AggOps
<1>3. o \in [S \X S -> S] /\ \A a, b \in S : o[<<a, b>>] = ArithInt(MergeOp(op), "No", t, a, b)
  BY <1>2, PairwiseTyped
<1>4. u \in [S -> S] /\ \A a \in S : u[a] = ArithInt(op, "No", t, x, a) /\ u[a] \in S
  BY Zenon, <1>1 DEF Lawful
<1>5. ASSUME NEW a \in S, NEW b \in S
      PROVE  o[<<u[a], b>>] = u[o[<<a, b>>]] /\ o[<<a, u[b]>>] = u[o[<<a, b>>]]
  <2>1. o[<<a, b>>] = ArithInt(MergeOp(op), "No", t, a, b) /\ o[<<a, b>>] \in S
    BY <1>3
  <2>2. u[o[<<a, b>>]] = ArithInt(op, "No", t, x, ArithInt(MergeOp(op), "No", t, a, b))
    BY <1>4, <2>1
  <2>3. o[<<u[a], b>>] = ArithInt(MergeOp(op), "No", t, ArithInt(op, "No", t, x, a), b)
    BY <1>3, <1>4
  <2>4. o[<<a, u[b]>>] = ArithInt(MergeOp(op), "No", t, a, ArithInt(op, "No", t, x, b))
    BY <1>3, <1>4
  <2>5. /\ ArithInt(MergeOp(op), "No", t, ArithInt(op, "No", t, x, a), b)
             = ArithInt(op, "No", t, x, ArithInt(MergeOp(op), "No", t, a, b))
        /\ ArithInt(MergeOp(op), "No", t, a, ArithInt(op, "No", t, x, b))
             = ArithInt(op, "No", t, x, ArithInt(MergeOp(op), "No", t, a, b))
    BY <1>1 DEF Lawful
  <2> QED BY <2>2, <2>3, <2>4, <2>5
<1> HIDE DEF o, S
<1>6. Acts(o, u, S)
  BY <1>3, <1>4, <1>5 DEF Acts
<1> QED BY <1>6 DEF o, S

LEMMA NothingActs ==
  ASSUME NEW S, NEW op \in [S \X S -> S], NEW u, u = [a \in S |-> a]
  PROVE  Acts(op, u, S)
BY DEF Acts

\* An accumulator of the main loop that takes a row changes their collapse the
\* way that it changes itself.
LEMMA VectorChanged ==
  ASSUME NEW p, IsArith(p), NEW m \in 1 .. Modulus("I64"), NEW A \in Copies(Residues(p.t), m, Lanes(p)),
         NEW u, Acts(Pairwise(CombineOp(p), p.t), u, Residues(p.t)), NEW a \in 1 .. m, NEW j \in 1 .. Lanes(p)
  PROVE  /\ ChangedAt(A, a, j, u) \in Copies(Residues(p.t), m, Lanes(p))
         /\ Vector(p, A) \in Residues(p.t)
         /\ Vector(p, ChangedAt(A, a, j, u)) = u[Vector(p, A)]
<1> DEFINE t == p.t
           S == Residues(t)
           n == Lanes(p)
           o == Pairwise(CombineOp(p), t)
           F == FoldTree(A, o)
           B == ChangedAt(A, a, j, u)
<1>1. /\ t \in IntTypes /\ n \in Nat \ {0}
      /\ p.agg = "Arith" => \E e \in Positions : p.lanes = 2 ^ e /\ 2 ^ e >= FewestLanes(t)
  BY ArithProgram
<1>2. m \in Nat \ {0} /\ m <= Modulus("I64") /\ A \in [1 .. m -> [1 .. n -> S]] /\ Modulus("I64") \in Nat
  <2>1. "I64" \in IntTypes
    BY DEF IntTypes
  <2>2. Modulus("I64") \in Nat
    BY <2>1, Widths
  <2>3. A \in [1 .. m -> [1 .. n -> S]]
    BY DEF Copies
  <2> HIDE DEF S, n
  <2> QED BY <2>2, <2>3
<1>3. o \in [S \X S -> S] /\ u \in [S -> S] /\ Acts(o, u, S)
  BY DEF Acts
<1>4. a \in 1 .. m /\ j \in 1 .. n
  OBVIOUS
<1> HIDE DEF o, S, n
<1>5. IsChangedAt(ChangedAt(A, a, j, u), A, a, j, u, m, n, S)
  BY Zenon, <1>1, <1>2, <1>3, <1>4, ChangedLanes
<1>6. B \in [1 .. m -> [1 .. n -> S]]
  BY <1>5 DEF IsChangedAt
<1>7. FoldTree(B, o) = Changed(F, j, u)
  <2> SUFFICES FoldTree(ChangedAt(A, a, j, u), o) = Changed(FoldTree(A, o), j, u)
    OBVIOUS
  <2> HIDE DEF F, B, t
  <2>1. m \in Nat \ {0} /\ m <= Modulus("I64") /\ n \in Nat \ {0} /\ A \in [1 .. m -> [1 .. n -> S]]
    BY <1>1, <1>2
  <2> QED BY <1>3, <1>4, <2>1, FoldTreeOnePoint, SMTT(60)
<1>8. F \in [1 .. n -> S]
  <2>1. IsFoldTree(FoldTree(A, o), A, o, m, n, S)
    BY Zenon, <1>1, <1>2, <1>3, FoldTreeTyped
  <2> QED BY <2>1 DEF IsFoldTree
<1>9. CASE p.agg = "Countif"
  <2>1. n = 1 /\ j = 1
    BY <1>4, <1>9 DEF n, Lanes
  <2>2. Vector(p, A) = F[1] /\ Vector(p, B) = FoldTree(B, o)[1]
    BY <1>9 DEF Vector, o
  <2> HIDE DEF F, B
  <2>3. Changed(F, 1, u)[1] = u[F[1]] /\ F[1] \in S
    BY <1>8, <2>1 DEF Changed
  <2>4. Vector(p, B) = u[Vector(p, A)] /\ Vector(p, A) \in S
    BY <1>7, <2>1, <2>2, <2>3
  <2> QED BY <1>6, <2>4 DEF B, Copies, S, n
<1>10. CASE p.agg # "Countif"
  <2>1. p.agg = "Arith" /\ n = p.lanes
    BY <1>10 DEF IsArith, Lanes, n
  <2>2. PICK e \in Positions : p.lanes = 2 ^ e /\ 2 ^ e >= FewestLanes(t)
    BY <1>1, <2>1
  <2>3. Vector(p, A) = Narrow(F, 2 ^ e, o, t) /\ Vector(p, B) = Narrow(FoldTree(B, o), 2 ^ e, o, t)
    BY <1>10, <2>2 DEF Vector, o
  <2>4. F \in [1 .. 2 ^ e -> S] /\ j \in 1 .. 2 ^ e
    BY <1>4, <1>8, <2>1, <2>2
  <2> HIDE DEF F, B
  <2>5. Narrow(F, 2 ^ e, o, t) \in S /\ Narrow(Changed(F, j, u), 2 ^ e, o, t) = u[Narrow(F, 2 ^ e, o, t)]
    BY <1>1, <1>3, <2>2, <2>4, NarrowChanged
  <2>6. Vector(p, B) = u[Vector(p, A)] /\ Vector(p, A) \in S
    BY <1>7, <2>3, <2>5
  <2> QED BY <1>6, <2>6 DEF B, Copies, S, n
<1> QED BY <1>9, <1>10

\* Neutral copies reduce to the neutral element.
LEMMA VectorNeutral ==
  ASSUME NEW p, IsArith(p), NEW m \in 1 .. Modulus("I64"), NEW c \in Residues(p.t),
         Pairwise(CombineOp(p), p.t)[<<c, c>>] = c
  PROVE  /\ Seq1(m, Seq1(Lanes(p), c)) \in Copies(Residues(p.t), m, Lanes(p))
         /\ Vector(p, Seq1(m, Seq1(Lanes(p), c))) = c
<1> DEFINE t == p.t
           S == Residues(t)
           n == Lanes(p)
           o == Pairwise(CombineOp(p), t)
           A == Seq1(m, Seq1(n, c))
           F == FoldTree(A, o)
<1>1. /\ t \in IntTypes /\ n \in Nat \ {0} /\ CombineOp(p) \in MergeOps
      /\ p.agg = "Arith" => \E e \in Positions : p.lanes = 2 ^ e /\ 2 ^ e >= FewestLanes(t)
  BY ArithProgram
<1>2. m \in Nat \ {0} /\ m <= Modulus("I64")
  <2>1. "I64" \in IntTypes
    BY DEF IntTypes
  <2>2. Modulus("I64") \in Nat
    BY <2>1, Widths
  <2> QED BY <2>2
<1>3. o \in [S \X S -> S]
  BY Zenon, <1>1, PairwiseTyped
<1>4. A \in [1 .. m -> [1 .. n -> S]]
  BY DEF Seq1
<1>5. c \in S /\ o[<<c, c>>] = c
  OBVIOUS
<1> HIDE DEF o, S, n
<1>6. F = Seq1(n, c)
  <2>1. IsFoldTree(FoldTree(A, o), A, o, m, n, S)
    BY Zenon, <1>1, <1>2, <1>3, <1>4, FoldTreeTyped
  <2>2. ASSUME NEW l \in 1 .. n PROVE [i \in 1 .. m |-> A[i][l]] = Seq1(m, c)
    BY <2>2 DEF Seq1
  <2>3. Tree(Seq1(m, c), o) = c
    BY <1>2, <1>3, <1>5, TreeNeutral
  <2>4. F \in [1 .. n -> S] /\ \A l \in 1 .. n : F[l] = Tree([i \in 1 .. m |-> A[i][l]], o)
    BY <2>1 DEF IsFoldTree
  <2> HIDE DEF F, A
  <2>5. \A l \in 1 .. n : F[l] = c
    BY <2>2, <2>3, <2>4
  <2> QED BY <2>4, <2>5 DEF Seq1
<1>7. CASE p.agg = "Countif"
  <2>1. n = 1
    BY <1>7 DEF n, Lanes
  <2>2. Vector(p, A) = F[1]
    BY <1>7 DEF Vector, o
  <2>3. Seq1(n, c)[1] = c
    BY <2>1 DEF Seq1
  <2> HIDE DEF F, A
  <2>4. Vector(p, A) = c
    BY <1>6, <2>2, <2>3
  <2> QED BY <1>4, <2>4 DEF A, n, S, Copies
<1>8. CASE p.agg # "Countif"
  <2>1. p.agg = "Arith" /\ n = p.lanes
    BY <1>8 DEF IsArith, Lanes, n
  <2>2. PICK e \in Positions : p.lanes = 2 ^ e /\ 2 ^ e >= FewestLanes(t)
    BY <1>1, <2>1
  <2>3. Vector(p, A) = Narrow(F, 2 ^ e, o, t)
    BY <1>8, <2>2 DEF Vector, o
  <2>4. t \in IntTypes /\ 2 ^ e >= FewestLanes(t)
    BY <1>1, <2>2
  <2> HIDE DEF F, A, t
  <2>6. Narrow(Seq1(2 ^ e, c), 2 ^ e, o, t) = c
    BY <1>3, <1>5, <2>4, NarrowNeutral, SMTT(30)
  <2>5. Vector(p, A) = c
    BY <1>6, <2>1, <2>2, <2>3, <2>6
  <2> QED BY <1>4, <2>5 DEF A, t, n, S, Copies
<1> QED BY <1>7, <1>8

\* The instance of the abstract specification has the same operations.
LEMMA SameHelpers ==
  /\ \A op, x, y : Rows!Logic(op, x, y) = Logic(op, x, y)
  /\ \A b : Rows!Bool(b) = Bool(b)
  /\ \A n, t : Rows!Wrap(n, t) = Wrap(n, t) /\ Rows!Signed(n, t) = Signed(n, t)
  /\ \A t : Rows!IntMin(t) = IntMin(t) /\ Rows!AllOnes(t) = AllOnes(t) /\ Rows!Modulus(t) = Modulus(t)
  /\ \A S, t : Rows!FromBits(S, t) = FromBits(S, t) /\ Rows!BitsOf(S, t) = BitsOf(S, t)
<1>1. \A t : /\ Rows!IntMin(t) = IntMin(t) /\ Rows!AllOnes(t) = AllOnes(t) /\ Rows!Modulus(t) = Modulus(t)
  BY Zenon DEF Rows!IntMin, Rows!AllOnes, Rows!Modulus, Rows!Width, Rows!Size, IntMin, AllOnes, Modulus, Width, Size
<1>2. \A n, t : Rows!Wrap(n, t) = Wrap(n, t) /\ Rows!Signed(n, t) = Signed(n, t)
  BY <1>1 DEF Rows!Wrap, Rows!Signed, Wrap, Signed
<1>3. \A op, x, y : Rows!Logic(op, x, y) = Logic(op, x, y)
  BY Zenon DEF Rows!Logic, Logic
<1>4. \A b : Rows!Bool(b) = Bool(b)
  BY Zenon DEF Rows!Bool, Bool
<1>5. \A S, t : Rows!FromBits(S, t) = FromBits(S, t)
  BY Zenon DEF Rows!FromBits, FromBits, Rows!Width, Rows!Size, Width, Size
<1>6. \A n, t : Rows!BitsOf(n, t) = BitsOf(n, t)
  BY Zenon DEF Rows!BitsOf, Rows!Bit, BitsOf, Bit, Rows!Width, Rows!Size, Width, Size
<1> QED BY Zenon, <1>1, <1>2, <1>3, <1>4, <1>5, <1>6

\* The abstract specification computes with the same operators.
LEMMA SameOperations ==
  ASSUME NEW op \in AggOps, NEW t, NEW x, NEW y
  PROVE  Rows!ArithInt(op, "No", t, x, y) = ArithInt(op, "No", t, x, y)
<1>1. CASE op = "Add"
  <2>1. Rows!ArithInt("Add", "No", t, x, y) = Rows!Wrap(x + y, t)
    BY DEF Rows!ArithInt, Rows!ShiftOps
  <2>2. ArithInt("Add", "No", t, x, y) = Wrap(x + y, t)
    BY DEF ArithInt, ShiftOps
  <2> QED BY Zenon, <1>1, <2>1, <2>2, SameHelpers
<1>2. CASE op = "Mul"
  <2>1. Rows!ArithInt("Mul", "No", t, x, y) = Rows!Wrap(Rows!Signed(x, t) * Rows!Signed(y, t), t)
    BY DEF Rows!ArithInt, Rows!ShiftOps
  <2>2. ArithInt("Mul", "No", t, x, y) = Wrap(Signed(x, t) * Signed(y, t), t)
    BY DEF ArithInt, ShiftOps
  <2> QED BY Zenon, <1>2, <2>1, <2>2, SameHelpers
<1>3. CASE op = "Min"
  <2>1. Rows!ArithInt("Min", "No", t, x, y) = IF Rows!Signed(x, t) <= Rows!Signed(y, t) THEN x ELSE y
    BY DEF Rows!ArithInt, Rows!ShiftOps
  <2>2. ArithInt("Min", "No", t, x, y) = IF Signed(x, t) <= Signed(y, t) THEN x ELSE y
    BY DEF ArithInt, ShiftOps
  <2> QED BY Zenon, <1>3, <2>1, <2>2, SameHelpers
<1>4. CASE op = "Max"
  <2>1. Rows!ArithInt("Max", "No", t, x, y) = IF Rows!Signed(x, t) >= Rows!Signed(y, t) THEN x ELSE y
    BY DEF Rows!ArithInt, Rows!ShiftOps
  <2>2. ArithInt("Max", "No", t, x, y) = IF Signed(x, t) >= Signed(y, t) THEN x ELSE y
    BY DEF ArithInt, ShiftOps
  <2> QED BY Zenon, <1>4, <2>1, <2>2, SameHelpers
<1>5. CASE op = "UMin"
  <2>1. Rows!ArithInt("UMin", "No", t, x, y) = IF x <= y THEN x ELSE y
    BY DEF Rows!ArithInt, Rows!ShiftOps
  <2>2. ArithInt("UMin", "No", t, x, y) = IF x <= y THEN x ELSE y
    BY DEF ArithInt, ShiftOps
  <2> QED BY Zenon, <1>5, <2>1, <2>2, SameHelpers
<1>6. CASE op = "UMax"
  <2>1. Rows!ArithInt("UMax", "No", t, x, y) = IF x >= y THEN x ELSE y
    BY DEF Rows!ArithInt, Rows!ShiftOps
  <2>2. ArithInt("UMax", "No", t, x, y) = IF x >= y THEN x ELSE y
    BY DEF ArithInt, ShiftOps
  <2> QED BY Zenon, <1>6, <2>1, <2>2, SameHelpers
<1>7. CASE op = "And"
  <2>1. Rows!ArithInt("And", "No", t, x, y) = Rows!FromBits(Rows!BitsOf(x, t) \intersect Rows!BitsOf(y, t), t)
    BY DEF Rows!ArithInt, Rows!ShiftOps
  <2>2. ArithInt("And", "No", t, x, y) = FromBits(BitsOf(x, t) \intersect BitsOf(y, t), t)
    BY DEF ArithInt, ShiftOps
  <2> QED BY Zenon, <1>7, <2>1, <2>2, SameHelpers
<1>8. CASE op = "Or"
  <2>1. Rows!ArithInt("Or", "No", t, x, y) = Rows!FromBits(Rows!BitsOf(x, t) \union Rows!BitsOf(y, t), t)
    BY DEF Rows!ArithInt, Rows!ShiftOps
  <2>2. ArithInt("Or", "No", t, x, y) = FromBits(BitsOf(x, t) \union BitsOf(y, t), t)
    BY DEF ArithInt, ShiftOps
  <2> QED BY Zenon, <1>8, <2>1, <2>2, SameHelpers
<1>9. CASE op = "Xor"
  <2>1. Rows!ArithInt("Xor", "No", t, x, y) = Rows!FromBits((Rows!BitsOf(x, t) \union Rows!BitsOf(y, t)) \ (Rows!BitsOf(x, t) \intersect Rows!BitsOf(y, t)), t)
    BY DEF Rows!ArithInt, Rows!ShiftOps
  <2>2. ArithInt("Xor", "No", t, x, y) = FromBits((BitsOf(x, t) \union BitsOf(y, t)) \ (BitsOf(x, t) \intersect BitsOf(y, t)), t)
    BY DEF ArithInt, ShiftOps
  <2> QED BY Zenon, <1>9, <2>1, <2>2, SameHelpers
<1>10. CASE op = "AndNot"
  <2>1. Rows!ArithInt("AndNot", "No", t, x, y) = Rows!FromBits(Rows!BitsOf(y, t) \ Rows!BitsOf(x, t), t)
    BY DEF Rows!ArithInt, Rows!ShiftOps
  <2>2. ArithInt("AndNot", "No", t, x, y) = FromBits(BitsOf(y, t) \ BitsOf(x, t), t)
    BY DEF ArithInt, ShiftOps
  <2> QED BY Zenon, <1>10, <2>1, <2>2, SameHelpers
<1> QED BY <1>1, <1>2, <1>3, <1>4, <1>5, <1>6, <1>7, <1>8, <1>9, <1>10 DEF AggOps

\* A row enters an accumulator, in a lane or a scalar, by the function of the abstract fold.
LEMMA ArithRow ==
  ASSUME NEW p, IsProgram(p), p.agg = "Arith", NEW row \in TableRow(p),
         NEW u, u = [a \in Residues(p.t) |-> Rows!Fold(p, a, row)]
  PROVE  /\ Acts(Pairwise(CombineOp(p), p.t), u, Residues(p.t))
         /\ \A a \in Residues(p.t) : u[a] = Rows!Fold(p, a, row) /\ VecLane(p, a, row) = u[a] /\ ScalarStep(p, a, row) = u[a]
<1> DEFINE t == p.t
           op == p.op
           x == row.x
           S == Residues(t)
           idle == p.cond /\ ~row.active
           v(a) == ArithInt(op, "No", t, x, a)
<1>1. /\ op \in AggOps /\ t \in IntTypes /\ ~(p.cond /\ t = "I8" /\ op = "Mul") /\ p.cond \in BOOLEAN
      /\ CombineOp(p) = MergeOp(op)
  BY DEF IsProgram, CombineOp, MergeOp
<1>2. x \in S /\ row.active \in BOOLEAN /\ (~p.cond => row.active)
  BY Zenon, <1>1 DEF TableRow, Residues
<1>3. Lawful(op, t)
  BY <1>1, OperatorsAreLawful
<1>4. ASSUME NEW a \in S
      PROVE  /\ Rows!Fold(p, a, row) = IF idle THEN a ELSE v(a)
             /\ VecLane(p, a, row) = IF idle THEN a ELSE v(a)
             /\ ScalarStep(p, a, row) = IF idle THEN a ELSE v(a)
  <2> DEFINE o == Ordered(p, a, x)
  <2>1. o[1] \in S /\ o[2] \in S
    BY <1>2, <1>4 DEF Ordered
  <2>2. ArithInt(op, "No", t, o[1], o[2]) = v(a)
    <3>1. CASE op = "AndNot"
      BY <3>1 DEF Ordered
    <3>2. CASE op # "AndNot"
      <4>1. o[1] = a /\ o[2] = x
        BY <3>2 DEF Ordered
      <4>2. ArithInt(op, "No", t, a, x) = ArithInt(op, "No", t, x, a)
        BY <1>2, <1>3, <1>4, <3>2 DEF Lawful
      <4> QED BY <4>1, <4>2
    <3> QED BY <3>1, <3>2
  <2>3. VecArith(Arch(p), op, t, o[1], o[2]) = v(a)
    <3> HIDE DEF o, S, v
    <3>1. VecArith(Arch(p), op, t, o[1], o[2]) = ArithInt(op, "No", t, o[1], o[2])
      BY <1>1, <2>1, VectorInstruction DEF S
    <3> QED BY <2>2, <3>1
  <2>4. ScalarInstr(op, t, o[1], o[2]) = v(a)
    BY <1>1, <2>2, SameUnderFlags
  <2>5. Rows!Fold(p, a, row) = IF idle THEN a ELSE v(a)
    BY <1>1, <1>2, SameOperations DEF Rows!Fold
  <2>6. VecLane(p, a, row) = IF idle THEN a ELSE v(a)
    BY <2>3 DEF VecLane
  <2>7. ScalarStep(p, a, row) = IF idle THEN a ELSE v(a)
    <3>1. CASE t = "I8" /\ op = "Mul"
      <4>1. ~idle
        BY <1>1, <1>2, <3>1
      <4>2. SmallScalar("Mul", t, o[1], o[2]) = ArithInt("Mul", "No", t, o[1], o[2])
        BY <2>1, <3>1, SmallProduct DEF Small
      <4>3. ScalarStep(p, a, row) = SmallScalar(op, t, o[1], o[2])
        BY <3>1 DEF ScalarStep
      <4> QED BY <2>2, <3>1, <4>1, <4>2, <4>3
    <3>2. CASE ~(t = "I8" /\ op = "Mul")
      BY <2>4, <3>2 DEF ScalarStep
    <3> QED BY <3>1, <3>2
  <2> QED BY <2>5, <2>6, <2>7
<1>5. \A a \in S : u[a] = IF idle THEN a ELSE v(a)
  BY <1>4
<1>6. Acts(Pairwise(CombineOp(p), t), u, S)
  <2>1. CASE idle
    <3>1. u = [a \in S |-> a]
      BY <1>4, <2>1
    <3>2. Pairwise(CombineOp(p), t) \in [S \X S -> S]
      <4>1. CombineOp(p) \in MergeOps
        BY <1>1 DEF MergeOp, MergeOps, AggOps
      <4> QED BY <1>1, <4>1, PairwiseTyped
    <3> HIDE DEF S
    <3> QED BY Zenon, <3>1, <3>2, NothingActs
  <2>2. CASE ~idle
    <3>1. u = [a \in S |-> v(a)]
      BY <1>4, <2>2
    <3>2. Acts(Pairwise(MergeOp(op), t), u, Residues(t))
      BY <1>1, <1>2, <3>1, RowsAct
    <3> QED BY <1>1, <3>2
  <2> QED BY <2>1, <2>2
<1> QED BY <1>4, <1>5, <1>6

\* Counting k more commutes with merging counts.
LEMMA CountActs ==
  ASSUME NEW t \in IntTypes, NEW k \in Nat, NEW u, u = [a \in Residues(t) |-> Wrap(a + k, t)]
  PROVE  Acts(Pairwise("Add", t), u, Residues(t))
<1> DEFINE S == Residues(t)
           m == Modulus(t)
           x == k % m
<1>1. m \in Nat \ {0} /\ S = 0 .. m - 1
  BY Widths
<1>2. x \in S
  <2> HIDE DEF m
  <2> QED BY <1>1, Divides
<1>3. ASSUME NEW a \in S PROVE Wrap(a + k, t) = ArithInt("Add", "No", t, x, a)
  <2>1. a \in Int /\ x \in Int
    BY <1>1, <1>2
  <2>2. ArithInt("Add", "No", t, x, a) = (x + a) % m
    BY SumsAndProducts
  <2>3. Wrap(a + k, t) = (a + k) % m
    BY DEF Wrap
  <2>4. (a + k) % m = (x + a) % m
    <3> HIDE DEF m, x, S
    <3>1. (k + a) % m = (x + a) % m
      <4>1. k \in Int /\ a \in Int /\ m \in Nat \ {0}
        BY <1>1, <2>1
      <4>2. ((k % m) + a) % m = (k + a) % m
        BY Zenon, <4>1, ModSums
      <4> QED BY <4>2 DEF x
    <3>2. k + a = a + k
      BY <2>1
    <3> QED BY <3>1, <3>2
  <2> QED BY <2>2, <2>3, <2>4
<1>4. u = [a \in S |-> ArithInt("Add", "No", t, x, a)]
  BY <1>3
<1>5. "Add" \in AggOps /\ MergeOp("Add") = "Add"
  BY DEF AggOps, MergeOp
<1>6. Acts(Pairwise(MergeOp("Add"), t), u, Residues(t))
  BY <1>2, <1>4, <1>5, RowsAct
<1> QED BY <1>5, <1>6

\* Whichever accumulator u is applied to, u is applied to the collapse.
LEMMA CollapseChanged ==
  ASSUME NEW p, IsArith(p), NEW m \in 1 .. Modulus("I64"), NEW A \in Copies(Residues(p.t), m, Lanes(p)),
         NEW R \in Residues(p.t), NEW u, Acts(Pairwise(CombineOp(p), p.t), u, Residues(p.t))
  PROVE  /\ CollapseArith(p, A, R) \in Residues(p.t)
         /\ CollapseArith(p, A, u[R]) = u[CollapseArith(p, A, R)]
         /\ \A a \in 1 .. m, j \in 1 .. Lanes(p) :
              /\ ChangedAt(A, a, j, u) \in Copies(Residues(p.t), m, Lanes(p))
              /\ CollapseArith(p, ChangedAt(A, a, j, u), R) = u[CollapseArith(p, A, R)]
<1> DEFINE t == p.t
           S == Residues(t)
           op == CombineOp(p)
           o == Pairwise(op, t)
           v == Vector(p, A)
<1>1. t \in IntTypes /\ op \in MergeOps
  BY ArithProgram
<1>2. \A x, y \in S : o[<<x, y>>] = ArithInt(op, "No", t, x, y)
  BY Zenon, <1>1, PairwiseTyped
<1>3. /\ o \in [S \X S -> S] /\ u \in [S -> S]
      /\ \A x, y \in S : o[<<u[x], y>>] = u[o[<<x, y>>]] /\ o[<<x, u[y]>>] = u[o[<<x, y>>]]
  BY DEF Acts
<1>4. v \in S /\ CollapseArith(p, A, R) = o[<<v, R>>] /\ o[<<v, R>>] \in S
  BY Zenon, <1>2, <1>3, CollapseArithIs
<1>5. CollapseArith(p, A, u[R]) = u[CollapseArith(p, A, R)]
  <2>1. u[R] \in S
    BY <1>3
  <2>2. CollapseArith(p, A, u[R]) = o[<<v, u[R]>>]
    BY <1>2, <1>4, <2>1, CollapseArithIs
  <2> QED BY Zenon, <1>3, <1>4, <2>2
<1>6. ASSUME NEW a \in 1 .. m, NEW j \in 1 .. Lanes(p)
      PROVE  /\ ChangedAt(A, a, j, u) \in Copies(S, m, Lanes(p))
             /\ CollapseArith(p, ChangedAt(A, a, j, u), R) = u[CollapseArith(p, A, R)]
  <2> DEFINE B == ChangedAt(A, a, j, u)
  <2>1. B \in Copies(S, m, Lanes(p)) /\ Vector(p, B) = u[v]
    BY VectorChanged
  <2>2. u[v] \in S
    BY <1>3, <1>4
  <2> HIDE DEF B
  <2>3. CollapseArith(p, B, R) = ArithInt(op, "No", t, Vector(p, B), R)
    BY <2>1, CollapseArithIs
  <2>4. CollapseArith(p, B, R) = o[<<u[v], R>>]
    BY <1>2, <2>1, <2>2, <2>3
  <2>5. o[<<u[v], R>>] = u[o[<<v, R>>]]
    BY Zenon, <1>3, <1>4
  <2> QED BY <1>4, <2>1, <2>4, <2>5 DEF B
<1> QED BY <1>4, <1>5, <1>6

\* The start values of accumulators are neutral for their operators.
LEMMA ArithNeutral ==
  ASSUME NEW p, IsProgram(p), p.agg \in {"Arith", "Countif"}
  PROVE  /\ p.t \in IntTypes /\ CombineOp(p) \in AggOps /\ MergeOp(CombineOp(p)) = CombineOp(p)
         /\ AggInit(p) = Rows!Neutral(p) /\ AggInit(p) \in Residues(p.t)
         /\ ArithInt(CombineOp(p), "No", p.t, AggInit(p), AggInit(p)) = AggInit(p)
<1> DEFINE t == p.t
           S == Residues(t)
           op == IF p.agg = "Countif" THEN "Add" ELSE p.op
           c == AggInit(p)
           h == Half(t)
<1>1. t \in IntTypes /\ CombineOp(p) \in MergeOps /\ op \in AggOps /\ MergeOp(op) = CombineOp(p)
  BY DEF IsProgram, AggOps, CombineOp, MergeOp, MergeOps
<1>0. CombineOp(p) \in AggOps /\ MergeOp(CombineOp(p)) = CombineOp(p)
  BY <1>1 DEF MergeOps, AggOps, MergeOp
<1>2. Lawful(op, t)
  BY <1>1, OperatorsAreLawful
<1>3. c = StartOf(op, t)
  BY DEF AggInit, StartOf, AggOps, IsProgram
<1>4. c = Rows!Neutral(p)
  <2>1. h \in Nat \ {0} /\ Modulus(t) = 2 * h /\ AllOnes(t) = 2 * h - 1 /\ IntMin(t) = -h
    BY Zenon, <1>1, Widths
  <2> HIDE DEF h
  <2>2. AllOnes(t) \div 2 = -IntMin(t) - 1 /\ Modulus(t) \div 2 = h
    BY <2>1
  <2>6. /\ Rows!AllOnes(t) = AllOnes(t) /\ Rows!IntMin(t) = IntMin(t)
        /\ Rows!Wrap(Rows!IntMin(t), t) = Wrap(IntMin(t), t)
    BY Zenon, SameHelpers
  <2>3. Wrap(IntMin(t), t) = h
    <3>1. (-h) % (2 * h) = h
      <4> DEFINE M == 2 * h
      <4>1. h \in 0 .. M - 1 /\ -h = M * (-1) + h /\ M \in Nat \ {0} /\ -h \in Int
        BY <2>1
      <4> HIDE DEF M
      <4>2. (-h) % M = h
        BY <4>1, QuotientIsUnique
      <4> QED BY <4>2 DEF M
    <3> QED BY <2>1, <3>1 DEF Wrap
  <2>4. CASE p.agg = "Countif"
    BY <2>4 DEF AggInit, Rows!Neutral
  <2>5. CASE p.agg = "Arith"
    <3>1. p.op \in AggOps
      BY <1>1, <2>5
    <3> HIDE DEF t
    <3>2. /\ p.t = t /\ p.agg = "Arith" /\ p.agg \notin {"Countif", "Predicate", "Sum128", "Pack"}
      BY <2>5 DEF t
    <3>3. CASE p.op \in {"Min", "Max"}
      BY <2>2, <2>3, <2>6, <3>2, <3>3 DEF AggInit, Rows!Neutral
    <3>4. CASE p.op \notin {"Min", "Max"}
      BY <2>6, <3>1, <3>2, <3>4 DEF AggInit, Rows!Neutral, AggOps
    <3> QED BY <3>3, <3>4
  <2> QED BY <2>4, <2>5
<1>5. c \in S /\ ArithInt(CombineOp(p), "No", t, c, c) = c
  BY <1>1, <1>2, <1>3 DEF Lawful
<1> QED BY <1>0, <1>1, <1>4, <1>5

\* Accumulators start neutral, so that their collapse is the value of no rows.
LEMMA CollapseNeutral ==
  ASSUME NEW p, IsArith(p), NEW m \in 1 .. Modulus("I64")
  PROVE  /\ AggInit(p) = Rows!Neutral(p) /\ AggInit(p) \in Residues(p.t)
         /\ Seq1(m, Seq1(Lanes(p), AggInit(p))) \in Copies(Residues(p.t), m, Lanes(p))
         /\ CollapseArith(p, Seq1(m, Seq1(Lanes(p), AggInit(p))), AggInit(p)) = Rows!Neutral(p)
<1> DEFINE t == p.t
           S == Residues(t)
           c == AggInit(p)
<1>1. /\ t \in IntTypes /\ CombineOp(p) \in AggOps /\ MergeOp(CombineOp(p)) = CombineOp(p)
      /\ CombineOp(p) \in MergeOps
  BY ArithProgram
<1>4. c = Rows!Neutral(p)
  BY ArithNeutral DEF IsArith
<1>5. c \in S /\ ArithInt(CombineOp(p), "No", t, c, c) = c
  BY ArithNeutral DEF IsArith
<1>6. Pairwise(CombineOp(p), t)[<<c, c>>] = c
  BY Zenon, <1>1, <1>5, PairwiseTyped
<1> DEFINE A == Seq1(m, Seq1(Lanes(p), c))
<1> HIDE DEF c
<1>7. A \in Copies(S, m, Lanes(p)) /\ Vector(p, A) = c
  BY <1>5, <1>6, VectorNeutral
<1> HIDE DEF A
<1>8. CollapseArith(p, A, c) = ArithInt(CombineOp(p), "No", t, Vector(p, A), c)
  BY <1>5, <1>7, CollapseArithIs
<1> QED BY <1>4, <1>5, <1>7, <1>8 DEF A, c

(***************************************************************************)
(* collapse_predicate_accs.                                                 *)
(***************************************************************************)
Truth == {0, 1}
BitOp(op) == [z \in Truth \X Truth |-> Bool(Logic(op, z[1] = 1, z[2] = 1))]

LEMMA BitsOfOne ==
  /\ 0 \in Residues("I8") /\ 1 \in Residues("I8") /\ "I8" \in IntTypes
  /\ BitsOf(0, "I8") = {} /\ BitsOf(1, "I8") = {0} /\ FromBits({}, "I8") = 0 /\ FromBits({0}, "I8") = 1
<1> DEFINE w == Width("I8")
<1>0. "I8" \in IntTypes
  BY DEF IntTypes
<1>1. w \in 1 .. 8 * Byte /\ 8 * Byte \in Nat
  BY <1>0, Widths
<1>2. Modulus("I8") = 2 * Half("I8") /\ Half("I8") \in Nat \ {0} /\ Residues("I8") = 0 .. Modulus("I8") - 1
  BY <1>0, Widths
<1>3. 0 \in Residues("I8") /\ 1 \in Residues("I8")
  BY <1>2
<1>4. BitsOf(0, "I8") = {}
  BY <1>0, AllBits
<1>5. ASSUME NEW k \in 0 .. w - 1 PROVE Bit(1, k) = IF k = 0 THEN 1 ELSE 0
  <2> DEFINE d == 2 ^ k
  <2>1. k \in Nat /\ k <= 8 * Byte /\ k \in 0 .. 8 * Byte /\ 0 \in 0 .. 8 * Byte
    BY <1>1
  <2>2. d \in Nat \ {0}
    BY <2>1, Powers
  <2>3. k = 0 => d = 1
    <3>1. 2 ^ 0 = 1
      BY <2>1, Powers
    <3>2. k = 0 => 2 ^ k = 2 ^ 0
      BY Zenon
    <3> QED BY <3>1, <3>2
  <2>4. k > 0 => d >= 2
    <3> SUFFICES ASSUME k > 0 PROVE d >= 2
      OBVIOUS
    <3>1. k - 1 \in 0 .. 8 * Byte /\ (k - 1) + 1 = k
      <4> HIDE DEF d
      <4> QED BY <1>1, <2>1
    <3>2. 2 ^ (k - 1) \in Nat \ {0} /\ 2 ^ ((k - 1) + 1) = 2 * 2 ^ (k - 1)
      BY <3>1, Powers
    <3> QED BY <3>1, <3>2
  <2>5. Bit(1, k) = (1 \div d) % 2
    BY DEF Bit
  <2> HIDE DEF d
  <2>6. CASE k = 0
    BY <2>3, <2>5, <2>6
  <2>7. CASE k > 0
    <3>1. 1 = d * 0 + 1 /\ 1 \in 0 .. d - 1
      BY <2>2, <2>4, <2>7
    <3>2. 1 \div d = 0
      BY <2>2, <3>1, QuotientIsUnique
    <3> QED BY <2>5, <2>7, <3>2
  <2> QED BY <2>1, <2>6, <2>7
<1>6. BitsOf(1, "I8") = {0}
  BY <1>1, <1>5 DEF BitsOf
<1>7. FromBits({}, "I8") = 0 /\ FromBits({0}, "I8") = 1
  <2>1. FromBits(BitsOf(0, "I8"), "I8") = 0 /\ FromBits(BitsOf(1, "I8"), "I8") = 1
    BY <1>0, <1>3, SumOfBitsOf
  <2> QED BY <1>4, <1>6, <2>1
<1> QED BY <1>0, <1>3, <1>4, <1>6, <1>7

LEMMA BitInstruction ==
  ASSUME NEW op \in {"And", "Or", "Xor"}, NEW a \in Truth, NEW b \in Truth
  PROVE  VecInstr(op, "I8", a, b) = Bool(Logic(op, a = 1, b = 1))
<1> DEFINE B(v) == IF v = 1 THEN {0} ELSE {}
<1>1. BitsOf(a, "I8") = B(a) /\ BitsOf(b, "I8") = B(b)
  BY BitsOfOne DEF Truth
<1>2. FromBits({}, "I8") = 0 /\ FromBits({0}, "I8") = 1
  BY BitsOfOne
<1>3. CASE op = "And"
  <2>1. VecInstr("And", "I8", a, b) = FromBits(B(a) \intersect B(b), "I8")
    BY <1>1, Masks DEF VecInstr
  <2>2. B(a) \intersect B(b) = IF a = 1 /\ b = 1 THEN {0} ELSE {}
    OBVIOUS
  <2>3. Logic("And", a = 1, b = 1) <=> a = 1 /\ b = 1
    BY DEF Logic
  <2> QED BY <1>2, <1>3, <2>1, <2>2, <2>3 DEF Bool
<1>4. CASE op = "Or"
  <2>1. VecInstr("Or", "I8", a, b) = FromBits(B(a) \union B(b), "I8")
    BY <1>1, Masks DEF VecInstr
  <2>2. B(a) \union B(b) = IF a = 1 \/ b = 1 THEN {0} ELSE {}
    OBVIOUS
  <2>3. Logic("Or", a = 1, b = 1) <=> a = 1 \/ b = 1
    BY DEF Logic
  <2> QED BY <1>2, <1>4, <2>1, <2>2, <2>3 DEF Bool
<1>5. CASE op = "Xor"
  <2>1. VecInstr("Xor", "I8", a, b) = FromBits((B(a) \union B(b)) \ (B(a) \intersect B(b)), "I8")
    BY <1>1, Masks DEF VecInstr
  <2>2. (B(a) \union B(b)) \ (B(a) \intersect B(b)) = IF (a = 1) # (b = 1) THEN {0} ELSE {}
    BY DEF Truth
  <2>3. Logic("Xor", a = 1, b = 1) <=> (a = 1) # (b = 1)
    BY DEF Logic
  <2> QED BY <1>2, <1>5, <2>1, <2>2, <2>3 DEF Bool
<1> QED BY <1>3, <1>4, <1>5

\* A row of a predicate keeps an accumulator, or sets, clears or negates it.
RowBit(op, x) == [a \in Truth |-> Bool(Logic(op, x = 1, a = 1))]

LEMMA PredicateRow ==
  ASSUME NEW op \in PredicateAggOps, NEW x \in Truth, NEW u, u = RowBit(op, x)
  PROVE  /\ op = "And" => u = [a \in Truth |-> IF x = 1 THEN a ELSE 0]
         /\ op = "AndNot" => u = [a \in Truth |-> IF x = 1 THEN 0 ELSE a]
         /\ op = "Or" => u = [a \in Truth |-> IF x = 1 THEN 1 ELSE a]
         /\ op = "Xor" => u = [a \in Truth |-> IF x = 1 THEN 1 - a ELSE a]
<1>1. \A a \in Truth : Bool(Logic("And", x = 1, a = 1)) = IF x = 1 THEN a ELSE 0
  BY DEF Bool, Logic, Truth
<1>2. \A a \in Truth : Bool(Logic("AndNot", x = 1, a = 1)) = IF x = 1 THEN 0 ELSE a
  BY DEF Bool, Logic, Truth
<1>3. \A a \in Truth : Bool(Logic("Or", x = 1, a = 1)) = IF x = 1 THEN 1 ELSE a
  BY DEF Bool, Logic, Truth
<1>4. \A a \in Truth : Bool(Logic("Xor", x = 1, a = 1)) = IF x = 1 THEN 1 - a ELSE a
  <2> SUFFICES ASSUME NEW a \in Truth PROVE Bool(Logic("Xor", x = 1, a = 1)) = IF x = 1 THEN 1 - a ELSE a
    OBVIOUS
  <2>1. Logic("Xor", x = 1, a = 1) <=> (x = 1) # (a = 1)
    BY DEF Logic
  <2> QED BY <2>1 DEF Bool, Truth
<1> QED BY <1>1, <1>2, <1>3, <1>4 DEF RowBit

MergeBit(op) == IF op = "AndNot" THEN "And" ELSE op

\* A row of a predicate commutes with merging masks.
LEMMA PredicateActs ==
  ASSUME NEW op \in PredicateAggOps, NEW x \in Truth, NEW u, u = RowBit(op, x)
  PROVE  Acts(BitOp(MergeBit(op)), u, Truth) /\ MergeBit(op) \in {"And", "Or", "Xor"}
<1> DEFINE o == BitOp(MergeBit(op))
<1>1. MergeBit(op) \in {"And", "Or", "Xor"}
  BY DEF MergeBit, PredicateAggOps
<1>2. o \in [Truth \X Truth -> Truth] /\ \A a, b \in Truth : o[<<a, b>>] = Bool(Logic(MergeBit(op), a = 1, b = 1))
  BY DEF BitOp, Bool, Truth
<1>3. u \in [Truth -> Truth]
  BY DEF Bool, Truth, RowBit
<1> HIDE DEF o
<1>4. ASSUME NEW a \in Truth, NEW b \in Truth
      PROVE  o[<<u[a], b>>] = u[o[<<a, b>>]] /\ o[<<a, u[b]>>] = u[o[<<a, b>>]]
  <2>1. u[a] \in Truth /\ u[b] \in Truth /\ o[<<a, b>>] \in Truth
    BY <1>2, <1>3
  <2>2. CASE op \in {"And", "AndNot"}
    <3>1. \A y, z \in Truth : o[<<y, z>>] = IF y = 1 THEN z ELSE 0
      BY Zenon, <1>2, <2>2 DEF MergeBit, Bool, Logic, Truth
    <3>2. u \in {[y \in Truth |-> y], [y \in Truth |-> 0]}
      BY <2>2, PredicateRow DEF Truth
    <3>3. CASE u = [y \in Truth |-> y]
      BY <2>1, <3>3
    <3>4. CASE u = [y \in Truth |-> 0]
      BY <2>1, <3>1, <3>4 DEF Truth
    <3> QED BY <3>2, <3>3, <3>4
  <2>3. CASE op = "Or"
    <3>1. \A y, z \in Truth : o[<<y, z>>] = IF y = 1 THEN 1 ELSE z
      BY <1>2, <2>3 DEF MergeBit, Bool, Logic, Truth
    <3>2. u \in {[y \in Truth |-> y], [y \in Truth |-> 1]}
      BY <2>3, PredicateRow DEF Truth
    <3>3. CASE u = [y \in Truth |-> y]
      BY <2>1, <3>3
    <3>4. CASE u = [y \in Truth |-> 1]
      BY <2>1, <3>1, <3>4 DEF Truth
    <3> QED BY <3>2, <3>3, <3>4
  <2>4. CASE op = "Xor"
    <3>1. \A y, z \in Truth : o[<<y, z>>] = IF y = 1 THEN 1 - z ELSE z
      BY <1>2, <2>4 DEF MergeBit, Bool, Logic, Truth
    <3>2. u \in {[y \in Truth |-> y], [y \in Truth |-> 1 - y]}
      BY <2>4, PredicateRow DEF Truth
    <3>3. CASE u = [y \in Truth |-> y]
      BY <2>1, <3>3
    <3>4. CASE u = [y \in Truth |-> 1 - y]
      BY <2>1, <3>1, <3>4 DEF Truth
    <3> QED BY <3>2, <3>3, <3>4
  <2> QED BY <2>2, <2>3, <2>4 DEF PredicateAggOps
<1> QED BY <1>1, <1>2, <1>3, <1>4 DEF Acts, o

\* mask_reduce.
Ones(F) == {l \in DOMAIN F : F[l] = 1}
MaskReduce(op, F) ==
  CASE op = "And" -> Bool(Ones(F) = DOMAIN F)
    [] op = "Or"  -> Bool(Ones(F) # {})
    [] op = "Xor" -> Cardinality(Ones(F)) % 2

\* What changes one bit of a mask by a row changes the reduced mask by it.
LEMMA MaskChanged ==
  ASSUME NEW op \in PredicateAggOps, NEW x \in Truth, NEW u, u = RowBit(op, x),
         NEW n \in Nat \ {0}, NEW F \in [1 .. n -> Truth], NEW j \in 1 .. n
  PROVE  /\ MaskReduce(MergeBit(op), F) \in Truth
         /\ MaskReduce(MergeBit(op), Changed(F, j, u)) = u[MaskReduce(MergeBit(op), F)]
<1> DEFINE G == Changed(F, j, u)
<1>1. u \in [Truth -> Truth]
  BY DEF Bool, Truth, RowBit
<1>2. G \in [1 .. n -> Truth] /\ \A l \in 1 .. n : G[l] = IF l = j THEN u[F[l]] ELSE F[l]
  BY <1>1 DEF Changed
<1>3. Ones(F) \subseteq 1 .. n /\ DOMAIN F = 1 .. n /\ DOMAIN G = 1 .. n
  BY <1>2 DEF Ones
<1> HIDE DEF G
<1>4. CASE op \in {"And", "AndNot"}
  <2>1. u \in {[y \in Truth |-> y], [y \in Truth |-> 0]}
    BY <1>4, PredicateRow DEF Truth
  <2>2. MaskReduce(MergeBit(op), F) = Bool(Ones(F) = DOMAIN F) /\ MaskReduce(MergeBit(op), G) = Bool(Ones(G) = DOMAIN G)
    BY <1>4 DEF MaskReduce, MergeBit
  <2>3. Bool(Ones(F) = DOMAIN F) \in Truth
    BY DEF Bool, Truth
  <2>4. CASE u = [y \in Truth |-> y]
    <3>1. G = F
      <4>1. \A l \in 1 .. n : F[l] \in Truth /\ u[F[l]] = F[l]
        BY <2>4
      <4>2. \A l \in 1 .. n : G[l] = F[l]
        BY <1>2, <4>1
      <4> QED BY <1>2, <4>2
    <3> QED BY <2>2, <2>3, <2>4, <3>1 DEF G
  <2>5. CASE u = [y \in Truth |-> 0]
    <3>1. G[j] = 0
      BY <1>2, <2>5
    <3>2. j \notin Ones(G) /\ j \in DOMAIN G
      BY <1>3, <3>1 DEF Ones
    <3>3. Bool(Ones(G) = DOMAIN G) = 0
      BY <3>2 DEF Bool
    <3> QED BY <2>2, <2>3, <2>5, <3>3 DEF G
  <2> QED BY <2>1, <2>4, <2>5
<1>5. CASE op = "Or"
  <2>1. u \in {[y \in Truth |-> y], [y \in Truth |-> 1]}
    BY <1>5, PredicateRow DEF Truth
  <2>2. MaskReduce(MergeBit(op), F) = Bool(Ones(F) # {}) /\ MaskReduce(MergeBit(op), G) = Bool(Ones(G) # {})
    BY <1>5 DEF MaskReduce, MergeBit
  <2>3. Bool(Ones(F) # {}) \in Truth
    BY DEF Bool, Truth
  <2>4. CASE u = [y \in Truth |-> y]
    <3>1. G = F
      <4>1. \A l \in 1 .. n : F[l] \in Truth /\ u[F[l]] = F[l]
        BY <2>4
      <4>2. \A l \in 1 .. n : G[l] = F[l]
        BY <1>2, <4>1
      <4> QED BY <1>2, <4>2
    <3> QED BY Zenon, <2>2, <2>3, <2>4, <3>1 DEF G
  <2>5. CASE u = [y \in Truth |-> 1]
    <3>1. G[j] = 1
      BY <1>2, <2>5
    <3>2. j \in Ones(G)
      BY <1>3, <3>1 DEF Ones
    <3>3. Bool(Ones(G) # {}) = 1
      BY <3>2 DEF Bool
    <3> QED BY <2>2, <2>3, <2>5, <3>3 DEF G
  <2> QED BY <2>1, <2>4, <2>5
<1>6. CASE op = "Xor"
  <2>1. u \in {[y \in Truth |-> y], [y \in Truth |-> 1 - y]}
    BY <1>6, PredicateRow DEF Truth
  <2>2. /\ MaskReduce(MergeBit(op), F) = Cardinality(Ones(F)) % 2
        /\ MaskReduce(MergeBit(op), G) = Cardinality(Ones(G)) % 2
    BY <1>6 DEF MaskReduce, MergeBit
  <2>0. IsFiniteSet(1 .. n)
    BY FS_Interval
  <2>3. IsFiniteSet(Ones(F)) /\ Cardinality(Ones(F)) \in Nat
    BY <1>3, <2>0, FS_Subset, FS_CardinalityType
  <2>4. CASE u = [y \in Truth |-> y]
    <3>1. G = F
      <4>1. \A l \in 1 .. n : F[l] \in Truth /\ u[F[l]] = F[l]
        BY <2>4
      <4>2. \A l \in 1 .. n : G[l] = F[l]
        BY <1>2, <4>1
      <4> QED BY <1>2, <4>2
    <3>2. Cardinality(Ones(F)) % 2 \in Truth
      BY <2>3 DEF Truth
    <3> QED BY <2>2, <2>4, <3>1, <3>2 DEF G
  <2>5. CASE u = [y \in Truth |-> 1 - y]
    <3>1. G[j] = 1 - F[j] /\ F[j] \in Truth
      BY Zenon, <1>2, <2>5
    <3>2. Ones(G) = IF F[j] = 1 THEN Ones(F) \ {j} ELSE Ones(F) \union {j}
      <4>1. Ones(F) = {l \in 1 .. n : F[l] = 1} /\ Ones(G) = {l \in 1 .. n : G[l] = 1}
        BY <1>3 DEF Ones
      <4>2. \A l \in 1 .. n : l # j => G[l] = F[l]
        BY <1>2
      <4>3. F[j] = 1 => G[j] # 1
        BY <3>1
      <4>4. F[j] # 1 => G[j] = 1
        BY <3>1 DEF Truth
      <4> QED BY <4>1, <4>2, <4>3, <4>4
    <3>3. Cardinality(Ones(G)) = IF F[j] = 1 THEN Cardinality(Ones(F)) - 1 ELSE Cardinality(Ones(F)) + 1
      <4>1. j \in Ones(F) <=> F[j] = 1
        BY <1>3 DEF Ones
      <4>2. CASE F[j] = 1
        <5>1. Cardinality(Ones(F) \ {j}) = Cardinality(Ones(F)) - 1
          BY Zenon, <2>3, <4>1, <4>2, FS_RemoveElement
        <5> QED BY <3>2, <4>2, <5>1
      <4>3. CASE F[j] # 1
        BY Zenon, <2>3, <3>2, <4>1, <4>3, FS_AddElement
      <4> QED BY <4>2, <4>3
    <3> DEFINE k == Cardinality(Ones(F))
    <3>4. Cardinality(Ones(G)) \in {k - 1, k + 1}
      BY <3>3
    <3>5. k \in Nat /\ k % 2 \in Truth
      BY <2>3 DEF Truth
    <3> HIDE DEF k
    <3>6. (k - 1) % 2 = 1 - (k % 2) /\ (k + 1) % 2 = 1 - (k % 2)
      BY <3>5
    <3>7. Cardinality(Ones(G)) % 2 = 1 - (k % 2)
      BY <3>4, <3>6
    <3> QED BY <2>2, <2>5, <3>5, <3>7 DEF G, k
  <2> QED BY <2>1, <2>4, <2>5
<1> QED BY <1>4, <1>5, <1>6 DEF PredicateAggOps

\* Neutral copies fold to a neutral register.
LEMMA FoldTreeNeutral ==
  ASSUME NEW S, NEW o \in [S \X S -> S], NEW c \in S, o[<<c, c>>] = c,
         NEW m \in Nat \ {0}, m <= Modulus("I64"), NEW n \in Nat \ {0}
  PROVE  FoldTree(Seq1(m, Seq1(n, c)), o) = Seq1(n, c)
<1> DEFINE A == Seq1(m, Seq1(n, c))
           F == FoldTree(A, o)
<1>1. A \in [1 .. m -> [1 .. n -> S]]
  BY DEF Seq1
<1>2. IsFoldTree(FoldTree(A, o), A, o, m, n, S)
  BY Zenon, <1>1, FoldTreeTyped
<1>3. ASSUME NEW l \in 1 .. n PROVE [i \in 1 .. m |-> A[i][l]] = Seq1(m, c)
  BY <1>3 DEF Seq1
<1>4. Tree(Seq1(m, c), o) = c
  BY TreeNeutral
<1>5. F \in [1 .. n -> S] /\ \A l \in 1 .. n : F[l] = Tree([i \in 1 .. m |-> A[i][l]], o)
  BY <1>2 DEF IsFoldTree
<1> HIDE DEF F, A
<1>6. \A l \in 1 .. n : F[l] = c
  BY <1>3, <1>4, <1>5
<1>7. F = Seq1(n, c)
  BY <1>5, <1>6 DEF Seq1
<1> QED BY <1>7 DEF F, A

LEMMA LongerThanAnyTable == Modulus("I64") \in Nat
<1>1. "I64" \in IntTypes
  BY DEF IntTypes
<1> QED BY <1>1, Widths

IsPredicate(p) == IsProgram(p) /\ p.agg = "Predicate"

LEMMA PredicateProgram ==
  ASSUME NEW p, IsPredicate(p)
  PROVE  /\ p.op \in PredicateAggOps /\ CombineOp(p) = MergeBit(p.op) /\ MergeBit(p.op) \in {"And", "Or", "Xor"}
         /\ p.lanes \in Nat \ {0} /\ ~p.cond
<1>1. PICK e \in Positions : p.lanes = 2 ^ e
  BY DEF IsPredicate, IsProgram
<1>2. p.lanes \in Nat \ {0}
  BY <1>1, Logarithm
<1> QED BY <1>2 DEF IsPredicate, IsProgram, CombineOp, MergeBit, PredicateAggOps

\* A row enters a mask, in a lane or a scalar, by the function of the abstract fold.
LEMMA PredicateStep ==
  ASSUME NEW p, IsPredicate(p), NEW row \in TableRow(p), NEW u, u = RowBit(p.op, row.x)
  PROVE  /\ row.x \in Truth
         /\ \A a \in Truth : u[a] = Rows!Fold(p, a, row) /\ VecLane(p, a, row) = u[a] /\ ScalarStep(p, a, row) = u[a]
<1>1. row.x \in Truth /\ p.agg = "Predicate" /\ ~p.cond
  BY PredicateProgram DEF TableRow, Truth, IsPredicate
<1>2. ASSUME NEW a \in Truth
      PROVE  u[a] = Rows!Fold(p, a, row) /\ VecLane(p, a, row) = u[a] /\ ScalarStep(p, a, row) = u[a]
  <2>1. u[a] = Bool(Logic(p.op, row.x = 1, a = 1))
    BY DEF RowBit
  <2>2. Rows!Fold(p, a, row) = Rows!Bool(Rows!Logic(p.op, row.x = 1, a = 1))
    BY <1>1 DEF Rows!Fold
  <2>3. Rows!Bool(Rows!Logic(p.op, row.x = 1, a = 1)) = Bool(Logic(p.op, row.x = 1, a = 1))
    BY Zenon, SameHelpers
  <2>4. VecLane(p, a, row) = Bool(Logic(p.op, row.x = 1, a = 1))
    BY <1>1 DEF VecLane
  <2>5. ScalarStep(p, a, row) = Bool(Logic(p.op, row.x = 1, a = 1))
    BY <1>1 DEF ScalarStep
  <2> QED BY <2>1, <2>2, <2>3, <2>4, <2>5
<1> QED BY <1>1, <1>2

LEMMA CollapsePredicateIs ==
  ASSUME NEW p, IsPredicate(p), NEW m \in 1 .. Modulus("I64"), NEW A \in Copies(Truth, m, p.lanes), NEW R
  PROVE  CollapsePredicate(p, A, R)
           = VecInstr(MergeBit(p.op), "I8", MaskReduce(MergeBit(p.op), FoldTree(A, BitOp(MergeBit(p.op)))), R)
<1>1. CombineOp(p) = MergeBit(p.op)
  BY PredicateProgram
<1>2. A # <<>>
  <2>1. m \in Nat \ {0}
    BY LongerThanAnyTable
  <2> QED BY <2>1 DEF Copies
<1> QED BY Zenon, <1>1, <1>2 DEF CollapsePredicate, MaskReduce, Ones, BitOp, Truth

\* Whichever mask a row enters, it enters the collapse.
LEMMA PredicateChanged ==
  ASSUME NEW p, IsPredicate(p), NEW m \in 1 .. Modulus("I64"), NEW A \in Copies(Truth, m, p.lanes),
         NEW R \in Truth, NEW x \in Truth, NEW u, u = RowBit(p.op, x)
  PROVE  /\ CollapsePredicate(p, A, R) \in Truth
         /\ CollapsePredicate(p, A, u[R]) = u[CollapsePredicate(p, A, R)]
         /\ \A a \in 1 .. m, j \in 1 .. p.lanes :
              /\ ChangedAt(A, a, j, u) \in Copies(Truth, m, p.lanes)
              /\ CollapsePredicate(p, ChangedAt(A, a, j, u), R) = u[CollapsePredicate(p, A, R)]
<1> DEFINE op == MergeBit(p.op)
           o == BitOp(op)
           n == p.lanes
           F == FoldTree(A, o)
           v == MaskReduce(op, F)
<1>1. p.op \in PredicateAggOps /\ op \in {"And", "Or", "Xor"} /\ n \in Nat \ {0}
  BY PredicateProgram
<1>2. m \in Nat \ {0} /\ m <= Modulus("I64") /\ A \in [1 .. m -> [1 .. n -> Truth]]
  <2>1. A \in [1 .. m -> [1 .. n -> Truth]]
    BY DEF Copies
  <2> QED BY <2>1, LongerThanAnyTable
<1>3. Acts(o, u, Truth)
  BY <1>1, PredicateActs
<1>4. /\ o \in [Truth \X Truth -> Truth] /\ u \in [Truth -> Truth]
      /\ \A a, b \in Truth : o[<<u[a], b>>] = u[o[<<a, b>>]] /\ o[<<a, u[b]>>] = u[o[<<a, b>>]]
  BY <1>3 DEF Acts
<1>5. \A a, b \in Truth : VecInstr(op, "I8", a, b) = o[<<a, b>>]
  <2>1. \A a, b \in Truth : o[<<a, b>>] = Bool(Logic(op, a = 1, b = 1))
    BY DEF BitOp
  <2> HIDE DEF op, o
  <2> TAKE a \in Truth, b \in Truth
  <2>2. VecInstr(op, "I8", a, b) = Bool(Logic(op, a = 1, b = 1))
    BY Zenon, <1>1, BitInstruction
  <2>3. o[<<a, b>>] = Bool(Logic(op, a = 1, b = 1))
    BY Zenon, <2>1
  <2> QED BY Zenon, <2>2, <2>3
<1> HIDE DEF o
<1>6. F \in [1 .. n -> Truth]
  <2>1. IsFoldTree(FoldTree(A, o), A, o, m, n, Truth)
    BY Zenon, <1>1, <1>2, <1>4, FoldTreeTyped
  <2> QED BY <2>1 DEF IsFoldTree
<1> HIDE DEF F
<1>7. v \in Truth
  <2>1. 1 \in 1 .. n /\ x \in Truth
    BY <1>1
  <2> QED BY <1>1, <1>6, <2>1, MaskChanged
<1>8. \A y \in Truth : CollapsePredicate(p, A, y) = o[<<v, y>>] /\ o[<<v, y>>] \in Truth
  <2> TAKE y \in Truth
  <2>1. CollapsePredicate(p, A, y) = VecInstr(op, "I8", v, y)
    BY CollapsePredicateIs DEF F, o
  <2> QED BY <1>4, <1>5, <1>7, <2>1
<1> HIDE DEF v
<1>9. CollapsePredicate(p, A, u[R]) = u[CollapsePredicate(p, A, R)]
  <2>1. u[R] \in Truth
    BY <1>4
  <2>2. CollapsePredicate(p, A, u[R]) = o[<<v, u[R]>>] /\ CollapsePredicate(p, A, R) = o[<<v, R>>]
    BY <1>8, <2>1
  <2> QED BY Zenon, <1>4, <1>7, <2>2
<1>10. ASSUME NEW a \in 1 .. m, NEW j \in 1 .. n
       PROVE  /\ ChangedAt(A, a, j, u) \in Copies(Truth, m, p.lanes)
              /\ CollapsePredicate(p, ChangedAt(A, a, j, u), R) = u[CollapsePredicate(p, A, R)]
  <2> DEFINE B == ChangedAt(A, a, j, u)
  <2>1. IsChangedAt(ChangedAt(A, a, j, u), A, a, j, u, m, n, Truth)
    BY Zenon, <1>1, <1>2, <1>4, ChangedLanes
  <2>2. B \in Copies(Truth, m, p.lanes)
    BY <2>1 DEF IsChangedAt, Copies
  <2>3. FoldTree(ChangedAt(A, a, j, u), o) = Changed(FoldTree(A, o), j, u)
    <3>1. m \in Nat \ {0} /\ m <= Modulus("I64") /\ n \in Nat \ {0} /\ A \in [1 .. m -> [1 .. n -> Truth]]
      BY <1>1, <1>2
    <3>2. a \in 1 .. m /\ j \in 1 .. n /\ Acts(o, u, Truth)
      BY <1>3
    <3> HIDE DEF n, B, op
    <3> QED BY <3>1, <3>2, FoldTreeOnePoint, SMTT(60)
  <2>4. MaskReduce(op, Changed(F, j, u)) = u[v]
    BY <1>1, <1>6, MaskChanged DEF v
  <2> HIDE DEF B
  <2>5. CollapsePredicate(p, B, R) = VecInstr(op, "I8", MaskReduce(op, FoldTree(B, o)), R)
    BY <2>2, CollapsePredicateIs DEF o
  <2>6. CollapsePredicate(p, B, R) = VecInstr(op, "I8", u[v], R)
    BY <2>3, <2>4, <2>5 DEF B, F
  <2>7. u[v] \in Truth
    BY <1>4, <1>7
  <2>8. VecInstr(op, "I8", u[v], R) = o[<<u[v], R>>]
    BY <1>5, <2>7
  <2>9. o[<<u[v], R>>] = u[o[<<v, R>>]]
    BY Zenon, <1>4, <1>7
  <2>10. CollapsePredicate(p, A, R) = o[<<v, R>>]
    BY <1>8
  <2> QED BY <2>2, <2>6, <2>8, <2>9, <2>10 DEF B
<1> QED BY Zenon, <1>8, <1>9, <1>10

\* The masks of the prologue collapse to the value of no rows.
LEMMA PredicateNeutral ==
  ASSUME NEW p, IsPredicate(p), NEW m \in 1 .. Modulus("I64")
  PROVE  /\ AggInit(p) = Rows!Neutral(p) /\ AggInit(p) \in Truth
         /\ Seq1(m, Seq1(p.lanes, AggInit(p))) \in Copies(Truth, m, p.lanes)
         /\ CollapsePredicate(p, Seq1(m, Seq1(p.lanes, AggInit(p))), AggInit(p)) = Rows!Neutral(p)
<1> DEFINE op == MergeBit(p.op)
           o == BitOp(op)
           n == p.lanes
           c == AggInit(p)
           A == Seq1(m, Seq1(n, c))
<1>1. p.op \in PredicateAggOps /\ op \in {"And", "Or", "Xor"} /\ n \in Nat \ {0} /\ p.agg = "Predicate"
  BY PredicateProgram DEF IsPredicate
<1>2. m \in Nat \ {0} /\ m <= Modulus("I64")
  BY LongerThanAnyTable
<1>3. c = Rows!Neutral(p) /\ c \in Truth /\ c = IF op = "And" THEN 1 ELSE 0
  BY <1>1 DEF AggInit, Rows!Neutral, Truth, MergeBit, PredicateAggOps
<1>4. o \in [Truth \X Truth -> Truth] /\ \A a, b \in Truth : o[<<a, b>>] = Bool(Logic(op, a = 1, b = 1))
  BY DEF BitOp, Bool, Truth
<1>5. Bool(Logic(op, c = 1, c = 1)) = c
  <2>1. CASE op = "And"
    BY <1>3, <2>1 DEF Bool, Logic
  <2>2. CASE op = "Or"
    BY <1>3, <2>2 DEF Bool, Logic
  <2>3. CASE op = "Xor"
    BY <1>3, <2>3 DEF Bool, Logic
  <2> QED BY <1>1, <2>1, <2>2, <2>3
<1>6. o[<<c, c>>] = c
  BY <1>3, <1>4, <1>5
<1> HIDE DEF o, n
<1>7. c \in Truth
  BY <1>3
<1> HIDE DEF c
<1>8. A \in [1 .. m -> [1 .. n -> Truth]] /\ FoldTree(A, o) = Seq1(n, c)
  <2>1. n \in Nat \ {0} /\ m \in Nat \ {0} /\ m <= Modulus("I64") /\ o \in [Truth \X Truth -> Truth]
    BY <1>1, <1>2, <1>4 DEF n
  <2>3. A \in [1 .. m -> [1 .. n -> Truth]]
    BY <1>7 DEF Seq1
  <2>2. FoldTree(Seq1(m, Seq1(n, c)), o) = Seq1(n, c)
    <3> HIDE DEF A, op
    <3>1. o \in [Truth \X Truth -> Truth] /\ c \in Truth /\ o[<<c, c>>] = c
      BY <1>6, <1>7, <2>1
    <3>2. n \in Nat \ {0} /\ m \in Nat \ {0} /\ m <= Modulus("I64")
      BY <2>1
    <3> QED BY <3>1, <3>2, FoldTreeNeutral
  <2> QED BY <2>2, <2>3
<1>9. MaskReduce(op, Seq1(n, c)) = c
  <2>1. Ones(Seq1(n, c)) = (IF c = 1 THEN 1 .. n ELSE {}) /\ DOMAIN Seq1(n, c) = 1 .. n
    BY DEF Ones, Seq1
  <2>2. 1 .. n # {}
    BY <1>1
  <2>3. CASE op = "And"
    BY <1>3, <2>1, <2>3 DEF MaskReduce, Bool
  <2>4. CASE op = "Or"
    BY <1>3, <2>1, <2>4 DEF MaskReduce, Bool
  <2>5. CASE op = "Xor"
    BY <1>3, <2>1, <2>5, FS_EmptySet DEF MaskReduce
  <2> QED BY <1>1, <2>3, <2>4, <2>5
<1>10. CollapsePredicate(p, A, c) = VecInstr(op, "I8", MaskReduce(op, FoldTree(A, o)), c)
  <2>1. A \in Copies(Truth, m, p.lanes)
    BY <1>8 DEF Copies, n
  <2> HIDE DEF A
  <2> QED BY <2>1, CollapsePredicateIs DEF o
<1>11. VecInstr(op, "I8", c, c) = c
  BY <1>1, <1>5, <1>7, BitInstruction
<1>12. CollapsePredicate(p, A, c) = c
  BY <1>8, <1>9, <1>10, <1>11
<1> QED BY <1>3, <1>7, <1>8, <1>12 DEF c, n, Copies

\* Element l of copy c among the elements of all copies.
At(n, c, l) == (c - 1) * n + l
IsAt(i, m, n, c, l) == i \in 1 .. m * n /\ (i - 1) \div n = c - 1 /\ (i - 1) % n = l - 1

\* Copies and lanes, counted through.
LEMMA Place ==
  ASSUME NEW m \in Nat \ {0}, NEW n \in Nat \ {0}, NEW c \in 1 .. m, NEW l \in 1 .. n
  PROVE  IsAt(At(n, c, l), m, n, c, l)
<1> DEFINE q == c - 1
           r == l - 1
           k == q * n
           i == k + l
<1>1. q \in 0 .. m - 1 /\ r \in 0 .. n - 1 /\ l = r + 1
  OBVIOUS
<1>2. k \in Nat /\ k = n * q /\ k <= m * n - n /\ m * n \in Nat
  <2> HIDE DEF q
  <2>1. q \in Nat /\ q <= m - 1
    BY <1>1
  <2>2. q * n \in Nat /\ q * n = n * q /\ m * n \in Nat
    BY <2>1, SMT
  <2>3. q * n <= (m - 1) * n
    BY <2>1, SMT
  <2>4. (m - 1) * n = m * n - n
    BY SMT
  <2> QED BY <2>2, <2>3, <2>4
<1> DEFINE N == m * n
<1>3. i \in 1 .. N
  <2>1. k \in Nat /\ N \in Nat /\ k <= N - n
    BY <1>2
  <2> HIDE DEF k, N
  <2> QED BY <2>1
<1>4. i - 1 = n * q + r /\ i - 1 \in Int
  <2> HIDE DEF k, q, r
  <2> QED BY <1>1, <1>2
<1>5. (i - 1) % n = r /\ (i - 1) \div n = q
  <2>1. q \in Int /\ r \in 0 .. n - 1 /\ i - 1 \in Int /\ i - 1 = n * q + r
    BY <1>1, <1>4
  <2> HIDE DEF i, q, r
  <2> QED BY Zenon, <2>1, QuotientIsUnique
<1> QED BY <1>3, <1>5 DEF At, IsAt

\* Every place is of one lane of one copy.
LEMMA PlaceOf ==
  ASSUME NEW m \in Nat \ {0}, NEW n \in Nat \ {0}, NEW i \in 1 .. m * n
  PROVE  \E c \in 1 .. m, l \in 1 .. n :
           i = (c - 1) * n + l /\ c = ((i - 1) \div n) + 1 /\ l = ((i - 1) % n) + 1
<1> DEFINE j == i - 1
           q == j \div n
           r == j % n
           N == m * n
<1>0. N \in Nat
  BY SMT
<1>1. j \in Nat /\ j < N
  <2> HIDE DEF N
  <2> QED BY <1>0 DEF N
<1>2. j = n * q + r /\ r \in 0 .. n - 1 /\ q \in Int
  <2> HIDE DEF j
  <2> QED BY <1>1, Divides
<1> HIDE DEF j, q, r
<1>3. q \in 0 .. m - 1
  <2>1. ASSUME q < 0 PROVE FALSE
    <3>1. n * q <= -n
      <4>1. q + 1 <= 0
        BY <1>2, <2>1
      <4>2. n * (q + 1) <= 0
        BY <1>2, <4>1, SMT
      <4>3. n * (q + 1) = n * q + n
        BY <1>2, SMT
      <4> DEFINE z == n * q
      <4>4. z \in Int
        BY <1>2, SMT
      <4> HIDE DEF z
      <4> QED BY <4>2, <4>3, <4>4 DEF z
    <3> DEFINE z == n * q
    <3>2. z \in Int /\ z <= -n /\ j = z + r
      BY <1>2, <3>1, SMT
    <3> HIDE DEF z
    <3> QED BY <1>1, <1>2, <3>2
  <2>2. ASSUME q >= m PROVE FALSE
    <3>1. n * q >= m * n
      BY <1>2, <2>2, SMT
    <3> DEFINE z == n * q
    <3>2. z \in Int /\ z >= N /\ j = z + r
      BY <1>2, <3>1, SMT
    <3> HIDE DEF z, N
    <3> QED BY <1>0, <1>1, <1>2, <3>2
  <2> QED BY <1>2, <2>1, <2>2
<1> DEFINE c == q + 1
           l == r + 1
<1>4. c \in 1 .. m /\ l \in 1 .. n /\ (c - 1) = q
  BY <1>2, <1>3
<1>5. i = (c - 1) * n + l
  <2>1. n * q = q * n /\ q * n \in Int
    BY <1>2, SMT
  <2>2. i = j + 1
    BY DEF j
  <2> QED BY <1>2, <1>4, <2>1, <2>2
<1>6. c = ((i - 1) \div n) + 1 /\ l = ((i - 1) % n) + 1
  BY DEF q, r, j
<1> HIDE DEF c, l
<1> QED BY <1>4, <1>5, <1>6

GrownBy(x, y, d) == x \in Int /\ y = x + d

\* Y is X, but that the term at j has grown by d.
OneTermMore(X, Y, n, j, d) == \A i \in 1 .. n : Y[i] = IF i = j THEN X[i] + d ELSE X[i]

\* A running sum, and what one changed term does to it.
IsSum(f, X, n) == f[0] = 0 /\ \A i \in 1 .. n : f[i] = f[i - 1] + X[i]

LEMMA SumTyped ==
  ASSUME NEW n \in Nat, NEW X \in [1 .. n -> Int], NEW f, IsSum(f, X, n)
  PROVE  \A i \in 0 .. n : f[i] \in Int
<1> DEFINE T == {i \in Nat : i <= n => f[i] \in Int}
<1>1. 0 \in T
  BY DEF IsSum
<1>2. ASSUME NEW i \in Nat, i \in T PROVE i + 1 \in T
  <2> SUFFICES ASSUME i + 1 <= n PROVE f[i + 1] \in Int
    OBVIOUS
  <2>1. i + 1 \in 1 .. n /\ (i + 1) - 1 = i
    OBVIOUS
  <2>2. f[i + 1] = f[(i + 1) - 1] + X[i + 1]
    BY <2>1 DEF IsSum
  <2> QED BY <1>2, <2>1, <2>2
<1>3. Nat \subseteq T
  <2> HIDE DEF T
  <2> QED BY Zenon, <1>1, <1>2, NaturalInduction
<1> QED BY <1>3

\* A sum grows by what its one changed term grows.
LEMMA SumChanged ==
  ASSUME NEW n \in Nat, NEW X \in [1 .. n -> Int], NEW Y \in [1 .. n -> Int], NEW j \in 1 .. n, NEW d \in Int,
         OneTermMore(X, Y, n, j, d),
         NEW f, IsSum(f, X, n), NEW g, IsSum(g, Y, n)
  PROVE  GrownBy(f[n], g[n], d)
<1>0. \A i \in 0 .. n : f[i] \in Int
  BY Zenon, SumTyped
<1> DEFINE T == {i \in Nat : i <= n => g[i] = f[i] + (IF j <= i THEN d ELSE 0)}
<1>1. 0 \in T
  BY DEF IsSum
<1>2. ASSUME NEW i \in Nat, i \in T PROVE i + 1 \in T
  <2> SUFFICES ASSUME i + 1 <= n PROVE g[i + 1] = f[i + 1] + (IF j <= i + 1 THEN d ELSE 0)
    OBVIOUS
  <2>1. i + 1 \in 1 .. n /\ (i + 1) - 1 = i /\ i \in 0 .. n
    OBVIOUS
  <2>2. f[i + 1] = f[i] + X[i + 1] /\ g[i + 1] = g[i] + Y[i + 1]
    BY Zenon, <2>1 DEF IsSum
  <2>3. g[i] = f[i] + (IF j <= i THEN d ELSE 0) /\ f[i] \in Int /\ X[i + 1] \in Int
    BY <1>0, <1>2, <2>1
  <2>4. Y[i + 1] = IF i + 1 = j THEN X[i + 1] + d ELSE X[i + 1]
    BY <2>1 DEF OneTermMore
  <2>5. CASE j <= i
    BY <2>2, <2>3, <2>4, <2>5
  <2>6. CASE j = i + 1
    BY <2>2, <2>3, <2>4, <2>6
  <2>7. CASE j > i + 1
    BY <2>2, <2>3, <2>4, <2>7
  <2> QED BY <2>5, <2>6, <2>7
<1>3. Nat \subseteq T
  <2> HIDE DEF T
  <2> QED BY Zenon, <1>1, <1>2, NaturalInduction
<1> QED BY <1>0, <1>3 DEF GrownBy

LEMMA SumOfZeros ==
  ASSUME NEW n \in Nat, NEW X, \A i \in 1 .. n : X[i] = 0, NEW f, IsSum(f, X, n)
  PROVE  f[n] = 0
<1> DEFINE T == {i \in Nat : i <= n => f[i] = 0}
<1>1. 0 \in T
  BY DEF IsSum
<1>2. ASSUME NEW i \in Nat, i \in T PROVE i + 1 \in T
  <2> SUFFICES ASSUME i + 1 <= n PROVE f[i + 1] = 0
    OBVIOUS
  <2>1. i + 1 \in 1 .. n /\ (i + 1) - 1 = i
    OBVIOUS
  <2>2. f[i + 1] = f[(i + 1) - 1] + X[i + 1]
    BY <2>1 DEF IsSum
  <2> QED BY <1>2, <2>1, <2>2
<1>3. Nat \subseteq T
  <2> HIDE DEF T
  <2> QED BY <1>1, <1>2, NaturalInduction
<1> QED BY <1>3

(***************************************************************************)
(* sum128.                                                                  *)
(***************************************************************************)
Long == Residues("I64")
Wide == Long \X Long
Whole(acc) == acc[1] + Modulus("I64") * acc[2]
Number128(acc) == Signed(acc[2], "I64") * Modulus("I64") + acc[1]

LEMMA LongIs ==
  /\ "I64" \in IntTypes /\ Modulus("I64") \in Nat \ {0} /\ Half("I64") \in Nat \ {0} /\ Modulus("I64") = 2 * Half("I64")
  /\ Long = 0 .. Modulus("I64") - 1
<1>1. "I64" \in IntTypes
  BY DEF IntTypes
<1> QED BY <1>1, Widths DEF Long

\* Pairs that stand for the same number, but for the numbers that two words lose.
SameWhole(a, b) == \E k \in Int : a = b + (Modulus("I64") * Modulus("I64")) * k

\* The high word that a 64-bit integer is extended by.
LEMMA SignWord ==
  ASSUME NEW x \in Long
  PROVE  Wrap(Shifted("ShiftRightArith", "I64", x, Width("I64") - 1), "I64")
           = IF x >= Half("I64") THEN Modulus("I64") - 1 ELSE 0
<1> DEFINE M == Modulus("I64")
           h == Half("I64")
           w == Width("I64")
           s == Signed(x, "I64")
<1>1. "I64" \in IntTypes /\ M \in Nat \ {0} /\ h \in Nat \ {0} /\ M = 2 * h /\ x \in 0 .. M - 1 /\ x \in Residues("I64")
  BY LongIs DEF Long
<1>2. w \in Nat \ {0}
  BY <1>1, Widths
<1>3. Shifted("ShiftRightArith", "I64", x, w - 1) = Wrap(s \div 2 ^ (w - 1), "I64")
  <2>1. ~(w - 1 >= w)
    BY <1>2
  <2> QED BY <2>1 DEF Shifted
<1>4. 2 ^ (w - 1) = h
  BY DEF Half
<1>5. s \in -h .. h - 1 /\ s = IF x >= h THEN x - M ELSE x
  BY <1>1, SignedValue
<1> HIDE DEF s, h, M
<1>6. s \div h = IF x >= h THEN -1 ELSE 0
  <2>1. CASE x >= h
    <3>1. s = h * (-1) + (s + h) /\ s + h \in 0 .. h - 1 /\ s \in Int
      BY <1>1, <1>5, <2>1
    <3>2. s \div h = -1
      BY <1>1, <3>1, QuotientIsUnique
    <3> QED BY <2>1, <3>2
  <2>2. CASE x < h
    <3>1. s = h * 0 + s /\ s \in 0 .. h - 1 /\ s \in Int
      BY <1>1, <1>5, <2>2
    <3>2. s \div h = 0
      BY <1>1, <3>1, QuotientIsUnique
    <3> QED BY <1>1, <2>2, <3>2
  <2> QED BY <1>1, <2>1, <2>2
<1>7. (-1) % M = M - 1 /\ (M - 1) % M = M - 1 /\ 0 % M = 0
  <2>1. -1 = M * (-1) + (M - 1) /\ M - 1 \in 0 .. M - 1 /\ 0 \in 0 .. M - 1
    BY <1>1
  <2>2. (-1) % M = M - 1
    BY <1>1, <2>1, QuotientIsUnique
  <2> QED BY <1>1, <2>1, <2>2, SmallRemainder
<1>8. \A z : Wrap(z, "I64") = z % M
  BY DEF Wrap, M
<1>9. Wrap(Wrap(s \div h, "I64"), "I64") = IF x >= h THEN M - 1 ELSE 0
  BY <1>6, <1>7, <1>8
<1> QED BY <1>3, <1>4, <1>9 DEF h, M

\* The two halves and their carry add a signed 64-bit integer, but for what two words lose.
LEMMA AddWideSum ==
  ASSUME NEW acc \in Wide, NEW x \in Long
  PROVE  AddWide(acc, x) \in Wide /\ SameWhole(Whole(AddWide(acc, x)), Whole(acc) + Signed(x, "I64"))
<1> DEFINE M == Modulus("I64")
           h == Half("I64")
           a == acc[1]
           b == acc[2]
           low == Wrap(x + a, "I64")
           sign == IF x >= h THEN M - 1 ELSE 0
           high == Wrap(sign + b, "I64")
           top == IF low < a THEN Wrap(high + 1, "I64") ELSE high
           s == Signed(x, "I64")
<1>1. M \in Nat \ {0} /\ h \in Nat \ {0} /\ M = 2 * h /\ x \in 0 .. M - 1 /\ a \in 0 .. M - 1 /\ b \in 0 .. M - 1
  BY LongIs DEF Wide
<1>2. AddWide(acc, x) = <<low, top>>
  <2>1. Wrap(Shifted("ShiftRightArith", "I64", x, Width("I64") - 1), "I64") = sign
    BY SignWord
  <2>2. Wrap(Shifted("ShiftRightArith", "I64", x, Width("I64") - 1) + b, "I64") = high
    <3> DEFINE z == Shifted("ShiftRightArith", "I64", x, Width("I64") - 1)
    <3>1. z \in Int
      <4>1. Width("I64") \in Nat
        BY LongIs, Widths
      <4>2. ~(Width("I64") - 1 >= Width("I64"))
        BY <4>1
      <4>3. z = (s \div h) % M
        BY <4>2 DEF Shifted, Wrap, Half
      <4>4. s \in Int
        BY LongIs, SignedValue DEF Long
      <4>5. s \div h \in Int
        <5> HIDE DEF s, h
        <5> QED BY <1>1, <4>4, Divides
      <4>6. (s \div h) % M \in Int
        <5> DEFINE q == s \div h
        <5> HIDE DEF q, M
        <5> QED BY <1>1, <4>5, Divides DEF q
      <4> QED BY <4>3, <4>6
    <3> HIDE DEF z
    <3>2. ((z % M) + b) % M = (z + b) % M
      <4> HIDE DEF M, b
      <4>1. M \in Nat \ {0} /\ z \in Int /\ b \in Int
        BY <1>1, <3>1
      <4> QED BY Zenon, <4>1, ModSums
    <3>3. z % M = sign
      BY <2>1 DEF z, Wrap
    <3>4. Wrap(z + b, "I64") = (z + b) % M /\ high = (sign + b) % M
      BY DEF Wrap
    <3> HIDE DEF sign, high, M, b
    <3> QED BY <3>2, <3>3, <3>4 DEF z
  <2> HIDE DEF high
  <2> QED BY <2>2 DEF AddWide
<1>3. s = IF x >= h THEN x - M ELSE x
  BY LongIs, SignedValue DEF Long
<1>4. low = (x + a) % M /\ high = (sign + b) % M /\ Wrap(high + 1, "I64") = (high + 1) % M
  BY DEF Wrap
<1>5. sign \in 0 .. M - 1 /\ x + a \in Int /\ sign + b \in Int
  BY <1>1
<1> HIDE DEF M, h, a, b, s, sign, low, high
<1>6. /\ low \in 0 .. M - 1 /\ low = IF x + a >= M THEN x + a - M ELSE x + a
      /\ high \in 0 .. M - 1 /\ \E k \in Int : high = sign + b + M * k
  <2>1. low \in 0 .. M - 1 /\ x + a = M * ((x + a) \div M) + low /\ (x + a) \div M \in Int
    <3> DEFINE y == x + a
    <3> HIDE DEF y
    <3>1. y = M * (y \div M) + (y % M) /\ y % M \in 0 .. M - 1 /\ y \div M \in Int
      BY Zenon, <1>1, <1>5, Divides DEF y
    <3> QED BY <1>4, <3>1 DEF y
  <2>2. low = IF x + a >= M THEN x + a - M ELSE x + a
    <3>1. CASE x + a >= M
      <4>1. x + a = M * 1 + (x + a - M) /\ x + a - M \in 0 .. M - 1
        BY <1>1, <3>1
      <4> DEFINE y == x + a
                 z == x + a - M
      <4>2. y = M * 1 + z /\ z \in 0 .. M - 1 /\ y \in Int
        BY <1>5, <4>1
      <4> HIDE DEF y, z
      <4>3. y % M = z
        BY <1>1, <4>2, QuotientIsUnique
      <4> QED BY <1>4, <3>1, <4>3 DEF y, z
    <3>2. CASE x + a < M
      <4> DEFINE y == x + a
      <4>1. y \in 0 .. M - 1
        BY <1>1, <3>2
      <4> HIDE DEF y
      <4>2. y % M = y
        BY <1>1, <4>1, SmallRemainder
      <4> QED BY <1>1, <1>4, <3>2, <4>2 DEF y
    <3> QED BY <1>1, <3>1, <3>2
  <2>3. high \in 0 .. M - 1 /\ \E k \in Int : high = sign + b + M * k
    <3> DEFINE y == sign + b
               q == y \div M
    <3>1. y = M * q + high /\ high \in 0 .. M - 1 /\ q \in Int
      <4> HIDE DEF y
      <4>1. y = M * (y \div M) + (y % M) /\ y % M \in 0 .. M - 1 /\ y \div M \in Int
        BY Zenon, <1>1, <1>5, Divides DEF y
      <4> QED BY <1>4, <4>1 DEF y
    <3> HIDE DEF q
    <3>2. high = sign + b + M * (-q) /\ -q \in Int
      BY <1>1, <1>5, <3>1, SMT
    <3> QED BY <3>1, <3>2
  <2> QED BY <2>1, <2>2, <2>3
<1> DEFINE carry == IF x + a >= M THEN 1 ELSE 0
<1>7. low = x + a - M * carry /\ (low < a <=> carry = 1)
  <2>1. CASE x + a >= M
    BY <1>1, <1>6, <2>1
  <2>2. CASE x + a < M
    BY <1>1, <1>6, <2>2
  <2> QED BY <1>1, <2>1, <2>2
<1>8. top \in 0 .. M - 1 /\ \E k \in Int : top = high + carry + M * k
  <2>1. CASE carry = 1
    <3>1. top = (high + 1) % M
      BY <1>4, <1>7, <2>1
    <3> DEFINE y == high + 1
               q == y \div M
    <3>2. y \in Int
      BY <1>1, <1>6
    <3>3. y = M * q + top /\ top \in 0 .. M - 1 /\ q \in Int
      <4> HIDE DEF y, top
      <4>1. y = M * (y \div M) + (y % M) /\ y % M \in 0 .. M - 1 /\ y \div M \in Int
        BY Zenon, <1>1, <3>2, Divides
      <4> QED BY <3>1, <4>1 DEF y
    <3> HIDE DEF q, top
    <3>4. top = high + carry + M * (-q) /\ -q \in Int
      BY <1>1, <1>6, <2>1, <3>3, SMT
    <3> QED BY <3>3, <3>4
  <2>2. CASE carry = 0
    <3>1. top = high
      BY <1>7, <2>2
    <3>2. top = high + carry + M * 0
      BY <1>1, <1>6, <2>2, <3>1
    <3> HIDE DEF top
    <3> QED BY <1>6, <3>1, <3>2
  <2> QED BY <2>1, <2>2
<1>9. PICK k1 \in Int : high = sign + b + M * k1
  BY <1>6
<1>10. PICK k2 \in Int : top = high + carry + M * k2
  BY <1>8
<1>11. sign = IF x >= h THEN M - 1 ELSE 0
  BY DEF sign
<1>12. \E k \in Int : low + M * top = ((a + M * b) + s) + (M * M) * k
  <2> HIDE DEF top
  <2>0. carry \in Int
    BY <1>1
  <2> HIDE DEF carry
  <2>1. top = sign + b + carry + M * (k1 + k2)
    <3>1. M * (k1 + k2) = M * k1 + M * k2
      BY <1>1, SMT
    <3> QED BY <1>1, <1>5, <1>9, <1>10, <2>0, <3>1, SMT
  <2> DEFINE k == k1 + k2
  <2>2. k \in Int
    OBVIOUS
  <2> HIDE DEF k
  <2>3. M * top = M * sign + M * b + M * carry + (M * M) * k
    <3>1. top = sign + b + carry + M * k
      BY <2>1 DEF k
    <3> QED BY <1>1, <1>5, <2>0, <2>2, <3>1, SMT
  <2>4. low + M * top = x + a + M * sign + M * b + (M * M) * k
    <3> DEFINE A == M * sign
               B == M * b
               C == M * carry
               D == (M * M) * k
    <3>1. A \in Int /\ B \in Int /\ C \in Int /\ D \in Int
      BY <1>1, <1>5, <2>0, <2>2, SMT
    <3>2. M * top = A + B + C + D /\ low = x + a - C
      BY <1>7, <2>3 DEF carry
    <3> HIDE DEF A, B, C, D
    <3>3. low + M * top = x + a + A + B + D
      BY <1>1, <3>1, <3>2
    <3> QED BY <3>3 DEF A, B, D
  <2> DEFINE P == M * M
             B == M * b
             D == P * k
  <2>5. P \in Int /\ B \in Int /\ D \in Int
    BY <1>1, <2>2, SMT
  <2>6. CASE x >= h
    <3>1. M * sign = P - M
      BY <1>1, <1>11, <2>6, SMT
    <3>2. s = x - M
      BY <1>3, <2>6
    <3>3. P * (k + 1) = D + P
      BY <1>1, <2>2, SMT
    <3>4. low + M * top = x + a + (P - M) + B + D
      BY <2>4, <3>1
    <3> HIDE DEF P, B, D
    <3>5. low + M * top = ((a + B) + s) + P * (k + 1)
      BY <1>1, <2>5, <3>2, <3>3, <3>4
    <3> QED BY <2>2, <3>5 DEF P, B
  <2>7. CASE x < h
    <3>1. M * sign = 0
      BY <1>1, <1>11, <2>7, SMT
    <3>2. s = x
      BY <1>1, <1>3, <2>7
    <3>3. low + M * top = x + a + 0 + B + D
      BY <2>4, <3>1
    <3> HIDE DEF B, D
    <3>4. low + M * top = ((a + B) + s) + D
      BY <1>1, <2>5, <3>2, <3>3
    <3> QED BY <2>2, <3>4 DEF B, D, P
  <2> QED BY <1>1, <2>6, <2>7
<1>13. <<low, top>> \in Wide
  BY Zenon, <1>6, <1>8, LongIs DEF Wide, M
<1>14. Whole(AddWide(acc, x)) = low + M * top /\ Whole(acc) = a + M * b
  BY <1>2 DEF Whole, M, a, b
<1> QED BY <1>2, <1>12, <1>13, <1>14 DEF SameWhole, M, s

Square == Modulus("I64") * Modulus("I64")

LEMMA SquareIs ==
  /\ Square \in Nat \ {0} /\ Modulus("I64") * Half("I64") \in Nat
  /\ Square = Modulus("I64") * Half("I64") + Modulus("I64") * Half("I64")
  /\ \A a, b : SameWhole(a, b) <=> Congruent(Square, a, b)
<1> DEFINE M == Modulus("I64")
           h == Half("I64")
<1>1. M \in Nat \ {0} /\ h \in Nat \ {0} /\ M = 2 * h
  BY LongIs
<1> HIDE DEF M, h
<1>2. M * M \in Nat \ {0} /\ M * h \in Nat
  BY <1>1, SMT
<1>3. M * M = M * h + M * h
  BY <1>1, SMT
<1> QED BY <1>2, <1>3 DEF M, h, Square, SameWhole, Congruent

LEMMA WholeTyped ==
  ASSUME NEW v \in Wide
  PROVE  Whole(v) \in Int /\ v[1] \in Long /\ v[2] \in Long /\ v[1] \in Int /\ v[2] \in Int
<1> DEFINE M == Modulus("I64")
<1>1. v[1] \in Long /\ v[2] \in Long /\ M \in Nat
  BY LongIs DEF Wide
<1>2. v[1] \in Int /\ v[2] \in Int
  BY <1>1, LongIs
<1> HIDE DEF M
<1>3. M * v[2] \in Int
  BY <1>1, <1>2, SMT
<1> DEFINE z == M * v[2]
<1>4. z \in Int
  BY <1>3
<1> HIDE DEF z
<1>5. v[1] + z \in Int
  BY <1>2, <1>4
<1> QED BY <1>1, <1>2, <1>5 DEF z, M, Whole

\* A pair is the number it stands for, while 128 bits hold that.
LEMMA NumberIs ==
  ASSUME NEW v \in Wide, NEW n \in Int, SameWhole(Whole(v), n),
         -(Modulus("I64") * Half("I64")) <= n, n < Modulus("I64") * Half("I64")
  PROVE  Number128(v) = n
<1> DEFINE M == Modulus("I64")
           h == Half("I64")
           l == v[1]
           b == v[2]
           s == Signed(b, "I64")
           P == M * M
           Q == M * h
<1>1. M \in Nat \ {0} /\ h \in Nat \ {0} /\ M = 2 * h /\ l \in 0 .. M - 1 /\ b \in 0 .. M - 1
  BY LongIs DEF Wide
<1>2. s = (IF b >= h THEN b - M ELSE b) /\ s \in -h .. h - 1
  BY LongIs, SignedValue DEF Wide, Long
<1>3. PICK k \in Int : l + M * b = n + P * k
  BY DEF SameWhole, Whole
<1> HIDE DEF M, h, l, b, s
<1>4. P = 2 * Q /\ P \in Int /\ Q \in Nat /\ M * b \in Int /\ M * s \in Int
  <2>1. P = 2 * Q
    BY <1>1, SMT
  <2>2. P \in Int /\ Q \in Nat
    BY <1>1, SMT
  <2>3. M * b \in Int /\ M * s \in Int
    BY <1>1, <1>2, SMT
  <2> QED BY <2>1, <2>2, <2>3
<1>5. \E j \in Int : s * M + l = n + P * j
  <2>1. CASE b >= h
    <3>1. M * s = M * b - P
      BY <1>1, <1>2, <2>1, SMT
    <3>2. P * (k - 1) = P * k - P
      BY <1>1, SMT
    <3>3. s * M = M * s
      BY <1>1, <1>2, SMT
    <3> DEFINE A == M * b
               B == P * k
    <3>4. A \in Int /\ B \in Int
      BY <1>4, SMT
    <3> HIDE DEF A, B, P
    <3>5. s * M + l = n + (B - P)
      BY <1>1, <1>3, <1>4, <3>1, <3>3, <3>4 DEF A, B
    <3>6. s * M + l = n + P * (k - 1)
      BY <3>2, <3>5 DEF B
    <3> QED BY <3>6
  <2>2. CASE b < h
    <3>1. s = b
      BY <1>1, <1>2, <2>2
    <3>2. s * M = M * b
      BY <1>1, <3>1, SMT
    <3> DEFINE A == M * b
               B == P * k
    <3>3. A \in Int /\ B \in Int
      BY <1>4, SMT
    <3> HIDE DEF A, B, P
    <3>4. s * M + l = n + B
      BY <1>1, <1>3, <3>2, <3>3 DEF A, B
    <3> QED BY <3>4 DEF B
  <2> QED BY <1>1, <2>1, <2>2
<1>6. PICK j \in Int : s * M + l = n + P * j
  BY <1>5
<1> DEFINE z == s * M + l
<1>7. z \in Int /\ -Q <= z /\ z < Q
  <2>1. -h * M <= s * M
    BY <1>1, <1>2, SMT
  <2>2. s * M <= (h - 1) * M
    BY <1>1, <1>2, SMT
  <2>3. (h - 1) * M = Q - M /\ -h * M = -Q
    BY <1>1, SMT
  <2> DEFINE A == s * M
  <2>4. A \in Int
    BY <1>1, <1>2, SMT
  <2> HIDE DEF Q, A
  <2>5. A + l \in Int /\ -Q <= A + l /\ A + l < Q
    BY <1>1, <1>4, <2>1, <2>2, <2>3, <2>4 DEF A
  <2> QED BY <2>5 DEF A
<1>8. -Q <= n /\ n < Q
  BY DEF M, h
<1>9. z = n + P * j
  BY <1>6
<1> HIDE DEF z, Q, P
<1>10. j = 0
  <2>1. CASE j >= 1
    <3>1. P * j >= P
      BY <1>4, <2>1, SMT
    <3> DEFINE B == P * j
    <3>2. B \in Int
      BY <1>4, SMT
    <3> HIDE DEF B
    <3> QED BY <1>4, <1>7, <1>8, <1>9, <3>1, <3>2 DEF B
  <2>2. CASE j <= -1
    <3>1. P * j <= -P
      BY <1>4, <2>2, SMT
    <3> DEFINE B == P * j
    <3>2. B \in Int
      BY <1>4, SMT
    <3> HIDE DEF B
    <3> QED BY <1>4, <1>7, <1>8, <1>9, <3>1, <3>2 DEF B
  <2> QED BY <2>1, <2>2
<1>11. z = n
  <2>1. P * 0 = 0
    BY <1>4
  <2> QED BY <1>9, <1>10, <2>1
<1> QED BY <1>11 DEF Number128, z, s, b, l, M

(***************************************************************************)
(* The collapse of the halves.                                              *)
(***************************************************************************)
Plus == Pairwise("Add", "I64")
Highs(A) == [c \in DOMAIN A |-> [l \in DOMAIN A[c] |-> A[c][l][2]]]
High(A, R, n) == Plus[<<Reduce(FoldTree(Highs(A), Plus), 0, n, Plus), R[2]>>]
Lows(A, R, m, n) ==
  [i \in 1 .. m * n + 1 |-> IF i <= m * n THEN A[((i - 1) \div n) + 1][((i - 1) % n) + 1][1] ELSE R[1]]
SumIs(C, A, R, m, n) ==
  \E f : /\ IsSum(f, Lows(A, R, m, n), m * n + 1)
         /\ C = <<Wrap(f[m * n + 1], "I64"),
                  Wrap(High(A, R, n) + f[m * n + 1] \div Modulus("I64"), "I64")>>

LEMMA LowsTyped ==
  ASSUME NEW m \in Nat \ {0}, NEW n \in Nat \ {0}, NEW A \in [1 .. m -> [1 .. n -> Wide]], NEW R \in Wide
  PROVE  m * n + 1 \in Nat /\ m * n \in Nat /\ Lows(A, R, m, n) \in [1 .. m * n + 1 -> Int]
<1> DEFINE N == m * n
           X == Lows(A, R, m, n)
<1>1. N \in Nat
  BY SMT
<1>2. ASSUME NEW i \in 1 .. N + 1
      PROVE  (IF i <= N THEN A[((i - 1) \div n) + 1][((i - 1) % n) + 1][1] ELSE R[1]) \in Int
  <2>1. CASE i <= N
    <3>1. i \in 1 .. N
      <4> HIDE DEF N
      <4> QED BY <1>1, <2>1
    <3>5. i \in 1 .. m * n
      BY <3>1
    <3>6. \E c \in 1 .. m, l \in 1 .. n :
            i = (c - 1) * n + l /\ c = ((i - 1) \div n) + 1 /\ l = ((i - 1) % n) + 1
      BY Zenon, <3>5, PlaceOf
    <3>2. PICK c \in 1 .. m, l \in 1 .. n : c = ((i - 1) \div n) + 1 /\ l = ((i - 1) % n) + 1
      BY Zenon, <3>6
    <3>3. A[c][l] \in Wide
      OBVIOUS
    <3>4. A[c][l][1] \in Int
      BY <3>3, WholeTyped
    <3> QED BY <2>1, <3>2, <3>4
  <2>2. CASE ~(i <= N)
    BY <2>2, WholeTyped
  <2> QED BY <2>1, <2>2
<1>3. X \in [1 .. N + 1 -> Int]
  BY <1>2 DEF Lows
<1>4. N + 1 \in Nat
  <2> HIDE DEF N
  <2> QED BY <1>1
<1> QED BY <1>1, <1>3, <1>4

\* The epilogue sums the low halves, the high halves, and the carries of the low ones.
LEMMA CollapseSumIs ==
  ASSUME NEW m \in Nat \ {0}, NEW n \in Nat \ {0}, NEW A \in [1 .. m -> [1 .. n -> Wide]], NEW R \in Wide
  PROVE  SumIs(CollapseSum(A, R), A, R, m, n)
<1> DEFINE N == m * n
           X == Lows(A, R, m, n)
           low(i) == IF i <= Len(A) * Len(A[1]) THEN A[((i - 1) \div Len(A[1])) + 1][((i - 1) % Len(A[1])) + 1][1] ELSE R[1]
           sum[i \in 0 .. Len(A) * Len(A[1]) + 1] == IF i = 0 THEN 0 ELSE sum[i - 1] + low(i)
           step == [k \in 1 .. N + 1 |-> [a \in Int |-> a + X[k]]]
<1>1. Len(A) = m /\ A # <<>> /\ A[1] \in [1 .. n -> Wide] /\ DOMAIN A = 1 .. m
  BY ListLength
<1>2. Len(A[1]) = n
  BY <1>1, ListLength
<1>3. N + 1 \in Nat /\ N \in Nat /\ X \in [1 .. N + 1 -> Int]
  BY Zenon, LowsTyped
<1>4. \A i \in 1 .. N + 1 : low(i) = X[i]
  BY <1>1, <1>2 DEF Lows
<1>5. Plus = [z \in Residues("I64") \X Residues("I64") |-> Wrap(z[1] + z[2], "I64")]
  <2>1. \A x, y : VecInstr("Add", "I64", x, y) = Wrap(x + y, "I64")
    BY SumsAndProducts DEF VecInstr, Wrap
  <2> QED BY <2>1 DEF Plus, Pairwise
<1>6. CollapseSum(A, R) = <<Wrap(sum[N + 1], "I64"), Wrap(High(A, R, n) + sum[N + 1] \div Modulus("I64"), "I64")>>
  BY <1>1, <1>2, <1>5 DEF CollapseSum, High, Highs
<1>7. step \in [1 .. N + 1 -> [Int -> Int]]
  <2>1. ASSUME NEW k \in 1 .. N + 1, NEW a \in Int PROVE a + X[k] \in Int
    <3> HIDE DEF X, N
    <3> QED BY <1>3
  <2> QED BY <2>1
<1> DEFINE K == N + 1
<1> HIDE DEF step, X, N
<1>8. PICK f : IsIteration(f, Int, 0, K, step)
  <2>1. step \in [1 .. K -> [Int -> Int]]
    BY Zenon, <1>7
  <2>2. K \in Nat /\ 0 \in Int
    BY <1>3
  <2> HIDE DEF K
  <2> QED BY Zenon, <2>1, <2>2, Iteration
<1>9. f \in [0 .. K -> Int] /\ f[0] = 0 /\ \A k \in 1 .. K : f[k] = f[k - 1] + X[k]
  <2>1. f \in [0 .. K -> Int] /\ f[0] = 0 /\ \A k \in 1 .. K : f[k] = step[k][f[k - 1]]
    BY Zenon, <1>8 DEF IsIteration
  <2>2. ASSUME NEW k \in 1 .. K PROVE f[k] = f[k - 1] + X[k]
    <3>1. k - 1 \in 0 .. K
      BY <1>3
    <3>2. f[k - 1] \in Int
      BY <2>1, <3>1
    <3> QED BY Zenon, <2>1, <3>2 DEF step
  <2> QED BY <2>1, <2>2
<1>10. f = [i \in 0 .. Len(A) * Len(A[1]) + 1 |-> IF i = 0 THEN 0 ELSE f[i - 1] + low(i)]
  <2>1. Len(A) * Len(A[1]) + 1 = K
    BY <1>1, <1>2 DEF N
  <2>2. \A i \in 0 .. K : f[i] = IF i = 0 THEN 0 ELSE f[i - 1] + low(i)
    <3> HIDE DEF low
    <3> QED BY <1>3, <1>4, <1>9
  <2> HIDE DEF K, low
  <2> QED BY <1>9, <2>1, <2>2
<1>11. sum = [i \in 0 .. Len(A) * Len(A[1]) + 1 |-> IF i = 0 THEN 0 ELSE sum[i - 1] + low(i)]
  <2> HIDE DEF low
  <2> QED BY Zenon, <1>10
<1> HIDE DEF sum
<1>12. IsSum(sum, X, K)
  <2>1. Len(A) * Len(A[1]) + 1 = K
    BY <1>1, <1>2 DEF N
  <2>2. sum[0] = 0 /\ \A i \in 1 .. K : sum[i] = sum[i - 1] + low(i)
    <3> HIDE DEF low, K
    <3>1. sum = [i \in 0 .. K |-> IF i = 0 THEN 0 ELSE sum[i - 1] + low(i)]
      BY Zenon, <1>11, <2>1
    <3>2. K \in Nat
      BY <1>3 DEF K
    <3>3. 0 \in 0 .. K /\ \A i \in 1 .. K : i \in 0 .. K /\ i # 0
      BY <3>2
    <3> QED BY Zenon, <3>1, <3>3
  <2> HIDE DEF low
  <2> QED BY <1>4, <2>2 DEF IsSum
<1> QED BY <1>6, <1>12 DEF SumIs, N, X

\* The collapsed halves are the sum of both, but for what two words lose.
LEMMA WholeOfHalves ==
  ASSUME NEW T \in Int, NEW H \in Int, NEW C,
         C = <<Wrap(T, "I64"), Wrap(H + T \div Modulus("I64"), "I64")>>
  PROVE  C \in Wide /\ Congruent(Square, Whole(C), T + Modulus("I64") * H)
<1> DEFINE M == Modulus("I64")
           q == T \div M
           r == T % M
           y == H + q
           d == y \div M
           b == y % M
<1>1. M \in Nat \ {0} /\ Long = 0 .. M - 1
  BY LongIs
<1>2. T = M * q + r /\ r \in 0 .. M - 1 /\ q \in Int
  <2> HIDE DEF M
  <2> QED BY Zenon, <1>1, Divides
<1>3. C = <<r, b>>
  BY DEF Wrap
<1> HIDE DEF M, q, r
<1>4. y \in Int /\ y = H + q
  BY <1>2
<1> HIDE DEF y
<1>5. y = M * d + b /\ b \in 0 .. M - 1 /\ d \in Int
  BY Zenon, <1>1, <1>4, Divides
<1> HIDE DEF d, b
<1>6. r + M * b = (T + M * H) + (M * M) * (-d) /\ -d \in Int
  <2>1. b = H + q - M * d
    <3> DEFINE z == M * d
    <3>1. z \in Int
      BY <1>1, <1>5, SMT
    <3> HIDE DEF z
    <3>2. y = z + b
      BY <1>5 DEF z
    <3>3. b = H + q - z
      BY <1>2, <1>4, <1>5, <3>1, <3>2
    <3> QED BY <3>3 DEF z
  <2>2. M * b = M * H + M * q - (M * M) * d
    BY <1>1, <1>2, <1>5, <2>1, SMT
  <2>3. (M * M) * (-d) = -((M * M) * d)
    BY <1>1, <1>5, SMT
  <2> DEFINE X == M * H
             Y == M * q
             Z == (M * M) * d
  <2>4. X \in Int /\ Y \in Int /\ Z \in Int
    BY <1>1, <1>2, <1>5, SMT
  <2>5. M * b = X + Y - Z /\ T = Y + r
    BY <1>2, <2>2
  <2>6. (M * M) * (-d) = -Z
    BY <2>3
  <2> HIDE DEF X, Y, Z
  <2>7. r + M * b = (T + X) + (-Z)
    BY <1>2, <2>4, <2>5
  <2> QED BY <1>5, <2>6, <2>7 DEF X
<1>7. C \in Wide
  BY <1>1, <1>2, <1>3, <1>5 DEF Wide
<1>8. Whole(C) = r + M * b
  BY <1>3 DEF Whole, M
<1>9. Congruent(Square, Whole(C), T + M * H)
  BY <1>6, <1>8 DEF Congruent, Square, M
<1> QED BY <1>7, <1>9 DEF M

LEMMA HighsTyped ==
  ASSUME NEW m \in Nat \ {0}, NEW n \in Nat \ {0}, NEW A \in [1 .. m -> [1 .. n -> Wide]]
  PROVE  /\ Highs(A) \in [1 .. m -> [1 .. n -> Long]]
         /\ \A c \in 1 .. m, l \in 1 .. n : Highs(A)[c][l] = A[c][l][2]
<1>1. ASSUME NEW c \in 1 .. m PROVE DOMAIN A[c] = 1 .. n /\ \A l \in 1 .. n : A[c][l][2] \in Long
  <2>1. \A l \in 1 .. n : A[c][l] \in Wide
    OBVIOUS
  <2> QED BY <2>1, WholeTyped
<1>2. DOMAIN A = 1 .. m
  OBVIOUS
<1> QED BY <1>1, <1>2 DEF Highs

LEMMA PlusTyped ==
  /\ Plus \in [Long \X Long -> Long]
  /\ \A x, y \in Long : Plus[<<x, y>>] = Wrap(x + y, "I64")
<1>1. "I64" \in IntTypes /\ "Add" \in MergeOps
  BY DEF IntTypes, MergeOps
<1>2. \A x, y : ArithInt("Add", "No", "I64", x, y) = Wrap(x + y, "I64")
  BY SumsAndProducts DEF Wrap
<1> QED BY <1>1, <1>2, PairwiseTyped DEF Plus, Long

\* The high halves collapse to a word.
LEMMA HighTyped ==
  ASSUME NEW m \in Nat \ {0}, m <= Modulus("I64"), NEW e \in Positions, NEW A \in [1 .. m -> [1 .. 2 ^ e -> Wide]],
         NEW R \in Wide
  PROVE  /\ FoldTree(Highs(A), Plus) \in [1 .. 2 ^ e -> Long]
         /\ Reduce(FoldTree(Highs(A), Plus), 0, 2 ^ e, Plus) \in Long
         /\ High(A, R, 2 ^ e) \in Long
<1> DEFINE n == 2 ^ e
           F == FoldTree(Highs(A), Plus)
<1>1. n \in Nat \ {0}
  BY Logarithm
<1>2. Highs(A) \in [1 .. m -> [1 .. n -> Long]] /\ Plus \in [Long \X Long -> Long]
  BY Zenon, <1>1, HighsTyped, PlusTyped
<1>3. F \in [1 .. n -> Long]
  <2> HIDE DEF n
  <2>1. IsFoldTree(FoldTree(Highs(A), Plus), Highs(A), Plus, m, n, Long)
    BY Zenon, <1>1, <1>2, FoldTreeTyped
  <2> QED BY <2>1 DEF IsFoldTree
<1>4. Reduce(F, 0, 2 ^ e, Plus) \in Long
  <2> HIDE DEF F
  <2>1. 0 \in Nat /\ 0 + 2 ^ e <= 2 ^ e /\ 2 ^ e \in Nat /\ F \in [1 .. 2 ^ e -> Long]
    BY <1>1, <1>3
  <2>2. Slice(F, 0, 2 ^ e) \in Row(Long, e)
    BY <2>1, SliceTyped
  <2> QED BY Zenon, <1>2, <2>2, ReduceTyped
<1>5. R[2] \in Long
  BY WholeTyped
<1> QED BY <1>2, <1>3, <1>4, <1>5 DEF High

\* The distance between two words, as a sum that wraps around.
Apart(b, c) == [z \in Long |-> Wrap(z + (c - b + Modulus("I64")), "I64")]

Moves(v, d) == \A z \in Long : \E k \in Int : v[z] = z + d + Modulus("I64") * k

\* Changing a high half is adding a distance to it, which commutes with adding halves.
LEMMA Distance ==
  ASSUME NEW b \in Long, NEW c \in Long, NEW v, v = Apart(b, c)
  PROVE  /\ Acts(Plus, v, Long) /\ v[b] = c
         /\ Moves(v, c - b)
<1> DEFINE M == Modulus("I64")
           d == c - b + M
<1>1. M \in Nat \ {0} /\ Long = 0 .. M - 1 /\ "I64" \in IntTypes
  BY LongIs
<1>2. d \in Nat /\ b \in Int /\ c \in 0 .. M - 1
  BY <1>1
<1>3. Acts(Plus, v, Long)
  BY Zenon, <1>1, <1>2, CountActs DEF Plus, Long, Apart
<1>4. v[b] = c
  <2>1. v[b] = (b + d) % M
    BY DEF Wrap, Apart
  <2>2. b + d = M * 1 + c
    BY <1>1, <1>2
  <2> HIDE DEF M
  <2>3. b + d \in Int
    BY <1>2
  <2> DEFINE y == b + d
  <2>4. y = M * 1 + c /\ y \in Int
    BY <2>2, <2>3
  <2> HIDE DEF y, d
  <2>6. M \in Nat \ {0} /\ c \in 0 .. M - 1 /\ 1 \in Int
    BY <1>1, <1>2
  <2>5. y % M = c
    BY <2>4, <2>6, QuotientIsUnique
  <2> QED BY <2>1, <2>5 DEF y
<1>5. ASSUME NEW z \in Long PROVE \E k \in Int : v[z] = z + (c - b) + M * k
  <2> DEFINE y == z + d
             q == y \div M
             r == y % M
  <2>1. v[z] = r
    BY DEF Wrap, Apart
  <2>2. y \in Int
    BY <1>1, <1>2
  <2>3. y = M * q + r /\ q \in Int /\ r \in Int
    <3> HIDE DEF y, M
    <3> QED BY <1>1, <2>2, Divides
  <2>4. y = z + (c - b) + M
    BY <1>1, <1>2
  <2> HIDE DEF q, r, y, M
  <2>5. M * (1 - q) = M - M * q
    BY <1>1, <2>3, SMT
  <2> DEFINE Y == M * q
  <2>6. Y \in Int
    BY <1>1, <2>3, SMT
  <2> HIDE DEF Y
  <2>7. r = z + (c - b) + (M - Y)
    BY <1>1, <1>2, <2>2, <2>3, <2>4, <2>6 DEF Y
  <2>8. r = z + (c - b) + M * (1 - q) /\ 1 - q \in Int
    BY <2>3, <2>5, <2>7 DEF Y
  <2> QED BY <2>1, <2>8
<1> QED BY <1>3, <1>4, <1>5 DEF Moves

\* The number that the collapse stands for follows the number of an accumulator.
LEMMA SumFollows ==
  ASSUME NEW T \in Int, NEW H \in Int, NEW b \in Wide, NEW c \in Wide, NEW s \in Int, SameWhole(Whole(c), Whole(b) + s),
         NEW T1 \in Int, T1 = T + (c[1] - b[1]),
         NEW k \in Int, NEW H1 \in Int, H1 = H + (c[2] - b[2]) + Modulus("I64") * k
  PROVE  Congruent(Square, T1 + Modulus("I64") * H1, (T + Modulus("I64") * H) + s)
<1> DEFINE M == Modulus("I64")
           x == b[1]
           y == b[2]
           u == c[1]
           w == c[2]
<1>1. M \in Nat \ {0} /\ x \in Int /\ y \in Int /\ u \in Int /\ w \in Int
  BY LongIs, WholeTyped
<1>2. PICK j \in Int : u + M * w = (x + M * y) + s + (M * M) * j
  BY DEF SameWhole, Whole
<1>3. T1 = T + (u - x) /\ H1 = H + (w - y) + M * k
  OBVIOUS
<1> HIDE DEF M, x, y, u, w
<1>4. M * H1 = M * H + M * w - M * y + (M * M) * k
  <2> DEFINE z == w - y
             v == M * k
  <2>1. z \in Int /\ v \in Int
    BY <1>1, SMT
  <2>2. M * z = M * w - M * y
    BY <1>1, SMT
  <2>3. M * v = (M * M) * k
    BY <1>1, SMT
  <2>4. H1 = H + z + v
    BY <1>3
  <2> HIDE DEF z, v
  <2>5. M * (H + z + v) = M * H + M * z + M * v
    BY <1>1, <2>1, SMT
  <2>6. M * H1 = M * H + M * z + M * v
    BY <2>4, <2>5
  <2> DEFINE a1 == M * w
             a2 == M * y
             a3 == M * H
             a4 == M * z
             a5 == (M * M) * k
  <2>7. a1 \in Int /\ a2 \in Int /\ a3 \in Int /\ a5 \in Int
    BY <1>1, SMT
  <2>8. a4 = a1 - a2 /\ M * H1 = a3 + a4 + a5
    BY <2>2, <2>3, <2>6
  <2> HIDE DEF a1, a2, a3, a4, a5
  <2>9. M * H1 = a3 + a1 - a2 + a5
    BY <2>7, <2>8
  <2> QED BY <2>9 DEF a1, a2, a3, a5
<1>5. (M * M) * (j + k) = (M * M) * j + (M * M) * k
  BY <1>1, SMT
<1> DEFINE A == M * H
           B == M * w
           C == M * y
           D == (M * M) * k
           E == (M * M) * j
<1>6. A \in Int /\ B \in Int /\ C \in Int /\ D \in Int /\ E \in Int
  BY <1>1, SMT
<1>7. M * H1 = A + B - C + D /\ u + B = (x + C) + s + E /\ (M * M) * (j + k) = E + D
  BY <1>2, <1>4, <1>5
<1> HIDE DEF A, B, C, D, E
<1>8. T1 + M * H1 = ((T + A) + s) + (E + D)
  BY <1>1, <1>3, <1>6, <1>7
<1>9. T1 + M * H1 = ((T + M * H) + s) + (M * M) * (j + k) /\ j + k \in Int
  BY <1>7, <1>8 DEF A
<1> QED BY <1>9 DEF Congruent, Square, M

Carry(x) == [acc \in Wide |-> AddWide(acc, x)]

LEMMA CarryTyped ==
  ASSUME NEW x \in Long
  PROVE  /\ Carry(x) \in [Wide -> Wide]
         /\ \A acc \in Wide : Carry(x)[acc] = AddWide(acc, x)
         /\ \A acc \in Wide : SameWhole(Whole(Carry(x)[acc]), Whole(acc) + Signed(x, "I64"))
         /\ Signed(x, "I64") \in Int
<1>1. \A acc \in Wide : AddWide(acc, x) \in Wide /\ SameWhole(Whole(AddWide(acc, x)), Whole(acc) + Signed(x, "I64"))
  BY AddWideSum
<1>2. Signed(x, "I64") \in Int
  BY LongIs, SignedValue DEF Long
<1>3. Carry(x) \in [Wide -> Wide] /\ \A acc \in Wide : Carry(x)[acc] = AddWide(acc, x)
  BY <1>1 DEF Carry
<1> QED BY <1>1, <1>2, <1>3

\* The parts of a collapse, and the number it stands for.
SumParts(C, T, H) ==
  T \in Int /\ H \in Long /\ C \in Wide /\ Congruent(Square, Whole(C), T + Modulus("I64") * H)

\* The collapse, by the sums of its halves.
LEMMA SumPartsOf ==
  ASSUME NEW m \in Nat \ {0}, m <= Modulus("I64"), NEW e \in Positions, NEW A \in [1 .. m -> [1 .. 2 ^ e -> Wide]],
         NEW R \in Wide
  PROVE  \E f : /\ IsSum(f, Lows(A, R, m, 2 ^ e), m * 2 ^ e + 1)
                /\ SumParts(CollapseSum(A, R), f[m * 2 ^ e + 1], High(A, R, 2 ^ e))
<1> DEFINE n == 2 ^ e
           K == m * n + 1
           X == Lows(A, R, m, n)
<1>1. n \in Nat \ {0}
  BY Logarithm
<1>2. K \in Nat /\ X \in [1 .. K -> Int]
  BY Zenon, <1>1, LowsTyped
<1>3. SumIs(CollapseSum(A, R), A, R, m, n)
  BY Zenon, <1>1, CollapseSumIs
<1>4. PICK f : IsSum(f, X, K) /\ CollapseSum(A, R) = <<Wrap(f[K], "I64"), Wrap(High(A, R, n) + f[K] \div Modulus("I64"), "I64")>>
  BY <1>3 DEF SumIs
<1>5. f[K] \in Int
  <2>1. \A i \in 0 .. K : f[i] \in Int
    <3> HIDE DEF K, X
    <3> QED BY Zenon, <1>2, <1>4, SumTyped
  <2>2. K \in 0 .. K
    <3> HIDE DEF K
    <3> QED BY <1>2
  <2> QED BY <2>1, <2>2
<1>6. High(A, R, n) \in Long /\ High(A, R, n) \in Int
  <2>1. High(A, R, n) \in Long
    BY Zenon, HighTyped
  <2> QED BY <2>1, LongIs
<1> DEFINE T == f[K]
           H == High(A, R, n)
           C == CollapseSum(A, R)
<1>7. T \in Int /\ H \in Int /\ C = <<Wrap(T, "I64"), Wrap(H + T \div Modulus("I64"), "I64")>>
  BY <1>4, <1>5, <1>6
<1>8. H \in Long
  BY <1>6
<1> HIDE DEF T, H, C
<1>9. C \in Wide /\ Congruent(Square, Whole(C), T + Modulus("I64") * H)
  BY <1>7, WholeOfHalves
<1>10. SumParts(C, T, H)
  BY <1>7, <1>8, <1>9 DEF SumParts
<1> QED BY <1>4, <1>10 DEF T, H, C, K, X, n

\* What one changed lane does to the halves.
LEMMA HighChanged ==
  ASSUME NEW m \in Nat \ {0}, m <= Modulus("I64"), NEW e \in Positions, NEW A \in [1 .. m -> [1 .. 2 ^ e -> Wide]],
         NEW R \in Wide, NEW x \in Long, NEW a \in 1 .. m, NEW j \in 1 .. 2 ^ e
  PROVE  \E k \in Int : High(ChangedAt(A, a, j, Carry(x)), R, 2 ^ e)
                          = High(A, R, 2 ^ e) + (Carry(x)[A[a][j]][2] - A[a][j][2]) + Modulus("I64") * k
<1> DEFINE n == 2 ^ e
           u == Carry(x)
           B == ChangedAt(A, a, j, u)
           b == A[a][j]
           c == u[b]
           v == Apart(b[2], c[2])
           F == FoldTree(Highs(A), Plus)
<1>1. n \in Nat \ {0} /\ u \in [Wide -> Wide]
  BY Logarithm, CarryTyped
<1>2. b \in Wide /\ c \in Wide /\ b[2] \in Long /\ c[2] \in Long
  <2>1. b \in Wide
    BY Zenon
  <2>2. c \in Wide
    <3> HIDE DEF u, b
    <3> QED BY <1>1, <2>1
  <2> QED BY Zenon, <2>1, <2>2, WholeTyped
<1>3. Acts(Plus, v, Long) /\ v[b[2]] = c[2] /\ \A z \in Long : \E k \in Int : v[z] = z + (c[2] - b[2]) + Modulus("I64") * k
  <2> DEFINE y == b[2]
             z == c[2]
  <2>1. y \in Long /\ z \in Long /\ v = Apart(y, z)
    BY <1>2
  <2> HIDE DEF y, z, v
  <2>2. Acts(Plus, v, Long) /\ v[y] = z /\ Moves(v, z - y)
    BY <2>1, Distance
  <2> QED BY <2>2 DEF y, z, Moves
<1> HIDE DEF n, u, v, c
<1>4. IsChangedAt(ChangedAt(A, a, j, u), A, a, j, u, m, n, Wide)
  <2>1. a \in 1 .. m /\ j \in 1 .. n /\ A \in [1 .. m -> [1 .. n -> Wide]]
    BY DEF n
  <2> HIDE DEF B
  <2> QED BY Zenon, <1>1, <2>1, ChangedLanes
<1>5. /\ B \in [1 .. m -> [1 .. n -> Wide]] /\ A \in [1 .. m -> [1 .. n -> Wide]]
      /\ \A i \in 1 .. m, l \in 1 .. n : B[i][l] = IF i = a /\ l = j THEN u[A[i][l]] ELSE A[i][l]
  BY <1>4 DEF IsChangedAt, n
<1>6. a \in 1 .. m /\ j \in 1 .. n /\ v \in [Long -> Long] /\ Plus \in [Long \X Long -> Long]
  BY Zenon, <1>3 DEF n, Acts
<1> HIDE DEF B
<1>7. /\ Highs(A) \in [1 .. m -> [1 .. n -> Long]] /\ Highs(B) \in [1 .. m -> [1 .. n -> Long]]
      /\ \A i \in 1 .. m, l \in 1 .. n : Highs(A)[i][l] = A[i][l][2] /\ Highs(B)[i][l] = B[i][l][2]
  <2>1. Highs(A) \in [1 .. m -> [1 .. n -> Long]] /\ \A i \in 1 .. m, l \in 1 .. n : Highs(A)[i][l] = A[i][l][2]
    BY Zenon, <1>1, <1>5, HighsTyped
  <2>2. Highs(B) \in [1 .. m -> [1 .. n -> Long]] /\ \A i \in 1 .. m, l \in 1 .. n : Highs(B)[i][l] = B[i][l][2]
    BY Zenon, <1>1, <1>5, HighsTyped
  <2> QED BY <2>1, <2>2
<1> DEFINE G == ChangedAt(Highs(A), a, j, v)
<1>8. Highs(B) = G
  <2>1. IsChangedAt(ChangedAt(Highs(A), a, j, v), Highs(A), a, j, v, m, n, Long)
    BY Zenon, <1>1, <1>6, <1>7, ChangedLanes
  <2>2. G \in [1 .. m -> [1 .. n -> Long]]
        /\ \A i \in 1 .. m, l \in 1 .. n : G[i][l] = IF i = a /\ l = j THEN v[Highs(A)[i][l]] ELSE Highs(A)[i][l]
    BY Zenon, <2>1 DEF IsChangedAt
  <2> HIDE DEF G
  <2>3. ASSUME NEW i \in 1 .. m, NEW l \in 1 .. n PROVE Highs(B)[i][l] = G[i][l]
    <3>1. CASE i = a /\ l = j
      <4>1. B[i][l] = c /\ A[i][l] = b
        BY <1>5, <3>1 DEF c
      <4>2. Highs(B)[i][l] = c[2] /\ G[i][l] = v[b[2]]
        BY <1>7, <2>2, <3>1, <4>1
      <4> QED BY <1>3, <4>2
    <3>2. CASE ~(i = a /\ l = j)
      BY <1>5, <1>7, <2>2, <3>2
    <3> QED BY <3>1, <3>2
  <2>4. ASSUME NEW i \in 1 .. m PROVE Highs(B)[i] = G[i]
    <3>1. Highs(B)[i] \in [1 .. n -> Long] /\ G[i] \in [1 .. n -> Long]
      BY <1>7, <2>2
    <3> DEFINE f == Highs(B)[i]
               g == G[i]
    <3>2. f \in [1 .. n -> Long] /\ g \in [1 .. n -> Long] /\ \A l \in 1 .. n : f[l] = g[l]
      BY <2>3, <3>1
    <3> HIDE DEF f, g
    <3>3. f = [l \in 1 .. n |-> f[l]] /\ g = [l \in 1 .. n |-> g[l]]
      BY <3>2
    <3>4. [l \in 1 .. n |-> f[l]] = [l \in 1 .. n |-> g[l]]
      BY Zenon, <3>2
    <3> QED BY <3>3, <3>4 DEF f, g
  <2> QED BY <1>7, <2>2, <2>4
<1>9. FoldTree(Highs(B), Plus) = Changed(F, j, v)
  <2>1. FoldTree(ChangedAt(Highs(A), a, j, v), Plus) = Changed(FoldTree(Highs(A), Plus), j, v)
    <3> HIDE DEF G
    <3> DEFINE W == Highs(A)
    <3>1. n \in Nat \ {0} /\ Acts(Plus, v, Long) /\ W \in [1 .. m -> [1 .. n -> Long]]
      BY Zenon, <1>1, <1>3, <1>7
    <3>2. a \in 1 .. m /\ j \in 1 .. n
      BY <1>6
    <3> HIDE DEF W, b
    <3>3. FoldTree(ChangedAt(W, a, j, v), Plus) = Changed(FoldTree(W, Plus), j, v)
      BY <3>1, <3>2, FoldTreeOnePoint, SMTT(60)
    <3> QED BY <3>3 DEF W
  <2> QED BY <1>8, <2>1
<1>10. F \in [1 .. 2 ^ e -> Long] /\ Reduce(F, 0, 2 ^ e, Plus) \in Long
  BY HighTyped
<1> HIDE DEF F
<1>11. Reduce(Changed(F, j, v), 0, 2 ^ e, Plus) = v[Reduce(F, 0, 2 ^ e, Plus)]
  <2>1. 0 \in Nat /\ 2 ^ e \in Nat /\ 0 + 2 ^ e <= 2 ^ e /\ j \in 1 .. 2 ^ e /\ j \in 0 + 1 .. 0 + 2 ^ e
    BY Logarithm
  <2> DEFINE N == 2 ^ e
             o == 0
  <2>2. o \in Nat /\ o + 2 ^ e <= N /\ N \in Nat /\ j \in 1 .. N /\ F \in [1 .. N -> Long] /\ j \in o + 1 .. o + 2 ^ e
    BY <1>10, <2>1
  <2> HIDE DEF N, o
  <2>3. Reduce(Changed(F, j, v), o, 2 ^ e, Plus) =
           IF j \in o + 1 .. o + 2 ^ e THEN v[Reduce(F, o, 2 ^ e, Plus)] ELSE Reduce(F, o, 2 ^ e, Plus)
    BY <1>3, <2>2, ReduceChanged
  <2> QED BY <2>2, <2>3 DEF o
<1> DEFINE r == Reduce(F, 0, 2 ^ e, Plus)
<1>12. High(A, R, n) = Plus[<<r, R[2]>>] /\ High(B, R, n) = Plus[<<v[r], R[2]>>]
  BY Zenon, <1>9, <1>11 DEF High, n, F
<1>13. R[2] \in Long /\ Plus[<<r, R[2]>>] \in Long
  BY <1>6, <1>10, WholeTyped
<1>14. Plus[<<v[r], R[2]>>] = v[Plus[<<r, R[2]>>]]
  BY Zenon, <1>3, <1>10, <1>13 DEF Acts
<1> HIDE DEF r
<1>15. \E k \in Int : v[Plus[<<r, R[2]>>]] = Plus[<<r, R[2]>>] + (c[2] - b[2]) + Modulus("I64") * k
  BY <1>3, <1>13
<1> QED BY <1>12, <1>14, <1>15 DEF B, c, u, n

\* Changing one accumulator changes one term of the sum of low halves.
LEMMA LowsChanged ==
  ASSUME NEW m \in Nat \ {0}, NEW n \in Nat \ {0}, NEW A \in [1 .. m -> [1 .. n -> Wide]],
         NEW R \in Wide, NEW u \in [Wide -> Wide], NEW a \in 1 .. m, NEW j \in 1 .. n
  PROVE  /\ At(n, a, j) \in 1 .. m * n + 1
         /\ OneTermMore(Lows(A, R, m, n), Lows(ChangedAt(A, a, j, u), R, m, n), m * n + 1, At(n, a, j),
                        u[A[a][j]][1] - A[a][j][1])
<1> DEFINE N == m * n
           B == ChangedAt(A, a, j, u)
           t == At(n, a, j)
           b == A[a][j]
           c == u[b]
           X == Lows(A, R, m, n)
           Y == Lows(B, R, m, n)
<1>0. N \in Nat
  BY SMT
<1>1. t \in 1 .. N /\ (t - 1) \div n = a - 1 /\ (t - 1) % n = j - 1
  <2>1. IsAt(t, m, n, a, j)
    BY Place
  <2> QED BY <2>1 DEF IsAt
<1>2. t \in 1 .. N + 1
  <2> HIDE DEF t, N
  <2> QED BY <1>0, <1>1
<1>3. IsChangedAt(ChangedAt(A, a, j, u), A, a, j, u, m, n, Wide)
  BY Zenon, ChangedLanes
<1>4. /\ B \in [1 .. m -> [1 .. n -> Wide]]
      /\ \A i \in 1 .. m, l \in 1 .. n : B[i][l] = IF i = a /\ l = j THEN u[A[i][l]] ELSE A[i][l]
  BY <1>3 DEF IsChangedAt
<1> HIDE DEF B
<1>5. b \in Wide /\ c \in Wide
  OBVIOUS
<1>6. b[1] \in Int /\ c[1] \in Int
  BY <1>5, WholeTyped
<1>7. ASSUME NEW i \in 1 .. N + 1 PROVE Y[i] = IF i = t THEN X[i] + (c[1] - b[1]) ELSE X[i]
  <2>1. CASE i <= N
    <3>1. i \in 1 .. m * n
      <4> HIDE DEF N
      <4>1. i \in 1 .. N
        BY <1>0, <2>1
      <4> QED BY <4>1 DEF N
    <3>2. \E y \in 1 .. m, l \in 1 .. n :
            i = (y - 1) * n + l /\ y = ((i - 1) \div n) + 1 /\ l = ((i - 1) % n) + 1
      BY Zenon, <3>1, PlaceOf
    <3>3. PICK y \in 1 .. m, l \in 1 .. n :
            i = (y - 1) * n + l /\ y = ((i - 1) \div n) + 1 /\ l = ((i - 1) % n) + 1
      BY Zenon, <3>2
    <3>4. X[i] = A[y][l][1] /\ Y[i] = B[y][l][1]
      BY Zenon, <2>1, <3>3 DEF Lows
    <3>5. CASE y = a /\ l = j
      <4>1. i = t
        BY Zenon, <3>3, <3>5 DEF At
      <4>2. X[i] = b[1] /\ Y[i] = c[1]
        BY <1>4, <3>4, <3>5
      <4> HIDE DEF X, Y, t, b, c
      <4> QED BY <1>6, <4>1, <4>2
    <3>6. CASE ~(y = a /\ l = j)
      <4>1. i # t
        <5> SUFFICES ASSUME i = t PROVE FALSE
          OBVIOUS
        <5>1. y = (a - 1) + 1 /\ l = (j - 1) + 1
          BY Zenon, <1>1, <3>3
        <5> QED BY <3>6, <5>1
      <4>2. B[y][l] = A[y][l]
        BY <1>4, <3>6
      <4> HIDE DEF X, Y, t, b, c
      <4> QED BY <3>4, <4>1, <4>2
    <3> QED BY <3>5, <3>6
  <2>2. CASE ~(i <= N)
    <3>1. X[i] = R[1] /\ Y[i] = R[1]
      BY <2>2 DEF Lows
    <3>2. i # t
      <4> HIDE DEF t, N
      <4> QED BY <1>0, <1>1, <2>2
    <3> HIDE DEF X, Y, t, b, c
    <3> QED BY <3>1, <3>2
  <2> QED BY <2>1, <2>2
<1>8. OneTermMore(X, Y, N + 1, t, c[1] - b[1])
  BY <1>7 DEF OneTermMore
<1> QED BY <1>2, <1>8 DEF B

\* One more row in a lane of a copy.
LEMMA SumLane ==
  ASSUME NEW m \in Nat \ {0}, m <= Modulus("I64"), NEW e \in Positions, NEW A \in [1 .. m -> [1 .. 2 ^ e -> Wide]],
         NEW R \in Wide, NEW x \in Long, NEW a \in 1 .. m, NEW j \in 1 .. 2 ^ e
  PROVE  /\ ChangedAt(A, a, j, Carry(x)) \in [1 .. m -> [1 .. 2 ^ e -> Wide]]
         /\ CollapseSum(A, R) \in Wide /\ CollapseSum(ChangedAt(A, a, j, Carry(x)), R) \in Wide
         /\ Congruent(Square, Whole(CollapseSum(ChangedAt(A, a, j, Carry(x)), R)),
                      Whole(CollapseSum(A, R)) + Signed(x, "I64"))
<1> DEFINE n == 2 ^ e
           u == Carry(x)
           B == ChangedAt(A, a, j, u)
           b == A[a][j]
           c == u[b]
           K == m * n + 1
           X == Lows(A, R, m, n)
           Y == Lows(B, R, m, n)
           s == Signed(x, "I64")
<1>1. n \in Nat \ {0} /\ u \in [Wide -> Wide] /\ b \in Wide /\ a \in 1 .. m /\ j \in 1 .. n
  BY Zenon, Logarithm, CarryTyped
<1>2. c \in Wide /\ SameWhole(Whole(c), Whole(b) + s) /\ s \in Int
  <2> HIDE DEF u, b, s
  <2> QED BY <1>1, CarryTyped DEF u, s
<1>3. B \in [1 .. m -> [1 .. 2 ^ e -> Wide]] /\ A \in [1 .. m -> [1 .. n -> Wide]]
  <2>1. A \in [1 .. m -> [1 .. n -> Wide]]
    OBVIOUS
  <2> HIDE DEF n, u
  <2>2. IsChangedAt(ChangedAt(A, a, j, u), A, a, j, u, m, n, Wide)
    BY Zenon, <1>1, <2>1, ChangedLanes
  <2> QED BY <2>1, <2>2 DEF IsChangedAt, n
<1>4. At(n, a, j) \in 1 .. K /\ OneTermMore(X, Y, K, At(n, a, j), c[1] - b[1])
  <2>1. A \in [1 .. m -> [1 .. n -> Wide]]
    BY <1>3
  <2> HIDE DEF n, u
  <2> QED BY Zenon, <1>1, <2>1, LowsChanged
<1>5. K \in Nat /\ X \in [1 .. K -> Int] /\ Y \in [1 .. K -> Int]
  <2>1. B \in [1 .. m -> [1 .. n -> Wide]]
    BY <1>3
  <2> HIDE DEF n, B
  <2> QED BY Zenon, <1>1, <1>3, <2>1, LowsTyped
<1>6. PICK f : IsSum(f, X, K) /\ SumParts(CollapseSum(A, R), f[K], High(A, R, n))
  BY SumPartsOf
<1>7. PICK g : IsSum(g, Y, K) /\ SumParts(CollapseSum(B, R), g[K], High(B, R, n))
  <2> HIDE DEF B
  <2> QED BY <1>3, SumPartsOf
<1>8. PICK k \in Int : High(B, R, n) = High(A, R, n) + (c[2] - b[2]) + Modulus("I64") * k
  BY HighChanged
<1>9. c[1] - b[1] \in Int
  <2>1. c[1] \in Int /\ b[1] \in Int
    <3> HIDE DEF b, c
    <3> QED BY <1>1, <1>2, WholeTyped
  <2> HIDE DEF b, c
  <2> QED BY <2>1
<1>10. g[K] = f[K] + (c[1] - b[1])
  <2> DEFINE d == c[1] - b[1]
             t == At(n, a, j)
  <2>1. t \in 1 .. K /\ d \in Int /\ OneTermMore(X, Y, K, t, d)
    BY <1>4, <1>9
  <2>2. IsSum(f, X, K)
    BY <1>6
  <2>3. IsSum(g, Y, K)
    BY <1>7
  <2>4. K \in Nat /\ X \in [1 .. K -> Int] /\ Y \in [1 .. K -> Int]
    BY <1>5
  <2> HIDE DEF d, t, X, Y, K
  <2>6. GrownBy(f[K], g[K], d)
    BY Zenon, <2>1, <2>2, <2>3, <2>4, SumChanged
  <2>5. g[K] = f[K] + d
    BY <2>6 DEF GrownBy
  <2> QED BY <2>5 DEF d
<1> DEFINE T == f[K]
           T1 == g[K]
           H == High(A, R, n)
           H1 == High(B, R, n)
           P == CollapseSum(A, R)
           Q == CollapseSum(B, R)
           z == T + Modulus("I64") * H
           z1 == T1 + Modulus("I64") * H1
<1>11. SumParts(P, T, H) /\ SumParts(Q, T1, H1)
  BY <1>6, <1>7
<1>12. T1 = T + (c[1] - b[1]) /\ H1 = H + (c[2] - b[2]) + Modulus("I64") * k
  BY <1>8, <1>10
<1> HIDE DEF T, T1, H, H1, P, Q, b, c, s, B
<1>13. /\ T \in Int /\ T1 \in Int /\ H \in Int /\ H1 \in Int /\ P \in Wide /\ Q \in Wide
       /\ Congruent(Square, Whole(P), z) /\ Congruent(Square, Whole(Q), z1)
  BY <1>11, LongIs DEF SumParts
<1>14. Congruent(Square, z1, z + s)
  BY Zenon, <1>1, <1>2, <1>12, <1>13, SumFollows
<1>15. z \in Int /\ z1 \in Int
  <2> DEFINE M == Modulus("I64")
  <2>1. M \in Int
    BY LongIs
  <2> HIDE DEF M
  <2>2. M * H \in Int /\ M * H1 \in Int
    BY <1>13, <2>1, SMT
  <2> QED BY <1>13, <2>2 DEF M
<1> HIDE DEF z, z1
<1>16. Square \in Nat \ {0} /\ Whole(P) \in Int /\ Whole(Q) \in Int /\ z + s \in Int /\ Whole(P) + s \in Int
  <2>1. Square \in Nat \ {0} /\ Whole(P) \in Int /\ Whole(Q) \in Int
    BY <1>13, SquareIs, WholeTyped
  <2> QED BY <1>2, <1>15, <2>1
<1>17. Congruent(Square, z + s, Whole(P) + s)
  <2>1. Congruent(Square, z, Whole(P)) /\ Congruent(Square, s, s)
    BY Zenon, <1>2, <1>13, <1>15, <1>16, CongruentBack, CongruentMod
  <2> QED BY <1>2, <1>15, <1>16, <2>1, CongruentSums
<1>18. Congruent(Square, Whole(Q), z + s)
  BY <1>13, <1>14, <1>15, <1>16, CongruentChain
<1>19. Congruent(Square, Whole(Q), Whole(P) + s)
  BY <1>16, <1>17, <1>18, CongruentChain
<1> QED BY <1>3, <1>13, <1>19 DEF P, Q, s, B, u

\* One more row in the accumulator of the remainder.
LEMMA SumRest ==
  ASSUME NEW m \in Nat \ {0}, m <= Modulus("I64"), NEW e \in Positions, NEW A \in [1 .. m -> [1 .. 2 ^ e -> Wide]],
         NEW R \in Wide, NEW x \in Long
  PROVE  /\ CollapseSum(A, R) \in Wide /\ CollapseSum(A, AddWide(R, x)) \in Wide
         /\ Congruent(Square, Whole(CollapseSum(A, AddWide(R, x))), Whole(CollapseSum(A, R)) + Signed(x, "I64"))
<1> DEFINE n == 2 ^ e
           c == AddWide(R, x)
           N == m * n
           K == m * n + 1
           X == Lows(A, R, m, n)
           Y == Lows(A, c, m, n)
           s == Signed(x, "I64")
<1>1. n \in Nat \ {0}
  BY Logarithm
<1>2. c \in Wide /\ SameWhole(Whole(c), Whole(R) + s) /\ s \in Int
  BY AddWideSum, CarryTyped
<1>3. A \in [1 .. m -> [1 .. n -> Wide]]
  OBVIOUS
<1>4. N \in Nat /\ K \in Nat /\ X \in [1 .. K -> Int] /\ Y \in [1 .. K -> Int]
  <2> HIDE DEF n, c
  <2> QED BY Zenon, <1>1, <1>2, <1>3, LowsTyped
<1>5. c[1] \in Int /\ R[1] \in Int /\ c[2] \in Long /\ R[2] \in Long /\ c[2] \in Int /\ R[2] \in Int
  <2> HIDE DEF c
  <2> QED BY <1>2, WholeTyped
<1>6. K \in 1 .. K /\ OneTermMore(X, Y, K, K, c[1] - R[1])
  <2>0. K = N + 1
    OBVIOUS
  <2>1. ASSUME NEW i \in 1 .. K PROVE Y[i] = IF i = K THEN X[i] + (c[1] - R[1]) ELSE X[i]
    <3>1. CASE i <= N
      <4>1. X[i] = Y[i]
        BY <3>1 DEF Lows
      <4>2. i # K
        <5> HIDE DEF N, K
        <5> QED BY <1>4, <2>0, <3>1
      <4> HIDE DEF X, Y, K
      <4> QED BY <4>1, <4>2
    <3>2. CASE ~(i <= N)
      <4>1. X[i] = R[1] /\ Y[i] = c[1]
        BY <3>2 DEF Lows
      <4>2. i = K
        <5> HIDE DEF N, K
        <5> QED BY <1>4, <2>0, <3>2
      <4> HIDE DEF X, Y, K, c
      <4> QED BY <1>5, <4>1, <4>2
    <3> QED BY <3>1, <3>2
  <2>2. K \in 1 .. K
    <3> HIDE DEF N, K
    <3> QED BY <1>4, <2>0
  <2> QED BY <2>1, <2>2 DEF OneTermMore
<1>7. PICK f : IsSum(f, X, K) /\ SumParts(CollapseSum(A, R), f[K], High(A, R, n))
  BY SumPartsOf
<1>8. PICK g : IsSum(g, Y, K) /\ SumParts(CollapseSum(A, c), g[K], High(A, c, n))
  <2> HIDE DEF c
  <2> QED BY <1>2, SumPartsOf
<1> DEFINE v == Apart(R[2], c[2])
           r == Reduce(FoldTree(Highs(A), Plus), 0, n, Plus)
<1>9. Acts(Plus, v, Long) /\ v[R[2]] = c[2] /\ Moves(v, c[2] - R[2])
  <2> DEFINE y == R[2]
             z == c[2]
  <2>1. y \in Long /\ z \in Long /\ v = Apart(y, z)
    BY <1>5
  <2> HIDE DEF y, z, v
  <2>2. Acts(Plus, v, Long) /\ v[y] = z /\ Moves(v, z - y)
    BY <2>1, Distance
  <2> QED BY <2>2 DEF y, z
<1>10. r \in Long
  BY Zenon, HighTyped
<1> HIDE DEF r, v
<1>11. High(A, R, n) = Plus[<<r, R[2]>>] /\ High(A, c, n) = Plus[<<r, c[2]>>] /\ Plus[<<r, R[2]>>] \in Long
  <2>1. Plus[<<r, R[2]>>] \in Long
    BY <1>5, <1>10, PlusTyped
  <2> QED BY <2>1 DEF High, r
<1>12. Plus[<<r, c[2]>>] = v[Plus[<<r, R[2]>>]]
  <2> DEFINE y == R[2]
  <2>1. y \in Long /\ v[y] = c[2] /\ r \in Long
    BY <1>5, <1>9, <1>10
  <2> HIDE DEF y, c
  <2>2. Plus[<<r, v[y]>>] = v[Plus[<<r, y>>]]
    BY Zenon, <1>9, <2>1 DEF Acts
  <2> QED BY <2>1, <2>2 DEF y
<1>13. PICK k \in Int : High(A, c, n) = High(A, R, n) + (c[2] - R[2]) + Modulus("I64") * k
  BY <1>9, <1>11, <1>12 DEF Moves
<1>14. g[K] = f[K] + (c[1] - R[1])
  <2> DEFINE d == c[1] - R[1]
  <2>1. K \in 1 .. K /\ d \in Int /\ OneTermMore(X, Y, K, K, d)
    <3>1. d \in Int
      <4> HIDE DEF c
      <4> QED BY <1>5
    <3> QED BY <1>6, <3>1
  <2>2. IsSum(f, X, K)
    BY <1>7
  <2>3. IsSum(g, Y, K)
    BY <1>8
  <2>4. K \in Nat /\ X \in [1 .. K -> Int] /\ Y \in [1 .. K -> Int]
    BY <1>4
  <2> HIDE DEF d, X, Y, K
  <2>6. GrownBy(f[K], g[K], d)
    BY Zenon, <2>1, <2>2, <2>3, <2>4, SumChanged
  <2>5. g[K] = f[K] + d
    BY <2>6 DEF GrownBy
  <2> QED BY <2>5 DEF d
<1> DEFINE T == f[K]
           T1 == g[K]
           H == High(A, R, n)
           H1 == High(A, c, n)
           P == CollapseSum(A, R)
           Q == CollapseSum(A, c)
           z == T + Modulus("I64") * H
           z1 == T1 + Modulus("I64") * H1
<1>15. SumParts(P, T, H) /\ SumParts(Q, T1, H1)
  BY <1>7, <1>8
<1>16. T1 = T + (c[1] - R[1]) /\ H1 = H + (c[2] - R[2]) + Modulus("I64") * k
  BY <1>13, <1>14
<1> HIDE DEF T, T1, H, H1, P, Q, c, s
<1>17. /\ T \in Int /\ T1 \in Int /\ H \in Int /\ H1 \in Int /\ P \in Wide /\ Q \in Wide
       /\ Congruent(Square, Whole(P), z) /\ Congruent(Square, Whole(Q), z1)
  BY <1>15, LongIs DEF SumParts
<1>18. Congruent(Square, z1, z + s)
  BY <1>2, <1>16, <1>17, SumFollows
<1>19. z \in Int /\ z1 \in Int
  <2> DEFINE M == Modulus("I64")
  <2>1. M \in Int
    BY LongIs
  <2> HIDE DEF M
  <2>2. M * H \in Int /\ M * H1 \in Int
    BY <1>17, <2>1, SMT
  <2> QED BY <1>17, <2>2 DEF M
<1> HIDE DEF z, z1
<1>20. Square \in Nat \ {0} /\ Whole(P) \in Int /\ Whole(Q) \in Int /\ z + s \in Int /\ Whole(P) + s \in Int
  <2>1. Square \in Nat \ {0} /\ Whole(P) \in Int /\ Whole(Q) \in Int
    BY <1>17, SquareIs, WholeTyped
  <2> QED BY <1>2, <1>19, <2>1
<1>21. Congruent(Square, z + s, Whole(P) + s)
  <2>1. Congruent(Square, z, Whole(P)) /\ Congruent(Square, s, s)
    BY Zenon, <1>2, <1>17, <1>19, <1>20, CongruentBack, CongruentMod
  <2> QED BY <1>2, <1>19, <1>20, <2>1, CongruentSums
<1>22. Congruent(Square, Whole(Q), z + s)
  BY <1>17, <1>18, <1>19, <1>20, CongruentChain
<1>23. Congruent(Square, Whole(Q), Whole(P) + s)
  BY <1>20, <1>21, <1>22, CongruentChain
<1> QED BY <1>17, <1>23 DEF P, Q, s, c

\* The number of a pair, but for what two words lose.
LEMMA NumberWhole ==
  ASSUME NEW v \in Wide
  PROVE  Number128(v) \in Int /\ Congruent(Square, Number128(v), Whole(v))
<1> DEFINE M == Modulus("I64")
           h == Half("I64")
           l == v[1]
           b == v[2]
           s == Signed(b, "I64")
           P == M * M
<1>1. M \in Nat \ {0} /\ h \in Nat \ {0} /\ M = 2 * h /\ l \in 0 .. M - 1 /\ b \in 0 .. M - 1
  BY LongIs DEF Wide
<1>2. s = (IF b >= h THEN b - M ELSE b) /\ s \in -h .. h - 1
  BY LongIs, SignedValue DEF Wide, Long
<1>3. Number128(v) = s * M + l /\ Whole(v) = l + M * b
  BY DEF Number128, Whole
<1> DEFINE N == Number128(v)
           W == Whole(v)
<1> HIDE DEF M, h, l, b, s, N, W
<1>4. P \in Int /\ M * b \in Int /\ s * M \in Int
  BY <1>1, <1>2, SMT
<1>5. N \in Int /\ W \in Int
  <2> DEFINE x == s * M
             y == M * b
  <2>1. x \in Int /\ y \in Int /\ N = x + l /\ W = l + y
    BY <1>3, <1>4 DEF N, W
  <2> HIDE DEF x, y
  <2> QED BY <1>1, <2>1
<1>6. \E k \in Int : N = W + P * k
  <2>1. CASE b >= h
    <3>1. M * s = M * b - P
      BY <1>1, <1>2, <2>1, SMT
    <3>2. P * (-1) = -P
      BY <1>1, <1>4, SMT
    <3>3. s * M = M * s
      BY <1>1, <1>2, SMT
    <3> DEFINE A == M * b
    <3>4. A \in Int
      BY <1>4
    <3> HIDE DEF A, P
    <3>5. N = W - P
      BY <1>1, <1>3, <1>4, <3>1, <3>3, <3>4 DEF A, N, W
    <3>6. N = W + P * (-1)
      BY <1>4, <1>5, <3>2, <3>5
    <3> QED BY <3>6
  <2>2. CASE b < h
    <3>1. s = b
      BY <1>1, <1>2, <2>2
    <3>2. s * M = M * b
      BY <1>1, <3>1, SMT
    <3>3. P * 0 = 0
      BY <1>1, <1>4, SMT
    <3> DEFINE A == M * b
    <3>4. A \in Int
      BY <1>4
    <3> HIDE DEF A, P
    <3>5. N = W
      BY <1>1, <1>3, <3>2, <3>4 DEF A, N, W
    <3>6. N = W + P * 0
      BY <1>4, <1>5, <3>3, <3>5
    <3> QED BY <3>6
  <2> QED BY <1>1, <2>1, <2>2
<1>7. SameWhole(N, W)
  BY <1>6 DEF SameWhole, M, P
<1> QED BY <1>5, <1>7, SquareIs DEF N, W

\* The collapse of the accumulators is the sum, while 128 bits hold that.
LEMMA NumberFollows ==
  ASSUME NEW C \in Wide, NEW D \in Wide, NEW s \in Int, Congruent(Square, Whole(D), Whole(C) + s),
         -(Modulus("I64") * Half("I64")) <= Number128(C) + s, Number128(C) + s < Modulus("I64") * Half("I64")
  PROVE  Number128(D) = Number128(C) + s
<1> DEFINE n == Number128(C)
           W == Whole(C)
           X == Whole(D)
<1>1. n \in Int /\ Congruent(Square, n, W) /\ W \in Int /\ X \in Int /\ Square \in Nat \ {0}
  BY NumberWhole, WholeTyped, SquareIs
<1>2. n + s \in Int /\ W + s \in Int
  <2> HIDE DEF n, W
  <2> QED BY <1>1
<1>3. Congruent(Square, X, n + s)
  <2> HIDE DEF n, W, X
  <2>1. Congruent(Square, W, n) /\ Congruent(Square, s, s)
    BY Zenon, <1>1, CongruentBack, CongruentMod
  <2>2. Congruent(Square, W + s, n + s)
    BY <1>1, <1>2, <2>1, CongruentSums
  <2>3. Congruent(Square, X, W + s)
    BY DEF X, W
  <2> QED BY <1>1, <1>2, <2>2, <2>3, CongruentChain
<1>4. SameWhole(X, n + s)
  BY <1>3, SquareIs
<1>5. -(Modulus("I64") * Half("I64")) <= n + s /\ n + s < Modulus("I64") * Half("I64")
  OBVIOUS
<1> HIDE DEF n
<1>6. Number128(D) = n + s
  BY <1>2, <1>4, <1>5, NumberIs
<1> QED BY <1>6 DEF n

\* Accumulators of zeros collapse to zero.
LEMMA SumNeutral ==
  ASSUME NEW m \in Nat \ {0}, m <= Modulus("I64"), NEW e \in Positions
  PROVE  /\ <<0, 0>> \in Wide
         /\ Seq1(m, Seq1(2 ^ e, <<0, 0>>)) \in [1 .. m -> [1 .. 2 ^ e -> Wide]]
         /\ Number128(CollapseSum(Seq1(m, Seq1(2 ^ e, <<0, 0>>)), <<0, 0>>)) = 0
<1> DEFINE n == 2 ^ e
           R == <<0, 0>>
           A == Seq1(m, Seq1(n, R))
           K == m * n + 1
           X == Lows(A, R, m, n)
<1>1. n \in Nat \ {0} /\ R \in Wide /\ 0 \in Long
  BY Logarithm, LongIs DEF Wide
<1>2. A \in [1 .. m -> [1 .. 2 ^ e -> Wide]] /\ A \in [1 .. m -> [1 .. n -> Wide]]
  <2> HIDE DEF R
  <2> QED BY <1>1 DEF Seq1
<1>3. K \in Nat /\ K = m * n + 1
  <2> HIDE DEF n
  <2>1. m * n \in Nat
    BY <1>1, SMT
  <2> QED BY <2>1
<1>4. ASSUME NEW i \in 1 .. K PROVE X[i] = 0
  <2>1. CASE i <= m * n
    <3>1. i \in 1 .. m * n
      <4> DEFINE N == m * n
      <4>1. i \in 1 .. N + 1 /\ i <= N /\ N + 1 \in Nat
        BY <1>3, <2>1
      <4> HIDE DEF N
      <4>2. i \in 1 .. N
        BY <4>1
      <4> QED BY <4>2 DEF N
    <3>2. \E y \in 1 .. m, l \in 1 .. n :
            i = (y - 1) * n + l /\ y = ((i - 1) \div n) + 1 /\ l = ((i - 1) % n) + 1
      <4> HIDE DEF n
      <4> QED BY Zenon, <1>1, <3>1, PlaceOf
    <3>3. PICK y \in 1 .. m, l \in 1 .. n :
            i = (y - 1) * n + l /\ y = ((i - 1) \div n) + 1 /\ l = ((i - 1) % n) + 1
      BY Zenon, <3>2
    <3>4. X[i] = A[y][l][1]
      <4> HIDE DEF A, n
      <4> QED BY <2>1, <3>3 DEF Lows
    <3>5. A[y][l] = R
      <4> HIDE DEF R, n
      <4> QED BY DEF Seq1
    <3> HIDE DEF A, X
    <3> QED BY <3>4, <3>5
  <2>2. CASE ~(i <= m * n)
    <3> HIDE DEF A, n
    <3> QED BY <2>2 DEF Lows
  <2> QED BY <2>1, <2>2
<1>5. PICK f : IsSum(f, X, K) /\ SumParts(CollapseSum(A, R), f[K], High(A, R, n))
  <2> HIDE DEF A, R
  <2> QED BY <1>1, <1>2, SumPartsOf
<1>6. f[K] = 0
  <2>1. \A i \in 1 .. K : X[i] = 0
    BY <1>4
  <2>2. IsSum(f, X, K)
    BY <1>5
  <2> HIDE DEF K, X
  <2> QED BY <1>3, <2>1, <2>2, SumOfZeros
<1>7. High(A, R, n) = 0
  <2>1. Highs(A) = Seq1(m, Seq1(n, 0))
    <3> HIDE DEF n
    <3> QED BY DEF Highs, Seq1
  <2>2. Plus[<<0, 0>>] = 0 /\ Plus \in [Long \X Long -> Long]
    <3>1. Plus[<<0, 0>>] = Wrap(0 + 0, "I64")
      BY <1>1, PlusTyped
    <3>2. Wrap(0, "I64") = 0
      BY LongIs DEF Wrap
    <3> QED BY <3>1, <3>2, PlusTyped
  <2>3. FoldTree(Seq1(m, Seq1(n, 0)), Plus) = Seq1(n, 0)
    <3> HIDE DEF n
    <3> QED BY <1>1, <2>2, FoldTreeNeutral
  <2>4. Slice(Seq1(n, 0), 0, n) = Seq1(n, 0)
    <3>1. \A i \in 1 .. n : 0 + i = i
      <4> HIDE DEF n
      <4> QED BY <1>1
    <3> HIDE DEF n
    <3> QED BY <3>1 DEF Slice, Seq1
  <2>5. Reduce(Seq1(n, 0), 0, n, Plus) = 0
    <3> DEFINE z == 0
    <3>1. z \in Long /\ Plus[<<z, z>>] = z /\ Plus \in [Long \X Long -> Long] /\ n \in Nat /\ z \in Nat /\ z + 2 ^ e <= n
      <4>1. 0 + n <= n
        <5> HIDE DEF n
        <5> QED BY <1>1
      <4> QED BY <1>1, <2>2, <4>1
    <3>2. Reduce(Seq1(n, z), z, 2 ^ e, Plus) = z
      <4> HIDE DEF z, n
      <4> QED BY <3>1, SameReduced
    <3> QED BY <3>2
  <2> HIDE DEF A, n
  <2> QED BY <2>1, <2>2, <2>3, <2>5 DEF High
<1> DEFINE C == CollapseSum(A, R)
<1>8. C \in Wide /\ Congruent(Square, Whole(C), 0 + Modulus("I64") * 0)
  BY <1>5, <1>6, <1>7 DEF SumParts
<1> HIDE DEF C
<1>9. Number128(C) = 0
  <2>1. 0 + Modulus("I64") * 0 = 0
    BY LongIs, SMT
  <2>2. SameWhole(Whole(C), 0)
    BY <1>8, <2>1, SquareIs
  <2>3. -(Modulus("I64") * Half("I64")) <= 0 /\ 0 < Modulus("I64") * Half("I64")
    <3> DEFINE M == Modulus("I64")
               h == Half("I64")
    <3>1. M \in Nat \ {0} /\ h \in Nat \ {0}
      BY LongIs
    <3> HIDE DEF M, h
    <3>2. M * h \in Nat \ {0}
      BY <3>1, SMT
    <3>3. -(M * h) <= 0 /\ 0 < M * h
      BY <3>2
    <3> QED BY <3>3 DEF M, h
  <2> QED BY <1>8, <2>2, <2>3, NumberIs
<1> QED BY <1>1, <1>2, <1>9 DEF C

\* Without a main loop the collapse is the accumulator of the remainder.
LEMMA EmptySum ==
  ASSUME NEW R \in Wide
  PROVE  CollapseSum(<<>>, R) = R
<1> DEFINE low(i) == IF i <= Len(<<>>) * 0 THEN <<>>[((i - 1) \div 0) + 1][((i - 1) % 0) + 1][1] ELSE R[1]
           sum[i \in 0 .. Len(<<>>) * 0 + 1] == IF i = 0 THEN 0 ELSE sum[i - 1] + low(i)
<1>1. R = <<R[1], R[2]>> /\ R[1] \in Long /\ R[2] \in Long /\ R[1] \in Int /\ R[2] \in Int
  BY WholeTyped DEF Wide
<1>2. Len(<<>>) * 0 + 1 = 1 /\ Len(<<>>) * 0 = 0
  OBVIOUS
<1>3. low(1) = R[1]
  BY <1>2
<1> DEFINE f == [i \in 0 .. 1 |-> IF i = 0 THEN 0 ELSE R[1]]
<1>4. f = [i \in 0 .. Len(<<>>) * 0 + 1 |-> IF i = 0 THEN 0 ELSE f[i - 1] + low(i)]
  <2>1. 0 .. 1 = {0, 1}
    OBVIOUS
  <2>2. \A i \in 0 .. 1 : f[i] = IF i = 0 THEN 0 ELSE f[i - 1] + low(i)
    <3>1. f[0] = 0 /\ f[1] = R[1] /\ f[1 - 1] = 0
      OBVIOUS
    <3>2. f[1] = f[1 - 1] + low(1)
      BY <1>1, <1>3, <3>1
    <3> HIDE DEF f, low
    <3> QED BY <2>1, <3>1, <3>2
  <2>3. f = [i \in 0 .. 1 |-> f[i]]
    OBVIOUS
  <2> HIDE DEF f, low
  <2>4. f = [i \in 0 .. 1 |-> IF i = 0 THEN 0 ELSE f[i - 1] + low(i)]
    BY Zenon, <2>2, <2>3
  <2> QED BY Zenon, <1>2, <2>4
<1>5. sum = [i \in 0 .. Len(<<>>) * 0 + 1 |-> IF i = 0 THEN 0 ELSE sum[i - 1] + low(i)]
  <2> HIDE DEF low, f
  <2> QED BY Zenon, <1>4
<1> HIDE DEF sum
<1>6. sum[1] = R[1]
  <2> HIDE DEF low
  <2>1. sum[0] = 0
    BY <1>2, <1>5
  <2>2. sum[1] = sum[0] + low(1)
    BY <1>2, <1>5
  <2> QED BY <1>1, <1>3, <2>1, <2>2
<1>7. CollapseSum(<<>>, R) = <<Wrap(sum[1], "I64"), Wrap(R[2] + sum[1] \div Modulus("I64"), "I64")>>
  <2>1. CollapseSum(<<>>, R) = <<Wrap(sum[Len(<<>>) * 0 + 1], "I64"),
                                 Wrap(R[2] + sum[Len(<<>>) * 0 + 1] \div Modulus("I64"), "I64")>>
    BY Zenon DEF CollapseSum, sum
  <2> QED BY <1>2, <2>1
<1>8. R[1] \div Modulus("I64") = 0 /\ Wrap(R[1], "I64") = R[1] /\ Wrap(R[2], "I64") = R[2]
  <2> DEFINE M == Modulus("I64")
             x == R[1]
             y == R[2]
  <2>1. M \in Nat \ {0} /\ x \in 0 .. M - 1 /\ y \in 0 .. M - 1
    BY <1>1, LongIs
  <2>2. Wrap(x, "I64") = x % M /\ Wrap(y, "I64") = y % M
    BY DEF Wrap
  <2> HIDE DEF M, x, y
  <2>3. x \div M = 0 /\ x % M = x /\ y % M = y
    BY <2>1, SMT
  <2> QED BY <2>2, <2>3 DEF M, x, y
<1> QED BY <1>1, <1>6, <1>7, <1>8
=============================================================================
