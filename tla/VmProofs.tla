----------------------------- MODULE VmProofs ------------------------------
(***************************************************************************)
(* Proofs about AssembledVm, for every width of the words from 17 to 32    *)
(* bits, every set of programs and every size of the memory: the registers *)
(* keep their width, a tame program stays inside the buffers, and the      *)
(* machine does what the source of its program means.                      *)
(***************************************************************************)
EXTENDS AssembledVm, FiniteSetTheorems, WellFoundedInduction, TLAPS

(* Powers of 2, quotients and remainders. *)

\* A set of numbers has a least one.
LEMMA LeastIn ==
    ASSUME NEW S, S \subseteq Nat, S # {}
    PROVE  \E m \in S : \A k \in S : m <= k
<1> DEFINE R == OpToRel(<, Nat)
<1>1. IsWellFoundedOn(R, Nat)
  BY NatLessThanWellFounded, Zenon
<1>2. \A m, k \in Nat : k < m => <<k, m>> \in R
  BY DEF OpToRel
<1> HIDE DEF R
<1>3. PICK m \in S : \A k \in S : ~(<<k, m>> \in R)
  BY <1>1, WFMin
<1>4. \A k \in S : ~(k < m) /\ k \in Nat /\ m \in Nat
  BY <1>2, <1>3
<1> QED
  BY <1>4

\* The powers of 2 count subsets, which is why each is twice the last one.
LEMMA Doubling ==
    ASSUME NEW n \in Nat
    PROVE  2 ^ n \in Nat \ {0} /\ 2 ^ (n + 1) = 2 * 2 ^ n
<1> DEFINE A == SUBSET (1 .. n)
           f == [x \in A |-> x \cup {n + 1}]
           B == {x \cup {n + 1} : x \in A}
<1>1. /\ IsFiniteSet(1 .. n) /\ Cardinality(1 .. n) = n
      /\ IsFiniteSet(1 .. n + 1) /\ Cardinality(1 .. n + 1) = n + 1
  BY FS_Interval
<1>2. IsFiniteSet(A) /\ Cardinality(A) = 2 ^ n /\ Cardinality(SUBSET (1 .. n + 1)) = 2 ^ (n + 1)
  BY <1>1, FS_SUBSET
<1>3. f \in Bijection(A, B)
  <2>1. f \in [A -> B]
    OBVIOUS
  <2>2. \A x, y \in A : f[x] = f[y] => x = y
    <3>1. \A x \in A : n + 1 \notin x
      OBVIOUS
    <3> QED
      BY <3>1
  <2>3. \A b \in B : \E x \in A : f[x] = b
    OBVIOUS
  <2> HIDE DEF A, B, f
  <2>4. f \in Injection(A, B) /\ f \in Surjection(A, B)
    BY <2>1, <2>2, <2>3 DEF Injection, Surjection, IsInjective
  <2> QED
    BY <2>4 DEF Bijection
<1>4. IsFiniteSet(B) /\ Cardinality(B) = Cardinality(A)
  <2> HIDE DEF A, B, f
  <2>1. ExistsBijection(A, B)
    BY <1>3 DEF ExistsBijection
  <2> QED
    BY <1>2, <2>1, FS_Bijection
<1>5. A \cap B = {}
  OBVIOUS
<1>6. SUBSET (1 .. n + 1) = A \cup B
  <2>1. ASSUME NEW x \in SUBSET (1 .. n + 1) PROVE x \in A \cup B
    <3>1. CASE n + 1 \in x
      <4>1. x \ {n + 1} \in A /\ x = (x \ {n + 1}) \cup {n + 1}
        BY <3>1
      <4> QED
        BY <4>1
    <3>2. CASE n + 1 \notin x
      <4>1. \A e \in x : e \in 1 .. n
        BY <3>2
      <4> QED
        BY <4>1
    <3> QED
      BY <3>1, <3>2
  <2>2. ASSUME NEW x \in A \cup B PROVE x \in SUBSET (1 .. n + 1)
    <3>1. \A e \in 1 .. n : e \in 1 .. n + 1
      OBVIOUS
    <3>2. n + 1 \in 1 .. n + 1
      OBVIOUS
    <3> QED
      BY <3>1, <3>2
  <2> QED
    BY <2>1, <2>2
<1>7. Cardinality(A) \in Nat /\ Cardinality(A) # 0
  <2>1. {} \in A
    OBVIOUS
  <2> HIDE DEF A
  <2> QED
    BY <1>2, <2>1, FS_EmptySet, FS_CardinalityType
<1>8. Cardinality(A \cup B) = Cardinality(A) + Cardinality(B)
  <2> HIDE DEF A, B
  <2>1. Cardinality(A \cup B) = Cardinality(A) + Cardinality(B) - Cardinality(A \cap B)
    BY <1>2, <1>4, FS_Union
  <2>2. Cardinality(A \cap B) = 0
    BY <1>5, FS_EmptySet
  <2> QED
    BY <1>4, <1>7, <2>1, <2>2
<1> HIDE DEF A, B, f
<1>9. 2 ^ (n + 1) = 2 ^ n + 2 ^ n
  BY <1>2, <1>4, <1>6, <1>8
<1>10. 2 ^ n \in Nat \ {0}
  BY <1>2, <1>7
<1> QED
  BY <1>9, <1>10

\* Powers of 2 multiply by adding their exponents: a shift by m + n is a shift by
\* m and one by n.
LEMMA PowerSum ==
    ASSUME NEW m \in Nat, NEW n \in Nat
    PROVE  2 ^ (m + n) = 2 ^ m * 2 ^ n
<1> DEFINE Bad == {k \in Nat : 2 ^ (m + k) # 2 ^ m * 2 ^ k}
<1>1. ASSUME Bad # {} PROVE FALSE
  <2>0. Bad \subseteq Nat
    OBVIOUS
  <2>1. PICK k \in Bad : \A j \in Bad : k <= j
    <3> HIDE DEF Bad
    <3> QED
      BY <1>1, <2>0, LeastIn
  <2>2. CASE k = 0
    <3>1. 2 ^ (m + 0) = 2 ^ m /\ 2 ^ 0 = 1 /\ 2 ^ m \in Nat
      BY Doubling
    <3> QED
      BY <2>1, <2>2, <3>1
  <2>3. CASE k # 0
    <3>1. k - 1 \in Nat /\ k - 1 \notin Bad
      BY <2>1, <2>3
    <3>2. 2 ^ (m + (k - 1)) = 2 ^ m * 2 ^ (k - 1)
      BY <3>1
    <3>3. /\ 2 ^ ((m + (k - 1)) + 1) = 2 * 2 ^ (m + (k - 1))
          /\ 2 ^ ((k - 1) + 1) = 2 * 2 ^ (k - 1)
          /\ 2 ^ m \in Nat /\ 2 ^ (k - 1) \in Nat
      BY <3>1, Doubling
    <3>4. (m + (k - 1)) + 1 = m + k /\ (k - 1) + 1 = k
      BY <2>1
    <3>5. 2 ^ (m + k) = 2 * (2 ^ m * 2 ^ (k - 1)) /\ 2 ^ k = 2 * 2 ^ (k - 1)
      BY <3>2, <3>3, <3>4
    <3>6. \A a, b \in Nat : 2 * (a * b) = a * (2 * b)
      OBVIOUS
    <3> QED
      BY <2>1, <3>3, <3>5, <3>6
  <2> QED
    BY <2>2, <2>3
<1> QED
  BY <1>1

\* A quotient and a remainder make up the number again.
LEMMA DivMod ==
    ASSUME NEW M \in Nat \ {0}, NEW a \in Int
    PROVE  a \div M \in Int /\ a = M * (a \div M) + (a % M) /\ a % M \in 0 .. (M - 1)
  OBVIOUS

\* Quotient and remainder are unique.
LEMMA DivModUnique ==
    ASSUME NEW M \in Nat \ {0}, NEW p \in Int, NEW q \in Int,
           NEW r \in 0 .. (M - 1), NEW s \in 0 .. (M - 1),
           M * p + r = M * q + s
    PROVE  p = q /\ r = s
<1>1. CASE p < q
  <2>1. M * (q - p) >= M
    BY <1>1
  <2>2. M * q = M * p + M * (q - p)
    OBVIOUS
  <2> QED
    BY <2>1, <2>2
<1>2. CASE q < p
  <2>1. M * (p - q) >= M
    BY <1>2
  <2>2. M * p = M * q + M * (p - q)
    OBVIOUS
  <2> QED
    BY <2>1, <2>2
<1> QED
  BY <1>1, <1>2

\* A word: 2 ^ WordBits is large enough for the addresses of the code.
LEMMA WordSize ==
    /\ WordBits \in Nat /\ WordBits - 1 \in Nat
    /\ 2 ^ WordBits \in Nat /\ 2 ^ WordBits >= 131072
<1>1. WordBits \in Nat /\ WordBits - 17 \in Nat /\ 17 + (WordBits - 17) = WordBits
  BY WordAssumption
<1>2. 2 ^ WordBits = 2 ^ 17 * 2 ^ (WordBits - 17)
  BY <1>1, PowerSum
<1>3. 2 ^ (WordBits - 17) \in Nat \ {0}
  BY <1>1, Doubling
<1>4. 2 ^ 17 = 131072
  OBVIOUS
<1>5. \A n \in Nat \ {0} : 131072 * n \in Nat /\ 131072 * n >= 131072
  OBVIOUS
<1> QED
  BY <1>1, <1>2, <1>3, <1>4, <1>5, WordAssumption

\* Wrapping cuts an integer to a word and leaves a word as it is; bytes are words.
LEMMA WrapWord ==
    /\ \A x \in Int : Wrap(x) \in Word
    /\ \A x \in Word : Wrap(x) = x /\ x \in Nat
    /\ Byte \subseteq Word
<1> DEFINE M == 2 ^ WordBits
<1>1. M \in Nat /\ M >= 131072
  BY WordSize
<1> HIDE DEF M
<1>2. \A x \in Int : x % M \in 0 .. M - 1
  BY <1>1
<1>3. \A x \in 0 .. M - 1 : x % M = x /\ x \in Nat
  BY <1>1
<1>4. 0 .. 255 \subseteq 0 .. M - 1
  BY <1>1
<1> QED
  BY <1>2, <1>3, <1>4 DEF M, Word, Wrap, Byte

\* The sums that FromBits makes of the first m bits.
Sums(b, m, sum) ==
    sum = [n \in 0 .. m |-> IF n = 0 THEN 0 ELSE sum[n - 1] + b[n - 1] * 2 ^ (n - 1)]

\* FromBits is the last of the sums that its recursive definition makes.
LEMMA BitSums ==
    ASSUME NEW b, \A k \in 0 .. WordBits - 1 : b[k] \in 0 .. 1
    PROVE  \E sum : /\ sum[0] = 0
                    /\ \A n \in 0 .. WordBits - 1 : sum[n + 1] = sum[n] + b[n] * 2 ^ n
                    /\ FromBits(b) = sum[WordBits]
<1> DEFINE Bad == {m \in Nat : ~\E g : Sums(b, m, g)}
<1>1. ASSUME Bad # {} PROVE FALSE
  <2>0. Bad \subseteq Nat
    OBVIOUS
  <2>1. PICK m \in Bad : \A j \in Bad : m <= j
    <3> HIDE DEF Bad
    <3> QED
      BY <1>1, <2>0, LeastIn
  <2>2. CASE m = 0
    <3> DEFINE g == [n \in 0 .. 0 |-> 0]
    <3>1. Sums(b, 0, g)
      <4>1. \A n \in 0 .. 0 : n = 0
        OBVIOUS
      <4> QED
        BY <4>1 DEF Sums
    <3> QED
      BY <2>1, <2>2, <3>1
  <2>3. CASE m # 0
    <3>1. m - 1 \in Nat /\ m - 1 \notin Bad /\ m \in Nat
      BY <2>1, <2>3
    <3>2. PICK g : Sums(b, m - 1, g)
      BY <3>1
    <3> DEFINE h == [n \in 0 .. m |-> IF n = m THEN g[m - 1] + b[m - 1] * 2 ^ (m - 1) ELSE g[n]]
    <3>3. /\ h = [n \in 0 .. m |-> h[n]]
          /\ h[m] = g[m - 1] + b[m - 1] * 2 ^ (m - 1)
          /\ \A n \in 0 .. m - 1 : h[n] = g[n]
      BY <3>1
    <3> HIDE DEF h
    <3>4. \A n \in 0 .. m - 1 : g[n] = IF n = 0 THEN 0 ELSE g[n - 1] + b[n - 1] * 2 ^ (n - 1)
      BY <3>2 DEF Sums
    <3>5. ASSUME NEW n \in 0 .. m
          PROVE  h[n] = IF n = 0 THEN 0 ELSE h[n - 1] + b[n - 1] * 2 ^ (n - 1)
      <4>1. CASE n = m
        <5>1. m - 1 \in 0 .. m - 1
          BY <3>1
        <5> QED
          BY <2>3, <3>3, <4>1, <5>1
      <4>2. CASE n = 0
        <5>1. 0 \in 0 .. m - 1
          BY <3>1
        <5> QED
          BY <3>3, <3>4, <4>2, <5>1
      <4>3. CASE n # m /\ n # 0
        <5>1. n \in 0 .. m - 1 /\ n - 1 \in 0 .. m - 1
          BY <3>1, <4>3
        <5> QED
          BY <3>3, <3>4, <4>3, <5>1
      <4> QED
        BY <4>1, <4>2, <4>3
    <3>6. Sums(b, m, h)
      BY <3>3, <3>5 DEF Sums
    <3> QED
      BY <2>1, <3>6
  <2> QED
    BY <2>2, <2>3
<1>2. \E g : Sums(b, WordBits, g)
  BY <1>1, WordSize
<1> DEFINE sum == CHOOSE g : Sums(b, WordBits, g)
<1>3. Sums(b, WordBits, sum)
  BY <1>2
<1>4. FromBits(b) = sum[WordBits]
  BY DEF FromBits, Sums
<1> HIDE DEF sum
<1>5. \A n \in 0 .. WordBits :
         sum[n] = IF n = 0 THEN 0 ELSE sum[n - 1] + b[n - 1] * 2 ^ (n - 1)
  BY <1>3 DEF Sums
<1>6. sum[0] = 0
  BY <1>5, WordSize
<1>7. ASSUME NEW n \in 0 .. WordBits - 1 PROVE sum[n + 1] = sum[n] + b[n] * 2 ^ n
  <2>1. n + 1 \in 0 .. WordBits /\ n + 1 # 0 /\ (n + 1) - 1 = n
    BY WordSize
  <2> QED
    BY <1>5, <2>1
<1> QED
  BY <1>4, <1>6, <1>7

\* FromBits makes words of bits.
LEMMA FromBitsWord ==
    ASSUME NEW b, \A k \in 0 .. WordBits - 1 : b[k] \in 0 .. 1
    PROVE  FromBits(b) \in Word
<1>1. PICK sum : /\ sum[0] = 0
                 /\ \A n \in 0 .. WordBits - 1 : sum[n + 1] = sum[n] + b[n] * 2 ^ n
                 /\ FromBits(b) = sum[WordBits]
  BY BitSums
<1> DEFINE Bad == {n \in 0 .. WordBits : sum[n] \notin 0 .. 2 ^ n - 1}
<1>2. ASSUME Bad # {} PROVE FALSE
  <2>0. Bad \subseteq Nat
    BY WordSize
  <2>1. PICK n \in Bad : \A j \in Bad : n <= j
    <3> HIDE DEF Bad
    <3> QED
      BY <1>2, <2>0, LeastIn
  <2>2. CASE n = 0
    <3>1. 2 ^ 0 = 1
      OBVIOUS
    <3> QED
      BY <1>1, <2>1, <2>2, <3>1
  <2>3. CASE n # 0
    <3>1. n - 1 \in 0 .. WordBits - 1 /\ n - 1 \in 0 .. WordBits /\ (n - 1) + 1 = n /\ ~(n <= n - 1)
          /\ n - 1 \in Nat
      BY <2>1, <2>3, WordSize
    <3>2. sum[n - 1] \in 0 .. 2 ^ (n - 1) - 1
      BY <2>1, <3>1
    <3>3. sum[n] = sum[n - 1] + b[n - 1] * 2 ^ (n - 1) /\ b[n - 1] \in 0 .. 1
      BY <1>1, <3>1
    <3>4. 2 ^ (n - 1) \in Nat \ {0} /\ 2 ^ n = 2 * 2 ^ (n - 1)
      BY <3>1, Doubling
    <3>5. \A M \in Nat \ {0}, s \in Nat, x \in 0 .. 1 : s <= M - 1 => s + x * M \in 0 .. 2 * M - 1
      OBVIOUS
    <3> QED
      BY <2>1, <3>2, <3>3, <3>4, <3>5
  <2> QED
    BY <2>2, <2>3
<1>3. WordBits \in 0 .. WordBits
  BY WordSize
<1>4. sum[WordBits] \in 0 .. 2 ^ WordBits - 1
  BY <1>2, <1>3
<1> QED
  BY <1>1, <1>4 DEF Word

\* One bit more of a number.
LEMMA NextBitOf ==
    ASSUME NEW M \in Nat \ {0}, NEW x \in Nat
    PROVE  x % (2 * M) = (x % M) + ((x \div M) % 2) * M
<1> DEFINE q == x \div M
           r == x % M
           h == q \div 2
           l == q % 2
           N == 2 * M
<1>1. q \in Int /\ x = M * q + r /\ r \in 0 .. M - 1
  BY DivMod
<1>2. h \in Int /\ q = 2 * h + l /\ l \in 0 .. 1
  BY <1>1
<1>3. N \in Nat \ {0}
  OBVIOUS
<1> HIDE DEF q, r, h, l
<1>4. x = N * h + (r + l * M) /\ r + l * M \in 0 .. N - 1
  BY <1>1, <1>2
<1> HIDE DEF N
<1> DEFINE u == x \div N
           v == x % N
           w == r + l * M
<1>5. x \in Int
  OBVIOUS
<1>6. u \in Int /\ x = N * u + v /\ v \in 0 .. (N - 1)
  BY <1>3, <1>5, DivMod
<1>7. w \in 0 .. (N - 1) /\ N * h + w = N * u + v
  BY <1>4, <1>6
<1> HIDE DEF u, v, w
<1>8. w = v
  BY <1>2, <1>3, <1>6, <1>7, DivModUnique
<1> QED
  BY <1>8 DEF q, r, h, l, N, u, v, w

\* The number with the bits of a word is that word.
LEMMA FromBitsOf ==
    ASSUME NEW x \in Word, NEW b, \A k \in 0 .. WordBits - 1 : b[k] = Bit(x, k)
    PROVE  FromBits(b) = x
<1>0. \A k \in 0 .. WordBits - 1 : b[k] \in 0 .. 1
  <2> SUFFICES ASSUME NEW k \in 0 .. WordBits - 1 PROVE Bit(x, k) \in 0 .. 1
    OBVIOUS
  <2>1. k \in Nat
    BY WordSize
  <2>2. x \in Int /\ 2 ^ k \in Nat \ {0}
    BY <2>1, Doubling, WrapWord
  <2>3. x \div 2 ^ k \in Int
    BY <2>2, DivMod
  <2> QED
    BY <2>3 DEF Bit
<1>1. PICK sum : /\ sum[0] = 0
                 /\ \A n \in 0 .. WordBits - 1 : sum[n + 1] = sum[n] + b[n] * 2 ^ n
                 /\ FromBits(b) = sum[WordBits]
  BY <1>0, BitSums
<1> DEFINE Bad == {n \in 0 .. WordBits : sum[n] # x % 2 ^ n}
<1>2. ASSUME Bad # {} PROVE FALSE
  <2>0. Bad \subseteq Nat
    BY WordSize
  <2>1. PICK n \in Bad : \A j \in Bad : n <= j
    <3> HIDE DEF Bad
    <3> QED
      BY <1>2, <2>0, LeastIn
  <2>2. CASE n = 0
    <3>1. 2 ^ 0 = 1 /\ x % 1 = 0
      BY WrapWord
    <3> QED
      BY <1>1, <2>1, <2>2, <3>1
  <2>3. CASE n # 0
    <3>1. n - 1 \in 0 .. WordBits - 1 /\ n - 1 \in 0 .. WordBits /\ (n - 1) + 1 = n /\ ~(n <= n - 1)
          /\ n - 1 \in Nat
      BY <2>1, <2>3, WordSize
    <3>2. sum[n - 1] = x % 2 ^ (n - 1)
      BY <2>1, <3>1
    <3>3. sum[n] = sum[n - 1] + Bit(x, n - 1) * 2 ^ (n - 1)
      BY <1>1, <3>1
    <3>4. 2 ^ (n - 1) \in Nat \ {0} /\ 2 ^ n = 2 * 2 ^ (n - 1)
      BY <3>1, Doubling
    <3>5. x % (2 * 2 ^ (n - 1)) = (x % 2 ^ (n - 1)) + ((x \div 2 ^ (n - 1)) % 2) * 2 ^ (n - 1)
      BY <3>4, NextBitOf, WrapWord
    <3> QED
      BY <2>1, <3>2, <3>3, <3>4, <3>5 DEF Bit
  <2> QED
    BY <2>2, <2>3
<1>3. WordBits \in 0 .. WordBits
  BY WordSize
<1>4. sum[WordBits] = Wrap(x)
  BY <1>2, <1>3 DEF Wrap
<1> QED
  BY <1>1, <1>4, WrapWord

\* A bit is 0 or 1.
LEMMA BitRange ==
    ASSUME NEW x \in Word, NEW k \in 0 .. WordBits - 1
    PROVE  Bit(x, k) \in 0 .. 1
<1>1. k \in Nat
  BY WordSize
<1>2. x \in Int /\ 2 ^ k \in Nat \ {0}
  BY <1>1, Doubling, WrapWord
<1>3. x \div 2 ^ k \in Int
  BY <1>2, DivMod
<1> QED
  BY <1>3 DEF Bit

\* The bitwise operators make words of words.
LEMMA BitwiseWords ==
    ASSUME NEW x \in Word, NEW y \in Word
    PROVE  And(x, y) \in Word /\ Or(x, y) \in Word /\ Xor(x, y) \in Word
<1>1. \A k \in 0 .. WordBits - 1 : Bit(x, k) \in 0 .. 1 /\ Bit(y, k) \in 0 .. 1
  BY BitRange
<1>2. \A u, v \in 0 .. 1 : u * v \in 0 .. 1 /\ (u + v) % 2 \in 0 .. 1
  OBVIOUS
<1> DEFINE a == [k \in 0 .. WordBits - 1 |-> Bit(x, k) * Bit(y, k)]
           o == [k \in 0 .. WordBits - 1 |-> IF Bit(x, k) = 0 THEN Bit(y, k) ELSE 1]
           e == [k \in 0 .. WordBits - 1 |-> (Bit(x, k) + Bit(y, k)) % 2]
<1>3. \A k \in 0 .. WordBits - 1 : a[k] \in 0 .. 1 /\ o[k] \in 0 .. 1 /\ e[k] \in 0 .. 1
  BY <1>1, <1>2
<1> HIDE DEF a, o, e
<1>4. FromBits(a) \in Word /\ FromBits(o) \in Word /\ FromBits(e) \in Word
  BY <1>3, FromBitsWord
<1> QED
  BY <1>4 DEF And, Or, Xor, a, o, e

\* A byte or'ed with itself or with 0 stays what it is: how an immediate and a
\* register that share a byte of the instruction can both survive.
LEMMA OrSame ==
    ASSUME NEW x \in Word
    PROVE  Or(x, x) = x /\ Or(x, 0) = x /\ Or(0, x) = x
<1>1. \A k \in 0 .. WordBits - 1 : Bit(x, k) \in 0 .. 1
  BY BitRange
<1>2. ASSUME NEW k \in 0 .. WordBits - 1 PROVE Bit(0, k) = 0
  <2>1. k \in Nat
    BY WordSize
  <2>2. 2 ^ k \in Nat \ {0}
    BY <2>1, Doubling
  <2>3. \A M \in Nat \ {0} : 0 \div M = 0
    OBVIOUS
  <2>4. 0 \div 2 ^ k = 0
    BY <2>2, <2>3
  <2>5. 0 % 2 = 0
    OBVIOUS
  <2>6. Bit(0, k) = 0 % 2
    BY <2>4, Zenon DEF Bit
  <2> QED
    BY <2>5, <2>6
<1> DEFINE o(u, v) == [k \in 0 .. WordBits - 1 |-> IF Bit(u, k) = 0 THEN Bit(v, k) ELSE 1]
<1>3. \A k \in 0 .. WordBits - 1 :
         o(x, x)[k] = Bit(x, k) /\ o(x, 0)[k] = Bit(x, k) /\ o(0, x)[k] = Bit(x, k)
  BY <1>1, <1>2
<1> HIDE DEF o
<1>4. FromBits(o(x, x)) = x /\ FromBits(o(x, 0)) = x /\ FromBits(o(0, x)) = x
  BY <1>3, FromBitsOf
<1> QED
  BY <1>4 DEF Or, o

\* 2 ^ WordBits is the product of the powers of the bits on both sides of a cut.
LEMMA WordCut ==
    ASSUME NEW k \in Nat, k < WordBits
    PROVE  /\ 2 ^ k \in Nat \ {0} /\ 2 ^ (WordBits - k) \in Nat \ {0}
           /\ 2 ^ WordBits = 2 ^ k * 2 ^ (WordBits - k)
<1>1. WordBits - k \in Nat /\ k + (WordBits - k) = WordBits
  BY WordSize
<1> QED
  BY <1>1, Doubling, PowerSum

\* What remains under such a cut, moved above it, is a word.
LEMMA CutWord ==
    ASSUME NEW x \in Int, NEW k \in Nat, k < WordBits
    PROVE  (x % 2 ^ (WordBits - k)) * 2 ^ k \in Word
<1> DEFINE M == 2 ^ k
           N == 2 ^ (WordBits - k)
           y == x % N
<1>1. M \in Nat \ {0} /\ N \in Nat \ {0} /\ Word = 0 .. M * N - 1
  BY WordCut DEF Word
<1> HIDE DEF M, N
<1>2. y \in 0 .. (N - 1)
  BY <1>1, DivMod
<1> HIDE DEF y
<1>3. y * M \in Nat /\ (N - 1 - y) * M >= 0 /\ (N - 1 - y) * M = N * M - M - y * M
  BY <1>1, <1>2
<1>4. N * M = M * N
  BY <1>1
<1>5. y * M \in 0 .. M * N - 1
  BY <1>1, <1>2, <1>3, <1>4
<1> QED
  BY <1>1, <1>5 DEF M, N, y

\* Shifts make words of words.
LEMMA ShiftWords ==
    ASSUME NEW x \in Word, NEW k \in Nat
    PROVE  ShiftLeft(x, k) \in Word /\ ShiftRight(x, k) \in Word /\ ShiftRightSigned(x, k) \in Word
<1>0. 0 \in Word /\ x \in Nat /\ x \in Int
  BY WordSize, WrapWord DEF Word
<1>1. CASE k >= WordBits
  <2>1. Wrap(-1) \in Word /\ Wrap(0) \in Word
    BY WrapWord
  <2> QED
    BY <1>0, <1>1, <2>1 DEF ShiftLeft, ShiftRight, ShiftRightSigned
<1>2. CASE ~(k >= WordBits)
  <2>1. k < WordBits
    BY <1>2, WordSize
  <2> DEFINE M == 2 ^ k
             N == 2 ^ (WordBits - k)
             P == 2 ^ WordBits
  <2>2. M \in Nat \ {0} /\ N \in Nat \ {0} /\ P = M * N /\ Word = 0 .. P - 1
    BY <2>1, WordCut DEF Word
  <2>3. Signed(x, 2 ^ (WordBits - 1)) \in Int
    <3>1. 2 ^ (WordBits - 1) \in Nat
      BY WordSize, Doubling
    <3> QED
      BY <1>0, <3>1 DEF Signed
  <2>4. ShiftLeft(x, k) = (x % N) * M /\ ShiftRight(x, k) = x \div M
    BY <1>2 DEF ShiftLeft, ShiftRight
  <2>7. ShiftLeft(x, k) \in Word
    BY <1>0, <2>1, <2>4, CutWord
  <2>5. ShiftRightSigned(x, k) = Wrap(Signed(x, 2 ^ (WordBits - 1)) \div M)
    BY <1>2 DEF ShiftRightSigned
  <2> HIDE DEF M, N, P
  <2>6. ShiftRightSigned(x, k) \in Word
    <3>1. Signed(x, 2 ^ (WordBits - 1)) \div M \in Int
      BY <2>2, <2>3, DivMod
    <3> QED
      BY <2>5, <3>1, WrapWord
  <2>8. x \div M \in 0 .. M * N - 1
    <3>1. x \div M \in Int /\ x = M * (x \div M) + (x % M) /\ x % M \in 0 .. M - 1
      BY <1>0, <2>2, DivMod
    <3> DEFINE q == x \div M
               r == x % M
    <3> HIDE DEF q, r
    <3>2. q \in Int /\ x = M * q + r /\ r \in 0 .. M - 1
      BY <3>1 DEF q, r
    <3>3. q >= 0
      <4>1. ASSUME q <= -1 PROVE FALSE
        <5>1. M * (-1 - q) >= 0 /\ M * (-1 - q) = -M - M * q
          BY <2>2, <3>2, <4>1
        <5> QED
          BY <1>0, <2>2, <3>2, <5>1
      <4> QED
        BY <3>2, <4>1
    <3>4. M * q >= q
      <4>1. (M - 1) * q >= 0 /\ (M - 1) * q = M * q - q
        BY <2>2, <3>2, <3>3
      <4> QED
        BY <2>2, <3>2, <4>1
    <3>5. q <= x
      BY <1>0, <2>2, <3>2, <3>4
    <3>6. x \in 0 .. M * N - 1 /\ M * N \in Int
      BY <2>2
    <3> QED
      BY <3>2, <3>3, <3>5, <3>6 DEF q
  <2> QED
    BY <2>2, <2>4, <2>6, <2>7, <2>8
<1> QED
  BY <1>1, <1>2

\* Four bytes make a word; a word's bytes are bytes.
LEMMA BytesWords ==
    /\ \A m, a : (\A j \in 0 .. 3 : m[a + j] \in Byte) /\ a \in Int => WordAt(m, a) \in Word
    /\ \A x \in Word, j \in 0 .. 3 : ByteOf(x, j) \in Byte
<1>1. ASSUME NEW m, NEW a \in Int, \A j \in 0 .. 3 : m[a + j] \in Byte
      PROVE  WordAt(m, a) \in Word
  <2>1. m[a] \in Word /\ m[a + 1] \in Word /\ m[a + 2] \in Word /\ m[a + 3] \in Word
    <3>1. a + 0 = a
      OBVIOUS
    <3>2. m[a + 0] \in Byte /\ m[a + 1] \in Byte /\ m[a + 2] \in Byte /\ m[a + 3] \in Byte
      BY <1>1
    <3> QED
      BY <3>1, <3>2, WrapWord
  <2>2. /\ ShiftLeft(m[a + 1], 8) \in Word /\ ShiftLeft(m[a + 2], 16) \in Word
        /\ ShiftLeft(m[a + 3], 24) \in Word
    BY <2>1, ShiftWords
  <2>3. m[a] + ShiftLeft(m[a + 1], 8) + ShiftLeft(m[a + 2], 16) + ShiftLeft(m[a + 3], 24) \in Int
    BY <2>1, <2>2, WrapWord
  <2> QED
    BY <2>3, WrapWord DEF WordAt
<1>2. ASSUME NEW x \in Word, NEW j \in 0 .. 3 PROVE ByteOf(x, j) \in Byte
  <2>0. 8 * j \in Nat
    OBVIOUS
  <2>1. ShiftRight(x, 8 * j) \in Nat
    BY <2>0, ShiftWords, WrapWord
  <2> QED
    BY <2>1 DEF ByteOf, Byte
<1> QED
  BY <1>1, <1>2

\* A remainder of a remainder, and of a multiple.
LEMMA ModOfMod ==
    ASSUME NEW N \in Nat \ {0}, NEW L \in Nat \ {0}, NEW q \in Int
    PROVE  (q % (N * L)) % N = q % N
<1> DEFINE H == N * L
           h == q \div H
           l == q % H
           e == l \div N
           f == l % N
           c == q \div N
           d == q % N
<1>1. H \in Nat \ {0}
  OBVIOUS
<1> HIDE DEF H
<1>2. h \in Int /\ q = H * h + l /\ l \in 0 .. (H - 1)
  BY <1>1, DivMod
<1>3. l \in Int
  BY <1>1, <1>2
<1> HIDE DEF l, h
<1>4. e \in Int /\ l = N * e + f /\ f \in 0 .. (N - 1)
  BY <1>3, DivMod
<1>5. c \in Int /\ q = N * c + d /\ d \in 0 .. (N - 1)
  BY DivMod
<1> HIDE DEF e, f, c, d
<1> DEFINE p == L * h + e
<1>6. N * p = N * (L * h) + N * e /\ p \in Int
  BY <1>2, <1>4
<1>7. H * h = N * (L * h)
  BY <1>2 DEF H
<1>8. N * (L * h) \in Int /\ N * e \in Int /\ N * c \in Int
  BY <1>2, <1>4, <1>5
<1>9. N * p + f = N * c + d
  BY <1>2, <1>3, <1>4, <1>5, <1>6, <1>7, <1>8
<1> HIDE DEF p
<1>10. f = d
  <2>1. p \in Int /\ c \in Int /\ f \in 0 .. (N - 1) /\ d \in 0 .. (N - 1)
    BY <1>4, <1>5, <1>6
  <2> QED
    BY <2>1, <1>9, DivModUnique
<1> QED
  BY <1>10 DEF f, d, l, H

\* The remainder of a multiple of K by a multiple of K is K times a remainder.
LEMMA ModOfMultiple ==
    ASSUME NEW N \in Nat \ {0}, NEW K \in Nat \ {0}, NEW q \in Int
    PROVE  (K * q) % (K * N) = K * (q % N)
<1> DEFINE M == K * N
           c == q \div N
           d == q % N
           x == K * q
           s == K * d
           u == x \div M
           w == x % M
<1>1. M \in Nat \ {0} /\ x \in Int
  OBVIOUS
<1>2. c \in Int /\ q = N * c + d /\ d \in 0 .. (N - 1)
  BY DivMod
<1> HIDE DEF c, d
<1>3. x = M * c + s
  <2>1. x = K * (N * c) + K * d /\ M * c = K * (N * c)
    BY <1>2
  <2> QED
    BY <2>1
<1>4. s \in 0 .. (M - 1)
  <2>1. K * d >= 0 /\ K * (N - 1 - d) >= 0
    BY <1>2
  <2>2. K * (N - 1 - d) = K * N - K - K * d /\ K * N \in Int /\ K * d \in Int
    BY <1>2
  <2> QED
    BY <2>1, <2>2
<1> HIDE DEF M, x, s
<1>5. u \in Int /\ x = M * u + w /\ w \in 0 .. (M - 1)
  BY <1>1, DivMod
<1> HIDE DEF u, w
<1>6. M * c + s = M * u + w
  BY <1>3, <1>5
<1>7. s = w
  <2>1. M \in Nat \ {0} /\ c \in Int /\ u \in Int /\ s \in 0 .. (M - 1) /\ w \in 0 .. (M - 1)
    BY <1>1, <1>2, <1>4, <1>5
  <2> QED
    BY <2>1, <1>6, DivModUnique
<1> QED
  BY <1>7 DEF s, w, x, M, d

\* LUI's arithmetic on any bases: the number cut to the digit that is encoded, then to
\* N values, and shifted up is the number shifted up and wrapped.
LEMMA UpperOf ==
    ASSUME NEW H \in Nat \ {0}, NEW N \in Nat \ {0}, NEW L \in Nat \ {0}, H = N * L,
           NEW v \in Int
    PROVE  ((v % H) % N) * H = (v * H) % (H * N) /\ v * H \in Int
<1>1. (v % (N * L)) % N = v % N
  BY ModOfMod
<1>2. (H * v) % (H * N) = H * (v % N)
  BY ModOfMultiple
<1>3. v % N \in Int
  BY DivMod
<1>4. (v % N) * H = H * (v % N) /\ v * H = H * v /\ v * H \in Int
  BY <1>3
<1> QED
  BY <1>1, <1>2, <1>4

\* LUI cuts what it shifts to the width of the words, as Wrap does.
LEMMA UpperHalf ==
    ASSUME NEW v \in Int
    PROVE  /\ ((v % 65536) % 2 ^ (WordBits - 16)) * 65536 = Wrap(v * 65536)
           /\ Wrap(v * 65536) \in Word
<1>1. PICK k \in Nat : k = 16
  OBVIOUS
<1>2. k < WordBits /\ WordBits - k \in Nat /\ 32 - WordBits \in Nat
  BY <1>1, WordAssumption
<1>3. 2 ^ WordBits = 2 ^ k * 2 ^ (WordBits - k) /\ 2 ^ k \in Nat \ {0} /\ 2 ^ (WordBits - k) \in Nat \ {0}
  BY <1>2, WordCut
<1>4. 2 ^ (32 - WordBits) \in Nat \ {0}
  BY <1>2, Doubling
<1>5. 2 ^ ((WordBits - k) + (32 - WordBits)) = 2 ^ (WordBits - k) * 2 ^ (32 - WordBits)
  BY <1>2, PowerSum
<1>6. (WordBits - k) + (32 - WordBits) = k
  BY <1>1, WordAssumption
<1>7. 2 ^ k = 65536
  BY <1>1
<1>8. PICK H, N, L : /\ H = 2 ^ k /\ N = 2 ^ (WordBits - k) /\ L = 2 ^ (32 - WordBits)
                     /\ H \in Nat \ {0} /\ N \in Nat \ {0} /\ L \in Nat \ {0}
  BY <1>3, <1>4
<1>9. H \in Nat \ {0} /\ N \in Nat \ {0} /\ L \in Nat \ {0}
  BY <1>8
<1>10. H = N * L
  BY <1>5, <1>6, <1>8
<1>11. ((v % H) % N) * H = (v * H) % (H * N) /\ v * H \in Int
  BY <1>9, <1>10, UpperOf
<1>12. Wrap(v * H) = (v * H) % (H * N)
  BY <1>3, <1>8, Zenon DEF Wrap
<1>13. Wrap(v * H) \in Word
  BY <1>11, WrapWord
<1>14. H = 65536
  BY <1>7, <1>8
<1>15. N = 2 ^ (WordBits - 16)
  BY <1>1, <1>8
<1> QED
  BY <1>11, <1>12, <1>13, <1>14, <1>15

-----------------------------------------------------------------------------
(* The instructions. *)

\* The instructions that compute a result, and those that use each field as a
\* register.
ComputeOps == {"ADD", "SUB", "ADDI", "AND", "OR", "MOV", "LUI", "XOR", "NOR", "SLL",
               "SRL", "SRA", "SLT"}
RdOps == {"ADD", "SUB", "ADDI", "AND", "OR", "MOV", "LUI", "XOR", "NOR", "SLL",
          "SRL", "SRA", "LOAD", "STORE", "LOADB", "STOREB", "SLT", "BEQ", "BNE"}
RsOps == {"ADD", "SUB", "ADDI", "AND", "OR", "MOV", "XOR", "NOR", "LOAD",
          "STORE", "LOADB", "STOREB", "SLT", "BEQ", "BNE"}
RtOps == {"ADD", "SUB", "AND", "OR", "XOR", "NOR", "SLL", "SRL", "SRA",
          "LOADB", "STOREB", "SLT"}

\* The instructions of vm_core.h have opcodes of one byte that differ.
LEMMA Opcodes ==
    /\ DOMAIN Opcode = RdOps \cup {"JMP", "CALL", "RET", "VCALL", "HALT"}
    /\ \A a, b \in DOMAIN Opcode : Opcode[a] = Opcode[b] => a = b
    /\ \A a \in DOMAIN Opcode : Opcode[a] \in 1 .. 255
<1>1. DOMAIN Opcode = RdOps \cup {"JMP", "CALL", "RET", "VCALL", "HALT"}
  BY DEF Opcode, RdOps
<1>2. ASSUME NEW a \in DOMAIN Opcode, NEW b \in DOMAIN Opcode, Opcode[a] = Opcode[b] PROVE a = b
  BY <1>2 DEF Opcode
<1>3. ASSUME NEW a \in DOMAIN Opcode PROVE Opcode[a] \in 1 .. 255
  BY <1>3 DEF Opcode
<1> QED
  BY <1>1, <1>2, <1>3

\* A test of vm_step for some opcodes is one for the names of the instructions.
LEMMA IsOp ==
    ASSUME NEW op \in DOMAIN Opcode, opcode = Opcode[op],
           NEW ops, ops \subseteq DOMAIN Opcode
    PROVE  Is(ops) <=> op \in ops
  BY Opcodes DEF Is

\* Which tests of vm_step an opcode passes.
LEMMA IsOps ==
    ASSUME NEW op \in DOMAIN Opcode, opcode = Opcode[op]
    PROVE  /\ Is(ComputeOps) <=> op \in ComputeOps
           /\ \A x \in DOMAIN Opcode : Is({x}) <=> op = x
           /\ Is({"LOAD", "STORE"}) <=> op \in {"LOAD", "STORE"}
           /\ Is({"BEQ", "BNE"}) <=> op \in {"BEQ", "BNE"}
           /\ Is({"JMP", "CALL", "RET"}) <=> op \in {"JMP", "CALL", "RET"}
           /\ Is(DOMAIN Opcode)
           /\ Named = (IF op \in RdOps THEN {rd} ELSE {})
                      \cup (IF op \in RsOps THEN {rs} ELSE {})
                      \cup (IF op \in RtOps THEN {rt} ELSE {})
<1>1. /\ ComputeOps \subseteq DOMAIN Opcode /\ RdOps \subseteq DOMAIN Opcode
      /\ RsOps \subseteq DOMAIN Opcode /\ RtOps \subseteq DOMAIN Opcode
      /\ {"LOAD", "STORE"} \subseteq DOMAIN Opcode /\ {"BEQ", "BNE"} \subseteq DOMAIN Opcode
      /\ {"JMP", "CALL", "RET"} \subseteq DOMAIN Opcode
  BY Opcodes DEF ComputeOps, RdOps, RsOps, RtOps
<1>2. Is(ComputeOps) <=> op \in ComputeOps
  BY <1>1, IsOp
<1>3. \A x \in DOMAIN Opcode : Is({x}) <=> op = x
  BY Opcodes DEF Is
<1>4. Is({"LOAD", "STORE"}) <=> op \in {"LOAD", "STORE"}
  BY <1>1, IsOp
<1>5. Is({"BEQ", "BNE"}) <=> op \in {"BEQ", "BNE"}
  BY <1>1, IsOp
<1>6. Is({"JMP", "CALL", "RET"}) <=> op \in {"JMP", "CALL", "RET"}
  BY <1>1, IsOp
<1>7. Is(DOMAIN Opcode)
  BY IsOp
<1>8. (Is(RdOps) <=> op \in RdOps) /\ (Is(RsOps) <=> op \in RsOps) /\ (Is(RtOps) <=> op \in RtOps)
  BY <1>1, IsOp
<1>9. Named = (IF Is(RdOps) THEN {rd} ELSE {}) \cup (IF Is(RsOps) THEN {rs} ELSE {})
              \cup (IF Is(RtOps) THEN {rt} ELSE {})
  BY Zenon DEF Named, RdOps, RsOps, RtOps
<1> QED
  BY <1>2, <1>3, <1>4, <1>5, <1>6, <1>7, <1>8, <1>9

\* What vm_step does with an instruction it can fetch, when it does anything
\* that is defined.
LEMMA StepOf ==
    ASSUME NEW op \in DOMAIN Opcode, opcode = Opcode[op], VmNext, InCode, Readable,
           state' # "UNDEFINED"
    PROVE  /\ state = "RUNNING" /\ Named \subseteq 0 .. 31
           /\ op \in ComputeOps => SetRegister(rd, Result)
           /\ op = "LOAD" => \/ WordAllowed /\ WordThere /\ SetRegister(rd, WordAt(ram, word_addr))
                             \/ ~WordAllowed /\ Stop("ERROR")
           /\ op = "STORE" => Store \/ (~WordAllowed /\ Stop("ERROR"))
           /\ op = "LOADB" => LET addr == Wrap(gp[rs] + gp[rt]) IN
                              \/ addr < ram_size /\ SetRegister(rd, ram[addr])
                              \/ addr >= ram_size /\ Stop("ERROR")
           /\ op = "STOREB" => StoreByte \/ Stop("ERROR")
           /\ op \in {"BEQ", "BNE"} => Branch
           /\ op \in {"JMP", "CALL", "RET"} => Jump
           /\ op = "VCALL" => \E answer \in Answers : SetRegister(K0, answer)
           /\ op = "HALT" => Stop("HALTED")
<1> DEFINE U == "UNDEFINED"
<1>1. /\ Is(ComputeOps) <=> op \in ComputeOps
      /\ \A x \in DOMAIN Opcode : Is({x}) <=> op = x
      /\ Is({"LOAD", "STORE"}) <=> op \in {"LOAD", "STORE"}
      /\ Is({"BEQ", "BNE"}) <=> op \in {"BEQ", "BNE"}
      /\ Is({"JMP", "CALL", "RET"}) <=> op \in {"JMP", "CALL", "RET"}
      /\ Is(DOMAIN Opcode)
  BY IsOps
<1>2. /\ Is({"LOAD"}) <=> op = "LOAD"
      /\ Is({"STORE"}) <=> op = "STORE"
      /\ Is({"LOADB"}) <=> op = "LOADB"
      /\ Is({"STOREB"}) <=> op = "STOREB"
      /\ Is({"VCALL"}) <=> op = "VCALL"
      /\ Is({"HALT"}) <=> op = "HALT"
  BY <1>1, Opcodes DEF RdOps
<1>3. ~Undefined
  BY DEF Undefined, Stop
<1>4. ~Illegal
  BY <1>1 DEF Illegal
<1>5. Decodes
  BY <1>3, <1>4 DEF VmNext, Compute, Load, Store, LoadByte, StoreByte, AddressFault, Branch, Jump,
                    Vcall, Halt
<1>6. state = "RUNNING" /\ Named \subseteq 0 .. 31
  BY <1>5 DEF Decodes, Running
<1>7. /\ Compute => op \in ComputeOps
      /\ Load => op = "LOAD"
      /\ Store => op = "STORE"
      /\ LoadByte => op = "LOADB"
      /\ StoreByte => op = "STOREB"
      /\ Branch => op \in {"BEQ", "BNE"}
      /\ Jump => op \in {"JMP", "CALL", "RET"}
      /\ Vcall => op = "VCALL"
      /\ Halt => op = "HALT"
      /\ AddressFault => op \in {"LOAD", "STORE", "LOADB", "STOREB"}
  BY <1>1, <1>2 DEF Compute, Load, Store, LoadByte, StoreByte, AddressFault, Branch, Jump,
                    Vcall, Halt, ComputeOps
<1>8. op \in ComputeOps => SetRegister(rd, Result)
  <2>1. op \in ComputeOps => Compute
    BY <1>3, <1>4, <1>7 DEF VmNext, ComputeOps
  <2> QED
    BY <2>1 DEF Compute
<1>9. ASSUME op = "LOAD"
      PROVE  \/ WordAllowed /\ WordThere /\ SetRegister(rd, WordAt(ram, word_addr))
             \/ ~WordAllowed /\ Stop("ERROR")
  <2>1. Load \/ AddressFault
    BY <1>3, <1>4, <1>7, <1>9 DEF VmNext, ComputeOps
  <2> QED
    BY <1>2, <1>9, <2>1 DEF Load, AddressFault
<1>10. ASSUME op = "STORE" PROVE Store \/ (~WordAllowed /\ Stop("ERROR"))
  <2>1. Store \/ AddressFault
    BY <1>3, <1>4, <1>7, <1>10 DEF VmNext, ComputeOps
  <2>2. AddressFault => ~WordAllowed /\ Stop("ERROR")
    BY <1>2, <1>10 DEF AddressFault
  <2> QED
    BY <2>1, <2>2
<1>11. ASSUME op = "LOADB"
       PROVE  LET addr == Wrap(gp[rs] + gp[rt]) IN
              \/ addr < ram_size /\ SetRegister(rd, ram[addr])
              \/ addr >= ram_size /\ Stop("ERROR")
  <2>1. LoadByte \/ AddressFault
    BY <1>3, <1>4, <1>7, <1>11 DEF VmNext, ComputeOps
  <2> QED
    BY <1>1, <1>2, <1>11, <2>1 DEF LoadByte, AddressFault
<1>12. ASSUME op = "STOREB" PROVE StoreByte \/ Stop("ERROR")
  BY <1>3, <1>4, <1>7, <1>12 DEF VmNext, ComputeOps, AddressFault
<1>13. ASSUME op \in {"BEQ", "BNE"} PROVE Branch
  BY <1>3, <1>4, <1>7, <1>13 DEF VmNext, ComputeOps
<1>14. ASSUME op \in {"JMP", "CALL", "RET"} PROVE Jump
  BY <1>3, <1>4, <1>7, <1>14 DEF VmNext, ComputeOps
<1>15. ASSUME op = "VCALL" PROVE \E answer \in Answers : SetRegister(K0, answer)
  <2>1. Vcall
    BY <1>3, <1>4, <1>7, <1>15 DEF VmNext, ComputeOps
  <2> QED
    BY <2>1 DEF Vcall
<1>16. ASSUME op = "HALT" PROVE Stop("HALTED")
  <2>1. Halt
    BY <1>3, <1>4, <1>7, <1>16 DEF VmNext, ComputeOps
  <2> QED
    BY <2>1 DEF Halt
<1> QED
  BY <1>6, <1>8, <1>9, <1>10, <1>11, <1>12, <1>13, <1>14, <1>15, <1>16

-----------------------------------------------------------------------------
(* The machine keeps its types. *)

\* The code is whole words of four bytes and the memory starts at 0.
CodeOK ==
    /\ code \in Seq(Int \X Int \X Int \X Int)
    /\ DOMAIN ram = 0 .. RamSize - 1

\* The memory of every program has RamSize bytes.
LEMMA RamSizes ==
    ASSUME CodeOK
    PROVE  ram_size = RamSize /\ RamSize \in Nat
<1>1. RamSize \in Nat
  BY VmAssumption, WrapWord
<1>2. Cardinality(0 .. RamSize - 1) = RamSize
  <2>1. CASE RamSize = 0
    <3>1. 0 .. RamSize - 1 = {}
      BY <2>1
    <3> QED
      BY <2>1, <3>1, FS_EmptySet
  <2>2. CASE RamSize # 0
    BY <1>1, <2>2, FS_Interval
  <2> QED
    BY <2>1, <2>2
<1> QED
  BY <1>1, <1>2 DEF CodeOK, ram_size

\* The fields of a fetched instruction are integers.
LEMMA FieldTypes ==
    ASSUME CodeOK, VmTypeOK, Readable
    PROVE  rd \in Int /\ rs \in Int /\ rt \in Int
<1>1. Len(code) \in Nat /\ DOMAIN code = 1 .. Len(code)
  BY DEF CodeOK
<1>2. pc \in Nat
  BY WrapWord DEF VmTypeOK
<1>3. pc \div 4 + 1 \in DOMAIN code
  BY <1>1, <1>2 DEF Readable, code_size
<1>4. instr \in Int \X Int \X Int \X Int
  BY <1>3 DEF instr, CodeOK
<1> QED
  BY <1>4 DEF rd, rs, rt

\* Writing a word to a register that exists keeps the types, and zero its value.
LEMMA SetRegisterType ==
    ASSUME VmTypeOK, NEW r \in 0 .. 31, NEW value \in Word, SetRegister(r, value)
    PROVE  VmTypeOK'
<1>1. Wrap(pc + 4) \in Word /\ 0 \in Word
  <2>1. pc + 4 \in Int
    BY WrapWord DEF VmTypeOK
  <2> QED
    BY <2>1, WrapWord, WordSize DEF Word
<1> QED
  BY <1>1 DEF VmTypeOK, SetRegister, ZERO

\* Stopping keeps the types.
LEMMA StopType ==
    ASSUME VmTypeOK, NEW how \in {"RUNNING", "HALTED", "ERROR", "UNDEFINED"}, Stop(how)
    PROVE  VmTypeOK'
  BY DEF VmTypeOK, Stop

\* What the arithmetic instructions compute is a word.
LEMMA ResultWord ==
    ASSUME NEW op \in ComputeOps, opcode = Opcode[op], VmTypeOK, CodeOK, Readable,
           Named \subseteq 0 .. 31
    PROVE  Result \in Word /\ rd \in 0 .. 31
<1>0. op \in DOMAIN Opcode
  BY Opcodes DEF ComputeOps, RdOps
<1>1. rd \in Int /\ rs \in Int /\ rt \in Int
  BY FieldTypes
<1>2. /\ op \in RdOps => rd \in 0 .. 31
      /\ op \in RsOps => rs \in 0 .. 31
      /\ op \in RtOps => rt \in 0 .. 31
  BY <1>0, IsOps
<1>3. \A r \in 0 .. 31 : gp[r] \in Word /\ gp[r] \in Int
  BY WrapWord DEF VmTypeOK
<1>4. \A x \in DOMAIN Opcode : Is({x}) <=> op = x
  BY <1>0, IsOps
<1>5. 0 \in Word /\ 1 \in Word
  BY WordSize DEF Word
<1>6. CASE op = "ADD"
  <2>1. Result = Wrap(gp[rs] + gp[rt])
    BY <1>4, <1>6, Opcodes DEF Result, RdOps
  <2>2. gp[rs] + gp[rt] \in Int
    BY <1>2, <1>3, <1>6 DEF RsOps, RtOps
  <2> QED
    BY <1>2, <1>6, <2>1, <2>2, WrapWord DEF RdOps
<1>7. CASE op = "SUB"
  <2>1. Result = Wrap(gp[rs] - gp[rt])
    BY <1>4, <1>7, Opcodes DEF Result, RdOps
  <2>2. gp[rs] - gp[rt] \in Int
    BY <1>2, <1>3, <1>7 DEF RsOps, RtOps
  <2> QED
    BY <1>2, <1>7, <2>1, <2>2, WrapWord DEF RdOps
<1>8. CASE op = "ADDI"
  <2>1. Result = Wrap(gp[rs] + imm8)
    BY <1>4, <1>8, Opcodes DEF Result, RdOps
  <2>2. gp[rs] + imm8 \in Int
    BY <1>1, <1>2, <1>3, <1>8 DEF RsOps, imm8, Signed
  <2> QED
    BY <1>2, <1>8, <2>1, <2>2, WrapWord DEF RdOps
<1>9. CASE op = "AND"
  <2>1. Result = And(gp[rs], gp[rt])
    BY <1>4, <1>9, Opcodes DEF Result, RdOps
  <2> QED
    BY <1>2, <1>3, <1>9, <2>1, BitwiseWords DEF RdOps, RsOps, RtOps
<1>10. CASE op = "OR"
  <2>1. Result = Or(gp[rs], gp[rt])
    BY <1>4, <1>10, Opcodes DEF Result, RdOps
  <2> QED
    BY <1>2, <1>3, <1>10, <2>1, BitwiseWords DEF RdOps, RsOps, RtOps
<1>11. CASE op = "MOV"
  <2>1. Result = gp[rs]
    BY <1>4, <1>11, Opcodes DEF Result, RdOps
  <2> QED
    BY <1>2, <1>3, <1>11, <2>1 DEF RdOps, RsOps
<1>12. CASE op = "LUI"
  <2>1. Result = ((256 * rs + rt) % 2 ^ (WordBits - 16)) * 65536
    BY <1>4, <1>12, Opcodes DEF Result, RdOps
  <2>2. 256 * rs + rt \in Int
    BY <1>1
  <2>3. PICK k \in Nat : k = 16
    OBVIOUS
  <2>4. k < WordBits
    BY <2>3, WordAssumption
  <2>5. ((256 * rs + rt) % 2 ^ (WordBits - k)) * 2 ^ k \in Word
    BY <2>2, <2>4, CutWord
  <2>6. 2 ^ k = 65536 /\ 2 ^ (WordBits - k) = 2 ^ (WordBits - 16)
    BY <2>3
  <2> QED
    BY <1>2, <1>12, <2>1, <2>5, <2>6 DEF RdOps
<1>13. CASE op = "XOR"
  <2>1. Result = Xor(gp[rs], gp[rt])
    BY <1>4, <1>13, Opcodes DEF Result, RdOps
  <2> QED
    BY <1>2, <1>3, <1>13, <2>1, BitwiseWords DEF RdOps, RsOps, RtOps
<1>14. CASE op = "NOR"
  <2>1. Result = Wrap(-1 - Or(gp[rs], gp[rt]))
    BY <1>4, <1>14, Opcodes DEF Result, RdOps
  <2>2. Or(gp[rs], gp[rt]) \in Word
    BY <1>2, <1>3, <1>14, BitwiseWords DEF RsOps, RtOps
  <2>3. -1 - Or(gp[rs], gp[rt]) \in Int
    BY <2>2, WrapWord
  <2> QED
    BY <1>2, <1>14, <2>1, <2>3, WrapWord DEF RdOps
<1>15. CASE op \in {"SLL", "SRL", "SRA"}
  <2>1. /\ op = "SLL" => Result = ShiftLeft(gp[rt], shamt)
        /\ op = "SRL" => Result = ShiftRight(gp[rt], shamt)
        /\ op = "SRA" => Result = ShiftRightSigned(gp[rt], shamt)
    BY <1>4, <1>15, Opcodes DEF Result, RdOps
  <2>2. shamt \in Nat
    BY <1>1 DEF shamt
  <2>3. gp[rt] \in Word
    BY <1>2, <1>3, <1>15 DEF RtOps
  <2> QED
    BY <1>2, <1>15, <2>1, <2>2, <2>3, ShiftWords DEF RdOps
<1>16. CASE op = "SLT"
  <2>1. Result = IF gp[rs] < gp[rt] THEN 1 ELSE 0
    BY <1>4, <1>16, Opcodes DEF Result, RdOps
  <2> QED
    BY <1>2, <1>5, <1>16, <2>1 DEF RdOps
<1> QED
  BY <1>6, <1>7, <1>8, <1>9, <1>10, <1>11, <1>12, <1>13, <1>14, <1>15, <1>16 DEF ComputeOps

\* A word of the memory is read and written inside it.
LEMMA WordInside ==
    ASSUME CodeOK, VmTypeOK, word_addr \in Int, WordThere, word_addr >= 0
    PROVE  WordAt(ram, word_addr) \in Word
<1>1. \A j \in 0 .. 3 : word_addr + j \in DOMAIN ram
  BY RamSizes DEF CodeOK, WordThere
<1>2. \A j \in 0 .. 3 : ram[word_addr + j] \in Byte
  BY <1>1 DEF VmTypeOK
<1> QED
  BY <1>2, BytesWords

\* The address of a word is one, and the sum of registers too.
LEMMA Addresses ==
    ASSUME CodeOK, VmTypeOK, Readable
    PROVE  /\ rs \in 0 .. 31 => word_addr \in Word
           /\ \A r, s \in 0 .. 31 : Wrap(gp[r] + gp[s]) \in Word
           /\ Wrap(pc + 4) \in Word
<1>1. \A r \in 0 .. 31 : gp[r] \in Int
  BY WrapWord DEF VmTypeOK
<1>2. imm \in Int
  BY FieldTypes DEF imm, Signed
<1>3. pc + 4 \in Int
  BY WrapWord DEF VmTypeOK
<1>4. ASSUME rs \in 0 .. 31 PROVE word_addr \in Word
  <2>1. gp[rs] + imm \in Int
    BY <1>1, <1>2, <1>4
  <2> QED
    BY <2>1, WrapWord DEF word_addr
<1>5. ASSUME NEW r \in 0 .. 31, NEW s \in 0 .. 31 PROVE Wrap(gp[r] + gp[s]) \in Word
  <2>1. gp[r] + gp[s] \in Int
    BY <1>1
  <2> QED
    BY <2>1, WrapWord
<1> QED
  BY <1>3, <1>4, <1>5, WrapWord

\* Steps keep the shape of the code and of the memory.
LEMMA CodeStays ==
    ASSUME CodeOK, VmNext
    PROVE  CodeOK' /\ code' = code
<1>1. code' = code /\ DOMAIN ram' = DOMAIN ram
  <2>1. CASE Compute
    BY <2>1 DEF Compute, SetRegister
  <2>2. CASE Load \/ LoadByte \/ Vcall
    BY <2>2 DEF Load, LoadByte, Vcall, SetRegister
  <2>3. CASE Store
    BY <2>3 DEF Store
  <2>4. CASE StoreByte
    BY <2>4 DEF StoreByte
  <2>5. CASE Branch \/ Jump
    BY <2>5 DEF Branch, Jump, JumpTo
  <2>6. CASE AddressFault \/ Halt \/ Illegal \/ Undefined
    BY <2>6 DEF AddressFault, Halt, Illegal, Undefined, Stop
  <2> QED
    BY <2>1, <2>2, <2>3, <2>4, <2>5, <2>6 DEF VmNext
<1> QED
  BY <1>1 DEF CodeOK

\* Steps keep the types, whatever the code.
LEMMA VmTypes ==
    ASSUME VmTypeOK, CodeOK, VmNext
    PROVE  VmTypeOK'
<1>0. 0 \in Word
  BY WordSize DEF Word
<1>1. ASSUME Decodes, NEW ops, ops \subseteq DOMAIN Opcode, Is(ops)
      PROVE  /\ InCode /\ Readable /\ Named \subseteq 0 .. 31 /\ Wrap(pc + 4) \in Word
             /\ \E op \in ops : /\ op \in DOMAIN Opcode /\ opcode = Opcode[op]
                                /\ op \in RdOps => rd \in 0 .. 31
                                /\ op \in RsOps => rs \in 0 .. 31
                                /\ op \in RtOps => rt \in 0 .. 31
  <2>1. InCode /\ Readable /\ Named \subseteq 0 .. 31
    BY <1>1 DEF Decodes
  <2>2. PICK op \in ops : op \in DOMAIN Opcode /\ opcode = Opcode[op]
    BY <1>1 DEF Is
  <2>3. /\ op \in RdOps => rd \in 0 .. 31
        /\ op \in RsOps => rs \in 0 .. 31
        /\ op \in RtOps => rt \in 0 .. 31
    BY <2>1, <2>2, IsOps
  <2> QED
    BY <2>1, <2>2, <2>3, Addresses
<1> DEFINE One(op) == {op}
<1>11. ASSUME Decodes, NEW op \in RdOps, Is(One(op))
       PROVE  /\ Readable /\ Wrap(pc + 4) \in Word
              /\ rd \in 0 .. 31
              /\ op \in RsOps => rs \in 0 .. 31
              /\ op \in RtOps => rt \in 0 .. 31
  <2>1. One(op) \subseteq DOMAIN Opcode /\ \A x \in One(op) : x = op
    BY Opcodes
  <2> HIDE DEF One
  <2> QED
    BY <1>1, <1>11, <2>1
<1>12. /\ {"LOAD", "STORE", "LOADB", "STOREB"} \subseteq RdOps
       /\ {"LOAD", "STORE", "LOADB", "STOREB"} \subseteq RsOps
       /\ {"LOADB", "STOREB"} \subseteq RtOps
  BY DEF RdOps, RsOps, RtOps
<1>2. CASE \/ AddressFault \/ Halt \/ Illegal \/ Undefined
  BY <1>2, StopType DEF AddressFault, Halt, Illegal, Undefined
<1>3. CASE Compute
  <2>1. ComputeOps \subseteq DOMAIN Opcode
    BY Opcodes DEF ComputeOps, RdOps
  <2>2. Decodes /\ Is(ComputeOps) /\ SetRegister(rd, Result)
    BY <1>3 DEF Compute, ComputeOps
  <2>3. PICK op \in ComputeOps : opcode = Opcode[op] /\ Readable /\ Named \subseteq 0 .. 31
    BY <1>1, <2>1, <2>2
  <2>4. Result \in Word /\ rd \in 0 .. 31
    BY <2>3, ResultWord
  <2> QED
    BY <2>2, <2>4, SetRegisterType
<1>4. CASE Load
  <2>1. Decodes /\ Is({"LOAD"}) /\ WordThere /\ SetRegister(rd, WordAt(ram, word_addr))
    BY <1>4 DEF Load
  <2>2. Readable /\ rd \in 0 .. 31 /\ rs \in 0 .. 31
    BY <1>11, <1>12, <2>1
  <2>3. word_addr \in Nat
    BY <2>2, Addresses, WrapWord
  <2>4. WordAt(ram, word_addr) \in Word
    BY <2>1, <2>3, WordInside
  <2> QED
    BY <2>1, <2>2, <2>4, SetRegisterType
<1>5. CASE Store
  <2>1. Decodes /\ Is({"STORE"})
    BY <1>5 DEF Store
  <2>2. Readable /\ rd \in 0 .. 31 /\ rs \in 0 .. 31 /\ Wrap(pc + 4) \in Word
    BY <1>11, <1>12, <2>1
  <2>3. word_addr \in Nat /\ gp[rd] \in Word
    BY <2>2, Addresses, WrapWord DEF VmTypeOK
  <2>4. \A a \in word_addr .. word_addr + 3 : ByteOf(gp[rd], a - word_addr) \in Byte
    BY <2>3, BytesWords
  <2>5. /\ ram' = [a \in DOMAIN ram |->
                  IF a \in word_addr .. word_addr + 3
                  THEN ByteOf(gp[rd], a - word_addr)
                  ELSE ram[a]]
        /\ pc' = Wrap(pc + 4) /\ gp' = gp /\ state' = state
    BY <1>5 DEF Store
  <2> QED
    BY <2>2, <2>4, <2>5 DEF VmTypeOK
<1>6. CASE LoadByte
  <2> DEFINE addr == Wrap(gp[rs] + gp[rt])
  <2>1. Decodes /\ Is({"LOADB"}) /\ addr < ram_size /\ SetRegister(rd, ram[addr])
    BY <1>6 DEF LoadByte
  <2>2. Readable /\ rd \in 0 .. 31 /\ rs \in 0 .. 31 /\ rt \in 0 .. 31
    BY <1>11, <1>12, <2>1
  <2>3. addr \in Nat
    BY <2>2, Addresses, WrapWord
  <2> HIDE DEF addr
  <2>4. addr \in DOMAIN ram
    BY <2>1, <2>3, RamSizes DEF CodeOK
  <2>5. ram[addr] \in Word
    BY <2>4, WrapWord DEF VmTypeOK
  <2> QED
    BY <2>1, <2>2, <2>5, SetRegisterType
<1>7. CASE StoreByte
  <2> DEFINE addr == Wrap(gp[rd] + gp[rs])
  <2>1. Decodes /\ Is({"STOREB"})
    BY <1>7 DEF StoreByte
  <2>2. Readable /\ rt \in 0 .. 31 /\ Wrap(pc + 4) \in Word
    BY <1>11, <1>12, <2>1
  <2>3. ram' = [ram EXCEPT ![addr] = gp[rt] % 256] /\ pc' = Wrap(pc + 4) /\ gp' = gp /\ state' = state
    BY <1>7 DEF StoreByte
  <2>4. gp[rt] \in Nat
    BY <2>2, WrapWord DEF VmTypeOK
  <2>5. gp[rt] % 256 \in Byte
    BY <2>4 DEF Byte
  <2> HIDE DEF addr
  <2> QED
    BY <2>2, <2>3, <2>5 DEF VmTypeOK
<1>8. CASE Branch
  <2>1. Decodes /\ Is({"BEQ", "BNE"})
    BY <1>8 DEF Branch
  <2>2. Readable /\ pc \in Int
    BY <1>1, <2>1, Opcodes, WrapWord DEF RdOps, VmTypeOK
  <2>3. imm \in Int
    BY <2>2, FieldTypes DEF imm, Signed
  <2>4. PICK d \in Int : pc' = Wrap(pc + d)
    <3>1. 4 * imm \in Int
      BY <2>3
    <3> QED
      BY <1>8, <3>1 DEF Branch, JumpTo
  <2>5. pc' \in Word
    BY <2>2, <2>4, WrapWord
  <2>6. gp' = gp /\ ram' = ram /\ state' = state
    BY <1>8 DEF Branch, JumpTo
  <2> QED
    BY <2>5, <2>6 DEF VmTypeOK
<1>9. CASE Jump
  <2>1. Decodes /\ Is({"JMP", "CALL", "RET"})
    BY <1>9 DEF Jump
  <2>2. {"JMP", "CALL", "RET"} \subseteq DOMAIN Opcode
    BY Opcodes
  <2>3. Readable /\ Wrap(pc + 4) \in Word
    BY <1>1, <2>1, <2>2
  <2>4. target \in Int
    BY <2>3, FieldTypes DEF target
  <2>5. Wrap(target) \in Word /\ gp[RA] \in Word
    BY <2>4, WrapWord DEF VmTypeOK, RA
  <2>6. pc' \in Word /\ ram' = ram /\ state' = state
    BY <1>9, <2>5 DEF Jump, JumpTo
  <2>7. gp' = [gp EXCEPT ![RA] = IF Is({"CALL"}) THEN Wrap(pc + 4) ELSE @]
    BY <1>9 DEF Jump
  <2> QED
    BY <2>3, <2>5, <2>6, <2>7 DEF VmTypeOK, RA, ZERO
<1>10. CASE Vcall
  <2>1. PICK answer \in Answers : SetRegister(K0, answer)
    BY <1>10 DEF Vcall
  <2>2. answer \in Word /\ K0 \in 0 .. 31
    BY VmAssumption DEF K0
  <2> QED
    BY <2>1, <2>2, SetRegisterType
<1> QED
  BY <1>2, <1>3, <1>4, <1>5, <1>6, <1>7, <1>8, <1>9, <1>10 DEF VmNext

-----------------------------------------------------------------------------
(* The words of a source. *)

\* The high and the low byte of the lower half, which two fields share; the
\* upper half of LUI, its rest, and the halves put back in place; the words that
\* a branch goes.
High(v) == (v % 65536) \div 256
Low(v) == v % 256
Upper(v) == v \div 65536
LowHalf(v) == v % 65536
Raised(v) == (v % 2 ^ (WordBits - 16)) * 65536
Offset(v, at) == Wrap(v - at - 4) \div 4

\* The bytes of a word with an immediate, whose high byte is or'ed to rs.
LEMMA Immediate ==
    ASSUME NEW op, NEW r1 \in Byte, NEW r2 \in Byte, NEW v \in Int
    PROVE  /\ ImmediateWord(op, r1, r2, v) = <<Opcode[op], r1, Or(r2, High(v)), Low(v)>>
           /\ Or(r2, High(v)) \in Nat /\ Low(v) \in Byte
<1>1. ImmediateWord(op, r1, r2, v) = <<Opcode[op], r1, Or(r2, High(v)), (v % 65536) % 256>>
  BY DEF ImmediateWord, High
<1>2. (v % 65536) % 256 = Low(v) /\ Low(v) \in Byte /\ High(v) \in Byte
  BY DEF Byte, High, Low
<1>3. Or(r2, High(v)) \in Nat
  BY <1>2, BitwiseWords, WrapWord
<1> QED
  BY <1>1, <1>2, <1>3

\* The parts of an immediate that assemble_line writes are integers.
LEMMA Numbers ==
    ASSUME NEW v \in Int, NEW at \in Int
    PROVE  /\ Upper(v) \in Int /\ Offset(v, at) \in Int
           /\ \A line : line.value = v => Half(line) \in Int
<1>1. v - at - 4 \in Int
  OBVIOUS
<1>2. Wrap(v - at - 4) \in Int
  BY <1>1, WrapWord
<1>3. v \div 65536 \in Int /\ v % 65536 \in Int
  OBVIOUS
<1>4. \A line : line.value = v => Half(line) \in {v \div 65536, v % 65536, v}
  BY DEF Half
<1> QED
  BY <1>2, <1>3, <1>4 DEF Upper, Offset

\* The fields of the word that assemble_line makes of a line.
LEMMA Encoded ==
    ASSUME NEW line, Parsed(line), NEW at \in Int
    PROVE  LET w == assemble_line(line, at)
               regs == line.regs
           IN
           /\ line.op \in {"ADD", "SUB"} =>
                 w = <<Opcode[line.op], regs[1], regs[2], regs[3]>>
           /\ line.op = "MOV" => w = <<Opcode["MOV"], regs[1], regs[2], 0>>
           /\ line.op = "ADDI" => w = ImmediateWord("ADDI", regs[1], regs[2], Half(line))
           /\ line.op = "LUI" => w = ImmediateWord("LUI", regs[1], 0, Upper(line.value))
           /\ line.op = "LOAD" => w = ImmediateWord("LOAD", regs[1], BaseOf(line), line.value)
           /\ line.op \in {"STORE", "STOREB"} =>
                 w = ImmediateWord(line.op, regs[Len(regs)], regs[1], line.value)
           /\ line.op = "LOADB" => w = ImmediateWord("LOADB", regs[1], regs[2], 0)
           /\ line.op \in {"BEQ", "BNE"} =>
                 w = ImmediateWord(line.op, regs[1], regs[2], Offset(line.value, at))
           /\ line.op \in {"JMP", "CALL"} => w = TargetWord(line.op, line.value)
           /\ line.op \in {"RET", "VCALL", "HALT"} => w = <<Opcode[line.op], 0, 0, 0>>
           /\ line.op \notin Mnemonic => w = <<0, 0, 0, 0>>
<1> DEFINE w == assemble_line(line, at)
           regs == line.regs
<1>1. /\ line.op \in {"ADD", "SUB"} =>
             w = <<Opcode[line.op], regs[1], regs[2], regs[3]>>
      /\ line.op = "MOV" => w = <<Opcode["MOV"], regs[1], regs[2], 0>>
  BY DEF assemble_line
<1>2. /\ line.op = "ADDI" => w = ImmediateWord("ADDI", regs[1], regs[2], Half(line))
      /\ line.op = "LUI" => w = ImmediateWord("LUI", regs[1], 0, Upper(line.value))
      /\ line.op = "LOAD" => w = ImmediateWord("LOAD", regs[1], BaseOf(line), line.value)
  BY DEF assemble_line, Upper
<1>3. /\ line.op \in {"STORE", "STOREB"} =>
             w = ImmediateWord(line.op, regs[Len(regs)], regs[1], line.value)
      /\ line.op = "LOADB" => w = ImmediateWord("LOADB", regs[1], regs[2], 0)
  BY DEF assemble_line
<1>4. line.op \in {"BEQ", "BNE"} =>
         w = ImmediateWord(line.op, regs[1], regs[2], Offset(line.value, at))
  BY DEF assemble_line, Offset
<1>5. /\ line.op \in {"JMP", "CALL"} => w = TargetWord(line.op, line.value)
      /\ line.op \in {"RET", "VCALL", "HALT"} => w = <<Opcode[line.op], 0, 0, 0>>
      /\ line.op \notin Mnemonic => w = <<0, 0, 0, 0>>
  BY DEF assemble_line, Mnemonic
<1> HIDE DEF w
<1>6. w = assemble_line(line, at)
  BY DEF w
<1> QED
  BY <1>1, <1>2, <1>3, <1>4, <1>5, <1>6

\* The registers that a line names.
LEMMA Operands ==
    ASSUME NEW line, Parsed(line)
    PROVE  /\ line.value \in Int
           /\ line.op \in {"ADD", "SUB", "LOADB", "MOV", "ADDI", "LOAD", "STORE", "STOREB", "BEQ",
                           "BNE", "LUI"} => 1 \in DOMAIN line.regs /\ line.regs[1] \in Byte
           /\ line.op \in {"ADD", "SUB", "LOADB", "MOV", "ADDI", "LOAD", "STORE", "STOREB", "BEQ",
                           "BNE"} => 2 \in DOMAIN line.regs /\ line.regs[2] \in Byte
           /\ line.op \in {"ADD", "SUB", "LOADB"} => Len(line.regs) = 3
           /\ Len(line.regs) = 3 =>
                 3 \in DOMAIN line.regs /\ line.regs[3] \in Byte /\ line.value = 0
           /\ line.op \in {"LOAD", "STORE", "STOREB"} => Len(line.regs) \in {2, 3}
           /\ line.form = "base" => Len(line.regs) = 2
           /\ line.op = "LOAD" => BaseOf(line) \in Byte
<1>1. /\ line.regs \in Seq(Byte) /\ line.value \in Int /\ Len(line.regs) \in Registers(line.op)
      /\ Len(line.regs) = 3 => line.value = 0
      /\ line.form = "base" => line.op = "LOAD" /\ Len(line.regs) = 2
  BY DEF Parsed
<1>2. /\ line.op \in {"ADD", "SUB", "LOADB"} => Registers(line.op) = {3}
      /\ line.op \in {"LOAD", "STORE", "STOREB"} => Registers(line.op) = {2, 3}
      /\ line.op \in {"MOV", "ADDI", "BEQ", "BNE"} => Registers(line.op) = {2}
      /\ line.op = "LUI" => Registers(line.op) = {1}
  BY DEF Registers
<1>3. DOMAIN line.regs = 1 .. Len(line.regs) /\ Len(line.regs) \in Nat
  BY <1>1
<1>4. \A n \in DOMAIN line.regs : line.regs[n] \in Byte
  BY <1>1
<1>5. /\ Len(line.regs) >= 1 => 1 \in DOMAIN line.regs
      /\ Len(line.regs) >= 2 => 2 \in DOMAIN line.regs
      /\ Len(line.regs) >= 3 => 3 \in DOMAIN line.regs
  BY <1>3
<1>6. Len(line.regs) = 3 => 3 \in DOMAIN line.regs /\ line.regs[3] \in Byte
  BY <1>4, <1>5
<1>7. BaseOf(line) = 0 \/ BaseOf(line) = line.regs[2]
  BY DEF BaseOf
<1>8. 0 \in Byte
  BY DEF Byte
<1> HIDE DEF Registers
<1>9. CASE line.op \in {"ADD", "SUB", "LOADB"}
  <2>0. Len(line.regs) \in Registers(line.op) /\ Registers(line.op) = {3}
    BY <1>1, <1>2, <1>9, Zenon
  <2>1. Len(line.regs) = 3
    BY <2>0
  <2>2. 1 \in DOMAIN line.regs /\ 2 \in DOMAIN line.regs
    BY <1>5, <2>1
  <2>3. line.regs[1] \in Byte /\ line.regs[2] \in Byte
    BY <1>4, <2>2
  <2> QED
    BY <1>1, <1>6, <1>9, <2>1, <2>2, <2>3
<1>10. CASE line.op \in {"LOAD", "STORE", "STOREB"}
  <2>1. Len(line.regs) \in {2, 3}
    BY <1>1, <1>2, <1>10
  <2>2. 1 \in DOMAIN line.regs /\ 2 \in DOMAIN line.regs
    BY <1>5, <2>1
  <2>3. line.regs[1] \in Byte /\ line.regs[2] \in Byte
    BY <1>4, <2>2
  <2> QED
    BY <1>1, <1>6, <1>7, <1>8, <1>10, <2>1, <2>2, <2>3
<1>11. CASE line.op \in {"MOV", "ADDI", "BEQ", "BNE"}
  BY <1>1, <1>2, <1>3, <1>4, <1>5, <1>6, <1>11
<1>12. CASE line.op = "LUI"
  BY <1>1, <1>2, <1>3, <1>4, <1>5, <1>6, <1>12
<1> QED
  BY <1>1, <1>6, <1>9, <1>10, <1>11, <1>12

\* assemble_line makes four numbers of any line.
LEMMA WordOfLine ==
    ASSUME NEW line, Parsed(line), NEW at \in Int
    PROVE  assemble_line(line, at) \in Int \X Int \X Int \X Int
<1> DEFINE w == assemble_line(line, at)
<1>1. 0 \in Byte /\ \A b \in Byte : b \in Int
  BY DEF Byte
<1>2. \A op \in DOMAIN Opcode : Opcode[op] \in Int
  BY Opcodes
<1>3. ASSUME NEW op \in DOMAIN Opcode, NEW r1 \in Byte, NEW r2 \in Byte, NEW v \in Int
      PROVE  ImmediateWord(op, r1, r2, v) \in Int \X Int \X Int \X Int
  <2>1. /\ ImmediateWord(op, r1, r2, v) = <<Opcode[op], r1, Or(r2, High(v)), Low(v)>>
        /\ Or(r2, High(v)) \in Nat /\ Low(v) \in Byte
    BY Immediate
  <2>2. Or(r2, High(v)) \in Int /\ Low(v) \in Int
    <3>1. \A n \in Nat : n \in Int
      OBVIOUS
    <3> QED
      BY <1>1, <2>1, <3>1
  <2>3. Opcode[op] \in Int /\ r1 \in Int
    BY <1>1, <1>2
  <2> QED
    BY <2>1, <2>2, <2>3
<1>4. Mnemonic \subseteq DOMAIN Opcode
  BY Opcodes DEF Mnemonic, RdOps
<1>5. CASE line.op \in {"ADD", "SUB"}
  <2>1. w = <<Opcode[line.op], line.regs[1], line.regs[2], line.regs[3]>>
    BY <1>5, Encoded
  <2>2. line.op \in DOMAIN Opcode /\ line.regs[1] \in Byte /\ line.regs[2] \in Byte
        /\ line.regs[3] \in Byte
    BY <1>4, <1>5, Operands DEF Mnemonic
  <2> HIDE DEF w
  <2>3. w \in Int \X Int \X Int \X Int
    BY <1>1, <1>2, <2>1, <2>2
  <2> QED
    BY <2>3 DEF w
<1>6. CASE line.op = "MOV"
  <2>1. w = <<Opcode["MOV"], line.regs[1], line.regs[2], 0>>
    BY <1>6, Encoded
  <2>2. "MOV" \in DOMAIN Opcode /\ line.regs[1] \in Byte /\ line.regs[2] \in Byte
    BY <1>4, <1>6, Operands DEF Mnemonic
  <2> HIDE DEF w
  <2>3. w \in Int \X Int \X Int \X Int
    BY <1>1, <1>2, <2>1, <2>2
  <2> QED
    BY <2>3 DEF w
<1>7. CASE line.op \in {"ADDI", "LUI", "LOAD", "STORE", "STOREB", "LOADB", "BEQ", "BNE"}
  <2>1. line.op \in DOMAIN Opcode /\ line.value \in Int /\ line.regs[1] \in Byte
        /\ (line.op # "LUI" => line.regs[2] \in Byte)
    BY <1>4, <1>7, Operands DEF Mnemonic
  <2>2. /\ Upper(line.value) \in Int /\ Offset(line.value, at) \in Int
        /\ Half(line) \in Int
    BY <2>1, Numbers
  <2>3. \E r1, r2 \in Byte, v \in Int : w = ImmediateWord(line.op, r1, r2, v)
    <3>1. CASE line.op = "ADDI"
      BY <2>1, <2>2, <3>1, Encoded
    <3>2. CASE line.op = "LUI"
      <4>1. w = ImmediateWord("LUI", line.regs[1], 0, Upper(line.value))
        BY <3>2, Encoded
      <4> HIDE DEF w
      <4> QED
        BY <1>1, <2>1, <2>2, <3>2, <4>1
    <3>3. CASE line.op = "LOAD"
      BY <2>1, <3>3, Encoded, Operands
    <3>4. CASE line.op \in {"STORE", "STOREB"}
      <4>1. line.regs[Len(line.regs)] \in Byte
        BY <2>1, <3>4, Operands
      <4> QED
        BY <2>1, <3>4, <4>1, Encoded
    <3>5. CASE line.op = "LOADB"
      BY <2>1, <3>5, Encoded
    <3>6. CASE line.op \in {"BEQ", "BNE"}
      BY <2>1, <2>2, <3>6, Encoded
    <3> QED
      BY <1>7, <3>1, <3>2, <3>3, <3>4, <3>5, <3>6
  <2> HIDE DEF w
  <2>4. w \in Int \X Int \X Int \X Int
    BY <1>3, <2>1, <2>3
  <2> QED
    BY <2>4 DEF w
<1>8. CASE line.op \in {"JMP", "CALL"}
  <2>1. w = TargetWord(line.op, line.value)
    BY <1>8, Encoded
  <2>2. line.op \in DOMAIN Opcode /\ line.value \in Int
    BY <1>4, <1>8, Operands DEF Mnemonic
  <2>3. Opcode[line.op] \in Int
    BY <1>2, <2>2
  <2>4. (line.value \div 65536) % 256 \in Int /\ (line.value \div 256) % 256 \in Int
        /\ line.value % 256 \in Int
    BY <2>2
  <2> HIDE DEF w
  <2>5. w \in Int \X Int \X Int \X Int
    BY <2>1, <2>3, <2>4 DEF TargetWord
  <2> QED
    BY <2>5 DEF w
<1>9. CASE line.op \in {"RET", "VCALL", "HALT"}
  <2>1. w = <<Opcode[line.op], 0, 0, 0>> /\ Opcode[line.op] \in Int
    BY <1>2, <1>4, <1>9, Encoded DEF Mnemonic
  <2> HIDE DEF w
  <2>2. w \in Int \X Int \X Int \X Int
    BY <2>1
  <2> QED
    BY <2>2 DEF w
<1>10. CASE line.op \notin Mnemonic
  BY <1>10, Encoded
<1> QED
  BY <1>5, <1>6, <1>7, <1>8, <1>9, <1>10 DEF Mnemonic

\* The code is what the assembler made of the source.
SourceOK ==
    source # <<>> => source \in Sources /\ code = Assemble(source)

\* An assembly program fits into the code and each of its lines is at its word.
LEMMA SourceLines ==
    ASSUME NEW program \in Sources
    PROVE  /\ Len(program) \in Nat /\ DOMAIN program = 1 .. Len(program)
           /\ 4 * Len(program) <= MAX_CODE
           /\ \A k \in DOMAIN program : Parsed(program[k])
           /\ Assemble(program) \in Seq(Int \X Int \X Int \X Int)
           /\ Len(Assemble(program)) = Len(program)
           /\ \A k \in DOMAIN program :
                 Assemble(program)[k] = assemble_line(program[k], 4 * (k - 1))
<1>1. program \in Seq(Lines) /\ 4 * Len(program) <= MAX_CODE
  BY VmAssumption
<1>2. Len(program) \in Nat /\ DOMAIN program = 1 .. Len(program)
  BY <1>1
<1>3. \A k \in DOMAIN program : Parsed(program[k])
  BY <1>1, VmAssumption
<1>4. \A k \in DOMAIN program :
         assemble_line(program[k], 4 * (k - 1)) \in Int \X Int \X Int \X Int
  <2> SUFFICES ASSUME NEW k \in DOMAIN program
               PROVE assemble_line(program[k], 4 * (k - 1)) \in Int \X Int \X Int \X Int
    OBVIOUS
  <2>1. 4 * (k - 1) \in Int
    BY <1>2
  <2> QED
    BY <1>3, <2>1, WordOfLine
<1> DEFINE W(k) == assemble_line(program[k], 4 * (k - 1))
<1>5. Assemble(program) = [k \in 1 .. Len(program) |-> W(k)]
  BY <1>2 DEF Assemble
<1>6. \A k \in 1 .. Len(program) : W(k) \in Int \X Int \X Int \X Int
  BY <1>2, <1>4
<1> HIDE DEF W
<1>7. /\ [k \in 1 .. Len(program) |-> W(k)] \in Seq(Int \X Int \X Int \X Int)
      /\ Len([k \in 1 .. Len(program) |-> W(k)]) = Len(program)
  BY <1>2, <1>6
<1>8. \A k \in DOMAIN program : Assemble(program)[k] = W(k)
  BY <1>2, <1>5
<1> QED
  BY <1>1, <1>2, <1>3, <1>5, <1>7, <1>8 DEF W

-----------------------------------------------------------------------------
(* Fetch and decode of an assembled word. *)

\* vm_step is about to execute line k of the source.
Fetches(k) ==
    /\ VmTypeOK /\ CodeOK /\ SourceOK /\ source # <<>>
    /\ k \in DOMAIN source /\ pc = 4 * (k - 1)

\* At the address of a line vm_step fetches the word of that line.
LEMMA Fetched ==
    ASSUME NEW k, Fetches(k)
    PROVE  /\ InCode /\ Readable /\ Wrap(pc + 4) = pc + 4
           /\ k \in 1 .. Len(source) /\ Len(source) \in Nat /\ pc + 4 = 4 * k /\ pc \in Nat
           /\ Parsed(source[k]) /\ instr = assemble_line(source[k], pc) /\ instr = code[k]
           /\ Src!i = source[k] /\ pc \in {4 * j : j \in 0 .. Len(source) - 1}
<1>1. source \in Sources /\ code = Assemble(source)
  BY DEF Fetches, SourceOK
<1>2. /\ Len(source) \in Nat /\ DOMAIN source = 1 .. Len(source)
      /\ 4 * Len(source) <= MAX_CODE
      /\ Parsed(source[k])
      /\ Len(code) = Len(source)
      /\ code[k] = assemble_line(source[k], 4 * (k - 1))
  BY <1>1, SourceLines DEF Fetches
<1>3. k \in 1 .. Len(source) /\ pc = 4 * (k - 1)
  BY <1>2 DEF Fetches
<1>4. pc \div 4 + 1 = k /\ pc % 4 = 0 /\ pc + 4 = 4 * k /\ pc + 4 <= 4 * Len(source) /\ pc \in Nat
  BY <1>2, <1>3
<1>5. pc + 4 \in Word
  BY <1>2, <1>4, WordSize DEF Word, MAX_CODE
<1>6. Wrap(pc + 4) = pc + 4
  BY <1>5, WrapWord
<1>7. k - 1 \in 0 .. Len(source) - 1
  BY <1>2, <1>3
<1>8. pc \in {4 * j : j \in 0 .. Len(source) - 1}
  BY <1>3, <1>7
<1>9. instr = code[k] /\ Src!i = source[k]
  BY <1>4 DEF instr, Src!i
<1>10. InCode /\ Readable
  BY <1>2, <1>4, <1>6 DEF InCode, Readable, code_size
<1>11. instr = assemble_line(source[k], pc)
  BY <1>2, <1>3, <1>9
<1> QED
  BY <1>2, <1>3, <1>4, <1>6, <1>8, <1>9, <1>10, <1>11

\* The fields of an instruction are the four numbers of its word.
LEMMA Fields ==
    ASSUME NEW a, NEW b, NEW c, NEW d, instr = <<a, b, c, d>>
    PROVE  opcode = a /\ rd = b /\ rs = c /\ rt = d
  BY DEF opcode, rd, rs, rt

\* A value of 7 bits leaves the byte it shares with rs alone.
LEMMA SmallValue ==
    ASSUME NEW v \in 0 .. 127
    PROVE  High(v) = 0 /\ Low(v) = v
  BY DEF High, Low

\* A value whose high byte is a register is that byte and its low byte.
LEMMA HighByte ==
    ASSUME NEW v \in Int, NEW r \in Byte, v \div 256 = r
    PROVE  High(v) = r /\ v = 256 * r + Low(v) /\ Low(v) \in 0 .. 255
  BY DEF High, Low, Byte

\* The two bytes of an immediate make the lower half of its value.
LEMMA HalfWord ==
    ASSUME NEW v \in Int
    PROVE  256 * High(v) + Low(v) = LowHalf(v) /\ High(v) \in Word
<1>1. 256 * High(v) + Low(v) = LowHalf(v)
  BY DEF High, Low, LowHalf
<1>2. High(v) \in 0 .. 255
  BY DEF High
<1> QED
  BY <1>1, <1>2, WrapWord DEF Byte

\* Lines without a value have 0 in the bytes of the immediate.
LEMMA NoValue == High(0) = 0 /\ Low(0) = 0
  BY DEF High, Low

\* The bytes of a number of 24 bits are that number.
LEMMA TargetBytes ==
    ASSUME NEW w \in Nat, w < 16777216
    PROVE  65536 * ((w \div 65536) % 256) + 256 * ((w \div 256) % 256) + (w % 256) = w
  BY SMT

\* Immediate, for the instruction that is fetched.
LEMMA ImmediateFields ==
    ASSUME NEW op, NEW r1 \in Byte, NEW r2 \in Byte, NEW v \in Int,
           instr = ImmediateWord(op, r1, r2, v)
    PROVE  instr = <<Opcode[op], r1, Or(r2, High(v)), Low(v)>>
  BY Immediate

\* A word that survives says what its line says.
LEMMA Says ==
    ASSUME NEW k, Fetches(k), Survives(k)
    PROVE  LET op == source[k].op
               regs == source[k].regs
               value == source[k].value
           IN
           /\ op \in Mnemonic => opcode = Opcode[op]
           /\ op \notin Mnemonic => opcode = 0
           /\ op \in {"ADD", "SUB"} => rd = regs[1] /\ rs = regs[2] /\ rt = regs[3]
           /\ op = "MOV" => rd = regs[1] /\ rs = regs[2]
           /\ op = "ADDI" => rd = regs[1] /\ rs = regs[2] /\ imm8 = Half(source[k])
           /\ op = "LUI" => rd = regs[1] /\ 256 * rs + rt = LowHalf(Upper(value))
           /\ op = "LUI" => source[k].form = "hi"
           /\ op = "LOAD" => rd = regs[1] /\ rs = BaseOf(source[k]) /\ (rs <= 31 => imm = value)
           /\ op = "STORE" => rd = regs[Len(regs)] /\ rs = regs[1] /\ (rs <= 31 => imm = value)
           /\ op = "LOADB" => rd = regs[1] /\ rs = regs[2] /\ rt = 0 /\ regs[3] = 0
           /\ op # "STOREB"
           /\ op \in {"BEQ", "BNE"} => /\ rd = regs[1] /\ rs = regs[2]
                                       /\ (gp[rd] = gp[rs]) <=> op = "BNE"
           /\ op \in {"JMP", "CALL"} => Wrap(target) = value
<1> DEFINE line == source[k]
           op == line.op
           regs == line.regs
           value == line.value
<1>1. Parsed(line) /\ instr = assemble_line(line, pc) /\ instr = code[k] /\ pc \in Int
  BY Fetched
<1> HIDE DEF line
<1>2. value \in Int
  BY <1>1, Operands
<1>3. CASE op \in {"ADD", "SUB"}
  <2>1. instr = <<Opcode[op], regs[1], regs[2], regs[3]>>
    BY <1>1, <1>3, Encoded
  <2>2. opcode = Opcode[op] /\ rd = regs[1] /\ rs = regs[2] /\ rt = regs[3]
    BY <2>1, Fields
  <2> QED
    BY <1>3, <2>2 DEF line, Mnemonic
<1>4. CASE op = "MOV"
  <2>1. instr = <<Opcode["MOV"], regs[1], regs[2], 0>>
    BY <1>1, <1>4, Encoded
  <2>2. opcode = Opcode[op] /\ rd = regs[1] /\ rs = regs[2] /\ rt = 0
    BY <1>4, <2>1, Fields
  <2> QED
    BY <1>4, <2>2 DEF line, Mnemonic
<1>5. CASE op = "ADDI"
  <2> DEFINE h == Half(line)
  <2>0. h \in Int
    BY <1>2, Numbers
  <2> HIDE DEF h
  <2>1. regs[1] \in Byte /\ regs[2] \in Byte
    BY <1>1, <1>5, Operands
  <2>2. instr = <<Opcode["ADDI"], regs[1], Or(regs[2], High(h)), Low(h)>>
    <3>1. instr = ImmediateWord("ADDI", regs[1], regs[2], h)
      BY <1>1, <1>5, Encoded DEF h
    <3> QED
      BY <2>0, <2>1, <3>1, ImmediateFields
  <2>3. h \in 0 .. 127
    BY <1>5 DEF Survives, line, h
  <2>4. High(h) = 0 /\ Low(h) = h
    BY <2>3, SmallValue
  <2>5. Or(regs[2], 0) = regs[2]
    BY <2>1, OrSame, WrapWord
  <2>6. opcode = Opcode["ADDI"] /\ rd = regs[1] /\ rs = regs[2] /\ rt = h
    BY <2>2, <2>4, <2>5, Fields
  <2>7. imm8 = h
    BY <2>3, <2>6 DEF imm8, Signed
  <2> QED
    BY <1>5, <2>6, <2>7 DEF line, h, Mnemonic
<1>6. CASE op = "LUI"
  <2>1. regs[1] \in Byte /\ 0 \in Byte
    BY <1>1, <1>6, Operands DEF Byte
  <2>2. Upper(value) \in Int
    BY <1>1, <1>2, Numbers
  <2> DEFINE u == Upper(value)
  <2>3. instr = <<Opcode["LUI"], regs[1], Or(0, High(u)), Low(u)>>
    <3>1. instr = ImmediateWord("LUI", regs[1], 0, u)
      BY <1>1, <1>6, Encoded
    <3> HIDE DEF u
    <3> QED
      BY <2>1, <2>2, <3>1, ImmediateFields DEF u
  <2> HIDE DEF u
  <2>4. u \in Int
    BY <2>2 DEF u
  <2>5. High(u) \in Word /\ 256 * High(u) + Low(u) = LowHalf(u)
    BY <2>4, HalfWord
  <2>6. Or(0, High(u)) = High(u)
    BY <2>5, OrSame
  <2>7. opcode = Opcode["LUI"] /\ rd = regs[1] /\ rs = High(u) /\ rt = Low(u)
    BY <2>3, <2>6, Fields
  <2>8. 256 * rs + rt = LowHalf(Upper(value))
    BY <2>5, <2>7 DEF u
  <2>9. line.form = "hi"
    BY <1>6 DEF Survives, line
  <2> QED
    BY <1>6, <2>7, <2>8, <2>9 DEF line, Mnemonic
<1>7. ASSUME NEW r1 \in Byte, NEW r2 \in Byte, op \in {"LOAD", "STORE"},
             instr = ImmediateWord(op, r1, r2, value), value \div 256 = r2
      PROVE  opcode = Opcode[op] /\ rd = r1 /\ rs = r2 /\ (rs <= 31 => imm = value)
  <2>1. instr = <<Opcode[op], r1, Or(r2, High(value)), Low(value)>>
    <3>1. instr = ImmediateWord(op, r1, r2, value)
      BY <1>7
    <3> QED
      BY <1>2, <3>1, ImmediateFields
  <2>2. High(value) = r2 /\ value = 256 * r2 + Low(value) /\ Low(value) \in 0 .. 255
    BY <1>2, <1>7, HighByte
  <2>3. Or(r2, r2) = r2
    BY OrSame, WrapWord
  <2>4. opcode = Opcode[op] /\ rd = r1 /\ rs = r2 /\ rt = Low(value)
    BY <2>1, <2>2, <2>3, Fields
  <2>5. rs <= 31 => imm = value
    BY <1>2, <2>2, <2>4 DEF imm, Signed, Byte
  <2> QED
    BY <2>4, <2>5
<1>8. CASE op = "LOAD"
  <2>1. regs[1] \in Byte /\ BaseOf(line) \in Byte
    BY <1>1, <1>8, Operands
  <2>2. instr = ImmediateWord("LOAD", regs[1], BaseOf(line), value)
    BY <1>1, <1>8, Encoded
  <2>3. value \div 256 = BaseOf(line)
    BY <1>8 DEF Survives, line
  <2>4. opcode = Opcode[op] /\ rd = regs[1] /\ rs = BaseOf(line) /\ (rs <= 31 => imm = value)
    BY <1>7, <1>8, <2>1, <2>2, <2>3
  <2> QED
    BY <1>8, <2>4 DEF line, Mnemonic
<1>9. CASE op = "STORE"
  <2>1. regs[1] \in Byte /\ regs[Len(regs)] \in Byte
    BY <1>1, <1>9, Operands
  <2>2. instr = ImmediateWord(op, regs[Len(regs)], regs[1], value)
    BY <1>1, <1>9, Encoded
  <2>3. value \div 256 = regs[1]
    BY <1>9 DEF Survives, line
  <2>4. /\ opcode = Opcode[op] /\ rd = regs[Len(regs)] /\ rs = regs[1]
        /\ rs <= 31 => imm = value
    BY <1>7, <1>9, <2>1, <2>2, <2>3
  <2> QED
    BY <1>9, <2>4 DEF line, Mnemonic
<1>10. CASE op = "LOADB"
  <2>1. regs[1] \in Byte /\ regs[2] \in Byte /\ 0 \in Int
    BY <1>1, <1>10, Operands
  <2>2. instr = <<Opcode["LOADB"], regs[1], Or(regs[2], High(0)), Low(0)>>
    <3>1. instr = ImmediateWord("LOADB", regs[1], regs[2], 0)
      BY <1>1, <1>10, Encoded
    <3> QED
      BY <2>1, <3>1, ImmediateFields
  <2>3. Or(regs[2], High(0)) = regs[2] /\ Low(0) = 0
    BY <2>1, NoValue, OrSame, WrapWord
  <2>4. regs[3] = 0
    BY <1>10 DEF Survives, line, ZERO
  <2>5. opcode = Opcode["LOADB"] /\ rd = regs[1] /\ rs = regs[2] /\ rt = 0
    BY <2>2, <2>3, Fields
  <2> QED
    BY <1>10, <2>4, <2>5 DEF line, Mnemonic
<1>11. op # "STOREB"
  BY DEF Survives, line
<1>12. CASE op \in {"BEQ", "BNE"}
  <2>1. regs[1] \in Byte /\ regs[2] \in Byte /\ Offset(value, pc) \in Int
    BY <1>1, <1>2, <1>12, Operands, Numbers
  <2> DEFINE v == Offset(value, pc)
  <2>2. instr = ImmediateWord(op, regs[1], regs[2], v)
    BY <1>1, <1>12, Encoded
  <2> HIDE DEF v
  <2>3. instr = <<Opcode[op], regs[1], Or(regs[2], High(v)), Low(v)>>
    BY <2>1, <2>2, ImmediateFields DEF v
  <2>4. opcode = Opcode[op] /\ rd = regs[1]
    BY <2>3, Fields
  <2>5. rs = regs[2]
    BY <1>1, <1>12 DEF Survives, line, rs
  <2>6. (gp[regs[1]] = gp[regs[2]]) <=> op = "BNE"
    BY <1>12 DEF Survives, line
  <2> QED
    BY <1>12, <2>4, <2>5, <2>6 DEF line, Mnemonic
<1>13. CASE op \in {"JMP", "CALL"}
  <2>1. instr = TargetWord(op, value)
    BY <1>1, <1>13, Encoded
  <2>2. instr = <<Opcode[op], (value \div 65536) % 256, (value \div 256) % 256, value % 256>>
    BY <2>1 DEF TargetWord
  <2>3. /\ opcode = Opcode[op] /\ rd = (value \div 65536) % 256 /\ rs = (value \div 256) % 256
        /\ rt = value % 256
    BY <2>2, Fields
  <2>4. value \in Word /\ value < 16777216
    <3>1. value \in Word /\ value < 2 ^ 24
      BY <1>13 DEF Survives, line
    <3>2. 2 ^ 24 = 16777216
      OBVIOUS
    <3> QED
      BY <3>1, <3>2
  <2>5. target = value
    <3>1. value \in Nat
      BY <2>4, WrapWord
    <3>2. 65536 * ((value \div 65536) % 256) + 256 * ((value \div 256) % 256) + (value % 256) = value
      BY <2>4, <3>1, TargetBytes
    <3>3. target = 65536 * ((value \div 65536) % 256) + 256 * ((value \div 256) % 256) + (value % 256)
      BY <2>3 DEF target
    <3> QED
      BY <2>4, <3>1, <3>2, <3>3
  <2>6. Wrap(target) = value
    BY <2>4, <2>5, WrapWord
  <2> QED
    BY <1>13, <2>3, <2>6 DEF line, Mnemonic
<1>14. CASE op \in {"RET", "VCALL", "HALT"}
  <2>1. instr = <<Opcode[op], 0, 0, 0>>
    BY <1>1, <1>14, Encoded
  <2>2. opcode = Opcode[op]
    BY <2>1, Fields
  <2> QED
    BY <1>14, <2>2 DEF line, Mnemonic
<1>15. CASE op \notin Mnemonic
  <2>1. instr = <<0, 0, 0, 0>>
    BY <1>1, <1>15, Encoded
  <2>2. opcode = 0
    BY <2>1, Fields
  <2> QED
    BY <1>15, <2>2 DEF line, Mnemonic
<1> QED
  BY <1>3, <1>4, <1>5, <1>6, <1>8, <1>9, <1>10, <1>11, <1>12, <1>13, <1>14, <1>15 DEF Mnemonic

-----------------------------------------------------------------------------
(* A tame program stays inside the buffers. *)

\* Where control may be: at a line or behind the last one.
Places == {4 * j : j \in 0 .. Len(source)}

\* As long as nothing was misread, a tame program is at one of its lines or
\* its end, and so is its return address.
OnTrack ==
    source # <<>> /\ Tame /\ ~misread =>
        pc \in Places /\ gp[RA] \in Places /\ state # "UNDEFINED"

\* The inductive invariant.
IInv ==
    /\ VmTypeOK /\ misread \in BOOLEAN
    /\ CodeOK /\ SourceOK /\ OnTrack

\* What Tame says of the line that is fetched.
LEMMA TameLine ==
    ASSUME Tame, NEW k, Fetches(k)
    PROVE  LET line == source[k] IN
           /\ \A n \in DOMAIN line.regs : line.regs[n] \in Byte => line.regs[n] \in 0 .. 31
           /\ line.op \in {"ADD", "SUB", "ADDI", "MOV", "LUI", "LOAD", "LOADB"}
                 => line.regs[1] # RA
           /\ line.op = "LOAD" => line.regs[2] = 0
           /\ line.op = "STORE" => line.regs[1] = 0
           /\ line.op \in {"JMP", "CALL", "BEQ", "BNE"} => line.value \in Places
<1> DEFINE line == source[k]
<1>1. k \in DOMAIN source
  BY DEF Fetches
<1>2. /\ \A n \in DOMAIN line.regs : line.regs[n] <= 31
      /\ line.op \in {"ADD", "SUB", "ADDI", "MOV", "LUI", "LOAD", "LOADB"} => line.regs[1] # RA
      /\ line.op = "LOAD" => line.regs[2] = ZERO
      /\ line.op = "STORE" => line.regs[1] = ZERO
      /\ line.op \in {"JMP", "CALL", "BEQ", "BNE"} =>
            line.value \in {4 * j : j \in 0 .. Len(source)}
  BY <1>1, Zenon DEF Tame
<1> HIDE DEF line
<1>3. \A b \in Byte : b <= 31 => b \in 0 .. 31
  BY DEF Byte
<1>4. \A n \in DOMAIN line.regs : line.regs[n] \in Byte => line.regs[n] \in 0 .. 31
  BY <1>2, <1>3
<1> QED
  BY <1>2, <1>4, Zenon DEF Places, ZERO, line

\* Only vm_step's tests that are too weak lead outside.
LEMMA DefinedStep ==
    ASSUME VmNext, ~Undefined
    PROVE  state' # "UNDEFINED"
<1>1. CASE Compute \/ Load \/ LoadByte \/ Vcall
  <2>1. Decodes /\ state' = state
    BY <1>1 DEF Compute, Load, LoadByte, Vcall, SetRegister
  <2> QED
    BY <2>1 DEF Decodes, Running
<1>2. CASE Store \/ StoreByte
  <2>1. Decodes /\ state' = state
    BY <1>2 DEF Store, StoreByte
  <2> QED
    BY <2>1 DEF Decodes, Running
<1>3. CASE Branch \/ Jump
  <2>1. Decodes /\ state' = state
    BY <1>3 DEF Branch, Jump, JumpTo
  <2> QED
    BY <2>1 DEF Decodes, Running
<1>4. CASE AddressFault \/ Halt \/ Illegal
  BY <1>4 DEF AddressFault, Halt, Illegal, Stop
<1> QED
  BY <1>1, <1>2, <1>3, <1>4 DEF VmNext

\* What no mnemonic stands for is not executed.
LEMMA NoSuchInstruction ==
    ASSUME opcode = 0
    PROVE  /\ Named = {} /\ ~Is({"LOAD", "STORE"})
           /\ ~Compute /\ ~Load /\ ~Store /\ ~LoadByte /\ ~StoreByte /\ ~AddressFault
           /\ ~Branch /\ ~Jump /\ ~Vcall /\ ~Halt
<1>1. \A x \in DOMAIN Opcode : Opcode[x] # 0
  BY Opcodes
<1>2. \A x \in RdOps \cup {"JMP", "CALL", "RET", "VCALL", "HALT"} : opcode # Opcode[x]
  BY <1>1, Opcodes
<1>3. ~Is(RdOps) /\ ~Is(RsOps) /\ ~Is(RtOps) /\ ~Is(ComputeOps)
  BY <1>2 DEF Is, RdOps, RsOps, RtOps, ComputeOps
<1>4. /\ ~Is({"LOAD", "STORE"}) /\ ~Is({"LOAD"}) /\ ~Is({"STORE"}) /\ ~Is({"LOADB"})
      /\ ~Is({"STOREB"}) /\ ~Is({"BEQ", "BNE"}) /\ ~Is({"JMP", "CALL", "RET"})
      /\ ~Is({"VCALL"}) /\ ~Is({"HALT"})
  BY <1>2 DEF Is, RdOps
<1>5. Named = (IF Is(RdOps) THEN {rd} ELSE {}) \cup (IF Is(RsOps) THEN {rs} ELSE {})
              \cup (IF Is(RtOps) THEN {rt} ELSE {})
  BY Zenon DEF Named, RdOps, RsOps, RtOps
<1>6. Named = {}
  BY <1>3, <1>5
<1>7. ~Compute
  BY <1>3 DEF Compute, ComputeOps
<1> QED
  BY <1>4, <1>6, <1>7 DEF Load, Store, LoadByte, StoreByte, AddressFault, Branch, Jump, Vcall, Halt

\* A tame line that survives names registers that exist and words that are
\* inside the memory or fail their test.
LEMMA TameInside ==
    ASSUME Tame, NEW k, Fetches(k), Survives(k)
    PROVE  ~Undefined
<1> DEFINE op == source[k].op
           regs == source[k].regs
           value == source[k].value
<1>1. InCode /\ Readable /\ Parsed(source[k])
  BY Fetched
<1>2. CASE op \notin Mnemonic
  <2>1. opcode = 0
    BY <1>2, Says
  <2>4. Named = {} /\ ~Is({"LOAD", "STORE"})
    BY <2>1, NoSuchInstruction
  <2> QED
    BY <1>1, <2>4 DEF Undefined
<1>3. CASE op \in Mnemonic
  <2>1. opcode = Opcode[op] /\ op \in DOMAIN Opcode
    BY <1>3, Says, Opcodes DEF Mnemonic, RdOps
  <2>2. /\ op \in RdOps => rd \in 0 .. 31
        /\ op \in RsOps => rs \in 0 .. 31
        /\ op \in RtOps => rt \in 0 .. 31
    <3>1. /\ op \in {"ADD", "SUB", "LOADB", "MOV", "ADDI", "LOAD", "STORE", "STOREB", "BEQ",
                     "BNE", "LUI"} => regs[1] \in 0 .. 31
          /\ op \in {"ADD", "SUB", "LOADB", "MOV", "ADDI", "LOAD", "STORE", "STOREB", "BEQ",
                     "BNE"} => regs[2] \in 0 .. 31
          /\ op \in {"ADD", "SUB", "LOADB"} => regs[3] \in 0 .. 31
          /\ op = "STORE" => regs[Len(regs)] \in 0 .. 31
          /\ op = "LOAD" => BaseOf(source[k]) = 0
      <4>1. op = "LOAD" => BaseOf(source[k]) = 0
        BY TameLine DEF BaseOf
      <4>2. op = "STORE" => Len(regs) \in {2, 3} /\ (Len(regs) = 3 => regs[3] \in 0 .. 31)
                            /\ regs[2] \in 0 .. 31
        BY <1>1, Operands, TameLine
      <4> QED
        BY <1>1, <4>1, <4>2, Operands, TameLine
    <3>2. /\ op \in {"ADD", "SUB"} => rd = regs[1] /\ rs = regs[2] /\ rt = regs[3]
          /\ op \in {"MOV", "ADDI", "BEQ", "BNE"} => rd = regs[1] /\ rs = regs[2]
          /\ op = "LOAD" => rd = regs[1] /\ rs = BaseOf(source[k])
          /\ op = "LUI" => rd = regs[1]
          /\ op = "STORE" => rd = regs[Len(regs)] /\ rs = regs[1]
          /\ op = "LOADB" => rd = regs[1] /\ rs = regs[2] /\ rt = 0
          /\ op # "STOREB"
      BY Says
    <3> HIDE DEF op, regs
    <3>3. CASE op = "LOAD"
      BY <3>1, <3>2, <3>3 DEF RdOps, RsOps, RtOps
    <3>4. CASE op = "STORE"
      BY <3>1, <3>2, <3>4 DEF RdOps, RsOps, RtOps
    <3>5. CASE op \in {"ADD", "SUB", "MOV", "ADDI", "BEQ", "BNE"}
      <4>1. rd = regs[1] /\ rs = regs[2] /\ regs[1] \in 0 .. 31 /\ regs[2] \in 0 .. 31
        BY <3>1, <3>2, <3>5
      <4>2. op \in {"ADD", "SUB"} => rt \in 0 .. 31
        BY <3>1, <3>2
      <4> QED
        BY <3>5, <4>1, <4>2 DEF RdOps, RsOps, RtOps
    <3>6. CASE op = "LOADB"
      BY <3>1, <3>2, <3>6 DEF RdOps, RsOps, RtOps
    <3>7. CASE op = "LUI"
      BY <3>1, <3>2, <3>7 DEF RdOps, RsOps, RtOps
    <3>8. CASE op \in {"JMP", "CALL", "RET", "VCALL", "HALT"}
      BY <3>8 DEF RdOps, RsOps, RtOps
    <3>9. op # "STOREB"
      BY <3>2
    <3> QED
      BY <1>3, <3>3, <3>4, <3>5, <3>6, <3>7, <3>8, <3>9 DEF Mnemonic
  <2>3. Named \subseteq 0 .. 31
    BY <2>1, <2>2, IsOps
  <2>4. Is({"LOAD", "STORE"}) /\ WordAllowed => WordThere
    <3>1. SUFFICES ASSUME op \in {"LOAD", "STORE"}, WordAllowed PROVE WordThere
      BY <2>1, IsOps
    <3>2. rs = 0 /\ imm = value /\ value \div 256 = 0 /\ value \in Int
      <4>1. CASE op = "LOAD"
        <5>0. BaseOf(source[k]) = 0
          BY <4>1, TameLine DEF BaseOf
        <5>1. rs = 0
          BY <4>1, <5>0, Says
        <5>2. imm = value
          BY <4>1, <5>1, Says
        <5>3. value \div 256 = 0
          BY <4>1, <5>0 DEF Survives
        <5> QED
          BY <1>1, <5>1, <5>2, <5>3, Operands
      <4>2. CASE op = "STORE"
        <5>1. rs = 0
          BY <4>2, Says, TameLine
        <5>2. imm = value
          BY <4>2, <5>1, Says
        <5>3. value \div 256 = regs[1] /\ regs[1] = 0
          BY <4>2, TameLine DEF Survives
        <5> QED
          BY <1>1, <5>1, <5>2, <5>3, Operands
      <4> QED
        BY <3>1, <4>1, <4>2
    <3> HIDE DEF value
    <3>3. value \in 0 .. 255
      BY <3>2
    <3>4. gp[rs] + imm = value
      BY <3>2, <3>3 DEF Fetches, VmTypeOK, ZERO
    <3>5. value \in Word /\ value + 4 \in Word
      BY <3>3, WordSize DEF Word
    <3>6. word_addr = value
      BY <3>4, <3>5, WrapWord DEF word_addr
    <3>7. Wrap(word_addr + 4) = word_addr + 4
      BY <3>5, <3>6, WrapWord
    <3> QED
      BY <3>1, <3>7 DEF WordAllowed, WordThere
  <2> QED
    BY <1>1, <2>3, <2>4 DEF Undefined
<1> QED
  BY <1>2, <1>3

\* One instruction further, with the return address as it was.
LEMMA Advances ==
    ASSUME NEW k, Fetches(k), NEW r \in 0 .. 31, r # RA, NEW value, SetRegister(r, value)
    PROVE  pc' \in Places /\ gp'[RA] = gp[RA]
<1>1. Wrap(pc + 4) = 4 * k /\ k \in 0 .. Len(source)
  BY Fetched
<1>2. gp \in [0 .. 31 -> Word]
  BY DEF Fetches, VmTypeOK
<1>3. pc' \in Places
  BY <1>1 DEF SetRegister, Places
<1>4. gp'[RA] = gp[RA]
  BY <1>2 DEF SetRegister, RA, ZERO
<1> QED
  BY <1>3, <1>4

\* A step of a tame program leads to one of its lines or its end, keeps a return
\* address of that kind, and is defined.
LEMMA TameStep ==
    ASSUME IInv, VmNext, UNCHANGED source, source # <<>>, Tame, ~misread, OnTrack,
           \A k \in DOMAIN source : pc = 4 * (k - 1) => Survives(k)
    PROVE  pc' \in Places /\ gp'[RA] \in Places /\ state' # "UNDEFINED"
<1>0. pc \in Places /\ gp[RA] \in Places
  BY DEF OnTrack
<1>1. source \in Sources /\ Len(source) \in Nat /\ DOMAIN source = 1 .. Len(source)
      /\ 4 * Len(source) <= MAX_CODE /\ Len(code) = Len(source)
  BY SourceLines DEF IInv, SourceOK
<1>2. PICK j \in 0 .. Len(source) : pc = 4 * j
  BY <1>0 DEF Places
<1>3. CASE j = Len(source)
  <2>1. pc + 4 \in Word
    BY <1>1, <1>2, WordSize DEF Word, MAX_CODE
  <2>2. ~InCode
    BY <1>1, <1>2, <1>3, <2>1, WrapWord DEF InCode, code_size
  <2>3. ~Decodes
    BY <2>2 DEF Decodes
  <2>4. Illegal
    BY <2>2, <2>3 DEF VmNext, Compute, Load, Store, LoadByte, StoreByte, AddressFault, Branch, Jump,
                      Vcall, Halt, Undefined
  <2> QED
    BY <1>0, <2>4 DEF Illegal, Stop
<1>4. CASE j # Len(source)
  <2> DEFINE k == j + 1
  <2>1. k \in DOMAIN source /\ pc = 4 * (k - 1)
    <3>1. k \in 1 .. Len(source)
      <4>1. PICK n \in Nat : n = Len(source)
        BY <1>1
      <4>2. j \in 0 .. n /\ j # n
        BY <1>4, <4>1
      <4>3. j + 1 \in 1 .. n
        BY <4>2
      <4> QED
        BY <4>1, <4>3
    <3>2. 4 * (k - 1) = 4 * j
      OBVIOUS
    <3> HIDE DEF k
    <3> QED
      BY <1>1, <1>2, <3>1, <3>2
  <2>2. Fetches(k) /\ Survives(k)
    BY <2>1 DEF Fetches, IInv
  <2> HIDE DEF k
  <2> DEFINE op == source[k].op
             regs == source[k].regs
  <2>3. state' # "UNDEFINED"
    BY <2>2, TameInside, DefinedStep
  <2>4. InCode /\ Readable /\ Parsed(source[k])
    BY <2>2, Fetched
  <2>5. Wrap(pc + 4) \in Places
    <3>1. Wrap(pc + 4) = 4 * k /\ k \in 0 .. Len(source)
      BY <2>2, Fetched
    <3> QED
      BY <3>1 DEF Places
  <2>6. ASSUME NEW how, Stop(how) PROVE pc' \in Places /\ gp'[RA] \in Places
    BY <1>0, <2>6 DEF Stop
  <2>7. CASE op \notin Mnemonic
    <3>1. opcode = 0
      BY <2>2, <2>7, Says
    <3>2. ~Undefined
      BY <2>2, TameInside
    <3>3. Illegal
      BY <3>1, <3>2, NoSuchInstruction DEF VmNext
    <3> QED
      BY <2>3, <2>6, <3>3 DEF Illegal
  <2>8. CASE op \in Mnemonic
    <3>1. opcode = Opcode[op] /\ op \in DOMAIN Opcode
      BY <2>2, <2>8, Says, Opcodes DEF Mnemonic, RdOps
    <3>2. Named \subseteq 0 .. 31
      BY <2>3, <2>4, <3>1, StepOf
    <3>3. CASE op \in {"ADD", "SUB", "ADDI", "MOV", "LUI", "LOAD", "LOADB"}
      <4>1. rd = regs[1] /\ regs[1] # RA
        BY <2>2, <3>3, Says, TameLine
      <4>2. rd \in 0 .. 31
        BY <3>1, <3>2, <3>3, IsOps DEF RdOps
      <4>3. (\E value : SetRegister(rd, value)) \/ Stop("ERROR")
        <5>1. op \in ComputeOps \/ op = "LOAD" \/ op = "LOADB"
          BY <3>3 DEF ComputeOps
        <5> QED
          BY <2>3, <2>4, <3>1, <5>1, StepOf
      <4> QED
        BY <1>0, <2>2, <2>3, <2>6, <4>1, <4>2, <4>3, Advances
    <3>4. CASE op = "STORE"
      <4>1. Store \/ Stop("ERROR")
        BY <2>3, <2>4, <3>1, <3>4, StepOf
      <4> QED
        BY <1>0, <2>3, <2>5, <2>6, <4>1 DEF Store
    <3>5. CASE op \in {"BEQ", "BNE"}
      <4>1. Branch
        BY <2>3, <2>4, <3>1, <3>5, StepOf
      <4>2. (gp[rd] = gp[rs]) <=> op = "BNE"
        BY <2>2, <3>5, Says
      <4>3. Is({"BEQ"}) <=> op = "BEQ"
        BY <3>1, IsOps, Opcodes DEF RdOps
      <4>4. pc' = Wrap(pc + 4) /\ gp' = gp
        BY <3>5, <4>1, <4>2, <4>3 DEF Branch, JumpTo
      <4> QED
        BY <1>0, <2>3, <2>5, <4>4
    <3>6. CASE op \in {"JMP", "CALL", "RET"}
      <4>1. Jump
        BY <2>3, <2>4, <3>1, <3>6, StepOf
      <4>2. Is({"RET"}) <=> op = "RET"
        BY <3>1, IsOps, Opcodes DEF RdOps
      <4>3. op # "RET" => Wrap(target) \in Places
        BY <2>2, <3>6, Says, TameLine
      <4>4. pc' \in Places
        BY <1>0, <4>1, <4>2, <4>3 DEF Jump, JumpTo
      <4>5. gp'[RA] \in Places
        <5>1. gp \in [0 .. 31 -> Word]
          BY DEF IInv, VmTypeOK
        <5>2. gp' = [gp EXCEPT ![RA] = IF Is({"CALL"}) THEN Wrap(pc + 4) ELSE @]
          BY <4>1 DEF Jump
        <5> QED
          BY <1>0, <2>5, <5>1, <5>2 DEF RA
      <4> QED
        BY <2>3, <4>4, <4>5
    <3>7. CASE op = "VCALL"
      <4>1. \E value : SetRegister(K0, value)
        BY <2>3, <2>4, <3>1, <3>7, StepOf
      <4>2. K0 \in 0 .. 31 /\ K0 # RA
        BY DEF K0, RA
      <4> QED
        BY <1>0, <2>2, <2>3, <4>1, <4>2, Advances
    <3>8. CASE op = "HALT"
      <4>1. Stop("HALTED")
        BY <2>3, <2>4, <3>1, <3>8, StepOf
      <4> QED
        BY <2>3, <2>6, <4>1
    <3>9. op # "STOREB"
      BY <2>2, Says
    <3> QED
      BY <2>8, <3>3, <3>4, <3>5, <3>6, <3>7, <3>8, <3>9 DEF Mnemonic
  <2> QED
    BY <2>7, <2>8
<1> QED
  BY <1>3, <1>4

\* vm_init starts at the first instruction, in the invariant.
LEMMA InitIInv == ASSUME Init PROVE IInv
<1>1. RamSize \in Word /\ RamSize \in Nat
  BY VmAssumption, WrapWord
<1>2. \A size \in {RamSize} : Wrap(size - 4) \in Word
  <2>1. RamSize - 4 \in Int
    BY <1>1
  <2> QED
    BY <2>1, WrapWord
<1>3. 0 \in Word /\ 0 \in Byte
  BY WordSize DEF Word, Byte
<1>4. ASSUME NEW program, VmInit(program, RamSize)
      PROVE  /\ VmTypeOK /\ DOMAIN ram = 0 .. RamSize - 1 /\ code = program /\ pc = 0
             /\ gp[RA] = 0 /\ state = "RUNNING"
  <2>1. /\ code = program /\ pc = 0 /\ ram = [a \in 0 .. RamSize - 1 |-> 0]
        /\ gp = [[r \in 0 .. 31 |-> 0] EXCEPT ![SP] = Wrap(RamSize - 4)] /\ state = "RUNNING"
    BY <1>4 DEF VmInit
  <2>2. Wrap(RamSize - 4) \in Word
    BY <1>2
  <2>3. gp \in [0 .. 31 -> Word] /\ gp[ZERO] = 0 /\ gp[RA] = 0
    <3> DEFINE v == Wrap(RamSize - 4)
    <3>1. v \in Word /\ gp = [[r \in 0 .. 31 |-> 0] EXCEPT ![29] = v]
      BY <2>1, <2>2 DEF SP
    <3> HIDE DEF v
    <3>2. gp \in [0 .. 31 -> Word]
      BY <1>3, <3>1
    <3>3. gp[0] = 0 /\ gp[31] = 0
      BY <3>1
    <3> QED
      BY <3>2, <3>3 DEF ZERO, RA
  <2>4. DOMAIN ram = 0 .. RamSize - 1 /\ \A a \in DOMAIN ram : ram[a] \in Byte
    BY <1>3, <2>1
  <2> QED
    BY <1>3, <2>1, <2>3, <2>4 DEF VmTypeOK
<1>5. CASE source \in Sources /\ VmInit(Assemble(source), RamSize)
  <2>1. CodeOK /\ SourceOK
    BY <1>4, <1>5, SourceLines DEF CodeOK, SourceOK
  <2>2. 0 \in Places
    <3>1. Len(source) \in Nat
      BY <1>5, SourceLines
    <3>2. 0 \in 0 .. Len(source) /\ 0 = 4 * 0
      BY <3>1
    <3> QED
      BY <3>2 DEF Places
  <2> QED
    BY <1>4, <1>5, <2>1, <2>2 DEF Init, IInv, OnTrack
<1>6. CASE source = <<>> /\ \E words \in RawCode : VmInit(words, RamSize)
  <2>1. PICK words \in RawCode : VmInit(words, RamSize)
    BY <1>6
  <2>2. words \in Seq(Int \X Int \X Int \X Int)
    <3>1. words \in Seq(Byte \X Byte \X Byte \X Byte)
      BY VmAssumption
    <3>2. Byte \X Byte \X Byte \X Byte \subseteq Int \X Int \X Int \X Int
      BY DEF Byte
    <3> QED
      BY <3>1, <3>2
  <2> QED
    BY <1>4, <1>6, <2>1, <2>2 DEF Init, IInv, OnTrack, CodeOK, SourceOK
<1> QED
  BY <1>5, <1>6 DEF Init

\* Every step keeps the invariant: the types by VmTypes whatever the code, the
\* position of a tame program by TameStep.
LEMMA NextIInv == ASSUME IInv, [Next]_vars PROVE IInv'
<1>1. CASE UNCHANGED vars
  <2>1. /\ UNCHANGED <<code, pc, gp, ram, state, source, misread>>
    BY <1>1 DEF vars, vmvars
  <2> QED
    BY <2>1 DEF IInv, VmTypeOK, CodeOK, SourceOK, OnTrack, Tame, Places
<1>2. CASE Next
  <2>1. VmNext /\ source' = source /\ misread' = (misread \/ \E k \in Line : ~Survives(k))
    BY <1>2 DEF Next
  <2>2. VmTypeOK' /\ CodeOK' /\ code' = code
    BY <2>1, VmTypes, CodeStays DEF IInv
  <2>3. SourceOK'
    BY <2>1, <2>2 DEF IInv, SourceOK
  <2>4. misread' \in BOOLEAN
    BY <2>1 DEF IInv
  <2>5. ASSUME source # <<>>, Tame, ~misread'
        PROVE  pc' \in Places /\ gp'[RA] \in Places /\ state' # "UNDEFINED"
    <3>1. ~misread /\ \A k \in DOMAIN source : pc = 4 * (k - 1) => Survives(k)
      BY <2>1, <2>5 DEF Line
    <3> QED
      BY <2>1, <2>5, <3>1, TameStep DEF IInv
  <2>6. Places' = Places /\ Tame' = Tame
    BY <2>1 DEF Places, Tame
  <2>7. OnTrack'
    BY <2>1, <2>5, <2>6 DEF OnTrack
  <2> QED
    BY <2>2, <2>3, <2>4, <2>7 DEF IInv
<1> QED
  BY <1>1, <1>2

\* The invariant holds in every reachable state of the virtual machine.
THEOREM Invariance == Spec => []IInv
<1>1. Init => IInv
  BY InitIInv
<1>2. IInv /\ [Next]_vars => IInv'
  BY NextIInv
<1> QED
  BY <1>1, <1>2, PTL DEF Spec

\* The registers keep their width and zero its value, and vm_step's tests keep a
\* tame program inside the buffers, for every word width, memory and program.
THEOREM TamePrograms == Spec => []VmInvariant
<1>1. IInv => VmInvariant
  BY DEF IInv, OnTrack, VmInvariant, TypeOK, TameStaysInside
<1> QED
  BY <1>1, Invariance, PTL

-----------------------------------------------------------------------------
(* The machine does what the source means. *)

\* Both modules take their words from Words.
LEMMA SameWords ==
    /\ \A x : Src!Wrap(x) = Wrap(x)
    /\ \A x, j : Src!ByteOf(x, j) = ByteOf(x, j)
    /\ \A m, a : Src!WordAt(m, a) = WordAt(m, a)
<1>1. \A x : Src!Wrap(x) = Wrap(x)
  BY DEF Src!Wrap, Wrap
<1>2. \A x, j : Src!ByteOf(x, j) = ByteOf(x, j)
  BY Zenon DEF Src!ByteOf, ByteOf, Src!ShiftRight, ShiftRight
<1>3. \A m, a : Src!WordAt(m, a) = WordAt(m, a)
  BY Zenon DEF Src!WordAt, WordAt, Src!ShiftLeft, ShiftLeft, Src!Wrap, Wrap
<1> QED
  BY <1>1, <1>2, <1>3

\* A line that is fetched is the one the source executes.
LEMMA ExecutesIt ==
    ASSUME NEW k, Fetches(k), state = "RUNNING", NEW ops
    PROVE  Src!Executes(ops) <=> source[k].op \in ops
  BY Fetched DEF Src!Executes

\* set_reg does what the source calls assigning a register.
LEMMA Assigns ==
    ASSUME NEW k, Fetches(k), UNCHANGED source, NEW r \in 0 .. 31, NEW value,
           SetRegister(r, value)
    PROVE  Src!Assign(r, value)
<1>1. Wrap(pc + 4) = pc + 4
  BY Fetched
<1>2. gp \in [0 .. 31 -> Word] /\ gp[0] = 0
  BY DEF Fetches, VmTypeOK, ZERO
<1>3. gp' = [gp EXCEPT ![r] = value, ![0] = 0]
  BY DEF SetRegister, ZERO
<1>4. gp' = [gp EXCEPT ![r] = IF r = 0 THEN 0 ELSE value]
  <2>1. CASE r = 0
    BY <1>2, <1>3, <2>1
  <2>2. CASE r # 0
    BY <1>2, <1>3, <2>2
  <2> QED
    BY <2>1, <2>2
<1>5. pc' = pc + 4 /\ UNCHANGED <<source, ram, state>>
  BY <1>1 DEF SetRegister
<1> QED
  BY <1>4, <1>5 DEF Src!Assign

\* Stopping the machine is the end of the source's program.
LEMMA EndsHow ==
    ASSUME UNCHANGED source, NEW how, Stop(how)
    PROVE  Src!Ends(how)
  BY DEF Stop, Src!Ends

\* One step of an assembled program.
Steps(k) ==
    /\ Fetches(k) /\ Survives(k) /\ VmNext /\ UNCHANGED source
    /\ state = "RUNNING" /\ state' # "UNDEFINED" /\ source[k].op \in Mnemonic

\* What is known of a step of an assembled program: its line, its opcode, and that
\* the registers it uses exist.
LEMMA StepsOf ==
    ASSUME NEW k, Steps(k)
    PROVE  /\ InCode /\ Readable /\ Parsed(source[k]) /\ Src!i = source[k]
           /\ source[k].op \in DOMAIN Opcode /\ opcode = Opcode[source[k].op]
           /\ Named \subseteq 0 .. 31
           /\ source[k].op \in RdOps => rd \in 0 .. 31
           /\ source[k].op \in RsOps => rs \in 0 .. 31
           /\ source[k].op \in RtOps => rt \in 0 .. 31
<1> DEFINE op == source[k].op
<1>1. InCode /\ Readable /\ Parsed(source[k]) /\ Src!i = source[k]
  BY Fetched DEF Steps
<1>2. opcode = Opcode[op] /\ op \in DOMAIN Opcode
  BY Says, Opcodes DEF Steps, Mnemonic, RdOps
<1>3. Named \subseteq 0 .. 31
  BY <1>1, <1>2, StepOf DEF Steps
<1>4. Named = (IF op \in RdOps THEN {rd} ELSE {}) \cup (IF op \in RsOps THEN {rs} ELSE {})
              \cup (IF op \in RtOps THEN {rt} ELSE {})
  BY <1>2, IsOps
<1> QED
  BY <1>1, <1>2, <1>3, <1>4

\* Arithmetic does what its line says, immediates with their sign included.
LEMMA ArithmeticStep ==
    ASSUME NEW k, Steps(k), source[k].op \in {"ADD", "SUB", "ADDI", "MOV", "LUI"}
    PROVE  Src!Arithmetic
<1> DEFINE line == source[k]
           op == line.op
           regs == line.regs
           value == line.value
<1>1. /\ InCode /\ Readable /\ Parsed(line) /\ Src!i = line /\ opcode = Opcode[op]
      /\ op \in DOMAIN Opcode /\ rd \in 0 .. 31
  BY StepsOf DEF RdOps
<1>2. Fetches(k) /\ Survives(k) /\ state = "RUNNING" /\ UNCHANGED source
  BY DEF Steps
<1>3. SetRegister(rd, Result)
  BY <1>1, StepOf DEF Steps, ComputeOps
<1>4. Src!Assign(rd, Result)
  BY <1>1, <1>2, <1>3, Assigns
<1>5. rd = regs[1]
  BY <1>2, Says
<1>6. \A x \in DOMAIN Opcode : Is({x}) <=> op = x
  BY <1>1, IsOps
<1>7. CASE op = "ADD"
  <2>1. Result = Wrap(gp[rs] + gp[rt])
    BY <1>6, <1>7, Opcodes DEF Result, RdOps
  <2>2. rs = regs[2] /\ rt = regs[3]
    BY <1>2, <1>7, Says
  <2>3. Result = Src!Wrap(Src!reg(2) + Src!reg(3))
    BY <1>1, <2>1, <2>2, SameWords DEF Src!reg
  <2>4. Src!Executes({"ADD"})
    BY <1>2, <1>7, ExecutesIt
  <2> QED
    BY <1>1, <1>4, <1>5, <2>3, <2>4 DEF Src!Arithmetic
<1>8. CASE op = "SUB"
  <2>1. Result = Wrap(gp[rs] - gp[rt])
    BY <1>6, <1>8, Opcodes DEF Result, RdOps
  <2>2. rs = regs[2] /\ rt = regs[3]
    BY <1>2, <1>8, Says
  <2>3. Result = Src!Wrap(Src!reg(2) - Src!reg(3))
    BY <1>1, <2>1, <2>2, SameWords DEF Src!reg
  <2>4. Src!Executes({"SUB"})
    BY <1>2, <1>8, ExecutesIt
  <2> QED
    BY <1>1, <1>4, <1>5, <2>3, <2>4 DEF Src!Arithmetic
<1>9. CASE op = "ADDI"
  <2>1. Result = Wrap(gp[rs] + imm8)
    BY <1>6, <1>9, Opcodes DEF Result, RdOps
  <2>2. rs = regs[2] /\ imm8 = Half(line)
    BY <1>2, <1>9, Says
  <2>3. Src!operand = Half(line)
    BY <1>1 DEF Half, Src!operand
  <2>5. Result = Src!Wrap(Src!reg(2) + Src!operand)
    BY <1>1, <2>1, <2>2, <2>3, SameWords DEF Src!reg
  <2>4. Src!Executes({"ADDI"})
    BY <1>2, <1>9, ExecutesIt
  <2> QED
    BY <1>1, <1>4, <1>5, <2>4, <2>5 DEF Src!Arithmetic
<1>10. CASE op = "MOV"
  <2>1. Result = gp[rs]
    BY <1>6, <1>10, Opcodes DEF Result, RdOps
  <2>2. rs = regs[2]
    BY <1>2, <1>10, Says
  <2>3. Result = Src!reg(2)
    BY <1>1, <2>1, <2>2 DEF Src!reg
  <2>4. Src!Executes({"MOV"})
    BY <1>2, <1>10, ExecutesIt
  <2> QED
    BY <1>1, <1>4, <1>5, <2>3, <2>4 DEF Src!Arithmetic
<1>11. CASE op = "LUI"
  <2>1. Result = Raised(256 * rs + rt)
    BY <1>6, <1>11, Opcodes DEF Result, RdOps, Raised
  <2>2. 256 * rs + rt = LowHalf(Upper(value)) /\ value \in Int /\ line.form = "hi"
    BY <1>1, <1>2, <1>11, Says, Operands
  <2>3. Upper(value) \in Int
    BY <2>2, Numbers
  <2>4. Raised(LowHalf(Upper(value))) = Wrap(Upper(value) * 65536)
    BY <2>3, UpperHalf DEF LowHalf, Raised
  <2>5. Src!operand = Upper(value)
    BY <1>1, <2>2 DEF Src!operand, Upper
  <2>6. Result = Src!Wrap(Src!operand * 65536)
    BY <2>1, <2>2, <2>4, <2>5, SameWords
  <2>7. Src!Executes({"LUI"})
    BY <1>2, <1>11, ExecutesIt
  <2>8. Src!Assign(line.regs[1], Src!Wrap(Src!operand * 65536))
    BY <1>4, <1>5, <2>6
  <2> QED
    BY <1>1, <2>7, <2>8 DEF Src!Arithmetic
<1> QED
  BY <1>7, <1>8, <1>9, <1>10, <1>11

\* A word of the memory that the tests of vm_step find, or do not find.
LEMMA WordTests ==
    ASSUME VmTypeOK, CodeOK, NEW addr \in Word, word_addr = addr
    PROVE  /\ WordAllowed /\ WordThere => Src!InRam(addr, 4)
           /\ ~WordAllowed => ~Src!InRam(addr, 4)
<1>1. ram_size = RamSize /\ RamSize \in Nat /\ RamSize \in Word /\ DOMAIN ram = 0 .. RamSize - 1
  BY RamSizes, VmAssumption DEF CodeOK
<1>2. addr \in Nat
  BY WrapWord
<1>3. Src!InRam(addr, 4) <=> (\A a \in addr .. addr + 3 : a \in 0 .. RamSize - 1) /\ addr % 4 = 0
  <2>1. addr + 4 - 1 = addr + 3
    BY <1>2
  <2> QED
    BY <1>1, <2>1 DEF Src!InRam, Src!Bytes
<1>4. (\A a \in addr .. addr + 3 : a \in 0 .. RamSize - 1) <=> addr + 4 <= RamSize
  BY <1>1, <1>2
<1>5. addr + 4 <= RamSize => addr + 4 \in Word
  BY <1>1, <1>2, WordSize DEF Word
<1>6. addr + 4 <= RamSize => Wrap(addr + 4) = addr + 4
  BY <1>5, WrapWord
<1> QED
  BY <1>1, <1>3, <1>4, <1>6 DEF WordAllowed, WordThere

\* The test of LOADB is the one that the source asks for.
LEMMA ByteTest ==
    ASSUME CodeOK, NEW addr \in Word
    PROVE  Src!InRam(addr, 1) <=> addr < ram_size
<1>1. ram_size = RamSize /\ RamSize \in Nat /\ DOMAIN ram = 0 .. RamSize - 1
  BY RamSizes DEF CodeOK
<1>2. addr \in Nat
  BY WrapWord
<1>3. addr .. addr + 1 - 1 = {addr} /\ addr % 1 = 0
  BY <1>2
<1> QED
  BY <1>1, <1>2, <1>3 DEF Src!InRam, Src!Bytes

\* LOAD reads the word its line names, or stops where the source faults.
LEMMA LoadStep ==
    ASSUME NEW k, Steps(k), source[k].op = "LOAD"
    PROVE  Src!Memory
<1> DEFINE line == source[k]
           op == line.op
           regs == line.regs
           value == line.value
           addr == word_addr
<1>1. /\ InCode /\ Readable /\ Parsed(line) /\ Src!i = line /\ opcode = Opcode[op]
      /\ op \in DOMAIN Opcode /\ rd \in 0 .. 31 /\ rs \in 0 .. 31
  BY StepsOf DEF RdOps, RsOps
<1>2. Fetches(k) /\ Survives(k) /\ state = "RUNNING" /\ UNCHANGED source /\ VmTypeOK /\ CodeOK
  BY DEF Steps, Fetches
<1>3. rd = regs[1] /\ rs = BaseOf(line) /\ imm = value
  BY <1>1, <1>2, Says
<1>4. addr \in Word
  BY <1>1, <1>2, Addresses
<1>5. addr = Src!Wrap(Src!reg(2) + (IF Src!Indexed THEN Src!reg(3) ELSE Src!i.value))
  <2>1. gp \in [0 .. 31 -> Word] /\ gp[0] = 0
    BY <1>2 DEF VmTypeOK, ZERO
  <2>2. addr = Wrap(gp[rs] + value)
    BY <1>3 DEF word_addr
  <2>3. /\ Len(regs) = 3 => gp[regs[3]] = 0 /\ value = 0 /\ line.form # "base"
        /\ line.form = "base" => gp[regs[2]] = 0
    BY <1>1, <1>2, Operands DEF Survives
  <2>4. gp[rs] = gp[regs[2]]
    BY <1>3, <2>1, <2>3 DEF BaseOf
  <2>5. /\ Src!reg(2) = gp[regs[2]] /\ Src!reg(3) = gp[regs[3]] /\ Src!i.value = value
        /\ Src!Indexed <=> Len(regs) = 3
    BY <1>1 DEF Src!reg, Src!Indexed
  <2> HIDE DEF addr, line, regs, value
  <2>6. addr = Wrap(Src!reg(2) + (IF Src!Indexed THEN Src!reg(3) ELSE Src!i.value))
    BY <2>2, <2>3, <2>4, <2>5
  <2> QED
    BY <2>6, SameWords
<1>6. Src!Executes({"LOAD", "LOADB", "STORE", "STOREB"})
  BY <1>2, ExecutesIt
<1>7. \/ WordAllowed /\ WordThere /\ SetRegister(rd, WordAt(ram, addr))
      \/ ~WordAllowed /\ Stop("ERROR")
  BY <1>1, StepOf DEF Steps
<1>8. CASE WordAllowed /\ WordThere /\ SetRegister(rd, WordAt(ram, addr))
  <2>1. Src!InRam(addr, 4)
    BY <1>2, <1>4, <1>8, WordTests
  <2>2. Src!Assign(rd, WordAt(ram, addr))
    BY <1>1, <1>2, <1>8, Assigns
  <2>3. Src!Assign(regs[1], Src!WordAt(ram, addr))
    BY <1>3, <2>2, SameWords
  <2> HIDE DEF addr
  <2> QED
    BY <1>1, <1>5, <1>6, <2>1, <2>3 DEF Src!Memory
<1>9. CASE ~WordAllowed /\ Stop("ERROR")
  <2>1. ~Src!InRam(addr, 4)
    BY <1>2, <1>4, <1>9, WordTests
  <2>2. Src!Ends("ERROR")
    BY <1>2, <1>9, EndsHow
  <2> HIDE DEF addr
  <2> QED
    BY <1>1, <1>5, <1>6, <2>1, <2>2 DEF Src!Memory
<1> QED
  BY <1>7, <1>8, <1>9

\* STORE writes the word its line names, or stops where the source faults.
LEMMA StoreStep ==
    ASSUME NEW k, Steps(k), source[k].op = "STORE"
    PROVE  Src!Memory
<1> DEFINE line == source[k]
           op == line.op
           regs == line.regs
           value == line.value
           addr == word_addr
<1>1. /\ InCode /\ Readable /\ Parsed(line) /\ Src!i = line /\ opcode = Opcode[op]
      /\ op \in DOMAIN Opcode /\ rd \in 0 .. 31 /\ rs \in 0 .. 31
  BY StepsOf DEF RdOps, RsOps
<1>2. Fetches(k) /\ Survives(k) /\ state = "RUNNING" /\ UNCHANGED source /\ VmTypeOK /\ CodeOK
  BY DEF Steps, Fetches
<1>3. rd = regs[Len(regs)] /\ rs = regs[1] /\ imm = value
  BY <1>1, <1>2, Says
<1>4. addr \in Word /\ addr \in Nat
  BY <1>1, <1>2, Addresses, WrapWord
<1>5. addr = Src!Wrap(Src!reg(1) + (IF Src!Indexed THEN Src!reg(2) ELSE Src!i.value))
  <2>1. addr = Wrap(gp[rs] + value)
    BY <1>3 DEF word_addr
  <2>2. Len(regs) = 3 => gp[regs[2]] = 0 /\ value = 0
    BY <1>1, <1>2, Operands DEF Survives
  <2>3. /\ Src!reg(1) = gp[regs[1]] /\ Src!reg(2) = gp[regs[2]] /\ Src!i.value = value
        /\ Src!Indexed <=> Len(regs) = 3
    BY <1>1 DEF Src!reg, Src!Indexed
  <2> HIDE DEF addr, line, regs, value
  <2>4. addr = Wrap(Src!reg(1) + (IF Src!Indexed THEN Src!reg(2) ELSE Src!i.value))
    BY <1>3, <2>1, <2>2, <2>3
  <2> QED
    BY <2>4, SameWords
<1>6. Src!Executes({"LOAD", "LOADB", "STORE", "STOREB"})
  BY <1>2, ExecutesIt
<1>7. Store \/ (~WordAllowed /\ Stop("ERROR"))
  BY <1>1, StepOf DEF Steps
<1>8. CASE Store
  <2>1. Src!InRam(addr, 4)
    BY <1>2, <1>4, <1>8, WordTests DEF Store
  <2>2. /\ ram' = [a \in DOMAIN ram |->
                  IF a \in addr .. addr + 3 THEN ByteOf(gp[rd], a - addr) ELSE ram[a]]
        /\ pc' = Wrap(pc + 4) /\ UNCHANGED <<gp, state>>
    BY <1>8 DEF Store
  <2>3. Src!Bytes(addr, 4) = addr .. addr + 3
    BY <1>4 DEF Src!Bytes
  <2>4. Wrap(pc + 4) = pc + 4
    BY <1>2, Fetched
  <2>5. Src!reg(Len(Src!i.regs)) = gp[rd]
    BY <1>1, <1>3 DEF Src!reg
  <2> HIDE DEF addr
  <2>6. Src!Put(addr, 4, Src!reg(Len(Src!i.regs)))
    BY <1>2, <2>2, <2>3, <2>4, <2>5, SameWords DEF Src!Put
  <2> QED
    BY <1>1, <1>5, <1>6, <2>1, <2>6 DEF Src!Memory
<1>9. CASE ~WordAllowed /\ Stop("ERROR")
  <2>1. ~Src!InRam(addr, 4)
    BY <1>2, <1>4, <1>9, WordTests
  <2>2. Src!Ends("ERROR")
    BY <1>2, <1>9, EndsHow
  <2> HIDE DEF addr
  <2> QED
    BY <1>1, <1>5, <1>6, <2>1, <2>2 DEF Src!Memory
<1> QED
  BY <1>7, <1>8, <1>9

\* LOADB reads the byte its line names, or stops where the source faults.
LEMMA LoadByteStep ==
    ASSUME NEW k, Steps(k), source[k].op = "LOADB"
    PROVE  Src!Memory
<1> DEFINE line == source[k]
           op == line.op
           regs == line.regs
           addr == Wrap(gp[rs] + gp[rt])
<1>1. /\ InCode /\ Readable /\ Parsed(line) /\ Src!i = line /\ opcode = Opcode[op]
      /\ op \in DOMAIN Opcode /\ rd \in 0 .. 31 /\ rs \in 0 .. 31 /\ rt \in 0 .. 31
  BY StepsOf DEF RdOps, RsOps, RtOps
<1>2. Fetches(k) /\ Survives(k) /\ state = "RUNNING" /\ UNCHANGED source /\ VmTypeOK /\ CodeOK
  BY DEF Steps, Fetches
<1>3. rd = regs[1] /\ rs = regs[2] /\ rt = regs[3]
  BY <1>2, Says
<1>4. addr \in Word /\ addr \in Nat
  BY <1>1, <1>2, Addresses, WrapWord
<1>5. addr = Src!Wrap(Src!reg(2) + (IF Src!Indexed THEN Src!reg(3) ELSE Src!i.value))
  <2>1. Src!Indexed
    BY <1>1, Operands DEF Src!Indexed
  <2>2. addr = Src!Wrap(Src!reg(2) + Src!reg(3))
    BY <1>1, <1>3, SameWords DEF Src!reg
  <2> QED
    BY <2>1, <2>2
<1>6. Src!Executes({"LOAD", "LOADB", "STORE", "STOREB"})
  BY <1>2, ExecutesIt
<1>7. \/ addr < ram_size /\ SetRegister(rd, ram[addr])
      \/ addr >= ram_size /\ Stop("ERROR")
  BY <1>1, StepOf DEF Steps
<1>8. ram_size \in Nat
  BY <1>2, RamSizes
<1> HIDE DEF addr
<1>9. CASE addr < ram_size /\ SetRegister(rd, ram[addr])
  <2>1. Src!InRam(addr, 1)
    BY <1>2, <1>4, <1>9, ByteTest
  <2>2. Src!Assign(regs[1], ram[addr])
    BY <1>1, <1>2, <1>3, <1>9, Assigns
  <2> QED
    BY <1>1, <1>5, <1>6, <2>1, <2>2 DEF Src!Memory
<1>10. CASE addr >= ram_size /\ Stop("ERROR")
  <2>1. ~Src!InRam(addr, 1)
    BY <1>2, <1>4, <1>8, <1>10, ByteTest
  <2>2. Src!Ends("ERROR")
    BY <1>2, <1>10, EndsHow
  <2> QED
    BY <1>1, <1>5, <1>6, <2>1, <2>2 DEF Src!Memory
<1> QED
  BY <1>7, <1>9, <1>10

\* Jumps, calls, returns and the branches that survive lead where their line says.
LEMMA ControlStep ==
    ASSUME NEW k, Steps(k), source[k].op \in {"BEQ", "BNE", "JMP", "CALL", "RET"}
    PROVE  Src!Control
<1> DEFINE line == source[k]
           op == line.op
           regs == line.regs
           value == line.value
<1>1. /\ InCode /\ Readable /\ Parsed(line) /\ Src!i = line /\ opcode = Opcode[op]
      /\ op \in DOMAIN Opcode
  BY StepsOf
<1>2. Fetches(k) /\ Survives(k) /\ state = "RUNNING" /\ UNCHANGED source /\ Wrap(pc + 4) = pc + 4
  BY Fetched DEF Steps
<1>3. \A x \in DOMAIN Opcode : Is({x}) <=> op = x
  BY <1>1, IsOps
<1>4. (Is({"BEQ"}) <=> op = "BEQ") /\ (Is({"RET"}) <=> op = "RET") /\ (Is({"CALL"}) <=> op = "CALL")
  BY <1>3, Opcodes DEF RdOps
<1>5. \A ops : Src!Executes(ops) <=> op \in ops
  BY <1>2, ExecutesIt
<1>6. CASE op \in {"BEQ", "BNE"}
  <2>1. Branch
    BY <1>1, <1>6, StepOf DEF Steps
  <2>2. rd = regs[1] /\ rs = regs[2] /\ ((gp[rd] = gp[rs]) <=> op = "BNE")
    BY <1>2, <1>6, Says
  <2>3. pc' = pc + 4 /\ gp' = gp /\ UNCHANGED <<ram, state>>
    BY <1>2, <1>4, <1>6, <2>1, <2>2 DEF Branch, JumpTo
  <2>4. Src!reg(1) = gp[rd] /\ Src!reg(2) = gp[rs]
    BY <1>1, <2>2 DEF Src!reg
  <2>5. CASE op = "BEQ"
    BY <1>2, <1>5, <2>2, <2>3, <2>4, <2>5 DEF Src!Control, Src!Goto
  <2>6. CASE op = "BNE"
    BY <1>2, <1>5, <2>2, <2>3, <2>4, <2>6 DEF Src!Control, Src!Goto
  <2> QED
    BY <1>6, <2>5, <2>6
<1>7. CASE op \in {"JMP", "CALL", "RET"}
  <2>1. Jump
    BY <1>1, <1>7, StepOf DEF Steps
  <2>2. op # "RET" => Wrap(target) = value
    BY <1>2, <1>7, Says
  <2>3. /\ pc' = (IF op = "RET" THEN gp[31] ELSE value) /\ UNCHANGED <<ram, state>>
        /\ gp' = [gp EXCEPT ![31] = IF op = "CALL" THEN pc + 4 ELSE @]
    BY <1>2, <1>4, <1>7, <2>1, <2>2 DEF Jump, JumpTo, RA
  <2>4. gp \in [0 .. 31 -> Word]
    BY <1>2 DEF Fetches, VmTypeOK
  <2>5. op # "CALL" => gp' = gp
    BY <2>3, <2>4
  <2>6. CASE op = "JMP"
    BY <1>1, <1>2, <1>5, <2>3, <2>5, <2>6 DEF Src!Control, Src!Goto
  <2>7. CASE op = "CALL"
    BY <1>1, <1>2, <1>5, <2>3, <2>7 DEF Src!Control, Src!Goto
  <2>8. CASE op = "RET"
    BY <1>1, <1>2, <1>5, <2>3, <2>5, <2>8 DEF Src!Control, Src!Goto
  <2> QED
    BY <1>7, <2>6, <2>7, <2>8
<1> QED
  BY <1>6, <1>7

\* VCALL leaves an answer of the kernel and HALT stops.
LEMMA SystemStep ==
    ASSUME NEW k, Steps(k), source[k].op \in {"VCALL", "HALT"}
    PROVE  Src!System
<1> DEFINE op == source[k].op
<1>1. InCode /\ Readable /\ opcode = Opcode[op] /\ op \in DOMAIN Opcode
  BY StepsOf
<1>2. Fetches(k) /\ state = "RUNNING" /\ UNCHANGED source
  BY DEF Steps
<1>3. \A ops : Src!Executes(ops) <=> op \in ops
  BY <1>2, ExecutesIt
<1>4. CASE op = "VCALL"
  <2>1. PICK answer \in Answers : SetRegister(K0, answer)
    BY <1>1, <1>4, StepOf DEF Steps
  <2>2. Src!Assign(26, answer)
    BY <1>2, <2>1, Assigns DEF K0
  <2> QED
    BY <1>3, <1>4, <2>2 DEF Src!System
<1>5. CASE op = "HALT"
  <2>1. Stop("HALTED")
    BY <1>1, <1>5, StepOf DEF Steps
  <2>2. Src!Ends("HALTED")
    BY <1>2, <2>1, EndsHow
  <2> QED
    BY <1>3, <1>5, <2>2 DEF Src!System
<1> QED
  BY <1>4, <1>5

\* Where no line is fetched, or one that is no instruction, the machine stops
\* with an error if it does not read outside.
LEMMA FaultStep ==
    ASSUME IInv, VmNext, UNCHANGED source, source # <<>>, state' # "UNDEFINED",
           \A k : Fetches(k) => source[k].op \notin Mnemonic /\ Survives(k)
    PROVE  Src!Fault
<1>1. source \in Sources /\ Len(source) \in Nat /\ DOMAIN source = 1 .. Len(source)
      /\ Len(code) = Len(source)
  BY SourceLines DEF IInv, SourceOK
<1>2. pc \in Nat
  BY WrapWord DEF IInv, VmTypeOK
<1>3. ~Undefined
  BY DEF Undefined, Stop
<1>4. Illegal
  <2>1. CASE Decodes
    <3>1. InCode /\ Readable
      BY <2>1 DEF Decodes
    <3> DEFINE k == pc \div 4 + 1
    <3>2. k \in 1 .. Len(source) /\ pc = 4 * (k - 1)
      BY <1>1, <1>2, <3>1 DEF Readable, code_size
    <3>3. Fetches(k)
      BY <1>1, <3>2 DEF Fetches, IInv
    <3>4. opcode = 0
      BY <3>3, Says
    <3> QED
      BY <1>3, <3>4, NoSuchInstruction DEF VmNext
  <2>2. CASE ~Decodes
    BY <1>3, <2>2 DEF VmNext, Compute, Load, Store, LoadByte, StoreByte, AddressFault, Branch, Jump,
                      Vcall, Halt
  <2> QED
    BY <2>1, <2>2
<1>5. state = "RUNNING" /\ Stop("ERROR")
  BY <1>4 DEF Illegal, Running
<1>6. Src!Ends("ERROR")
  BY <1>5, EndsHow
<1>7. ~Src!Executes({"ADD", "SUB", "ADDI", "MOV", "LUI", "LOAD", "LOADB", "STORE",
                  "STOREB", "BEQ", "BNE", "JMP", "CALL", "RET", "VCALL", "HALT"})
  <2>1. SUFFICES ASSUME pc \in {4 * j : j \in 0 .. Len(source) - 1}, Src!i.op \in Mnemonic
                 PROVE  FALSE
    BY DEF Src!Executes, Mnemonic
  <2>2. PICK j \in 0 .. Len(source) - 1 : pc = 4 * j
    BY <2>1
  <2> DEFINE k == j + 1
  <2>3. k \in 1 .. Len(source) /\ pc = 4 * (k - 1)
    BY <1>1, <2>2
  <2> HIDE DEF k
  <2>4. Fetches(k)
    BY <1>1, <2>3 DEF Fetches, IInv
  <2>5. Src!i = source[k]
    BY <2>4, Fetched
  <2> QED
    BY <2>1, <2>4, <2>5
<1> QED
  BY <1>5, <1>6, <1>7 DEF Src!Fault

\* Every defined step of an assembled program of which nothing was misread is a
\* step of the source machine.
LEMMA SourceStep ==
    ASSUME IInv, Next, source # <<>>, ~misread', state' # "UNDEFINED"
    PROVE  Src!SourceNext
<1>1. VmNext /\ source' = source /\ \A k \in DOMAIN source : pc = 4 * (k - 1) => Survives(k)
  BY DEF Next, Line
<1>2. CASE \E k : Fetches(k) /\ source[k].op \in Mnemonic
  <2>1. PICK k : Fetches(k) /\ source[k].op \in Mnemonic
    BY <1>2
  <2>2. Survives(k) /\ InCode /\ Readable
    BY <1>1, <2>1, Fetched DEF Fetches
  <2>3. opcode = Opcode[source[k].op] /\ source[k].op \in DOMAIN Opcode
    BY <2>1, <2>2, Says, Opcodes DEF Mnemonic, RdOps
  <2>4. state = "RUNNING"
    BY <1>1, <2>2, <2>3, StepOf
  <2>5. Steps(k)
    BY <1>1, <2>1, <2>2, <2>4 DEF Steps
  <2>6. source[k].op # "STOREB"
    BY <2>1, <2>2, Says
  <2> QED
    BY <2>1, <2>5, <2>6, ArithmeticStep, LoadStep, StoreStep, LoadByteStep, ControlStep, SystemStep
       DEF Mnemonic, Src!SourceNext
<1>3. CASE ~\E k : Fetches(k) /\ source[k].op \in Mnemonic
  <2>1. \A k : Fetches(k) => source[k].op \notin Mnemonic /\ Survives(k)
    BY <1>1, <1>3 DEF Fetches
  <2>2. Src!Fault
    BY <1>1, <2>1, FaultStep
  <2> QED
    BY <2>2 DEF Src!SourceNext
<1> QED
  BY <1>2, <1>3

\* vm_init starts where the source machine does.
LEMMA SourceStart ==
    ASSUME Init, source # <<>>
    PROVE  Src!SourceInit
<1>1. VmInit(Assemble(source), RamSize)
  BY DEF Init
<1>2. Cardinality(DOMAIN ram) = RamSize
  BY InitIInv, RamSizes DEF IInv, ram_size
<1>3. /\ pc = 0 /\ ram = [a \in 0 .. RamSize - 1 |-> 0]
      /\ gp = [[r \in 0 .. 31 |-> 0] EXCEPT ![29] = Wrap(RamSize - 4)] /\ state = "RUNNING"
  BY <1>1 DEF VmInit, SP
<1>4. \A a \in DOMAIN ram : ram[a] = 0
  BY <1>3
<1>5. Src!Wrap(Src!Cardinality(DOMAIN ram) - 4) = Wrap(RamSize - 4)
  <2>1. Src!Cardinality(DOMAIN ram) = Cardinality(DOMAIN ram)
    BY Zenon DEF Src!Cardinality, Cardinality, Src!IsFiniteSet, IsFiniteSet
  <2> QED
    BY <1>2, <2>1, SameWords
<1>6. gp = [[r \in 0 .. 31 |-> 0] EXCEPT ![29] = Src!Wrap(Src!Cardinality(DOMAIN ram) - 4)]
  BY <1>3, <1>5
<1> QED
  BY <1>3, <1>4, <1>6 DEF Src!SourceInit

\* The virtual machine implements the source machine: assembled programs whose
\* executed words all say what their lines say do what their source means, for
\* every word width, memory and program.
THEOREM SourceMeaning == Spec => RunsTheSource
<1>1. Init => (source # <<>> => Src!SourceInit)
  BY SourceStart
<1>2. IInv /\ [Next]_vars =>
         [source # <<>> /\ ~misread' /\ state' # "UNDEFINED" => Src!SourceNext]_vmvars
  BY SourceStep DEF vars
<1> QED
  BY <1>1, <1>2, Invariance, PTL DEF Spec, RunsTheSource
=============================================================================
