------------------------- MODULE IDObfuscatorProofs -------------------------
(***************************************************************************)
(* The tokens for every prime modulus, base, word, key and id: Decode      *)
(* reverses Encode, and Encode reverses Decode on the tokens it can have   *)
(* printed.  That modInverse inverts and that base 62 can be read back are *)
(* inductions over numbers and digits; the induction principle and the     *)
(* existence of recursive functions are stated for sets and functions, not *)
(* for operators.                                                          *)
(***************************************************************************)
EXTENDS IDObfuscator, WellFoundedInduction, TLAPS

(* The least-number principle, for a set. *)
Below == {p \in Nat \X Nat : p[1] < p[2]}

LEMMA LeastNumber ==
  ASSUME NEW A, A \subseteq Nat, A # {}
  PROVE  \E n \in A : \A k \in A : n <= k
<1>1. \A i, j \in Nat : i < j => <<i, j>> \in Below
  BY DEF Below
<1>2. IsWellFoundedOn(Below, Nat)
  BY NatLessThanWellFounded DEF OpToRel, Below
<1>3. PICK n \in A : \A k \in A : ~ (<<k, n>> \in Below)
  BY <1>2, WFMin
<1>4. \A k \in A : ~ (k < n)
  BY <1>1, <1>3
<1> QED
  BY <1>3, <1>4

(* Induction, for the set of the numbers that have the property. *)
LEMMA Induction ==
  ASSUME NEW A, \A n \in Nat : (\A k \in 0 .. n - 1 : k \in A) => n \in A
  PROVE  \A n \in Nat : n \in A
<1> DEFINE Out == {n \in Nat : n \notin A}
<1> SUFFICES ASSUME Out # {} PROVE FALSE
  OBVIOUS
<1>1. PICK n \in Out : \A k \in Out : n <= k
  <2> Out \subseteq Nat
    OBVIOUS
  <2> HIDE DEF Out
  <2> QED
    BY LeastNumber
<1>2. \A k \in 0 .. n - 1 : k \in A
  BY <1>1
<1> QED
  BY <1>1, <1>2

LEMMA StepInduction ==
  ASSUME NEW A, 0 \in A, \A n \in Nat : n \in A => n + 1 \in A
  PROVE  \A n \in Nat : n \in A
<1>1. ASSUME NEW n \in Nat, \A k \in 0 .. n - 1 : k \in A PROVE n \in A
  <2>1. CASE n = 0
    BY <2>1
  <2>2. CASE n # 0
    <3>1. n - 1 \in Nat /\ n - 1 \in 0 .. n - 1 /\ (n - 1) + 1 = n
      BY <2>2
    <3>2. n - 1 \in A
      BY <1>1, <3>1
    <3> QED
      BY <3>1, <3>2
  <2> QED
    BY <2>1, <2>2
<1> QED
  BY <1>1, Induction

(* Definition by recursion: step[n][f] looks at f below n only. *)
Looks(V, step) ==
    /\ step \in [Nat -> [[Nat -> V] -> V]]
    /\ \A n \in Nat, f, g \in [Nat -> V] :
          (\A k \in 0 .. n - 1 : f[k] = g[k]) => step[n][f] = step[n][g]

LEMMA Recursion ==
  ASSUME NEW V, NEW v0 \in V, NEW step, Looks(V, step)
  PROVE  \E f \in [Nat -> V] : \A n \in Nat : f[n] = step[n][f]
<1> DEFINE UpTo(n, f) == f \in [Nat -> V] /\ \A k \in 0 .. n - 1 : f[k] = step[k][f]
<1>1. ASSUME NEW n \in Nat, NEW f, UpTo(n, f), NEW g, UpTo(n, g)
      PROVE  \A k \in 0 .. n - 1 : f[k] = g[k]
  <2> DEFINE A == {k \in Nat : k < n => f[k] = g[k]}
  <2>1. ASSUME NEW k \in Nat, \A j \in 0 .. k - 1 : j \in A PROVE k \in A
    <3>1. CASE k < n
      <4>1. \A j \in 0 .. k - 1 : f[j] = g[j]
        BY <2>1, <3>1
      <4>2. f[k] = step[k][f] /\ g[k] = step[k][g]
        BY <1>1, <3>1
      <4>3. step[k][f] = step[k][g]
        BY <1>1, <4>1 DEF Looks
      <4> QED
        BY <4>2, <4>3
    <3> QED
      BY <3>1
  <2> HIDE DEF A
  <2>2. \A k \in Nat : k \in A
    BY <2>1, Induction
  <2> QED
    BY <2>2 DEF A
<1>2. ASSUME NEW n \in Nat PROVE \E f : UpTo(n, f)
  <2> DEFINE A == {k \in Nat : \E f : UpTo(k, f)}
  <2>1. 0 \in A
    <3>1. UpTo(0, [k \in Nat |-> v0])
      OBVIOUS
    <3> QED
      BY <3>1
  <2>2. ASSUME NEW k \in Nat, k \in A PROVE k + 1 \in A
    <3>1. PICK f : UpTo(k, f)
      BY <2>2
    <3> DEFINE g == [f EXCEPT ![k] = step[k][f]]
    <3>2. step[k][f] \in V
      BY <3>1 DEF Looks
    <3>3. g \in [Nat -> V] /\ g[k] = step[k][f] /\ \A j \in 0 .. k - 1 : g[j] = f[j]
      BY <3>1, <3>2
    <3> HIDE DEF g
    <3>4. \A j \in 0 .. k : step[j][g] = step[j][f]
      <4>1. \A j \in 0 .. k : j \in Nat /\ \A i \in 0 .. j - 1 : g[i] = f[i]
        BY <3>3
      <4> QED
        BY <3>1, <3>3, <4>1 DEF Looks
    <3>5. \A j \in 0 .. k : g[j] = step[j][g]
      <4>1. \A j \in 0 .. k : j = k \/ j \in 0 .. k - 1
        OBVIOUS
      <4> QED
        BY <3>1, <3>3, <3>4, <4>1
    <3>6. UpTo(k + 1, g)
      BY <3>3, <3>5
    <3> QED
      BY <3>6
  <2> HIDE DEF A
  <2>3. n \in A
    BY <2>1, <2>2, StepInduction
  <2> QED
    BY <2>3 DEF A
<1> DEFINE F(n) == CHOOSE f : UpTo(n, f)
           h == [n \in Nat |-> F(n + 1)[n]]
<1>3. \A n \in Nat : UpTo(n, F(n))
  <2> HIDE DEF UpTo
  <2> QED
    BY <1>2
<1>4. \A n \in Nat : F(n + 1) \in [Nat -> V] /\ \A k \in 0 .. n : F(n + 1)[k] = step[k][F(n + 1)]
  <2>1. \A n \in Nat : n + 1 \in Nat /\ 0 .. (n + 1) - 1 = 0 .. n
    OBVIOUS
  <2> HIDE DEF F
  <2> QED
    BY <1>3, <2>1
<1>5. \A n \in Nat : \A k \in 0 .. n : F(n + 1)[k] = F(k + 1)[k]
  <2> SUFFICES ASSUME NEW n \in Nat, NEW k \in 0 .. n PROVE F(n + 1)[k] = F(k + 1)[k]
    OBVIOUS
  <2>1. UpTo(k + 1, F(k + 1)) /\ UpTo(k + 1, F(n + 1))
    <3> HIDE DEF F
    <3> QED
      BY <1>3, <1>4
  <2>2. k + 1 \in Nat /\ k \in 0 .. (k + 1) - 1
    OBVIOUS
  <2> HIDE DEF F, UpTo
  <2> QED
    BY <1>1, <2>1, <2>2
<1> HIDE DEF F
<1>6. h \in [Nat -> V]
  BY <1>4
<1>7. ASSUME NEW n \in Nat PROVE h[n] = step[n][h]
  <2>1. \A k \in 0 .. n : F(n + 1)[k] = h[k]
    BY <1>5
  <2>2. h[n] = step[n][F(n + 1)]
    BY <1>4, <2>1
  <2>3. step[n][F(n + 1)] = step[n][h]
    <3> HIDE DEF h
    <3>1. \A k \in 0 .. n - 1 : F(n + 1)[k] = h[k]
      BY <2>1
    <3> QED
      BY <1>4, <1>6, <3>1 DEF Looks
  <2> QED
    BY <2>2, <2>3
<1> QED
  BY <1>6, <1>7

-----------------------------------------------------------------------------
(* A product of a positive number and a non-zero one is not small. *)
LEMMA SmallMultiple ==
  ASSUME NEW m \in Nat, m > 0, NEW e \in Int, m * e < m, m * e > -m
  PROVE  e = 0
<1>1. ASSUME e >= 1 PROVE m * e >= m
  BY <1>1
<1>2. ASSUME e <= -1 PROVE m * e <= -m
  BY <1>2
<1> QED
  BY <1>1, <1>2

LEMMA DivMod ==
  ASSUME NEW m \in Nat, m > 0, NEW a \in Int
  PROVE  /\ a % m \in 0 .. m - 1
         /\ a \div m \in Int
         /\ a = m * (a \div m) + (a % m)
OBVIOUS

(* Quotient and remainder are unique. *)
LEMMA ModUnique ==
  ASSUME NEW m \in Nat, m > 0, NEW a \in Int, NEW q \in Int, NEW r \in 0 .. m - 1,
         a = m * q + r
  PROVE  a % m = r
<1> DEFINE e == q - (a \div m)
<1>1. /\ a % m \in 0 .. m - 1
      /\ a \div m \in Int
      /\ a = m * (a \div m) + (a % m)
  BY DivMod
<1>2. e \in Int /\ m * e = (a % m) - r
  BY <1>1
<1>3. m * e < m /\ m * e > -m
  BY <1>1, <1>2
<1>4. e = 0
  BY <1>2, <1>3, SmallMultiple
<1> QED
  BY <1>1, <1>4

(* Go's % agrees with the mathematical one where it is used on a product,    *)
(* and is one of the two representatives otherwise.                          *)
LEMMA GoModRange ==
  ASSUME NEW m \in Nat, m > 0, NEW a \in Int
  PROVE  /\ GoMod(a, m) \in -(m - 1) .. m - 1
         /\ a >= 0 => GoMod(a, m) = a % m
         /\ \E q \in Int : a = m * q + GoMod(a, m)
<1>1. CASE a >= 0
  <2>1. GoMod(a, m) = a % m
    BY <1>1 DEF GoMod
  <2>2. /\ a % m \in 0 .. m - 1
        /\ a \div m \in Int
        /\ a = m * (a \div m) + (a % m)
    BY DivMod
  <2>3. GoMod(a, m) \in -(m - 1) .. m - 1
    BY <2>1, <2>2
  <2> QED
    BY <2>1, <2>2, <2>3
<1>2. CASE a < 0
  <2> DEFINE b == -a
  <2>1. b \in Int /\ a = -b /\ GoMod(a, m) = -(b % m)
    BY <1>2 DEF GoMod
  <2> HIDE DEF b
  <2>2. b % m \in 0 .. m - 1 /\ b \div m \in Int /\ b = m * (b \div m) + (b % m)
    BY <2>1, DivMod
  <2> DEFINE q == -(b \div m)
  <2>3. q \in Int /\ a = m * q + GoMod(a, m)
    BY <2>1, <2>2
  <2>4. GoMod(a, m) \in -(m - 1) .. m - 1
    BY <2>1, <2>2
  <2> QED
    BY <1>2, <2>3, <2>4
<1> QED
  BY <1>1, <1>2

LEMMA ModOfSmall ==
  ASSUME NEW m \in Nat, m > 0, NEW r \in 0 .. m - 1
  PROVE  r % m = r /\ GoMod(r, m) = r
<1>1. r \in Int /\ 0 \in Int /\ r = m * 0 + r /\ r >= 0
  OBVIOUS
<1>2. r % m = r
  BY <1>1, ModUnique
<1> QED
  BY <1>1, <1>2 DEF GoMod

LEMMA NatProduct == \A i, j \in Nat : i * j \in Nat
OBVIOUS

(* mulMod on operands already reduced. *)
LEMMA MulModValue ==
  ASSUME NEW m \in Nat, m > 0, NEW a \in 0 .. m - 1, NEW b \in 0 .. m - 1
  PROVE  MulMod(a, b, m) = (a * b) % m /\ MulMod(a, b, m) \in 0 .. m - 1
<1>1. GoMod(a, m) = a /\ GoMod(b, m) = b
  BY ModOfSmall
<1>2. a \in Nat /\ b \in Nat
  OBVIOUS
<1> DEFINE c == a * b
<1>3. c \in Nat
  BY <1>2, NatProduct
<1>4. MulMod(a, b, m) = GoMod(c, m)
  BY <1>1 DEF MulMod
<1> HIDE DEF c
<1>5. GoMod(c, m) = c % m /\ c % m \in 0 .. m - 1
  BY <1>3, DivMod DEF GoMod
<1> QED
  BY <1>4, <1>5 DEF c

(* Decode's difference, brought back into range. *)
LEMMA WrapSmall ==
  ASSUME NEW n \in -Half .. Half - 1
  PROVE  Wrap(n) = n
<1>1. Half \in Nat /\ 2 * Half \in Nat /\ 2 * Half > 0
  BY ObfuscatorAssumption
<1>2. n + Half \in 0 .. (2 * Half) - 1 /\ n + Half \in Int
  BY <1>1
<1>3. n + Half = (2 * Half) * 0 + (n + Half)
  BY <1>1
<1>4. (n + Half) % (2 * Half) = n + Half
  BY <1>1, <1>2, <1>3, ModUnique
<1> QED
  BY <1>1, <1>4 DEF Wrap

-----------------------------------------------------------------------------
Bezout == [g : Nat, x : Int, y : Int]

LEMMA ExtendedGCDDef ==
  ExtendedGCD = [b \in Nat |-> [a \in Nat |->
      IF b = 0 THEN [g |-> a, x |-> 1, y |-> 0]
      ELSE LET r == ExtendedGCD[a % b][b]
           IN  [g |-> r.g, x |-> r.y, y |-> r.x - (a \div b) * r.y]]]
<1> DEFINE V == [Nat -> Bezout]
           row(b, f) == [a \in Nat |->
                  IF b = 0 THEN [g |-> a, x |-> 1, y |-> 0]
                  ELSE LET r == f[a % b][b]
                       IN  [g |-> r.g, x |-> r.y, y |-> r.x - (a \div b) * r.y]]
           step == [b \in Nat |-> [f \in [Nat -> V] |-> row(b, f)]]
<1>1. ASSUME NEW b \in Nat, NEW f \in [Nat -> V] PROVE row(b, f) \in V
  <2> SUFFICES ASSUME NEW a \in Nat
               PROVE  (IF b = 0 THEN [g |-> a, x |-> 1, y |-> 0]
                       ELSE LET r == f[a % b][b]
                            IN  [g |-> r.g, x |-> r.y, y |-> r.x - (a \div b) * r.y]) \in Bezout
    OBVIOUS
  <2>1. CASE b = 0
    BY <2>1 DEF Bezout
  <2>2. CASE b # 0
    <3>1. a % b \in Nat /\ a \div b \in Int
      BY <2>2
    <3> DEFINE r == f[a % b][b]
               q == a \div b
    <3>2. r \in Bezout /\ q \in Int
      BY <3>1
    <3> HIDE DEF r, q
    <3>3. q * r.y \in Int
      BY <3>2 DEF Bezout
    <3>4. [g |-> r.g, x |-> r.y, y |-> r.x - q * r.y] \in Bezout
      BY <3>2, <3>3 DEF Bezout
    <3> QED
      BY <2>2, <3>4 DEF r, q
  <2> QED
    BY <2>1, <2>2
<1>2. ASSUME NEW b \in Nat, NEW f \in [Nat -> V], NEW g \in [Nat -> V],
             \A k \in 0 .. b - 1 : f[k] = g[k]
      PROVE  row(b, f) = row(b, g)
  <2>1. CASE b = 0
    BY <2>1
  <2>2. CASE b # 0
    <3>1. \A a \in Nat : a % b \in 0 .. b - 1
      BY <2>2
    <3>2. \A a \in Nat : f[a % b] = g[a % b]
      BY <1>2, <3>1
    <3> QED
      BY <2>2, <3>2
  <2> QED
    BY <2>1, <2>2
<1> HIDE DEF row
<1>3. Looks(V, step)
  <2>1. step \in [Nat -> [[Nat -> V] -> V]]
    BY <1>1
  <2> QED
    BY <1>2, <2>1 DEF Looks
<1>4. [a \in Nat |-> [g |-> a, x |-> 1, y |-> 0]] \in V
  BY DEF Bezout
<1> HIDE DEF step, V
<1>5. PICK f \in [Nat -> V] : \A b \in Nat : f[b] = step[b][f]
  BY <1>3, <1>4, Recursion
<1>6. f = [b \in Nat |-> row(b, f)]
  BY <1>5 DEF step
<1> QED
  BY <1>6 DEF ExtendedGCD, row

LEMMA GCDCall ==
  ASSUME NEW a \in Nat, NEW b \in Nat, b # 0
  PROVE  LET r == ExtendedGCD[a % b][b]
         IN  ExtendedGCD[b][a] = [g |-> r.g, x |-> r.y, y |-> r.x - (a \div b) * r.y]
<1> DEFINE call(f, i, j) ==
      IF j = 0 THEN [g |-> i, x |-> 1, y |-> 0]
      ELSE LET r == f[i % j][j]
           IN  [g |-> r.g, x |-> r.y, y |-> r.x - (i \div j) * r.y]
<1>1. ExtendedGCD = [j \in Nat |-> [i \in Nat |-> call(ExtendedGCD, i, j)]]
  BY ExtendedGCDDef
<1> HIDE DEF call
<1>2. ExtendedGCD[b][a] = call(ExtendedGCD, a, b)
  BY <1>1
<1> QED
  BY <1>2 DEF call

(* What extendedGCD returns: a common divisor, and how the two make it. *)
Correct(a, b, r) ==
    /\ r \in Bezout
    /\ a * r.x + b * r.y = r.g
    /\ \E c \in Nat : a = r.g * c
    /\ \E c \in Nat : b = r.g * c

LEMMA GCDCorrect == \A b, a \in Nat : Correct(a, b, ExtendedGCD[b][a])
<1> DEFINE A == {b \in Nat : \A a \in Nat : Correct(a, b, ExtendedGCD[b][a])}
<1>1. ASSUME NEW b \in Nat, \A k \in 0 .. b - 1 : k \in A PROVE b \in A
  <2> SUFFICES ASSUME NEW a \in Nat PROVE Correct(a, b, ExtendedGCD[b][a])
    OBVIOUS
  <2>1. CASE b = 0
    <3>1. ExtendedGCD[b][a] = [g |-> a, x |-> 1, y |-> 0]
      BY <2>1, ExtendedGCDDef
    <3>2. a = a * 1 /\ b = a * 0 /\ a * 1 + b * 0 = a
      BY <2>1
    <3> DEFINE e == [g |-> a, x |-> 1, y |-> 0]
    <3>3. e \in Bezout /\ e.g = a /\ e.x = 1 /\ e.y = 0
      BY DEF Bezout
    <3> HIDE DEF e
    <3> QED
      BY <3>1, <3>2, <3>3 DEF Correct, e
  <2>2. CASE b # 0
    <3> DEFINE q == a \div b
               s == a % b
               r == ExtendedGCD[s][b]
    <3>1. s \in 0 .. b - 1 /\ q \in Int /\ a = b * q + s
      BY <2>2, DivMod
    <3>2. Correct(b, s, r)
      BY <1>1, <3>1
    <3>3. ExtendedGCD[b][a] = [g |-> r.g, x |-> r.y, y |-> r.x - q * r.y]
      BY <2>2, GCDCall
    <3> HIDE DEF q, s, r
    <3>4. PICK g \in Nat, x \in Int, y \in Int : g = r.g /\ x = r.x /\ y = r.y
      BY <3>2 DEF Correct, Bezout
    <3>5. PICK c \in Nat, d \in Nat : b = g * c /\ s = g * d
      BY <3>2, <3>4 DEF Correct
    <3>6. b * x + s * y = g
      BY <3>2, <3>4 DEF Correct
    <3>7. a * y + b * (x - q * y) = g
      <4> DEFINE qy == q * y
      <4>1. qy \in Int /\ b * (x - qy) = b * x - b * qy
        BY <3>1, <3>4
      <4>2. b * qy = (b * q) * y
        BY <3>1, <3>4
      <4>3. a * y = (b * q) * y + s * y
        BY <3>1, <3>4
      <4> DEFINE u == (b * q) * y
                 v == b * x
                 w == s * y
      <4>4. u \in Int /\ v \in Int /\ w \in Int
        BY <3>1, <3>4
      <4> QED
        BY <3>6, <4>1, <4>2, <4>3, <4>4
    <3>8. q * c + d \in Int /\ a = g * (q * c + d)
      <4>1. (g * c) * q = g * (q * c)
        BY <3>1, <3>5
      <4>2. g * (q * c + d) = g * (q * c) + g * d
        BY <3>1, <3>5
      <4> QED
        BY <3>1, <3>5, <4>1, <4>2
    <3>9. \E e \in Nat : a = g * e
      <4>1. CASE g = 0
        BY <3>8, <4>1
      <4>2. CASE g # 0
        <5> DEFINE e == q * c + d
        <5>1. e \in Int /\ a = g * e
          BY <3>8
        <5> HIDE DEF e
        <5>2. ASSUME e < 0 PROVE FALSE
          <6>1. g * e < 0
            BY <4>2, <5>1, <5>2
          <6> QED
            BY <5>1, <6>1
        <5> QED
          BY <5>1, <5>2
      <4> QED
        BY <4>1, <4>2
    <3>10. x - q * y \in Int
      BY <3>1, <3>4
    <3> DEFINE e == [g |-> g, x |-> y, y |-> x - q * y]
    <3>11. ExtendedGCD[b][a] = e
      BY <3>3, <3>4
    <3>12. e \in Bezout /\ e.g = g /\ e.x = y /\ e.y = x - q * y
      BY <3>10 DEF Bezout
    <3> QED
      BY <3>5, <3>7, <3>9, <3>11, <3>12 DEF Correct
  <2> QED
    BY <2>1, <2>2
<1> HIDE DEF A
<1>2. \A b \in Nat : b \in A
  BY <1>1, Induction
<1> QED
  BY <1>2 DEF A

(* The modulus is prime, so every multiplier is coprime to it: modInverse     *)
(* does not panic, and inverts it.                                           *)
THEOREM ModInverseCorrect ==
  ASSUME NEW k \in Keys
  PROVE  /\ ExtendedGCD[IdModulus][k.mult].g = 1
         /\ ModInverse(k.mult, IdModulus) \in 0 .. IdModulus - 1
         /\ (k.mult * ModInverse(k.mult, IdModulus)) % IdModulus = 1
<1> DEFINE m == IdModulus
           a == k.mult
           r == ExtendedGCD[m][a]
           inv == ModInverse(a, m)
<1>1. /\ m \in Nat /\ m > 0 /\ m > 1 /\ a \in Nat /\ a >= 1 /\ a < m
      /\ \A d \in 2 .. m - 1 : m % d # 0
  BY ObfuscatorAssumption DEF Keys
<1> HIDE DEF m, a
<1>2. Correct(a, m, r)
  BY <1>1, GCDCorrect
<1>3. PICK g \in Nat, x \in Int, y \in Int : g = r.g /\ x = r.x /\ y = r.y
  BY <1>2 DEF Correct, Bezout
<1>4. PICK c \in Nat, d \in Nat : a = g * c /\ m = g * d
  BY <1>2, <1>3 DEF Correct
<1>5. g = 1
  <2>1. g # 0 /\ c # 0
    BY <1>1, <1>4
  <2>2. g <= a
    <3>1. g * c >= g
      BY <2>1
    <3> QED
      BY <1>4, <3>1
  <2>3. ASSUME g >= 2 PROVE FALSE
    <3>1. g \in 2 .. m - 1
      BY <1>1, <2>2, <2>3
    <3>2. 0 \in 0 .. g - 1 /\ m = g * d + 0
      BY <1>1, <1>4, <2>3
    <3>3. m % g = 0
      BY <1>1, <2>1, <3>2, ModUnique
    <3> QED
      BY <1>1, <3>1, <3>3
  <2> QED
    BY <2>1, <2>3
<1>6. a * x + m * y = 1
  BY <1>2, <1>3, <1>5 DEF Correct
<1>7. inv \in 0 .. m - 1 /\ \E q \in Int : x = m * q + inv
  <2> DEFINE z == GoMod(x, m)
  <2>1. inv = IF z < 0 THEN z + m ELSE z
    BY <1>3 DEF ModInverse
  <2>2. z \in -(m - 1) .. m - 1
    BY <1>1, GoModRange
  <2>3. PICK q \in Int : x = m * q + z
    BY <1>1, GoModRange
  <2> HIDE DEF z, inv
  <2>4. CASE z >= 0
    BY <1>1, <2>1, <2>2, <2>3, <2>4
  <2>5. CASE z < 0
    <3>1. m * (q - 1) = m * q - m /\ q - 1 \in Int
      BY <1>1
    <3> QED
      BY <1>1, <2>1, <2>2, <2>3, <2>5, <3>1
  <2> QED
    BY <2>2, <2>4, <2>5
<1>8. PICK q \in Int : x = m * q + inv
  BY <1>7
<1>9. (a * inv) % m = 1
  <2> HIDE DEF inv
  <2> DEFINE e == -(y + a * q)
             p == a * inv
  <2>1. a * x = a * (m * q) + p
    BY <1>1, <1>7, <1>8
  <2>2. e \in Int /\ p \in Int /\ m * e = -(m * y) - a * (m * q)
    <3> DEFINE aq == a * q
    <3>1. aq \in Int /\ m * (-(y + aq)) = -(m * y) - m * aq
      BY <1>1
    <3>2. m * aq = a * (m * q)
      BY <1>1
    <3> QED
      BY <1>1, <1>7, <3>1, <3>2
  <2>3. p = m * e + 1
    <3> DEFINE u == a * (m * q)
               v == m * y
               w == a * x
               o == m * e
    <3>1. u \in Int /\ v \in Int /\ w \in Int /\ o \in Int
      BY <1>1, <2>2
    <3>2. w = u + p /\ o = -v - u /\ w + v = 1
      BY <1>6, <2>1, <2>2
    <3> HIDE DEF u, v, w, o, p, e
    <3> QED
      BY <2>2, <3>1, <3>2 DEF o
  <2> HIDE DEF p, e
  <2>4. 1 \in 0 .. m - 1
    BY <1>1
  <2>5. p % m = 1
    BY <1>1, <2>2, <2>3, <2>4, ModUnique
  <2> QED
    BY <2>5 DEF p
<1> QED
  BY <1>3, <1>5, <1>7, <1>9 DEF m, a

-----------------------------------------------------------------------------
Digits == 0 .. Base - 1

LEMMA BaseDiv ==
  ASSUME NEW n \in Nat, n >= Base
  PROVE  /\ n \div Base \in 1 .. n - 1
         /\ n % Base \in Digits
         /\ n = (n \div Base) * Base + (n % Base)
<1>1. Base \in Nat /\ Base > 1
  BY ObfuscatorAssumption
<1> DEFINE q == n \div Base
           r == n % Base
<1>2. q \in Int /\ r \in Digits /\ n = Base * q + r
  BY <1>1 DEF Digits
<1> HIDE DEF q, r
<1>3. q >= 1
  <2>1. ASSUME q <= 0 PROVE FALSE
    <3>1. Base * q <= 0
      BY <1>1, <1>2, <2>1
    <3> QED
      BY <1>1, <1>2, <3>1 DEF Digits
  <2> QED
    BY <1>2, <2>1
<1>4. q < n
  <2>1. Base * q >= 2 * q
    BY <1>1, <1>2, <1>3
  <2> QED
    BY <1>1, <1>2, <1>3, <2>1 DEF Digits
<1>5. Base * q = q * Base
  BY <1>1, <1>2
<1> QED
  BY <1>2, <1>3, <1>4, <1>5 DEF q, r

(* The recursive equation of base62Encode has a solution. *)
LEMMA Base62Def ==
  Base62 = [n \in Nat |-> IF n < Base THEN <<n>> ELSE Append(Base62[n \div Base], n % Base)]
<1> DEFINE V == Seq(Nat)
           step == [n \in Nat |-> [f \in [Nat -> V] |->
                      IF n < Base THEN <<n>> ELSE Append(f[n \div Base], n % Base)]]
<1>0. Base \in Nat
  BY ObfuscatorAssumption
<1>1. \A n \in Nat : n >= Base => n \div Base \in 0 .. n - 1 /\ n % Base \in Nat /\ n \div Base \in Nat
  BY BaseDiv DEF Digits
<1>2. \A n \in Nat, f \in [Nat -> V] :
         (IF n < Base THEN <<n>> ELSE Append(f[n \div Base], n % Base)) \in V
  <2> SUFFICES ASSUME NEW n \in Nat, NEW f \in [Nat -> V]
               PROVE  (IF n < Base THEN <<n>> ELSE Append(f[n \div Base], n % Base)) \in V
    OBVIOUS
  <2>1. CASE n < Base
    BY <2>1
  <2>2. CASE n >= Base
    BY <1>1, <2>2
  <2> QED
    BY <1>0, <2>1, <2>2
<1>3. Looks(V, step)
  <2>1. step \in [Nat -> [[Nat -> V] -> V]]
    BY <1>2
  <2>2. ASSUME NEW n \in Nat, NEW f \in [Nat -> V], NEW g \in [Nat -> V],
               \A k \in 0 .. n - 1 : f[k] = g[k]
        PROVE  step[n][f] = step[n][g]
    <3>1. n >= Base => f[n \div Base] = g[n \div Base]
      BY <1>1, <2>2
    <3>2. n < Base \/ n >= Base
      BY <1>0
    <3> QED
      BY <3>1, <3>2
  <2> QED
    BY <2>1, <2>2 DEF Looks
<1>4. << >> \in V
  OBVIOUS
<1> HIDE DEF step, V
<1>5. PICK f \in [Nat -> V] : \A n \in Nat : f[n] = step[n][f]
  BY <1>3, <1>4, Recursion
<1>6. f = [n \in Nat |-> IF n < Base THEN <<n>> ELSE Append(f[n \div Base], n % Base)]
  BY <1>5 DEF step
<1> QED
  BY <1>6 DEF Base62

LEMMA WrapInt == \A n \in Int : Wrap(n) \in Int
<1> SUFFICES ASSUME NEW n \in Int PROVE Wrap(n) \in Int
  OBVIOUS
<1>1. Half \in Nat /\ 2 * Half \in Nat /\ 2 * Half > 0 /\ n + Half \in Int
  <2>1. IdModulus * IdModulus >= 1
    BY ObfuscatorAssumption
  <2>2. IdModulus * IdModulus \in Nat
    BY ObfuscatorAssumption
  <2> QED
    BY <2>1, <2>2, ObfuscatorAssumption
<1>2. (n + Half) % (2 * Half) \in Int
  BY <1>1, DivMod
<1> QED
  BY <1>1, <1>2 DEF Wrap

LEMMA ScannedDef ==
  ASSUME NEW d \in Seq(Nat)
  PROVE  /\ Scanned(d) \in [0 .. Len(d) -> Int]
         /\ Scanned(d)[0] = 0
         /\ \A i \in 1 .. Len(d) : Scanned(d)[i] = Wrap(Scanned(d)[i - 1] * Base + d[i])
<1> DEFINE l == Len(d)
           next(f, i) == Wrap(f[i - 1] * Base + d[i])
           step == [i \in Nat |-> [f \in [Nat -> Int] |->
                      IF i \in 1 .. l THEN next(f, i) ELSE 0]]
<1>1. l \in Nat /\ Base \in Nat /\ \A i \in 1 .. l : d[i] \in Nat
  BY ObfuscatorAssumption
<1> HIDE DEF l
<1>2. ASSUME NEW f, NEW i \in 1 .. l, f[i - 1] \in Int PROVE next(f, i) \in Int
  <2>1. f[i - 1] * Base + d[i] \in Int
    BY <1>1, <1>2
  <2> QED
    BY <2>1, WrapInt
<1>3. \A f, g, i : f[i - 1] = g[i - 1] => next(f, i) = next(g, i)
  OBVIOUS
<1> HIDE DEF next
<1>4. Looks(Int, step)
  <2>1. \A i \in 1 .. l : i - 1 \in Nat /\ i - 1 \in 0 .. i - 1
    OBVIOUS
  <2>2. \A i \in 1 .. l, f \in [Nat -> Int] : next(f, i) \in Int
    BY <1>2, <2>1
  <2>3. step \in [Nat -> [[Nat -> Int] -> Int]]
    BY <2>2
  <2>4. ASSUME NEW i \in Nat, NEW f \in [Nat -> Int], NEW g \in [Nat -> Int],
               \A k \in 0 .. i - 1 : f[k] = g[k]
        PROVE  step[i][f] = step[i][g]
    <3>1. i \in 1 .. l => next(f, i) = next(g, i)
      BY <1>3, <2>1, <2>4
    <3> QED
      BY <3>1
  <2> QED
    BY <2>3, <2>4 DEF Looks
<1> HIDE DEF step
<1>5. PICK f \in [Nat -> Int] : \A i \in Nat : f[i] = step[i][f]
  <2> DEFINE V == Int
             v0 == 0
  <2>1. v0 \in V /\ Looks(V, step)
    BY <1>4
  <2> HIDE DEF V, v0
  <2>2. \E f \in [Nat -> V] : \A i \in Nat : f[i] = step[i][f]
    BY <2>1, Recursion
  <2> QED
    BY <2>2 DEF V
<1> DEFINE g == [i \in 0 .. l |-> f[i]]
<1>6. g = [i \in 0 .. l |-> IF i = 0 THEN 0 ELSE next(g, i)]
  <2>1. \A i \in 0 .. l : i \in Nat /\ f[i] = IF i \in 1 .. l THEN next(f, i) ELSE 0
    BY <1>5 DEF step
  <2>2. \A i \in 1 .. l : g[i - 1] = f[i - 1]
    BY <1>1
  <2> HIDE DEF g
  <2>3. \A i \in 1 .. l : next(g, i) = next(f, i)
    BY <1>3, <2>2
  <2>4. \A i \in 0 .. l : i = 0 \/ i \in 1 .. l
    BY <1>1
  <2>5. \A i \in 0 .. l : f[i] = IF i = 0 THEN 0 ELSE next(g, i)
    BY <2>1, <2>3, <2>4
  <2> QED
    BY <2>5 DEF g
<1> DEFINE v == Scanned(d)
<1>7. v = [i \in 0 .. l |-> IF i = 0 THEN 0 ELSE next(v, i)]
  <2> HIDE DEF g
  <2>1. v = CHOOSE n : n = [i \in 0 .. l |-> IF i = 0 THEN 0 ELSE next(n, i)]
    BY DEF Scanned, next, l
  <2> QED
    BY <1>6, <2>1
<1> HIDE DEF v
<1>8. v[0] = 0 /\ \A i \in 1 .. l : v[i] = next(v, i)
  <2>1. \A i \in 1 .. l : i \in 0 .. l /\ i # 0
    BY <1>1
  <2>2. PICK h : h = [i \in 0 .. l |-> IF i = 0 THEN 0 ELSE next(v, i)]
    OBVIOUS
  <2>3. h[0] = 0 /\ \A i \in 1 .. l : h[i] = next(v, i)
    BY <1>1, <2>1, <2>2
  <2> QED
    BY <1>7, <2>2, <2>3
<1>9. \A i \in 0 .. l : v[i] \in Int
  <2> DEFINE A == {i \in Nat : i <= l => v[i] \in Int}
  <2>1. 0 \in A
    BY <1>8
  <2>2. ASSUME NEW i \in Nat, i \in A PROVE i + 1 \in A
    <3>1. CASE i + 1 <= l
      <4>1. i + 1 \in 1 .. l /\ (i + 1) - 1 = i /\ v[i] \in Int
        BY <1>1, <2>2, <3>1
      <4>2. next(v, i + 1) \in Int
        BY <1>2, <4>1
      <4> QED
        BY <1>8, <4>1, <4>2
    <3> QED
      BY <1>1, <3>1
  <2> HIDE DEF A
  <2>3. \A i \in Nat : i \in A
    BY <2>1, <2>2, StepInduction
  <2> QED
    BY <1>1, <2>3 DEF A
<1>10. v \in [0 .. l -> Int]
  BY <1>7, <1>9
<1> QED
  BY <1>8, <1>10 DEF v, l, next

LEMMA Base62Call ==
  ASSUME NEW n \in Nat
  PROVE  /\ n < Base => Base62[n] = <<n>>
         /\ n >= Base => Base62[n] = Append(Base62[n \div Base], n % Base)
<1> DEFINE call(f, i) == IF i < Base THEN <<i>> ELSE Append(f[i \div Base], i % Base)
<1>1. Base62 = [i \in Nat |-> call(Base62, i)]
  BY Base62Def
<1> HIDE DEF call
<1>2. Base62[n] = call(Base62, n)
  BY <1>1
<1>3. Base \in Nat
  BY ObfuscatorAssumption
<1> QED
  BY <1>2, <1>3 DEF call

LEMMA Base62Digits == \A n \in Nat : Base62[n] \in Seq(Digits) /\ Base62[n] # << >>
<1> DEFINE A == {n \in Nat : Base62[n] \in Seq(Digits) /\ Base62[n] # << >>}
<1>0. Base \in Nat
  BY ObfuscatorAssumption
<1>1. ASSUME NEW n \in Nat, \A k \in 0 .. n - 1 : k \in A PROVE n \in A
  <2>1. CASE n < Base
    <3>1. Base62[n] = <<n>> /\ n \in Digits
      BY <1>0, <2>1, Base62Call DEF Digits
    <3> HIDE DEF Digits
    <3>2. <<n>> \in Seq(Digits) /\ <<n>> # << >>
      BY <3>1
    <3> QED
      BY <3>1, <3>2
  <2>2. CASE n >= Base
    <3>1. n \div Base \in 0 .. n - 1 /\ n % Base \in Digits
      BY <2>2, BaseDiv
    <3>2. Base62[n \div Base] \in Seq(Digits)
      BY <1>1, <3>1
    <3>3. Base62[n] = Append(Base62[n \div Base], n % Base)
      BY <2>2, Base62Call
    <3> HIDE DEF Digits
    <3>4. /\ Append(Base62[n \div Base], n % Base) \in Seq(Digits)
          /\ Len(Append(Base62[n \div Base], n % Base)) = Len(Base62[n \div Base]) + 1
          /\ Len(Base62[n \div Base]) \in Nat
      BY <3>1, <3>2
    <3>5. Base62[n] # << >>
      <4>1. Len(Base62[n]) # 0 /\ Len(<< >>) = 0
        BY <3>3, <3>4
      <4> QED
        BY <4>1
    <3> QED
      BY <3>3, <3>4, <3>5
  <2> QED
    BY <1>0, <2>1, <2>2
<1> HIDE DEF A
<1>2. \A n \in Nat : n \in A
  BY <1>1, Induction
<1> QED
  BY <1>2 DEF A

LEMMA DigitsSeq ==
  ASSUME NEW d \in Seq(Digits)
  PROVE  /\ d \in Seq(Nat) /\ Len(d) \in Nat /\ DOMAIN d = 1 .. Len(d)
         /\ \A i \in 1 .. Len(d) : d[i] \in Nat /\ d[i] >= 0 /\ d[i] + 1 <= Base
BY ObfuscatorAssumption DEF Digits

(* A digit after a number not too long: the sum does not wrap. *)
LEMMA ScanStep ==
  ASSUME NEW d \in Seq(Nat), NEW i \in 1 .. Len(d), Scanned(d)[i - 1] \in Nat,
         Scanned(d)[i - 1] * Base + d[i] < Half
  PROVE  /\ Scanned(d)[i] = Scanned(d)[i - 1] * Base + d[i]
         /\ Scanned(d)[i] \in Nat
<1> DEFINE n == Scanned(d)[i - 1] * Base + d[i]
<1>1. d[i] \in Nat /\ Base \in Nat /\ Half \in Nat
  BY ObfuscatorAssumption
<1>2. n \in Nat
  <2> DEFINE p == Scanned(d)[i - 1] * Base
  <2>1. p \in Nat
    BY <1>1, NatProduct
  <2> HIDE DEF p
  <2>2. p + d[i] \in Nat
    BY <1>1, <2>1
  <2> QED
    BY <2>2 DEF p
<1>3. Wrap(n) = n
  <2>1. n < Half
    OBVIOUS
  <2> HIDE DEF n
  <2>2. n \in -Half .. Half - 1
    BY <1>1, <1>2, <2>1
  <2> QED
    BY <2>2, WrapSmall
<1>4. Scanned(d)[i] = Wrap(n)
  BY ScannedDef
<1> QED
  BY <1>2, <1>3, <1>4

(* What has been scanned depends on the digits scanned. *)
LEMMA ScannedPrefix ==
  ASSUME NEW d \in Seq(Nat), NEW e \in Seq(Nat), Len(d) <= Len(e),
         \A i \in 1 .. Len(d) : d[i] = e[i]
  PROVE  \A i \in 0 .. Len(d) : Scanned(d)[i] = Scanned(e)[i]
<1> DEFINE v == Scanned(d)
           w == Scanned(e)
           l == Len(d)
           A == {i \in Nat : i <= l => v[i] = w[i]}
<1>1. l \in Nat /\ Len(e) \in Nat
  OBVIOUS
<1>2. /\ v[0] = 0 /\ \A i \in 1 .. l : v[i] = Wrap(v[i - 1] * Base + d[i])
      /\ w[0] = 0 /\ \A i \in 1 .. l : w[i] = Wrap(w[i - 1] * Base + e[i])
  <2>1. \A i \in 1 .. l : i \in 1 .. Len(e)
    BY <1>1
  <2> QED
    BY <2>1, ScannedDef
<1>3. \A i \in 1 .. l : d[i] = e[i]
  OBVIOUS
<1> HIDE DEF v, w, l
<1>4. 0 \in A
  BY <1>2
<1>5. ASSUME NEW i \in Nat, i \in A PROVE i + 1 \in A
  <2>1. CASE i + 1 <= l
    <3>1. i + 1 \in 1 .. l /\ (i + 1) - 1 = i /\ v[i] = w[i]
      BY <1>1, <1>5, <2>1
    <3>2. v[i + 1] = w[i + 1]
      BY <1>2, <1>3, <3>1
    <3> QED
      BY <3>2
  <2> QED
    BY <1>1, <2>1
<1> HIDE DEF A
<1>6. \A i \in Nat : i \in A
  BY <1>4, <1>5, StepInduction
<1> QED
  BY <1>1, <1>6 DEF A, v, w, l

(* Numbers below the modulus are far from the end of the word. *)
LEMMA FarFromHalf ==
  /\ \A q \in 0 .. IdModulus - 1, r \in Digits : q * Base + r < Half
  /\ Base * (IdModulus - 1) < Half
<1> DEFINE m == IdModulus
           b == Base
<1>1. m \in Nat /\ m > 1 /\ b \in Nat /\ b > 1 /\ b <= m /\ Half \in Nat /\ m * m <= Half
  BY ObfuscatorAssumption
<1> HIDE DEF m, b
<1>2. m * b <= m * m
  BY <1>1
<1>3. ASSUME NEW q \in 0 .. m - 1, NEW r \in 0 .. b - 1 PROVE q * b + r < Half
  <2>1. q * b <= (m - 1) * b
    BY <1>1
  <2>2. (m - 1) * b = m * b - b
    BY <1>1
  <2> DEFINE s == q * b
             t == m * b
             u == m * m
  <2>3. s \in Int /\ t \in Int /\ u \in Int
    BY <1>1
  <2> QED
    BY <1>1, <1>2, <2>1, <2>2, <2>3
<1>4. b * (m - 1) = m * b - b
  BY <1>1
<1>5. b * (m - 1) < Half
  BY <1>1, <1>2, <1>4
<1> QED
  BY <1>3, <1>5 DEF Digits, m, b

(* base62Decode reads back what base62Encode wrote of a number below the     *)
(* modulus; on the way it has the quotients.                                 *)
ReadBack(n) ==
    LET d == Base62[n]
        v == Scanned(d)
    IN  /\ v[Len(d)] = n
        /\ \A i \in 0 .. Len(d) : v[i] \in 0 .. n
        /\ n > 0 => \A i \in 1 .. Len(d) : v[i] >= 1
        /\ \A i \in 1 .. Len(d) : v[i] = v[i - 1] * Base + d[i]

LEMMA ReadBackHolds == \A n \in 0 .. IdModulus - 1 : ReadBack(n)
<1> DEFINE m == IdModulus
           A == {n \in Nat : n < m => ReadBack(n)}
<1>0. Base \in Nat /\ m \in Nat
  BY ObfuscatorAssumption
<1>1. ASSUME NEW n \in Nat, \A k \in 0 .. n - 1 : k \in A PROVE n \in A
  <2> SUFFICES ASSUME n < m PROVE ReadBack(n)
    OBVIOUS
  <2> DEFINE d == Base62[n]
             v == Scanned(d)
             l == Len(d)
  <2>1. d \in Seq(Digits) /\ d \in Seq(Nat) /\ l \in Nat
    BY Base62Digits, DigitsSeq
  <2>2. CASE n < Base
    <3>1. d = <<n>> /\ l = 1 /\ d[1] = n /\ n \in Digits
      <4>1. d = <<n>>
        BY <2>2, Base62Call
      <4> HIDE DEF d
      <4>2. n \in Digits
        BY <1>0, <2>2 DEF Digits
      <4> QED
        BY <4>1, <4>2
    <3> HIDE DEF d, m
    <3>2. v[0] = 0 /\ v[0] * Base = 0
      BY <1>0, <2>1, ScannedDef
    <3>3. 0 * Base + n < Half
      <4>1. 0 \in 0 .. m - 1
        BY <1>0, <1>1
      <4> QED
        BY <3>1, <4>1, FarFromHalf DEF m
    <3>4. v[1] = n
      <4>1. 1 \in 1 .. Len(d) /\ v[1 - 1] = 0 /\ v[1 - 1] * Base + d[1] < Half
        BY <1>0, <3>1, <3>2, <3>3
      <4>2. v[1] = v[1 - 1] * Base + d[1]
        BY <2>1, <4>1, ScanStep
      <4> QED
        BY <1>0, <3>1, <4>1, <4>2
    <3>5. \A i \in 0 .. l : i = 0 \/ i = 1
      BY <3>1
    <3>6. \A i \in 1 .. l : v[i] = v[i - 1] * Base + d[i]
      <4>1. v[1] = v[1 - 1] * Base + d[1]
        BY <1>0, <3>1, <3>2, <3>4
      <4>2. \A i \in 1 .. l : i = 1
        BY <3>1
      <4> QED
        BY <4>1, <4>2
    <3> QED
      BY <3>1, <3>2, <3>4, <3>5, <3>6 DEF ReadBack, d
  <2>3. CASE n >= Base
    <3> DEFINE q == n \div Base
               r == n % Base
               e == Base62[q]
               w == Scanned(e)
    <3>1. q \in 1 .. n - 1 /\ r \in Digits /\ n = q * Base + r
      BY <2>3, BaseDiv
    <3>2. d = Append(e, r)
      BY <2>3, Base62Call
    <3> HIDE DEF q, r
    <3>3. ReadBack(q) /\ q < m /\ q \in 0 .. m - 1
      BY <1>0, <1>1, <3>1
    <3>4. e \in Seq(Digits) /\ e \in Seq(Nat) /\ Len(e) \in Nat
      BY <3>1, Base62Digits, DigitsSeq
    <3> HIDE DEF d, e, m
    <3>5. l = Len(e) + 1 /\ d[l] = r /\ \A i \in 1 .. Len(e) : d[i] = e[i]
      BY <3>1, <3>2, <3>4
    <3>6. \A i \in 0 .. Len(e) : w[i] = v[i]
      BY <2>1, <3>4, <3>5, ScannedPrefix
    <3>7. /\ w[Len(e)] = q
          /\ \A i \in 0 .. Len(e) : w[i] \in 0 .. q
          /\ \A i \in 1 .. Len(e) : w[i] >= 1
          /\ \A i \in 1 .. Len(e) : w[i] = w[i - 1] * Base + e[i]
      BY <3>1, <3>3 DEF ReadBack, e
    <3>8. v[l - 1] = q /\ l \in 1 .. l /\ l - 1 = Len(e)
      BY <3>4, <3>5, <3>6, <3>7
    <3>9. v[l] = q * Base + r
      <4>1. q * Base + r < Half
        BY <3>1, <3>3, FarFromHalf DEF m
      <4>2. v[l - 1] \in Nat /\ v[l - 1] * Base + d[l] < Half
        BY <3>1, <3>5, <3>8, <4>1
      <4>3. v[l] = v[l - 1] * Base + d[l]
        BY <2>1, <3>8, <4>2, ScanStep
      <4> QED
        BY <3>5, <3>8, <4>3
    <3>10. \A i \in 0 .. l : i = l \/ i \in 0 .. Len(e)
      BY <3>4, <3>5
    <3>11. \A i \in 1 .. l : i = l \/ i \in 1 .. Len(e)
      BY <3>4, <3>5
    <3>12. v[l] = n /\ n \in 0 .. n /\ n >= 1
      BY <3>1, <3>9
    <3>13. \A i \in 0 .. l : v[i] \in 0 .. n
      <4>1. \A i \in 0 .. Len(e) : v[i] \in 0 .. n
        BY <3>1, <3>6, <3>7
      <4> QED
        BY <3>10, <3>12, <4>1
    <3>14. \A i \in 1 .. l : v[i] >= 1
      <4>1. \A i \in 1 .. Len(e) : v[i] >= 1
        <5> SUFFICES ASSUME NEW i \in 1 .. Len(e) PROVE v[i] >= 1
          OBVIOUS
        <5>1. i \in 0 .. Len(e)
          BY <3>4
        <5> QED
          BY <3>6, <3>7, <5>1
      <4> QED
        BY <3>11, <3>12, <4>1
    <3>15. \A i \in 1 .. l : v[i] = v[i - 1] * Base + d[i]
      <4>1. ASSUME NEW i \in 1 .. Len(e) PROVE v[i] = v[i - 1] * Base + d[i]
        <5>1. i - 1 \in 0 .. Len(e) /\ i \in 0 .. Len(e)
          BY <3>4
        <5> QED
          BY <3>5, <3>6, <3>7, <5>1
      <4>2. v[l] = v[l - 1] * Base + d[l]
        BY <3>5, <3>8, <3>9
      <4> QED
        BY <3>11, <4>1, <4>2
    <3> QED
      BY <3>12, <3>13, <3>14, <3>15 DEF ReadBack, d
  <2> QED
    BY <1>0, <2>2, <2>3
<1> HIDE DEF A
<1>2. \A n \in Nat : n \in A
  BY <1>1, Induction
<1> QED
  BY <1>0, <1>2 DEF A

(* A number of no more digits than the largest below the modulus does not    *)
(* reach the end of the word: it is less than Base times that largest, digit *)
(* by digit.                                                                 *)
Bounded(d, i) ==
    LET e == Base62[IdModulus - 1]
    IN  /\ Scanned(d)[i] \in Nat
        /\ Scanned(d)[i] + 1 <= Base * Scanned(e)[i + (Len(e) - Len(d))]

LEMMA ScanBounded ==
  ASSUME NEW d \in Seq(Digits), Len(d) <= Len(Base62[IdModulus - 1])
  PROVE  \A i \in 1 .. Len(d) :
            /\ Bounded(d, i)
            /\ Scanned(d)[i] = Scanned(d)[i - 1] * Base + d[i]
<1> DEFINE m == IdModulus
           e == Base62[m - 1]
           v == Scanned(d)
           w == Scanned(e)
           l == Len(d)
           o == Len(e) - Len(d)
           A == {i \in Nat : i + 1 <= l => /\ Bounded(d, i + 1)
                                           /\ v[i + 1] = v[i] * Base + d[i + 1]}
<1>1. /\ m \in Nat /\ m > 1 /\ Base \in Nat /\ Base > 1 /\ Half \in Nat
      /\ Base * (m - 1) < Half
  BY ObfuscatorAssumption, FarFromHalf
<1>2. /\ d \in Seq(Nat) /\ l \in Nat
      /\ \A i \in 1 .. l : d[i] \in Nat /\ d[i] + 1 <= Base
  BY DigitsSeq
<1>3. e \in Seq(Digits) /\ e \in Seq(Nat) /\ Len(e) \in Nat
      /\ \A i \in 1 .. Len(e) : e[i] \in Nat
  <2>1. m - 1 \in Nat
    BY <1>1
  <2>2. e \in Seq(Digits)
    BY <2>1, Base62Digits
  <2> QED
    BY <2>2, DigitsSeq
<1>4. /\ \A i \in 1 .. Len(e) : w[i] >= 1 /\ w[i] = w[i - 1] * Base + e[i]
      /\ \A i \in 0 .. Len(e) : w[i] \in 0 .. m - 1
  <2>1. m - 1 \in 0 .. m - 1 /\ m - 1 > 0
    BY <1>1
  <2>2. ReadBack(m - 1)
    BY <2>1, ReadBackHolds
  <2> QED
    BY <2>1, <2>2 DEF ReadBack
<1>5. o \in Nat
  BY <1>2, <1>3
<1>6. v[0] = 0
  BY <1>2, ScannedDef
<1> HIDE DEF m, e, v, w, l, o
<1>7. ASSUME NEW i \in 1 .. l, v[i - 1] \in Nat, v[i - 1] * Base + d[i] + 1 <= Base * w[i + o]
      PROVE  Bounded(d, i) /\ v[i] = v[i - 1] * Base + d[i]
  <2>1. i + o \in 0 .. Len(e) /\ i + o \in Nat
    BY <1>2, <1>3, <1>5 DEF l, o
  <2>2. w[i + o] \in 0 .. m - 1
    BY <1>4, <2>1
  <2>3. Base * w[i + o] <= Base * (m - 1)
    BY <1>1, <2>2
  <2> DEFINE s == v[i - 1] * Base + d[i]
  <2>4. s \in Nat
    <3>1. v[i - 1] * Base \in Nat
      BY <1>1, <1>7, NatProduct
    <3> QED
      BY <1>2, <3>1
  <2>5. s < Half
    <3> DEFINE t == Base * w[i + o]
               u == Base * (m - 1)
    <3>1. t \in Int /\ u \in Int
      BY <1>1, <2>2
    <3>2. s + 1 <= t /\ t <= u /\ u < Half
      BY <1>1, <1>7, <2>3
    <3> HIDE DEF s, t, u
    <3> QED
      BY <1>1, <2>4, <3>1, <3>2
  <2>6. v[i] = s /\ v[i] \in Nat
    BY <1>2, <1>7, <2>5, ScanStep DEF v, l
  <2>7. Bounded(d, i)
    BY <1>7, <2>6 DEF Bounded, v, w, e, o, m
  <2> QED
    BY <2>6, <2>7
<1>8. 0 \in A
  <2> SUFFICES ASSUME 0 + 1 <= l
               PROVE  Bounded(d, 0 + 1) /\ v[0 + 1] = v[0] * Base + d[0 + 1]
    OBVIOUS
  <2>1. 1 \in 1 .. l /\ 1 + o \in 1 .. Len(e)
    BY <1>2, <1>3, <1>5 DEF l, o
  <2>2. w[1 + o] \in Nat /\ w[1 + o] >= 1
    <3>1. 1 + o \in 0 .. Len(e)
      BY <1>3, <2>1
    <3> QED
      BY <1>1, <1>4, <2>1, <3>1
  <2>3. Base <= Base * w[1 + o]
    BY <1>1, <2>2
  <2>4. v[1 - 1] \in Nat /\ v[1 - 1] * Base + d[1] + 1 <= Base * w[1 + o]
    <3>1. v[1 - 1] = 0 /\ 0 * Base = 0
      BY <1>1, <1>6
    <3>2. d[1] \in Nat /\ d[1] + 1 <= Base
      BY <1>2, <2>1
    <3> DEFINE t == Base * w[1 + o]
    <3>3. t \in Nat
      BY <1>1, <2>2
    <3> HIDE DEF t
    <3>4. d[1] + 1 <= t
      BY <1>1, <2>3, <3>2, <3>3 DEF t
    <3> QED
      BY <1>1, <3>1, <3>2, <3>4 DEF t
  <2> QED
    BY <1>7, <2>1, <2>4
<1>9. ASSUME NEW i \in Nat, i \in A PROVE i + 1 \in A
  <2> SUFFICES ASSUME (i + 1) + 1 <= l
               PROVE  Bounded(d, (i + 1) + 1) /\ v[(i + 1) + 1] = v[i + 1] * Base + d[(i + 1) + 1]
    OBVIOUS
  <2> DEFINE j == i + 1
  <2>1. /\ j \in Nat /\ j \in 1 .. l /\ j + 1 \in 1 .. l /\ (j + 1) - 1 = j
        /\ (j + 1) + o \in 1 .. Len(e) /\ j + o \in 1 .. Len(e)
        /\ ((j + 1) + o) - 1 = j + o
    BY <1>2, <1>3, <1>5 DEF l, o
  <2>2. Bounded(d, j)
    BY <1>9, <2>1
  <2> HIDE DEF j, A
  <2>3. v[j] \in Nat /\ v[j] + 1 <= Base * w[j + o]
    BY <2>2 DEF Bounded, v, w, e, o, m
  <2>4. d[j + 1] \in Nat /\ d[j + 1] + 1 <= Base
    BY <1>2, <2>1
  <2>5. w[j + o] \in Nat /\ w[(j + 1) + o] \in Nat /\ e[(j + 1) + o] \in Nat
    <3>1. j + o \in 0 .. Len(e) /\ (j + 1) + o \in 0 .. Len(e)
      BY <1>3, <2>1
    <3>2. w[j + o] \in 0 .. m - 1
      BY <1>4, <3>1
    <3>3. w[(j + 1) + o] \in 0 .. m - 1
      BY <1>4, <3>1
    <3>4. e[(j + 1) + o] \in Nat
      BY <1>3, <2>1
    <3> QED
      BY <1>1, <3>2, <3>3, <3>4
  <2>6. w[(j + 1) + o] = w[j + o] * Base + e[(j + 1) + o]
    BY <1>4, <2>1
  <2>7. v[j] * Base + d[j + 1] + 1 <= Base * w[(j + 1) + o]
    <3> DEFINE a == v[j]
               b == Base
               x == w[j + o]
               y == w[(j + 1) + o]
               c == d[j + 1]
               f == e[(j + 1) + o]
    <3>1. /\ a \in Nat /\ b \in Nat /\ x \in Nat /\ y \in Nat /\ c \in Nat /\ f \in Nat
          /\ a + 1 <= b * x /\ c + 1 <= b /\ y = x * b + f
      BY <1>1, <2>3, <2>4, <2>5, <2>6
    <3> HIDE DEF a, b, x, y, c, f
    <3>2. (a + 1) * b <= (b * x) * b
      <4>1. b * x \in Nat
        BY <3>1
      <4> QED
        BY <3>1, <4>1
    <3>3. (a + 1) * b = a * b + b
      BY <3>1
    <3>4. b * y = (b * x) * b + b * f
      BY <3>1
    <3>5. b * f \in Nat /\ a * b \in Nat /\ (b * x) * b \in Nat /\ b * y \in Nat
      BY <3>1
    <3> DEFINE p == a * b
               q == (b * x) * b
               r == b * f
               s == b * y
    <3>6. /\ p \in Nat /\ q \in Nat /\ r \in Nat /\ s \in Nat
          /\ p + b <= q /\ s = q + r
      BY <3>2, <3>3, <3>4, <3>5
    <3> HIDE DEF p, q, r, s
    <3>7. p + c + 1 <= s
      BY <3>1, <3>6
    <3> QED
      BY <3>7 DEF p, s, a, b, c, y
  <2>8. Bounded(d, j + 1) /\ v[j + 1] = v[(j + 1) - 1] * Base + d[j + 1]
    BY <1>7, <2>1, <2>3, <2>7
  <2> QED
    BY <2>1, <2>8 DEF j
<1> HIDE DEF A
<1>10. \A i \in Nat : i \in A
  BY <1>8, <1>9, StepInduction
<1>11. ASSUME NEW i \in 1 .. l PROVE Bounded(d, i) /\ v[i] = v[i - 1] * Base + d[i]
  <2>1. i - 1 \in Nat /\ (i - 1) + 1 = i /\ i <= l
    BY <1>2
  <2>2. i - 1 \in A
    BY <1>10, <2>1
  <2> QED
    BY <2>1, <2>2 DEF A
<1> QED
  BY <1>11 DEF v, l

(* One more digit after a number that is not zero. *)
LEMMA Base62Append ==
  ASSUME NEW q \in Nat, q >= 1, NEW r \in Digits
  PROVE  Base62[q * Base + r] = Append(Base62[q], r)
<1> DEFINE n == q * Base + r
<1>1. Base \in Nat /\ Base > 1 /\ r \in 0 .. Base - 1 /\ r \in Nat
  BY ObfuscatorAssumption DEF Digits
<1>2. q * Base \in Nat /\ q * Base >= Base /\ q * Base = Base * q
  BY <1>1
<1>3. n \in Nat /\ n >= Base /\ n = Base * q + r
  BY <1>1, <1>2
<1> HIDE DEF n
<1>4. n % Base = r
  BY <1>1, <1>3, ModUnique
<1>5. n \div Base = q
  <2> DEFINE e == q - (n \div Base)
  <2>1. n \div Base \in Int /\ n = Base * (n \div Base) + r
    BY <1>1, <1>3, <1>4, DivMod
  <2>2. e \in Int /\ Base * e = Base * q - Base * (n \div Base)
    BY <1>1, <2>1
  <2>3. Base * e = 0
    <3> DEFINE a == Base * q
               b == Base * (n \div Base)
    <3>1. a \in Int /\ b \in Int
      BY <1>1, <2>1
    <3> HIDE DEF e
    <3> QED
      BY <1>1, <1>3, <2>1, <2>2, <3>1
  <2> HIDE DEF e
  <2>4. e = 0
    <3>1. Base * e < Base /\ Base * e > -Base
      BY <1>1, <2>3
    <3> QED
      BY <1>1, <2>2, <3>1, SmallMultiple
  <2> QED
    BY <2>1, <2>4 DEF e
<1> QED
  BY <1>3, <1>4, <1>5, Base62Call DEF n

(* Digits without a leading zero, no more than the largest number below the  *)
(* modulus has, are those base62Encode writes of the number they denote.     *)
LEMMA EncodedAgain ==
  ASSUME NEW d \in Seq(Digits), d # << >>, Len(d) > 1 => d[1] # 0,
         Len(d) <= Len(Base62[IdModulus - 1])
  PROVE  Base62[Base62Value(d)] = d
<1> DEFINE v == Scanned(d)
           l == Len(d)
           Prefix(i) == [j \in 1 .. i |-> d[j]]
           A == {i \in Nat : i + 1 <= l => /\ l > 1 => v[i + 1] >= 1
                                           /\ Base62[v[i + 1]] = Prefix(i + 1)}
<1>1. /\ d \in Seq(Nat) /\ l \in Nat /\ l >= 1 /\ DOMAIN d = 1 .. l
      /\ \A i \in 1 .. l : d[i] \in Digits /\ d[i] \in Nat /\ d[i] + 1 <= Base
  BY DigitsSeq
<1>2. \A i \in 1 .. l : v[i] \in Nat /\ v[i] = v[i - 1] * Base + d[i]
  BY ScanBounded DEF Bounded
<1>3. v[0] = 0 /\ Base \in Nat /\ Base > 1
  BY <1>1, ScannedDef, ObfuscatorAssumption
<1>4. l > 1 => d[1] # 0
  OBVIOUS
<1> HIDE DEF v, l
<1>5. 0 \in A
  <2>1. 1 \in 1 .. l /\ v[1 - 1] = 0 /\ 0 * Base = 0
    BY <1>1, <1>3
  <2>2. v[1] = d[1]
    BY <1>1, <1>2, <2>1
  <2>3. Base62[d[1]] = <<d[1]>>
    <3>1. d[1] \in Nat /\ d[1] < Base
      BY <1>1, <1>3, <2>1
    <3> QED
      BY <3>1, Base62Call
  <2>4. Prefix(1) = <<d[1]>>
    OBVIOUS
  <2> HIDE DEF Prefix
  <2>5. l > 1 => v[1] >= 1
    BY <1>1, <1>4, <2>1, <2>2
  <2>6. 0 + 1 = 1
    OBVIOUS
  <2> QED
    BY <2>2, <2>3, <2>4, <2>5, <2>6
<1>6. ASSUME NEW i \in Nat, i \in A PROVE i + 1 \in A
  <2> DEFINE j == i + 1
  <2> SUFFICES ASSUME j + 1 <= l
               PROVE  v[j + 1] >= 1 /\ Base62[v[j + 1]] = Prefix(j + 1)
    OBVIOUS
  <2>1. j \in Nat /\ j \in 1 .. l /\ j + 1 \in 1 .. l /\ (j + 1) - 1 = j /\ l > 1 /\ j >= 1
    BY <1>1
  <2>2. v[j] >= 1 /\ Base62[v[j]] = Prefix(j)
    BY <1>6, <2>1
  <2> HIDE DEF j, A
  <2>3. v[j + 1] = v[j] * Base + d[j + 1] /\ v[j] \in Nat
    BY <1>2, <2>1
  <2>4. v[j + 1] >= 1
    <3>1. v[j] * Base >= v[j] /\ v[j] * Base \in Nat
      BY <1>3, <2>2, <2>3
    <3> QED
      <4> DEFINE p == v[j] * Base
      <4>1. p >= v[j] /\ p \in Nat /\ d[j + 1] \in Nat
        BY <1>1, <2>1, <3>1
      <4>2. v[j + 1] = p + d[j + 1]
        BY <2>3
      <4> HIDE DEF p
      <4> QED
        BY <2>2, <2>3, <4>1, <4>2
  <2>5. Base62[v[j + 1]] = Append(Prefix(j), d[j + 1])
    BY <1>1, <2>1, <2>2, <2>3, Base62Append
  <2>6. Append(Prefix(j), d[j + 1]) = Prefix(j + 1)
    <3>1. Prefix(j) \in Seq(Nat) /\ Len(Prefix(j)) = j
      BY <1>1, <2>1
    <3>2. Append(Prefix(j), d[j + 1]) =
            [k \in 1 .. j + 1 |-> IF k = j + 1 THEN d[j + 1] ELSE Prefix(j)[k]]
      BY <2>1, <3>1
    <3>3. \A k \in 1 .. j + 1 : (IF k = j + 1 THEN d[j + 1] ELSE Prefix(j)[k]) = d[k]
      BY <2>1
    <3> QED
      BY <3>2, <3>3
  <2> QED
    BY <2>4, <2>5, <2>6
<1> HIDE DEF A
<1>7. \A i \in Nat : i \in A
  BY <1>5, <1>6, StepInduction
<1>8. PICK i \in Nat : i \in A /\ i + 1 = l
  <2>1. l - 1 \in Nat /\ (l - 1) + 1 = l
    BY <1>1
  <2> QED
    BY <1>7, <2>1
<1>9. Base62[v[l]] = Prefix(l)
  <2> HIDE DEF Prefix
  <2>1. i + 1 <= l => Base62[v[i + 1]] = Prefix(i + 1)
    BY <1>8 DEF A
  <2> QED
    BY <1>1, <1>8, <2>1
<1>10. Prefix(l) = d
  BY <1>1
<1> QED
  BY <1>9, <1>10 DEF Base62Value, v, l

-----------------------------------------------------------------------------
LEMMA Base62ValueInt ==
  ASSUME NEW d \in Seq(Nat)
  PROVE  Base62Value(d) \in Int
<1>1. Len(d) \in Nat /\ Len(d) \in 0 .. Len(d)
  OBVIOUS
<1> QED
  BY <1>1, ScannedDef DEF Base62Value

(* Any digits, also an overflown sum: the id found is below the modulus. *)
LEMMA UnscrambleRange ==
  ASSUME NEW k \in Keys, NEW x \in Int
  PROVE  Unscramble(k, x) \in 0 .. IdModulus - 1
<1> DEFINE m    == IdModulus
           d    == GoMod(Wrap(x - k.add), m)
           diff == IF d < 0 THEN d + m ELSE d
<1>1. m \in Nat /\ m > 0 /\ Half \in Nat /\ Half > 0 /\ k.add \in Int
  BY ObfuscatorAssumption DEF Keys
<1>2. Wrap(x - k.add) \in Int
  <2>1. (x - k.add) + Half \in Int /\ 2 * Half \in Nat /\ 2 * Half > 0
    BY <1>1
  <2>2. ((x - k.add) + Half) % (2 * Half) \in Int
    BY <2>1
  <2> QED
    BY <1>1, <2>2 DEF Wrap
<1>3. d \in -(m - 1) .. m - 1
  BY <1>1, <1>2, GoModRange
<1>4. diff \in 0 .. m - 1
  BY <1>1, <1>3
<1>5. ModInverse(k.mult, m) \in 0 .. m - 1
  BY ModInverseCorrect
<1> QED
  BY <1>1, <1>4, <1>5, MulModValue DEF Unscramble

(* Decode's arithmetic reverses Encode's: a true bijection over the ids      *)
(* below the modulus.                                                        *)
THEOREM UnscrambleScramble ==
  ASSUME NEW k \in Keys, NEW id \in 0 .. IdModulus - 1
  PROVE  /\ Scramble(k, id) \in 0 .. IdModulus - 1
         /\ Unscramble(k, Scramble(k, id)) = id
<1> DEFINE m   == IdModulus
           inv == ModInverse(k.mult, m)
           p   == MulMod(id, k.mult, m)
           s   == p + k.add
           x   == Scramble(k, id)
           y   == x - k.add
           d   == GoMod(Wrap(y), m)
           diff == IF d < 0 THEN d + m ELSE d
<1>1. /\ m \in Nat /\ m > 0 /\ Half \in Nat /\ m * m <= Half
      /\ k.mult \in 0 .. m - 1 /\ k.add \in 0 .. m - 1
      /\ inv \in 0 .. m - 1 /\ (k.mult * inv) % m = 1
  BY ObfuscatorAssumption, ModInverseCorrect DEF Keys
<1>2. PICK q1 \in Int : id * k.mult = m * q1 + p
  <2> DEFINE c == id * k.mult
  <2>0. id \in Nat /\ k.mult \in Nat /\ id \in 0 .. m - 1
    BY <1>1
  <2>1. c \in Int
    BY <2>0, NatProduct
  <2>3. p = c % m
    BY <1>1, <2>0, MulModValue
  <2> HIDE DEF c
  <2>2. c \div m \in Int /\ c = m * (c \div m) + (c % m)
    BY <1>1, <2>1, DivMod
  <2> QED
    BY <2>2, <2>3 DEF c
<1>3. p \in 0 .. m - 1
  BY <1>1, MulModValue
<1>4. s \in Nat /\ x = s % m
  <2>1. s \in Nat
    BY <1>1, <1>3
  <2>2. x = GoMod(s, m)
    BY DEF Scramble
  <2> QED
    BY <2>1, <2>2 DEF GoMod
<1>5. x \in 0 .. m - 1 /\ \E q \in Int : s = m * q + x
  <2> HIDE DEF s, x
  <2>1. s % m \in 0 .. m - 1 /\ s \div m \in Int /\ s = m * (s \div m) + (s % m)
    BY <1>1, <1>4, DivMod
  <2> QED
    BY <1>4, <2>1
<1>6. PICK q2 \in Int : s = m * q2 + x
  BY <1>5
<1>7. Wrap(y) = y /\ y \in Int
  <2>1. m <= Half
    <3>1. m * m >= m
      BY <1>1
    <3> QED
      BY <1>1, <3>1
  <2>2. y \in -Half .. Half - 1
    BY <1>1, <1>5, <2>1
  <2> QED
    BY <2>2, WrapSmall
<1>8. diff \in 0 .. m - 1 /\ \E q \in Int : y = m * q + diff
  <2> HIDE DEF y
  <2>1. d \in -(m - 1) .. m - 1
    BY <1>1, <1>7, GoModRange
  <2>2. PICK q \in Int : y = m * q + d
    BY <1>1, <1>7, GoModRange
  <2> HIDE DEF d
  <2>3. CASE d >= 0
    BY <1>1, <2>1, <2>2, <2>3
  <2>4. CASE d < 0
    <3>1. diff = d + m /\ diff \in 0 .. m - 1
      BY <1>1, <2>1, <2>4
    <3>2. y = m * (q - 1) + diff /\ q - 1 \in Int
      BY <1>1, <2>1, <2>2, <3>1
    <3> QED
      BY <3>1, <3>2
  <2> QED
    BY <2>1, <2>3, <2>4
<1>9. PICK q4 \in Int : y = m * q4 + diff
  BY <1>8
<1>10. PICK q5 \in Int : k.mult * inv = m * q5 + 1
  <2> DEFINE c == k.mult * inv
  <2>1. c \in Int /\ c % m = 1
    BY <1>1
  <2> HIDE DEF c
  <2>2. c \div m \in Int /\ c = m * (c \div m) + (c % m)
    BY <1>1, <2>1, DivMod
  <2> QED
    BY <2>1, <2>2 DEF c
<1> DEFINE e == q1 + q2 + q4
<1>11. e \in Int /\ diff = id * k.mult - m * e
  <2>1. m * e = m * q1 + m * q2 + m * q4
    BY <1>1
  <2> QED
    BY <1>1, <1>2, <1>3, <1>5, <1>6, <1>8, <1>9, <2>1
<1>12. diff * inv = m * (id * q5 - e * inv) + id
  <2> DEFINE a == k.mult
  <2>1. /\ m \in Int /\ id \in Int /\ a \in Int /\ e \in Int /\ inv \in Int /\ diff \in Int
        /\ diff = id * a - m * e /\ a * inv = m * q5 + 1
    BY <1>1, <1>8, <1>10, <1>11
  <2> HIDE DEF a, e, diff, inv, m
  <2>2. diff * inv = id * (a * inv) - m * (e * inv)
    BY <2>1
  <2>3. id * (a * inv) = m * (id * q5) + id
    BY <2>1
  <2> DEFINE u == id * q5
             w == e * inv
  <2>4. u \in Int /\ w \in Int
    BY <2>1
  <2>5. diff * inv = (m * u + id) - m * w
    BY <2>2, <2>3
  <2> HIDE DEF u, w
  <2>6. m * (u - w) = m * u - m * w
    BY <2>1, <2>4
  <2>7. diff * inv = m * (u - w) + id
    BY <2>1, <2>4, <2>5, <2>6
  <2> QED
    BY <2>7 DEF u, w
<1>13. (diff * inv) % m = id
  <2> HIDE DEF e, diff, inv
  <2> DEFINE c == diff * inv
             w == id * q5 - e * inv
  <2>1. c \in Int /\ w \in Int /\ c = m * w + id
    BY <1>1, <1>8, <1>11, <1>12
  <2> HIDE DEF c, w
  <2>2. c % m = id
    BY <1>1, <2>1, ModUnique
  <2> QED
    BY <2>2 DEF c
<1>14. Unscramble(k, x) = MulMod(diff, inv, m)
  BY DEF Unscramble
<1>15. MulMod(diff, inv, m) = (diff * inv) % m
  <2> HIDE DEF diff, inv
  <2> QED
    BY <1>1, <1>8, MulModValue
<1> QED
  BY <1>5, <1>13, <1>14, <1>15

(* Encode's arithmetic stays below the modulus, for any id. *)
LEMMA ScrambleRange ==
  ASSUME NEW k \in Keys, NEW id \in Nat
  PROVE  Scramble(k, id) \in 0 .. IdModulus - 1
<1> DEFINE m == IdModulus
           p == MulMod(id, k.mult, m)
<1>1. m \in Nat /\ m > 0 /\ k.mult \in 0 .. m - 1 /\ k.add \in 0 .. m - 1
  BY ObfuscatorAssumption DEF Keys
<1>2. GoMod(id, m) \in 0 .. m - 1 /\ GoMod(k.mult, m) \in 0 .. m - 1
  BY <1>1 DEF GoMod
<1>3. p \in Nat
  <2>1. GoMod(id, m) * GoMod(k.mult, m) \in Nat
    BY <1>1, <1>2, NatProduct
  <2> QED
    BY <1>1, <2>1 DEF MulMod, GoMod
<1> HIDE DEF p
<1>4. p + k.add \in Nat
  BY <1>1, <1>3
<1>5. (p + k.add) % m \in 0 .. m - 1
  BY <1>1, <1>4
<1> QED
  BY <1>4, <1>5 DEF Scramble, p, GoMod

(* And Encode's arithmetic reverses Decode's. *)
THEOREM ScrambleUnscramble ==
  ASSUME NEW k \in Keys, NEW x \in 0 .. IdModulus - 1
  PROVE  Scramble(k, Unscramble(k, x)) = x
<1> DEFINE m   == IdModulus
           a   == k.mult
           inv == ModInverse(k.mult, m)
           y   == x - k.add
           d   == GoMod(Wrap(y), m)
           diff == IF d < 0 THEN d + m ELSE d
           id  == Unscramble(k, x)
           p   == MulMod(id, k.mult, m)
<1>1. /\ m \in Nat /\ m > 0 /\ Half \in Nat /\ m * m <= Half
      /\ a \in 0 .. m - 1 /\ k.add \in 0 .. m - 1
      /\ inv \in 0 .. m - 1 /\ (a * inv) % m = 1
  BY ObfuscatorAssumption, ModInverseCorrect DEF Keys
<1>2. Wrap(y) = y /\ y \in Int
  <2>1. m <= Half
    <3>1. m * m >= m
      BY <1>1
    <3> QED
      BY <1>1, <3>1
  <2>2. y \in -Half .. Half - 1
    BY <1>1, <2>1
  <2> QED
    BY <2>2, WrapSmall
<1>3. diff \in 0 .. m - 1 /\ \E q \in Int : y = m * q + diff
  <2> HIDE DEF y
  <2>1. d \in -(m - 1) .. m - 1
    BY <1>1, <1>2, GoModRange
  <2>2. PICK q \in Int : y = m * q + d
    BY <1>1, <1>2, GoModRange
  <2> HIDE DEF d
  <2>3. CASE d >= 0
    BY <1>1, <2>1, <2>2, <2>3
  <2>4. CASE d < 0
    <3>1. diff = d + m /\ diff \in 0 .. m - 1
      BY <1>1, <2>1, <2>4
    <3>2. y = m * (q - 1) + diff /\ q - 1 \in Int
      BY <1>1, <2>1, <2>2, <3>1
    <3> QED
      BY <3>1, <3>2
  <2> QED
    BY <2>1, <2>3, <2>4
<1>4. PICK q1 \in Int : y = m * q1 + diff
  BY <1>3
<1>5. id = (diff * inv) % m /\ id \in 0 .. m - 1
  <2>1. id = MulMod(diff, inv, m)
    BY DEF Unscramble
  <2> HIDE DEF diff, inv, id
  <2> QED
    BY <1>1, <1>3, <2>1, MulModValue
<1> HIDE DEF d, diff, inv, id, y, a, m
<1>6. PICK q2 \in Int : diff * inv = m * q2 + id
  <2> DEFINE c == diff * inv
  <2>1. c \in Int
    BY <1>1, <1>3
  <2> HIDE DEF c
  <2>2. c \div m \in Int /\ c = m * (c \div m) + (c % m)
    BY <1>1, <2>1, DivMod
  <2> QED
    BY <1>5, <2>2 DEF c
<1>7. PICK q3 \in Int : a * inv = m * q3 + 1
  <2> DEFINE c == a * inv
  <2>1. c \in Int /\ c % m = 1
    BY <1>1
  <2> HIDE DEF c
  <2>2. c \div m \in Int /\ c = m * (c \div m) + (c % m)
    BY <1>1, <2>1, DivMod
  <2> QED
    BY <2>1, <2>2 DEF c
<1>8. p = (id * a) % m /\ p \in 0 .. m - 1
  BY <1>1, <1>5, MulModValue DEF a
<1>9. PICK q4 \in Int : id * a = m * q4 + p
  <2> DEFINE c == id * a
  <2>1. c \in Int
    BY <1>1, <1>5
  <2> HIDE DEF c, p
  <2>2. c \div m \in Int /\ c = m * (c \div m) + (c % m)
    BY <1>1, <2>1, DivMod
  <2> QED
    BY <1>8, <2>2 DEF c
<1> HIDE DEF p
(* p is congruent to diff, so p + add is congruent to x. *)
<1>10. \E e \in Int : diff = m * e + p
  <2> DEFINE u == diff * q3
             v == q2 * a
             e == (v + q4) - u
  <2>1. u \in Int /\ v \in Int /\ e \in Int
    BY <1>1, <1>3
  <2>2. diff * (a * inv) = m * u + diff
    BY <1>1, <1>3, <1>7
  <2>3. diff * (a * inv) = (diff * inv) * a
    BY <1>1, <1>3
  <2>4. (m * q2 + id) * a = m * v + id * a
    BY <1>1, <1>5
  <2>5. m * u + diff = m * v + (m * q4 + p)
    BY <1>6, <1>9, <2>2, <2>3, <2>4
  <2> HIDE DEF u, v
  <2>6. m * e = (m * v + m * q4) - m * u
    BY <1>1, <2>1
  <2> DEFINE mu == m * u
             mv == m * v
             mq == m * q4
             me == m * e
  <2>7. mu \in Int /\ mv \in Int /\ mq \in Int /\ me \in Int
    BY <1>1, <2>1
  <2>8. mu + diff = mv + (mq + p) /\ me = (mv + mq) - mu
    BY <2>5, <2>6
  <2> HIDE DEF mu, mv, mq, me, e
  <2>9. diff = me + p
    <3>1. diff \in Int /\ p \in Int
      BY <1>1, <1>3, <1>8
    <3> QED
      BY <2>7, <2>8, <3>1
  <2> QED
    BY <2>1, <2>9 DEF me
<1>11. PICK e \in Int : diff = m * e + p
  BY <1>10
<1> DEFINE s == p + k.add
<1>12. s \in Nat /\ Scramble(k, id) = s % m
  <2>1. s \in Nat
    BY <1>1, <1>8
  <2>2. Scramble(k, id) = GoMod(s, m)
    BY DEF Scramble, p, m
  <2> QED
    BY <2>1, <2>2 DEF GoMod
<1>13. s = m * (-(q1 + e)) + x /\ -(q1 + e) \in Int
  <2>1. x = m * q1 + (m * e + p) + k.add
    <3>1. y = x - k.add
      BY DEF y
    <3> QED
      BY <1>1, <1>2, <1>3, <1>4, <1>11, <3>1
  <2>2. m * (-(q1 + e)) = -(m * q1) - m * e
    BY <1>1
  <2> DEFINE b == m * q1
             c == m * e
  <2>3. b \in Int /\ c \in Int
    BY <1>1
  <2>4. x = b + (c + p) + k.add /\ m * (-(q1 + e)) = -b - c
    BY <2>1, <2>2
  <2> HIDE DEF b, c
  <2> QED
    BY <1>1, <1>8, <2>3, <2>4
<1>14. s % m = x
  <2> DEFINE w == -(q1 + e)
  <2>1. w \in Int /\ s = m * w + x /\ s \in Int
    BY <1>12, <1>13
  <2>2. x \in 0 .. m - 1
    BY DEF m
  <2> HIDE DEF w, s
  <2> QED
    BY <1>1, <2>1, <2>2, ModUnique
<1> QED
  BY <1>12, <1>14 DEF id
-----------------------------------------------------------------------------
(* The same of the tokens. *)
LEMMA EncodeIsToken ==
  ASSUME NEW k, NEW t \in Types, k[t] \in Keys, NEW id \in Nat
  PROVE  /\ Scramble(k[t], id) \in 0 .. IdModulus - 1
         /\ Encode(k, t, id) = [tag |-> t, digits |-> Base62[Scramble(k[t], id)]]
         /\ IsToken(Encode(k, t, id))
<1> DEFINE x == Scramble(k[t], id)
<1>1. x \in 0 .. IdModulus - 1 /\ x \in Nat
  BY ScrambleRange, ObfuscatorAssumption
<1>2. Base62[x] \in Seq(Nat)
  <2>1. Base62[x] \in Seq(Digits)
    BY <1>1, Base62Digits
  <2> QED
    BY <2>1, DigitsSeq
<1>3. Encode(k, t, id) = [tag |-> t, digits |-> Base62[x]]
  BY DEF Encode
<1> HIDE DEF x
<1> QED
  BY <1>1, <1>2, <1>3 DEF IsToken, x

LEMMA DecodeEncode ==
  ASSUME key \in [Types -> Keys], NEW t \in Types, NEW a \in Types,
         NEW id \in 0 .. IdModulus - 1
  PROVE  Decode(key, a, Encode(key, t, id)) = IF a = t THEN id ELSE Refused
<1> DEFINE x == Scramble(key[t], id)
<1>1. key[t] \in Keys
  OBVIOUS
<1>2. x \in 0 .. IdModulus - 1 /\ Unscramble(key[t], x) = id
  BY <1>1, UnscrambleScramble
<1> HIDE DEF x
<1>3. Base62[x] \in Seq(Digits) /\ Base62[x] # << >>
  BY <1>2, Base62Digits, ObfuscatorAssumption
<1>4. Base62Value(Base62[x]) = x
  BY <1>2, ReadBackHolds DEF ReadBack, Base62Value
<1>5. Encode(key, t, id) = [tag |-> t, digits |-> Base62[x]]
  BY DEF Encode, x
<1>6. ValidDigits([tag |-> t, digits |-> Base62[x]])
  <2> DEFINE d == Base62[x]
  <2>1. \A i \in DOMAIN d : d[i] \in Digits
    BY <1>3
  <2> HIDE DEF d
  <2>2. ValidDigits([tag |-> t, digits |-> d])
    BY <2>1 DEF ValidDigits, Digits
  <2> QED
    BY <2>2 DEF d
<1> QED
  BY <1>2, <1>3, <1>4, <1>5, <1>6 DEF Decode

(* The invariant behind the three properties. *)
LEMMA ConsistentHolds == Spec => []Consistent
<1>1. Init => Consistent
  BY DEF Init, Consistent
<1>2. Consistent /\ [Next]_vars => Consistent'
  <2> SUFFICES ASSUME Consistent, [Next]_vars PROVE Consistent'
    OBVIOUS
  <2>1. ASSUME NEW t \in Types, NEW id \in Ids, Show(t, id) PROVE Consistent'
    <3>1. key' = key /\ key \in [Types -> Keys] /\ key[t] \in Keys /\ id \in Nat
      BY <2>1, ObfuscatorAssumption DEF Show, Consistent
    <3>2. IsToken(Encode(key, t, id))
      BY <3>1, EncodeIsToken
    <3> QED
      BY <2>1, <3>1, <3>2 DEF Show, Consistent
  <2>2. ASSUME NEW token \in MadeUp, MakeUp(token) PROVE Consistent'
    BY <2>2, MadeUpAssumption DEF MakeUp, Consistent
  <2>3. ASSUME NEW t \in Types, Ask(t) PROVE Consistent'
    BY <2>3, ObfuscatorAssumption DEF Ask, Consistent
  <2>4. CASE UNCHANGED vars
    BY <2>4 DEF vars, Consistent
  <2> QED
    BY <2>1, <2>2, <2>3, <2>4 DEF Next
<1> QED
  BY <1>1, <1>2, PTL DEF Spec

(* A record's token finds it under its own type, and nothing under another,  *)
(* for every secret.                                                         *)
THEOREM RoundTripTheorem == Spec => []RoundTrip
<1>1. Consistent => RoundTrip
  <2> SUFFICES ASSUME Consistent, of # None, asked # None, of.id < IdModulus
               PROVE  reply = IF asked = of.type THEN of.id ELSE Refused
    BY DEF RoundTrip
  <2>1. of.id \in 0 .. IdModulus - 1
    BY ObfuscatorAssumption DEF Consistent
  <2> QED
    BY <2>1, DecodeEncode DEF Consistent
<1> QED
  BY <1>1, ConsistentHolds, PTL

(* Of a token that Decode accepts. *)
LEMMA Accepted ==
  ASSUME Consistent, asked # None, reply # Refused
  PROVE  /\ key[asked] \in Keys
         /\ held = [tag |-> asked, digits |-> held.digits]
         /\ held.digits \in Seq(Digits) /\ held.digits \in Seq(Nat)
         /\ held.digits # << >>
         /\ reply = Unscramble(key[asked], Base62Value(held.digits))
<1>1. /\ key \in [Types -> Keys] /\ asked \in Types /\ IsToken(held)
      /\ reply = Decode(key, asked, held)
  BY DEF Consistent
<1>2. /\ held.digits # << >> /\ held.tag = asked /\ ValidDigits(held)
      /\ reply = Unscramble(key[asked], Base62Value(held.digits))
  BY <1>1 DEF Decode
<1>3. held = [tag |-> asked, digits |-> held.digits] /\ held.digits \in Seq(Nat)
  BY <1>1, <1>2 DEF IsToken
<1>4. held.digits \in Seq(Digits)
  <2> DEFINE d == held.digits
  <2>1. d \in Seq(Nat) /\ \A i \in DOMAIN d : d[i] \in Digits
    BY <1>2, <1>3 DEF ValidDigits, Digits
  <2> HIDE DEF d, Digits
  <2>2. d \in Seq(Digits)
    BY <2>1
  <2> QED
    BY <2>2 DEF d
<1> QED
  BY <1>1, <1>2, <1>3, <1>4

(* Whatever a client sends, the repository is asked for an id below the      *)
(* modulus or not at all, also when the digits overflow the word.            *)
THEOREM OnlyPossibleTheorem == Spec => []OnlyPossibleIds
<1>1. Consistent => OnlyPossibleIds
  <2> SUFFICES ASSUME Consistent, reply # Refused
               PROVE  reply \in 0 .. IdModulus - 1
    BY DEF OnlyPossibleIds
  <2>1. asked # None
    BY DEF Consistent
  <2> DEFINE x == Base62Value(held.digits)
  <2>2. key[asked] \in Keys /\ x \in Int /\ reply = Unscramble(key[asked], x)
    BY <2>1, Accepted, Base62ValueInt
  <2> HIDE DEF x
  <2> QED
    BY <2>2, UnscrambleRange
<1> QED
  BY <1>1, ConsistentHolds, PTL

(* A canonical token that is accepted is the token of the record it finds,   *)
(* so no two of them name the same record.                                   *)
THEOREM OneTokenTheorem == Spec => []OneTokenPerRecord
<1>1. Consistent => OneTokenPerRecord
  <2> SUFFICES ASSUME Consistent, asked # None, reply # Refused, Canonical(held)
               PROVE  Encode(key, asked, reply) = held
    BY DEF OneTokenPerRecord
  <2> DEFINE d == held.digits
             x == Base62Value(d)
  <2>1. /\ key[asked] \in Keys /\ held = [tag |-> asked, digits |-> d]
        /\ d \in Seq(Digits) /\ d # << >> /\ reply = Unscramble(key[asked], x)
    BY Accepted
  <2>2. /\ Len(d) > 1 => d[1] # 0
        /\ Len(d) <= Len(Base62[IdModulus - 1])
        /\ x \in 0 .. IdModulus - 1
    BY DEF Canonical
  <2> HIDE DEF d
  <2>3. Base62[x] = d
    BY <2>1, <2>2, EncodedAgain
  <2> HIDE DEF x
  <2>4. Scramble(key[asked], reply) = x
    BY <2>1, <2>2, ScrambleUnscramble
  <2> QED
    BY <2>1, <2>3, <2>4 DEF Encode
<1> QED
  BY <1>1, ConsistentHolds, PTL
=============================================================================
