----------------------------- MODULE Ff3Proofs ------------------------------
(***************************************************************************)
(* Proofs about Ff3, for messages of any length, any even number of rounds *)
(* and any round functions.                                                *)
(***************************************************************************)
EXTENDS Ff3, WellFoundedInduction, TLAPS

(***************************************************************************)
(* Powers of two, quotients and remainders.                                *)
(***************************************************************************)

\* A set of numbers has a least one.
LEMMA LeastOf ==
  ASSUME NEW T, T \subseteq Nat, T # {}
  PROVE  \E k \in T : \A n \in T : k <= n
<1> DEFINE R == OpToRel(<, Nat)
<1>1. IsWellFoundedOn(R, Nat)
  BY NatLessThanWellFounded
<1>2. \A x, y \in Nat : <<x, y>> \in R <=> x < y
  BY DEF OpToRel
<1> HIDE DEF R
<1>3. PICK k \in T : \A n \in T : ~ (<<n, k>> \in R)
  BY <1>1, WFMin
<1>4. ASSUME NEW n \in T PROVE k <= n
  <2>1. n \in Nat /\ k \in Nat /\ ~ (<<n, k>> \in R)
    BY <1>3
  <2>2. ~ (n < k)
    BY <1>2, <2>1
  <2>3. QED BY <2>1, <2>2
<1>5. QED BY <1>4

\* Induction up to n, for a property given as the set of the numbers that
\* have it.
LEMMA UpTo ==
  ASSUME NEW n \in Nat, NEW G, 0 \in G,
         \A k \in 1 .. n : k - 1 \in G => k \in G
  PROVE  0 .. n \subseteq G
<1> DEFINE Bad == {k \in 0 .. n : k \notin G}
<1> SUFFICES ASSUME Bad # {} PROVE FALSE
  OBVIOUS
<1>1. Bad \subseteq Nat
  OBVIOUS
<1> HIDE DEF Bad
<1>2. PICK k \in Bad : \A m \in Bad : k <= m
  BY <1>1, LeastOf
<1>3. k \in 1 .. n /\ k \notin G
  BY <1>2 DEF Bad
<1>4. k - 1 \in G
  BY <1>2, <1>3 DEF Bad
<1>5. QED BY <1>3, <1>4

\* The powers up to the n-th.
Powers(n, f) == f = [k \in 0 .. n |-> IF k = 0 THEN 1 ELSE 2 * f[k - 1]]

LEMMA PowersExist ==
  ASSUME NEW n \in Nat
  PROVE  \E f : Powers(n, f)
<1> DEFINE G == {k \in Nat : \E f : Powers(k, f)}
<1>1. 0 \in G
  <2>1. Powers(0, [k \in 0 .. 0 |-> 1])
    BY DEF Powers
  <2>2. QED BY <2>1
<1>2. ASSUME NEW k \in 1 .. n, k - 1 \in G PROVE k \in G
  <2>1. PICK f : Powers(k - 1, f)
    BY <1>2
  <2> DEFINE g == [j \in 0 .. k |-> IF j < k THEN f[j] ELSE 2 * f[k - 1]]
  <2>2. \A j \in 0 .. k - 1 : f[j] = IF j = 0 THEN 1 ELSE 2 * f[j - 1]
    BY <2>1 DEF Powers
  <2>3. \A j \in 0 .. k : g[j] = IF j = 0 THEN 1 ELSE 2 * g[j - 1]
    BY <2>2
  <2>4. Powers(k, g)
    BY <2>3 DEF Powers
  <2> HIDE DEF g
  <2>5. QED BY <2>4
<1> HIDE DEF G
<1>3. 0 .. n \subseteq G
  BY <1>1, <1>2, UpTo
<1>4. QED BY <1>3 DEF G

LEMMA PowersAgree ==
  ASSUME NEW n \in Nat, NEW m \in Nat, n <= m, NEW f, NEW g, Powers(n, f), Powers(m, g)
  PROVE  f[n] = g[n]
<1> DEFINE G == {k \in Nat : k <= n => f[k] = g[k]}
<1>1. /\ \A k \in 0 .. n : f[k] = IF k = 0 THEN 1 ELSE 2 * f[k - 1]
      /\ \A k \in 0 .. m : g[k] = IF k = 0 THEN 1 ELSE 2 * g[k - 1]
  BY DEF Powers
<1>2. 0 \in G
  BY <1>1
<1>3. ASSUME NEW k \in 1 .. n, k - 1 \in G PROVE k \in G
  BY <1>1, <1>3
<1> HIDE DEF G
<1>4. 0 .. n \subseteq G
  BY <1>2, <1>3, UpTo
<1>5. QED BY <1>4 DEF G

LEMMA PowIs ==
  /\ Pow[0] = 1
  /\ \A n \in Nat : Pow[n] \in Nat /\ Pow[n] > 0 /\ Pow[n + 1] = 2 * Pow[n]
<1> DEFINE P(n) == CHOOSE f : Powers(n, f)
           F == [n \in Nat |-> P(n)[n]]
<1>1. ASSUME NEW n \in Nat PROVE Powers(n, P(n))
  BY PowersExist
<1>2. ASSUME NEW n \in Nat PROVE F[n] = IF n = 0 THEN 1 ELSE 2 * F[n - 1]
  <2>1. P(n)[n] = IF n = 0 THEN 1 ELSE 2 * P(n)[n - 1]
    <3>1. Powers(n, P(n)) /\ n \in 0 .. n
      BY <1>1
    <3> HIDE DEF P
    <3>2. QED BY <3>1 DEF Powers
  <2>2. n > 0 => P(n - 1)[n - 1] = P(n)[n - 1]
    <3>1. SUFFICES ASSUME n > 0 PROVE P(n - 1)[n - 1] = P(n)[n - 1]
      OBVIOUS
    <3>2. n - 1 \in Nat /\ n - 1 <= n /\ Powers(n, P(n)) /\ Powers(n - 1, P(n - 1))
      BY <1>1, <3>1
    <3> HIDE DEF P
    <3>3. QED BY <3>2, PowersAgree
  <2> HIDE DEF P
  <2>3. F[n] = P(n)[n] /\ (n > 0 => F[n - 1] = P(n - 1)[n - 1])
    OBVIOUS
  <2> HIDE DEF F
  <2>4. QED BY <2>1, <2>2, <2>3
<1> HIDE DEF P
<1>3. F = [n \in Nat |-> IF n = 0 THEN 1 ELSE 2 * F[n - 1]]
  BY <1>2
<1> HIDE DEF F
<1>4. Pow = [n \in Nat |-> IF n = 0 THEN 1 ELSE 2 * Pow[n - 1]]
  BY <1>3 DEF Pow
<1>5. \A n \in Nat : Pow[n] = IF n = 0 THEN 1 ELSE 2 * Pow[n - 1]
  BY <1>4
<1>6. \A n \in Nat : Pow[n + 1] = 2 * Pow[n]
  BY <1>5
<1>7. Pow[0] = 1
  BY <1>5
<1> DEFINE G == {n \in Nat : Pow[n] \in Nat /\ Pow[n] > 0}
<1>8. 0 \in G
  BY <1>7
<1>9. ASSUME NEW n \in Nat, NEW k \in 1 .. n, k - 1 \in G PROVE k \in G
  <2>1. k - 1 \in Nat /\ k \in Nat /\ Pow[k] = 2 * Pow[k - 1]
    BY <1>5
  <2>2. QED BY <1>9, <2>1
<1> HIDE DEF G
<1>10. ASSUME NEW n \in Nat PROVE n \in G
  <2>1. 0 .. n \subseteq G
    BY <1>8, <1>9, UpTo
  <2>2. QED BY <2>1
<1>11. QED BY <1>6, <1>7, <1>10 DEF G

LEMMA PowSum ==
  ASSUME NEW a \in Nat, NEW b \in Nat
  PROVE  Pow[a + b] = Pow[a] * Pow[b]
<1> DEFINE G == {k \in Nat : Pow[a + k] = Pow[a] * Pow[k]}
<1>1. 0 \in G
  <2>1. Pow[a] * 1 = Pow[a] /\ a + 0 = a
    BY PowIs
  <2>2. QED BY <2>1, PowIs
<1>2. ASSUME NEW k \in 1 .. b, k - 1 \in G PROVE k \in G
  <2> DEFINE p == Pow[a]
             q == Pow[k - 1]
             s == Pow[a + (k - 1)]
  <2>1. /\ p \in Nat /\ q \in Nat /\ s \in Nat /\ s = p * q
        /\ Pow[k] = 2 * q /\ Pow[a + k] = 2 * s
    <3>1. k - 1 \in Nat /\ a + (k - 1) \in Nat /\ (k - 1) + 1 = k /\ (a + (k - 1)) + 1 = a + k
      OBVIOUS
    <3>2. QED BY <1>2, <3>1, PowIs
  <2> HIDE DEF p, q, s
  <2>2. 2 * (p * q) = p * (2 * q)
    BY <2>1
  <2>3. QED BY <2>1, <2>2 DEF p
<1> HIDE DEF G
<1>3. 0 .. b \subseteq G
  BY <1>1, <1>2, UpTo
<1>4. QED BY <1>3 DEF G

LEMMA Division ==
  ASSUME NEW x \in Int, NEW s \in Nat, s > 0
  PROVE  /\ x \div s \in Int /\ x % s \in 0 .. s - 1
         /\ x = (x \div s) * s + (x % s)
  OBVIOUS

LEMMA DivisionIs ==
  ASSUME NEW x \in Int, NEW s \in Nat, s > 0, NEW q \in Int, NEW r \in 0 .. s - 1,
         x = q * s + r
  PROVE  x \div s = q /\ x % s = r
<1> DEFINE d == x \div s
           e == x % s
<1>1. d \in Int /\ e \in 0 .. s - 1 /\ x = d * s + e
  BY Division
<1> HIDE DEF d, e
<1>2. CASE d > q
  <2>1. d >= q + 1 /\ (q + 1) * s = q * s + s /\ (d >= q + 1 => d * s >= (q + 1) * s)
    BY <1>1, <1>2
  <2>2. QED BY <1>1, <2>1
<1>3. CASE q > d
  <2>1. q >= d + 1 /\ (d + 1) * s = d * s + s /\ (q >= d + 1 => q * s >= (d + 1) * s)
    BY <1>1, <1>3
  <2>2. QED BY <1>1, <2>1
<1>4. CASE d = q
  BY <1>1, <1>4 DEF d, e
<1>5. QED BY <1>1, <1>2, <1>3, <1>4

-----------------------------------------------------------------------------
(***************************************************************************)
(* bit_reverse_m undoes itself.                                            *)
(***************************************************************************)

\* Bit k of x.
Bit(x, k) == (x \div Pow[k]) % 2

\* The first n bits of x, from the last one on, as numbers.
Mirrored(x, n, q) == q = [k \in 0 .. n |-> IF k = 0 THEN 0 ELSE 2 * q[k - 1] + Bit(x, k - 1)]

LEMMA MirroredExists ==
  ASSUME NEW x, NEW n \in Nat
  PROVE  \E q : Mirrored(x, n, q)
<1> DEFINE G == {k \in Nat : \E q : Mirrored(x, k, q)}
<1>1. 0 \in G
  <2>1. Mirrored(x, 0, [k \in 0 .. 0 |-> 0])
    BY DEF Mirrored
  <2>2. QED BY <2>1
<1>2. ASSUME NEW k \in 1 .. n, k - 1 \in G PROVE k \in G
  <2>1. PICK f : Mirrored(x, k - 1, f)
    BY <1>2
  <2> DEFINE g == [j \in 0 .. k |-> IF j < k THEN f[j] ELSE 2 * f[k - 1] + Bit(x, k - 1)]
  <2>2. \A j \in 0 .. k - 1 : f[j] = IF j = 0 THEN 0 ELSE 2 * f[j - 1] + Bit(x, j - 1)
    BY <2>1 DEF Mirrored
  <2>3. \A j \in 0 .. k : g[j] = IF j = 0 THEN 0 ELSE 2 * g[j - 1] + Bit(x, j - 1)
    BY <2>2
  <2>4. Mirrored(x, k, g)
    BY <2>3 DEF Mirrored
  <2> HIDE DEF g
  <2>5. QED BY <2>4
<1> HIDE DEF G
<1>3. 0 .. n \subseteq G
  BY <1>1, <1>2, UpTo
<1>4. QED BY <1>3 DEF G

LEMMA BitIs ==
  ASSUME NEW x \in Nat, NEW k \in Nat
  PROVE  Bit(x, k) \in 0 .. 1 /\ x \div Pow[k] \in Nat
<1> DEFINE p == Pow[k]
           d == x \div p
<1>1. p \in Nat /\ p > 0
  BY PowIs
<1> HIDE DEF p
<1>2. d \in Nat
  BY <1>1
<1> HIDE DEF d
<1>3. d % 2 \in 0 .. 1
  BY <1>2
<1>4. QED BY <1>2, <1>3 DEF Bit, d, p

LEMMA MirroredIs ==
  ASSUME NEW x \in Nat, NEW n \in Nat, NEW q, Mirrored(x, n, q)
  PROVE  /\ q[0] = 0 /\ \A k \in 1 .. n : q[k] = 2 * q[k - 1] + Bit(x, k - 1)
         /\ \A k \in 0 .. n : q[k] \in Half(k)
<1>1. q[0] = 0 /\ \A k \in 1 .. n : q[k] = 2 * q[k - 1] + Bit(x, k - 1)
  BY DEF Mirrored
<1> DEFINE G == {k \in Nat : q[k] \in Half(k)}
<1>2. 0 \in G
  BY <1>1, PowIs DEF Half
<1>3. ASSUME NEW k \in 1 .. n, k - 1 \in G PROVE k \in G
  <2> DEFINE p == Pow[k - 1]
             y == q[k - 1]
             b == Bit(x, k - 1)
  <2>1. k - 1 \in Nat /\ k \in Nat /\ (k - 1) + 1 = k
    OBVIOUS
  <2>2. /\ p \in Nat /\ Pow[k] = 2 * p /\ y \in 0 .. p - 1 /\ b \in 0 .. 1
        /\ q[k] = 2 * y + b
    BY <1>1, <1>3, <2>1, PowIs, BitIs DEF Half
  <2> HIDE DEF p, y, b
  <2>3. QED BY <2>1, <2>2 DEF Half
<1> HIDE DEF G
<1>4. 0 .. n \subseteq G
  BY <1>2, <1>3, UpTo
<1>5. QED BY <1>1, <1>4 DEF G

\* The loop of bit_reverse_m, which puts each bit where it belongs.
Reversing(x, m, f) ==
  f = [k \in 0 .. m |-> IF k = 0 THEN 0
                        ELSE f[k - 1] + ((x \div Pow[k - 1]) % 2) * Pow[m - k]]

\* After k bits it has the mirrored number of k bits, shifted to the left.
LEMMA ReverseIs ==
  ASSUME NEW x \in Nat, NEW m \in Nat, NEW q, Mirrored(x, m, q)
  PROVE  Reverse(x, m) = q[m]
<1> DEFINE g == [k \in 0 .. m |-> q[k] * Pow[m - k]]
<1>1. /\ q[0] = 0 /\ \A k \in 1 .. m : q[k] = 2 * q[k - 1] + Bit(x, k - 1)
      /\ \A k \in 0 .. m : q[k] \in Half(k)
  BY MirroredIs
<1>2. ASSUME NEW k \in 1 .. m
      PROVE  q[k] * Pow[m - k] = q[k - 1] * Pow[m - (k - 1)] + Bit(x, k - 1) * Pow[m - k]
  <2> DEFINE p == Pow[m - k]
             y == q[k - 1]
             b == Bit(x, k - 1)
  <2>1. m - k \in Nat /\ (m - k) + 1 = m - (k - 1) /\ k - 1 \in Nat /\ k - 1 \in 0 .. m
    OBVIOUS
  <2>2. p \in Nat /\ Pow[m - (k - 1)] = 2 * p /\ b \in 0 .. 1
    BY <2>1, PowIs, BitIs
  <2>3. Pow[k - 1] \in Nat /\ y \in 0 .. Pow[k - 1] - 1
    BY <1>1, <2>1, PowIs DEF Half
  <2>4. y \in Nat /\ q[k] = 2 * y + b
    BY <1>1, <2>3
  <2> HIDE DEF p, y, b
  <2>5. (2 * y + b) * p = y * (2 * p) + b * p
    BY <2>2, <2>4
  <2>6. QED BY <2>2, <2>4, <2>5 DEF p, y, b
<1>3. Reversing(x, m, g)
  <2>1. g[0] = 0
    <3>1. 0 \in 0 .. m /\ m - 0 \in Nat
      OBVIOUS
    <3>2. Pow[m - 0] \in Nat
      BY <3>1, PowIs
    <3>3. 0 * Pow[m - 0] = 0
      BY <3>2
    <3>4. QED BY <1>1, <3>1, <3>3
  <2>2. ASSUME NEW k \in 1 .. m
        PROVE  g[k] = g[k - 1] + ((x \div Pow[k - 1]) % 2) * Pow[m - k]
    <3>1. k - 1 \in 0 .. m /\ k \in 0 .. m
      OBVIOUS
    <3>2. g[k] = q[k] * Pow[m - k] /\ g[k - 1] = q[k - 1] * Pow[m - (k - 1)]
      BY <3>1
    <3> HIDE DEF g
    <3>3. QED BY <1>2, <3>2 DEF Bit
  <2>3. g = [k \in 0 .. m |-> g[k]]
    OBVIOUS
  <2> HIDE DEF g
  <2>4. \A k \in 0 .. m : g[k] = IF k = 0 THEN 0
                                 ELSE g[k - 1] + ((x \div Pow[k - 1]) % 2) * Pow[m - k]
    <3>1. \A k \in 0 .. m : k # 0 => k \in 1 .. m
      OBVIOUS
    <3>2. QED BY <2>1, <2>2, <3>1
  <2>5. QED BY <2>3, <2>4 DEF Reversing
<1> HIDE DEF g
<1> DEFINE rev[k \in 0 .. m] ==
             IF k = 0 THEN 0 ELSE rev[k - 1] + ((x \div Pow[k - 1]) % 2) * Pow[m - k]
<1>4. rev = CHOOSE f : Reversing(x, m, f)
  BY DEF Reversing
<1>5. Reversing(x, m, rev)
  BY <1>3, <1>4
<1>6. Reverse(x, m) = rev[m]
  BY DEF Reverse
<1> HIDE DEF rev
<1>7. \A k \in 0 .. m : rev[k] = IF k = 0 THEN 0 ELSE rev[k - 1] + Bit(x, k - 1) * Pow[m - k]
  BY <1>5 DEF Reversing, Bit
<1> DEFINE G == {k \in Nat : rev[k] = q[k] * Pow[m - k]}
<1>8. 0 \in G
  <2>1. Pow[m - 0] \in Nat
    <3>1. m - 0 \in Nat
      OBVIOUS
    <3>2. QED BY <3>1, PowIs
  <2>2. 0 * Pow[m - 0] = 0
    BY <2>1
  <2>3. QED BY <1>1, <1>7, <2>2
<1>9. ASSUME NEW k \in 1 .. m, k - 1 \in G PROVE k \in G
  <2>1. rev[k] = rev[k - 1] + Bit(x, k - 1) * Pow[m - k] /\ k \in Nat
    BY <1>7
  <2>2. rev[k - 1] = q[k - 1] * Pow[m - (k - 1)]
    BY <1>9
  <2>3. QED BY <1>2, <2>1, <2>2
<1> HIDE DEF G
<1>10. 0 .. m \subseteq G
  BY <1>8, <1>9, UpTo
<1>11. rev[m] = q[m] * Pow[m - m]
  BY <1>10 DEF G
<1>12. Pow[m - m] = 1 /\ q[m] \in Int
  <2>1. m - m = 0 /\ m \in 0 .. m
    OBVIOUS
  <2>2. Pow[m] \in Nat /\ q[m] \in Half(m)
    BY <1>1, <2>1, PowIs
  <2>3. QED BY <2>1, <2>2, PowIs DEF Half
<1> DEFINE z == q[m]
<1>13. rev[m] = z * 1 /\ z \in Int
  BY <1>11, <1>12
<1> HIDE DEF z
<1>14. rev[m] = z
  BY <1>13
<1>15. QED BY <1>6, <1>14 DEF z

\* One bit less.
LEMMA Halved ==
  ASSUME NEW x \in Nat, NEW k \in Nat
  PROVE  x \div Pow[k] = 2 * (x \div Pow[k + 1]) + Bit(x, k)
<1> DEFINE p == Pow[k]
           c == x \div p
           r == x % p
           h == c \div 2
           b == c % 2
<1>1. p \in Nat /\ p > 0 /\ Pow[k + 1] = 2 * p
  BY PowIs
<1> HIDE DEF p
<1>2. c \in Nat /\ r \in 0 .. p - 1 /\ x = c * p + r
  <2>1. c \in Nat
    BY <1>1
  <2>2. QED BY <1>1, <2>1, Division
<1> HIDE DEF c, r
<1>3. h \in Nat /\ b \in 0 .. 1 /\ c = 2 * h + b
  BY <1>2
<1> HIDE DEF h, b
<1>4. b * p + r \in 0 .. (2 * p) - 1
  BY <1>1, <1>2, <1>3
<1>5. x = h * (2 * p) + (b * p + r)
  <2>1. (2 * h + b) * p = h * (2 * p) + b * p
    BY <1>1, <1>3
  <2>2. b * p \in Int /\ h * (2 * p) \in Int /\ r \in Int
    BY <1>1, <1>2, <1>3
  <2>3. QED BY <1>2, <1>3, <2>1, <2>2
<1> DEFINE p2 == 2 * p
           e  == b * p + r
<1>6. p2 \in Nat /\ p2 > 0 /\ e \in 0 .. p2 - 1 /\ x = h * p2 + e /\ h \in Int /\ x \in Int
  BY <1>1, <1>3, <1>4, <1>5
<1> HIDE DEF p2, e
<1>7. x \div p2 = h
  BY <1>6, DivisionIs
<1>8. QED BY <1>1, <1>3, <1>7 DEF Bit, b, c, p, p2

\* The bits of the mirrored number are those of x from the other end.
LEMMA MirroredBits ==
  ASSUME NEW x \in Nat, NEW m \in Nat, NEW q, Mirrored(x, m, q)
  PROVE  \A j \in 1 .. m : Bit(q[m], j - 1) = Bit(x, m - j)
<1> DEFINE y == q[m]
<1>1. /\ \A k \in 1 .. m : q[k] = 2 * q[k - 1] + Bit(x, k - 1)
      /\ \A k \in 0 .. m : q[k] \in Nat
  <2>1. ASSUME NEW k \in 0 .. m PROVE q[k] \in Nat
    <3>1. q[k] \in 0 .. Pow[k] - 1 /\ Pow[k] \in Nat
      BY MirroredIs, PowIs DEF Half
    <3>2. QED BY <3>1
  <2>2. QED BY <2>1, MirroredIs
<1>2. y \in Nat
  BY <1>1
<1> HIDE DEF y
<1> DEFINE G == {j \in Nat : y \div Pow[j] = q[m - j]}
<1>3. 0 \in G
  <2>1. m - 0 = m /\ y \div 1 = y
    BY <1>2
  <2>2. QED BY <2>1, PowIs DEF y
<1>4. ASSUME NEW j \in 1 .. m, j - 1 \in G
      PROVE  y \div Pow[j] = q[m - j] /\ Bit(y, j - 1) = Bit(x, m - j)
  <2> DEFINE half == y \div Pow[j]
             z    == q[m - j]
             b    == Bit(y, j - 1)
             c    == Bit(x, m - j)
  <2>1. /\ j - 1 \in Nat /\ (j - 1) + 1 = j /\ j \in Nat /\ m - j \in Nat /\ m - j \in 0 .. m
        /\ m - (j - 1) \in 1 .. m /\ (m - (j - 1)) - 1 = m - j
    OBVIOUS
  <2>2. y \div Pow[j - 1] = q[m - (j - 1)]
    BY <1>4
  <2>3. q[m - (j - 1)] = 2 * z + c
    <3>1. q[m - (j - 1)] = 2 * q[(m - (j - 1)) - 1] + Bit(x, (m - (j - 1)) - 1)
      BY <1>1, <2>1
    <3>2. QED BY <2>1, <3>1
  <2>4. y \div Pow[j - 1] = 2 * half + b
    <3>1. y \div Pow[j - 1] = 2 * (y \div Pow[(j - 1) + 1]) + Bit(y, j - 1)
      BY <1>2, <2>1, Halved
    <3>2. QED BY <2>1, <3>1
  <2>5. half \in Nat /\ z \in Nat /\ b \in 0 .. 1 /\ c \in 0 .. 1
    BY <1>1, <1>2, <2>1, BitIs
  <2> HIDE DEF half, z, b, c
  <2>6. half = z /\ b = c
    BY <2>2, <2>3, <2>4, <2>5
  <2>7. QED BY <2>6 DEF half, z, b, c
<1>5. ASSUME NEW j \in 1 .. m, j - 1 \in G PROVE j \in G
  BY <1>4, <1>5
<1> HIDE DEF G
<1>6. 0 .. m \subseteq G
  BY <1>3, <1>5, UpTo
<1>7. ASSUME NEW j \in 1 .. m PROVE Bit(y, j - 1) = Bit(x, m - j)
  <2>1. j - 1 \in 0 .. m
    OBVIOUS
  <2>2. j - 1 \in G
    BY <1>6, <2>1
  <2>3. QED BY <1>4, <2>2
<1>8. QED BY <1>7 DEF y

\* bit_reverse_m, applied twice, gives back a number of m bits.
LEMMA ReverseTwice ==
  ASSUME NEW m \in Nat, NEW x \in Half(m)
  PROVE  Reverse(x, m) \in Half(m) /\ Reverse(Reverse(x, m), m) = x
<1>1. x \in Nat /\ x < Pow[m] /\ Pow[m] \in Nat /\ Pow[m] > 0
  <2>1. Pow[m] \in Nat /\ Pow[m] > 0 /\ x \in 0 .. Pow[m] - 1
    BY PowIs DEF Half
  <2>2. QED BY <2>1
<1>2. PICK q : Mirrored(x, m, q)
  BY MirroredExists
<1> DEFINE y == q[m]
<1>3. Reverse(x, m) = y /\ y \in Half(m)
  BY <1>1, <1>2, ReverseIs, MirroredIs
<1>4. \A j \in 1 .. m : Bit(y, j - 1) = Bit(x, m - j)
  BY <1>1, <1>2, MirroredBits
<1> HIDE DEF y
<1>5. y \in Nat
  BY <1>1, <1>3 DEF Half
<1>6. PICK w : Mirrored(y, m, w)
  BY MirroredExists
<1>7. Reverse(y, m) = w[m]
  BY <1>5, <1>6, ReverseIs
<1>8. w[0] = 0 /\ \A k \in 1 .. m : w[k] = 2 * w[k - 1] + Bit(y, k - 1)
  BY <1>5, <1>6, MirroredIs
<1> DEFINE G == {k \in Nat : w[k] = x \div Pow[m - k]}
<1>9. 0 \in G
  <2> DEFINE p == Pow[m]
  <2>1. p \in Nat /\ p > 0 /\ x \in Int /\ x \in 0 .. p - 1 /\ x = 0 * p + x
    BY <1>1
  <2> HIDE DEF p
  <2>2. x \div p = 0
    BY <2>1, DivisionIs
  <2>3. m - 0 = m
    OBVIOUS
  <2>4. QED BY <1>8, <2>2, <2>3 DEF p
<1>10. ASSUME NEW k \in 1 .. m, k - 1 \in G PROVE k \in G
  <2>1. m - k \in Nat /\ (m - k) + 1 = m - (k - 1) /\ k \in Nat
    OBVIOUS
  <2>2. w[k - 1] = x \div Pow[m - (k - 1)]
    BY <1>10
  <2>3. w[k] = 2 * w[k - 1] + Bit(y, k - 1) /\ Bit(y, k - 1) = Bit(x, m - k)
    BY <1>4, <1>8
  <2>4. x \div Pow[m - k] = 2 * (x \div Pow[(m - k) + 1]) + Bit(x, m - k)
    BY <1>1, <2>1, Halved
  <2>5. w[k] = x \div Pow[m - k]
    BY <2>1, <2>2, <2>3, <2>4
  <2>6. QED BY <2>1, <2>5
<1> HIDE DEF G
<1>11. 0 .. m \subseteq G
  BY <1>9, <1>10, UpTo
<1>12. w[m] = x \div Pow[m - m] /\ m - m = 0 /\ x \div 1 = x
  BY <1>1, <1>11 DEF G
<1>13. QED BY <1>3, <1>7, <1>12, PowIs

-----------------------------------------------------------------------------
(***************************************************************************)
(* The two halves of a message.                                            *)
(***************************************************************************)
\* The widths alternate, and start and end alike.
LEMMA Widths ==
  /\ U \in Nat /\ V \in Nat /\ Half(V) \subseteq Half(U)
  /\ \A r \in Int : Width(r) \in {U, V} /\ Width(r) \in Nat
  /\ \A r \in Int : Width(r + 1) = Other(r) /\ Other(r + 1) = Width(r)
  /\ Width(0) = U /\ Other(0) = V /\ Width(Rounds) = U /\ Other(Rounds) = V
  /\ 0 \in Half(U) /\ 0 \in Half(V)
<1>1. U \in Nat /\ V \in Nat /\ U \in {V, V + 1} /\ Rounds \in Nat /\ Rounds % 2 = 0
  BY Ff3Assumption
<1>2. \A r \in Int : Width(r) \in {U, V} /\ Width(r) \in Nat
  BY <1>1 DEF Width
<1>3. Half(V) \subseteq Half(U)
  <2>1. Pow[V] \in Nat /\ Pow[V + 1] = 2 * Pow[V]
    BY <1>1, PowIs
  <2>2. Pow[U] = Pow[V] \/ Pow[U] = 2 * Pow[V]
    BY <1>1, <2>1
  <2>3. QED BY <2>1, <2>2 DEF Half
<1>4. ASSUME NEW r \in Int PROVE Width(r + 1) = Other(r) /\ Other(r + 1) = Width(r)
  <2>1. r % 2 \in {0, 1} /\ ((r + 1) % 2 = 0 <=> r % 2 # 0)
    OBVIOUS
  <2>2. QED BY <2>1 DEF Width, Other
<1>5. 0 % 2 = 0
  OBVIOUS
<1>6. 0 \in Half(U) /\ 0 \in Half(V)
  <2>1. Pow[U] \in Nat /\ Pow[V] \in Nat /\ Pow[U] > 0 /\ Pow[V] > 0
    BY <1>1, PowIs
  <2>2. QED BY <2>1 DEF Half
<1>7. QED BY <1>1, <1>2, <1>3, <1>4, <1>5, <1>6 DEF Width, Other

\* A message is the pair of its halves.
LEMMA HalvesOf ==
  ASSUME NEW x \in Message
  PROVE  Left(x) \in Half(U) /\ Right(x) \in Half(V) /\ Join(Left(x), Right(x)) = x
<1> DEFINE p == Pow[V]
           h == x \div p
           l == x % p
<1>1. /\ p \in Nat /\ p > 0 /\ Pow[U] \in Nat /\ Pow[U + V] = Pow[U] * p
      /\ U \in Nat /\ V \in Nat
  BY Widths, PowIs, PowSum
<1>2. x \in Nat /\ x < Pow[U] * p
  BY <1>1 DEF Message, Half
<1> HIDE DEF p
<1>3. h \in Nat /\ l \in 0 .. p - 1 /\ x = h * p + l
  <2>1. h \in Nat
    BY <1>1, <1>2
  <2>2. QED BY <1>1, <1>2, <2>1, Division
<1> HIDE DEF h, l
<1>4. h < Pow[U]
  <2> DEFINE u == Pow[U]
  <2>1. u \in Nat /\ x < u * p
    BY <1>1, <1>2
  <2> HIDE DEF u
  <2>2. h >= u => h * p >= u * p
    BY <1>1, <1>3, <2>1
  <2>3. h < u
    BY <1>1, <1>3, <2>1, <2>2
  <2>4. QED BY <2>3 DEF u
<1>5. h \in Half(U) /\ l \in Half(V)
  BY <1>1, <1>3, <1>4 DEF Half, p
<1>6. Left(x) = Reverse(h, U) /\ Right(x) = Reverse(l, V)
  BY DEF Left, Right, h, l, p
<1>7. /\ Left(x) \in Half(U) /\ Reverse(Left(x), U) = h
      /\ Right(x) \in Half(V) /\ Reverse(Right(x), V) = l
  BY <1>1, <1>5, <1>6, ReverseTwice
<1>8. Join(Left(x), Right(x)) = h * p + l
  BY <1>7 DEF Join, p
<1>9. QED BY <1>3, <1>7, <1>8

\* And what two halves are joined to is split into them.
LEMMA JoinOf ==
  ASSUME NEW a \in Half(U), NEW b \in Half(V)
  PROVE  Join(a, b) \in Message /\ Left(Join(a, b)) = a /\ Right(Join(a, b)) = b
<1> DEFINE p == Pow[V]
           u == Pow[U]
           h == Reverse(a, U)
           l == Reverse(b, V)
           x == h * p + l
<1>1. /\ p \in Nat /\ p > 0 /\ u \in Nat /\ u > 0 /\ Pow[U + V] = u * p
      /\ U \in Nat /\ V \in Nat
  BY Widths, PowIs, PowSum
<1>2. /\ h \in Half(U) /\ Reverse(h, U) = a
      /\ l \in Half(V) /\ Reverse(l, V) = b
  BY <1>1, ReverseTwice
<1>3. h \in 0 .. u - 1 /\ l \in 0 .. p - 1
  BY <1>2 DEF Half
<1>4. Join(a, b) = x
  BY DEF Join
<1> HIDE DEF p, u, h, l
<1>5. x \in Nat /\ x < u * p
  <2>1. h + 1 <= u /\ (h + 1) * p = h * p + p /\ h * p \in Nat
    BY <1>1, <1>3
  <2>2. (h + 1) * p <= u * p
    BY <1>1, <1>3, <2>1
  <2>3. u * p \in Nat
    BY <1>1
  <2>4. QED BY <1>1, <1>3, <2>1, <2>2, <2>3
<1>6. x \div p = h /\ x % p = l
  <2>1. x \in Int /\ h \in Int /\ x = h * p + l
    BY <1>3, <1>5
  <2> HIDE DEF x
  <2>2. QED BY <1>1, <1>3, <2>1, DivisionIs
<1> HIDE DEF x
<1>7. x \in Message
  BY <1>1, <1>5 DEF Message, Half
<1>8. Left(x) = a /\ Right(x) = b
  BY <1>2, <1>6 DEF Left, Right, p
<1>9. QED BY <1>4, <1>7, <1>8

-----------------------------------------------------------------------------
(***************************************************************************)
(* The inductive invariant: the rounds so far, and the widths of the       *)
(* halves between them.                                                    *)
(***************************************************************************)

\* The halves after each of n rounds on message x, with the functions f.
Passed(f, x, n, tr) ==
  /\ tr[0] = <<Left(x), Right(x)>>
  /\ \A j \in 0 .. n : tr[j] \in Half(Width(j)) \X Half(Other(j))
  /\ \A j \in 1 .. n :
       tr[j] = <<tr[j - 1][2], (f[j - 1][tr[j - 1][2]] + tr[j - 1][1]) % Pow[Width(j - 1)]>>

Encrypting ==
  /\ mode \in {"encrypt", "encrypted"} =>
       i \in 0 .. Rounds /\ \E tr : Passed(aes, input, i, tr) /\ tr[i] = <<A, B>>
  /\ mode = "encrypted" => i = Rounds /\ text = Join(A, B)

Decrypting ==
  mode = "decrypt" => i \in -1 .. Rounds - 1 /\ A \in Half(Other(i)) /\ B \in Half(Width(i))

IInv == TypeOK /\ aes \in Ciphers /\ Encrypting /\ Decrypting

\* What AES gives is cut to the width of the half it is added to.
LEMMA CipherIs ==
  ASSUME aes \in Ciphers, NEW r \in 0 .. Rounds - 1, NEW x \in Half(U)
  PROVE  aes[r][x] \in Half(Width(r))
  BY DEF Ciphers

LEMMA WidthInHalf ==
  ASSUME NEW r \in Int
  PROVE  /\ Half(Width(r)) \subseteq Half(U) /\ Half(Other(r)) \subseteq Half(U)
         /\ Pow[Width(r)] \in Nat /\ Pow[Width(r)] > 0
<1>1. Width(r) \in {U, V} /\ Other(r) \in {U, V}
  BY DEF Width, Other
<1>2. QED BY <1>1, Widths, PowIs

LEMMA ModuloIs ==
  ASSUME NEW r \in Int, NEW x \in Int
  PROVE  x % Pow[Width(r)] \in Half(Width(r))
<1> DEFINE p == Pow[Width(r)]
<1>1. p \in Nat /\ p > 0
  BY WidthInHalf
<1> HIDE DEF p
<1>2. x % p \in 0 .. p - 1
  BY <1>1
<1>3. QED BY <1>2 DEF Half, p

LEMMA HalfIsInt == \A m \in Nat : Half(m) \subseteq Int
  BY DEF Half

\* What a round adds, its inverse takes away.
LEMMA RoundBack ==
  ASSUME NEW r \in Int, NEW a \in Half(Width(r)), NEW c \in Int
  PROVE  (((c + a) % Pow[Width(r)]) - c) % Pow[Width(r)] = a
<1> DEFINE p == Pow[Width(r)]
           d == (c + a) \div p
           e == (c + a) % p
<1>1. p \in Nat /\ p > 0 /\ a \in 0 .. p - 1
  BY WidthInHalf DEF Half
<1> HIDE DEF p
<1>2. c + a \in Int
  BY <1>1
<1>3. d \in Int /\ e \in 0 .. p - 1 /\ c + a = d * p + e
  BY <1>1, <1>2, Division
<1> HIDE DEF d, e
<1>4. e - c = (- d) * p + a /\ e - c \in Int /\ - d \in Int
  <2>1. (- d) * p = - (d * p) /\ d * p \in Int
    BY <1>1, <1>3
  <2>2. QED BY <1>1, <1>3, <2>1
<1> DEFINE y == e - c
           n == - d
<1>5. y \in Int /\ n \in Int /\ y = n * p + a
  BY <1>4
<1> HIDE DEF y, n
<1>6. y % p = a
  BY <1>1, <1>5, DivisionIs
<1>7. QED BY <1>6 DEF y, e, p

LEMMA InitIInv == Init => IInv
<1> SUFFICES ASSUME Init PROVE IInv
  OBVIOUS
<1>1. /\ aes \in Ciphers /\ input \in Message /\ mode = "encrypt"
      /\ A = Left(input) /\ B = Right(input) /\ i = 0 /\ block = 0 /\ text = 0
  BY DEF Init
<1>2. A \in Half(U) /\ B \in Half(V)
  BY <1>1, HalvesOf
<1>3. 0 \in Half(U) /\ Half(V) \subseteq Half(U) /\ Rounds \in Nat /\ U \in Nat /\ V \in Nat
  BY Widths, Ff3Assumption
<1>4. 0 \in Message
  <2>1. U + V \in Nat
    BY <1>3
  <2>2. Pow[U + V] \in Nat /\ Pow[U + V] > 0
    BY <2>1, PowIs
  <2>3. QED BY <2>2 DEF Message, Half
<1>5. TypeOK
  BY <1>1, <1>2, <1>3, <1>4 DEF TypeOK
<1>6. Encrypting
  <2> DEFINE tr == [j \in 0 .. 0 |-> <<A, B>>]
  <2>1. tr[0] = <<A, B>> /\ tr[i] = <<A, B>>
    BY <1>1
  <2> HIDE DEF tr
  <2>2. \A j \in 0 .. 0 : tr[j] \in Half(Width(j)) \X Half(Other(j))
    BY <1>2, <2>1, Widths
  <2>3. Passed(aes, input, i, tr)
    BY <1>1, <2>1, <2>2 DEF Passed
  <2>4. QED BY <1>1, <1>3, <2>1, <2>3 DEF Encrypting
<1>7. QED BY <1>1, <1>5, <1>6 DEF IInv, Decrypting

LEMMA EncryptRoundIInv == ASSUME IInv, EncryptRound PROVE IInv'
<1> DEFINE b == (aes[i][B] + A) % Pow[Width(i)]
<1>1. /\ mode = "encrypt" /\ mode' = mode /\ i \in 0 .. Rounds - 1 /\ i' = i + 1
      /\ block' = B /\ A' = B /\ B' = b
      /\ aes' = aes /\ input' = input /\ text' = text
      /\ TypeOK /\ aes \in Ciphers
  BY Ff3Assumption DEF EncryptRound, IInv, Encrypting
<1>2. PICK tr : Passed(aes, input, i, tr) /\ tr[i] = <<A, B>>
  BY <1>1 DEF IInv, Encrypting
<1>3. A \in Half(Width(i)) /\ B \in Half(Other(i))
  <2>1. tr[i] \in Half(Width(i)) \X Half(Other(i))
    BY <1>1, <1>2 DEF Passed
  <2>2. QED BY <1>2, <2>1
<1>4. i \in Int /\ i + 1 \in Int /\ i + 1 \in 0 .. Rounds
  BY <1>1, Ff3Assumption
<1>5. b \in Half(Width(i)) /\ b \in Half(U) /\ B \in Half(U)
  <2>1. B \in Half(U) /\ Half(Width(i)) \subseteq Half(U)
    BY <1>3, <1>4, WidthInHalf
  <2>2. aes[i][B] \in Half(Width(i))
    BY <1>1, <2>1, CipherIs
  <2>3. Width(i) \in Nat
    BY <1>4, Widths
  <2> DEFINE c == aes[i][B]
  <2>4. c \in Int /\ A \in Int
    BY <1>3, <2>2, <2>3, HalfIsInt
  <2> HIDE DEF c
  <2>5. c + A \in Int
    BY <2>4
  <2>6. b \in Half(Width(i))
    BY <1>4, <2>5, ModuloIs DEF c
  <2>7. QED BY <2>1, <2>6
<1> HIDE DEF b
<1>6. TypeOK'
  BY <1>1, <1>4, <1>5 DEF TypeOK
<1>7. Encrypting'
  <2> DEFINE n == i + 1
             new == [j \in 0 .. n |-> IF j = n THEN <<B, b>> ELSE tr[j]]
  <2>1. new[n] = <<B, b>> /\ \A j \in 0 .. i : new[j] = tr[j] /\ j \in 0 .. n
    BY <1>1
  <2> HIDE DEF new
  <2>2. new[0] = <<Left(input), Right(input)>>
    BY <1>1, <1>2, <2>1 DEF Passed
  <2>3. \A j \in 0 .. n : new[j] \in Half(Width(j)) \X Half(Other(j))
    <3>1. new[n] \in Half(Width(n)) \X Half(Other(n))
      <4>1. Width(n) = Other(i) /\ Other(n) = Width(i)
        BY <1>4, Widths
      <4>2. QED BY <1>3, <1>5, <2>1, <4>1
    <3>2. \A j \in 0 .. i : new[j] \in Half(Width(j)) \X Half(Other(j))
      BY <1>2, <2>1 DEF Passed
    <3>3. \A j \in 0 .. n : j = n \/ j \in 0 .. i
      BY <1>1
    <3>4. QED BY <3>1, <3>2, <3>3
  <2>4. \A j \in 1 .. n :
          new[j] = <<new[j - 1][2],
                     (aes[j - 1][new[j - 1][2]] + new[j - 1][1]) % Pow[Width(j - 1)]>>
    <3>1. ASSUME NEW j \in 1 .. n, j # n
          PROVE  new[j] = <<new[j - 1][2],
                            (aes[j - 1][new[j - 1][2]] + new[j - 1][1]) % Pow[Width(j - 1)]>>
      <4>1. j \in 1 .. i /\ j \in 0 .. i /\ j - 1 \in 0 .. i
        BY <1>1, <3>1
      <4>2. new[j] = tr[j] /\ new[j - 1] = tr[j - 1]
        BY <2>1, <4>1
      <4>3. QED BY <1>2, <4>1, <4>2 DEF Passed
    <3>2. new[n] = <<new[n - 1][2],
                     (aes[n - 1][new[n - 1][2]] + new[n - 1][1]) % Pow[Width(n - 1)]>>
      <4>1. n - 1 = i /\ i \in 0 .. i
        BY <1>1
      <4>2. new[n - 1] = <<A, B>>
        BY <1>2, <2>1, <4>1
      <4>3. QED BY <2>1, <4>1, <4>2 DEF b
    <3>3. QED BY <3>1, <3>2
  <2>5. Passed(aes', input', i', new) /\ new[i'] = <<A', B'>>
    BY <1>1, <2>1, <2>2, <2>3, <2>4 DEF Passed
  <2>6. QED BY <1>1, <1>4, <2>5 DEF Encrypting
<1>8. QED BY <1>1, <1>6, <1>7 DEF IInv, Decrypting

LEMMA EncryptDoneIInv == ASSUME IInv, EncryptDone PROVE IInv'
<1>1. /\ mode = "encrypt" /\ mode' = "encrypted" /\ i = Rounds /\ i' = i
      /\ text' = Join(A, B) /\ A' = A /\ B' = B
      /\ aes' = aes /\ input' = input /\ block' = block
      /\ TypeOK /\ aes \in Ciphers
  BY DEF EncryptDone, IInv
<1>2. PICK tr : Passed(aes, input, i, tr) /\ tr[i] = <<A, B>>
  BY <1>1 DEF IInv, Encrypting
<1>3. A \in Half(U) /\ B \in Half(V)
  <2>1. i \in 0 .. i
    BY <1>1, Ff3Assumption
  <2>2. tr[i] \in Half(Width(i)) \X Half(Other(i))
    BY <1>2, <2>1 DEF Passed
  <2>3. QED BY <1>1, <1>2, <2>2, Widths
<1>4. text' \in Message
  BY <1>1, <1>3, JoinOf
<1>5. TypeOK'
  BY <1>1, <1>4 DEF TypeOK
<1>6. Encrypting'
  <2>1. Passed(aes', input', i', tr) /\ tr[i'] = <<A', B'>>
    BY <1>1, <1>2 DEF Passed
  <2>2. i' \in 0 .. Rounds
    BY <1>1, Ff3Assumption
  <2>3. QED BY <1>1, <2>1, <2>2 DEF Encrypting
<1>7. QED BY <1>1, <1>5, <1>6 DEF IInv, Decrypting

LEMMA DecryptIInv ==
  ASSUME IInv, DecryptStart \/ DecryptRound \/ DecryptDone
  PROVE  IInv'
<1>0. TypeOK /\ aes \in Ciphers /\ Rounds \in Nat
  BY Ff3Assumption DEF IInv
<1>1. CASE DecryptStart
  <2>1. /\ mode' = "decrypt" /\ A' = Left(text) /\ B' = Right(text) /\ i' = Rounds - 1
        /\ aes' = aes /\ input' = input /\ block' = block /\ text' = text
    BY <1>1 DEF DecryptStart
  <2>2. A' \in Half(U) /\ B' \in Half(V)
    BY <1>0, <2>1, HalvesOf DEF TypeOK
  <2>3. Other(i') = U /\ Width(i') = V
    <3>1. Rounds - 1 \in Int /\ (Rounds - 1) + 1 = Rounds
      BY <1>0
    <3>2. Width(Rounds) = Other(Rounds - 1) /\ Other(Rounds) = Width(Rounds - 1)
      BY <3>1, Widths
    <3>3. QED BY <2>1, <3>2, Widths
  <2>4. i' \in -1 .. Rounds - 1 /\ i' \in -1 .. Rounds
    BY <1>0, <2>1
  <2>5. TypeOK'
    BY <1>0, <2>1, <2>2, <2>4, Widths DEF TypeOK
  <2>6. QED BY <1>0, <2>1, <2>2, <2>3, <2>4, <2>5 DEF IInv, Encrypting, Decrypting
<1>2. CASE DecryptRound
  <2>1. /\ mode = "decrypt" /\ mode' = mode /\ i >= 0 /\ i' = i - 1 /\ block' = 0
        /\ B' = A /\ A' = (B - aes[i][0]) % Pow[Width(i)]
        /\ aes' = aes /\ input' = input /\ text' = text
    BY <1>2 DEF DecryptRound
  <2>2. i \in 0 .. Rounds - 1 /\ A \in Half(Other(i)) /\ B \in Half(Width(i))
    BY <1>0, <2>1 DEF IInv, Decrypting
  <2>3. i - 1 \in Int /\ (i - 1) + 1 = i /\ i \in Int /\ i' \in -1 .. Rounds - 1 /\ i' \in -1 .. Rounds
    BY <1>0, <2>1, <2>2
  <2>4. Width(i) = Other(i - 1) /\ Other(i) = Width(i - 1)
    BY <2>3, Widths
  <2>5. A' \in Half(Width(i))
    <3>1. aes[i][0] \in Half(Width(i)) /\ Width(i) \in Nat
      BY <1>0, <2>2, <2>3, CipherIs, Widths
    <3> DEFINE c == aes[i][0]
    <3>2. c \in Int /\ B \in Int
      BY <2>2, <3>1, HalfIsInt
    <3> HIDE DEF c
    <3>3. B - c \in Int
      BY <3>2
    <3>4. QED BY <2>1, <2>3, <3>3, ModuloIs DEF c
  <2>6. A' \in Half(U) /\ B' \in Half(U)
    BY <2>1, <2>2, <2>3, <2>5, WidthInHalf
  <2>7. TypeOK'
    BY <1>0, <2>1, <2>3, <2>6, Widths DEF TypeOK
  <2>8. A' \in Half(Other(i')) /\ B' \in Half(Width(i'))
    BY <2>1, <2>2, <2>4, <2>5
  <2>9. QED BY <1>0, <2>1, <2>3, <2>7, <2>8 DEF IInv, Encrypting, Decrypting
<1>3. CASE DecryptDone
  <2>1. /\ mode = "decrypt" /\ i < 0 /\ mode' = "decrypted" /\ text' = Join(A, B)
        /\ aes' = aes /\ input' = input /\ A' = A /\ B' = B /\ i' = i /\ block' = block
    BY <1>3 DEF DecryptDone
  <2>2. i = -1 /\ A \in Half(Other(i)) /\ B \in Half(Width(i))
    BY <1>0, <2>1 DEF IInv, Decrypting
  <2>3. Other(-1) = U /\ Width(-1) = V
    <3>1. -1 \in Int /\ -1 + 1 = 0
      OBVIOUS
    <3>2. Width(-1 + 1) = Other(-1) /\ Other(-1 + 1) = Width(-1)
      BY <3>1, Widths
    <3>3. QED BY <3>1, <3>2, Widths
  <2>4. text' \in Message
    BY <2>1, <2>2, <2>3, JoinOf
  <2>5. TypeOK'
    BY <1>0, <2>1, <2>4 DEF TypeOK
  <2>6. QED BY <1>0, <2>1, <2>5 DEF IInv, Encrypting, Decrypting
<1>4. QED BY <1>1, <1>2, <1>3

LEMMA NextIInv == IInv /\ [Next]_vars => IInv'
<1> SUFFICES ASSUME IInv, [Next]_vars PROVE IInv'
  OBVIOUS
<1>1. CASE EncryptRound
  BY <1>1, EncryptRoundIInv
<1>2. CASE EncryptDone
  BY <1>2, EncryptDoneIInv
<1>3. CASE DecryptStart \/ DecryptRound \/ DecryptDone
  BY <1>3, DecryptIInv
<1>4. CASE UNCHANGED vars
  BY <1>4 DEF vars, IInv, TypeOK, Encrypting, Decrypting, Passed, Ciphers
<1>5. QED BY <1>1, <1>2, <1>3, <1>4 DEF Next

LEMMA SpecIInv == Spec => []IInv
  BY InitIInv, NextIInv, PTL DEF Spec

-----------------------------------------------------------------------------
\* For any length of the message, any even number of rounds and any round
\* functions, the halves keep their widths, and the texts theirs, in
\* ff3_encrypt and in ff3_decrypt.
THEOREM TypeCorrect == Spec => []TypeOK
<1>1. IInv => TypeOK
  BY DEF IInv
<1>2. QED BY SpecIInv, <1>1, PTL

\* The rounds of the decryption of FF3, from the text y on.
Back(f, r, s) == <<(s[2] - f[r][s[1]]) % Pow[Width(r)], s[1]>>
Undone(f, y, n, st) ==
  st = [k \in 0 .. n |-> IF k = 0 THEN <<Left(y), Right(y)>> ELSE Back(f, n - k, st[k - 1])]

LEMMA UndoneIs ==
  ASSUME NEW f, NEW y, NEW n, NEW st, Undone(f, y, n, st)
  PROVE  \A k \in 0 .. n :
           st[k] = IF k = 0 THEN <<Left(y), Right(y)>> ELSE Back(f, n - k, st[k - 1])
  BY DEF Undone

LEMMA UndoIs ==
  ASSUME IInv, mode = "encrypted"
  PROVE  Undo(text) = input
<1>1. /\ aes \in Ciphers /\ input \in Message /\ i = Rounds /\ text = Join(A, B)
      /\ Rounds \in Nat
  BY Ff3Assumption DEF IInv, TypeOK, Encrypting
<1>2. PICK tr : Passed(aes, input, Rounds, tr) /\ tr[Rounds] = <<A, B>>
  BY <1>1 DEF IInv, Encrypting
<1>3. /\ tr[0] = <<Left(input), Right(input)>>
      /\ \A j \in 0 .. Rounds : tr[j] \in Half(Width(j)) \X Half(Other(j))
      /\ \A j \in 1 .. Rounds :
           tr[j] = <<tr[j - 1][2], (aes[j - 1][tr[j - 1][2]] + tr[j - 1][1]) % Pow[Width(j - 1)]>>
  BY <1>2 DEF Passed
<1>4. Left(text) = A /\ Right(text) = B
  <2>1. tr[Rounds] \in Half(Width(Rounds)) \X Half(Other(Rounds))
    BY <1>1, <1>3
  <2>2. A \in Half(U) /\ B \in Half(V)
    BY <1>2, <2>1, Widths
  <2>3. QED BY <1>1, <2>2, JoinOf
\* A step of Undo goes one round back.
<1>5. ASSUME NEW k \in 1 .. Rounds, NEW s, s = tr[Rounds - (k - 1)]
      PROVE  Back(aes, Rounds - k, s) = tr[Rounds - k]
  <2> DEFINE r == Rounds - k
             a == tr[r][1]
             b == tr[r][2]
             c == aes[r][b]
             p == Pow[Width(r)]
  <2>1. /\ r \in 0 .. Rounds - 1 /\ r \in 0 .. Rounds /\ r \in Int /\ r + 1 \in 1 .. Rounds
        /\ (r + 1) - 1 = r /\ Rounds - (k - 1) = r + 1
    BY <1>1
  <2>2. tr[r] \in Half(Width(r)) \X Half(Other(r))
    BY <1>3, <2>1
  <2>3. a \in Half(Width(r)) /\ b \in Half(Other(r)) /\ tr[r] = <<a, b>>
    BY <2>2
  <2>4. s = <<b, (c + a) % p>>
    <3>1. tr[r + 1] = <<tr[(r + 1) - 1][2],
                        (aes[(r + 1) - 1][tr[(r + 1) - 1][2]] + tr[(r + 1) - 1][1]) % Pow[Width((r + 1) - 1)]>>
      BY <1>3, <2>1
    <3>2. s = tr[r + 1]
      BY <1>5, <2>1
    <3>3. QED BY <2>1, <3>1, <3>2
  <2>5. c \in Int
    <3>1. b \in Half(U) /\ Width(r) \in Nat
      BY <2>1, <2>3, WidthInHalf, Widths
    <3>2. c \in Half(Width(r))
      BY <1>1, <2>1, <3>1, CipherIs
    <3>3. QED BY <3>1, <3>2, HalfIsInt
  <2>6. (((c + a) % p) - c) % p = a
    BY <2>1, <2>3, <2>5, RoundBack
  <2> HIDE DEF r, a, b, c, p
  <2>7. s[1] = b /\ s[2] = (c + a) % p
    BY <2>4
  <2>8. Back(aes, r, s) = <<(((c + a) % p) - c) % p, b>>
    BY <2>7 DEF Back, c, p
  <2>9. QED BY <2>3, <2>6, <2>8 DEF r
<1> DEFINE g == [k \in 0 .. Rounds |-> tr[Rounds - k]]
<1>6. Undone(aes, text, Rounds, g)
  <2>1. g[0] = <<Left(text), Right(text)>>
    <3>1. 0 \in 0 .. Rounds /\ Rounds - 0 = Rounds
      BY <1>1
    <3>2. QED BY <1>2, <1>4, <3>1
  <2>2. ASSUME NEW k \in 1 .. Rounds
        PROVE  g[k] = Back(aes, Rounds - k, g[k - 1])
    <3>1. k \in 0 .. Rounds /\ k - 1 \in 0 .. Rounds
      BY <1>1
    <3>2. g[k] = tr[Rounds - k] /\ g[k - 1] = tr[Rounds - (k - 1)]
      BY <3>1
    <3> HIDE DEF g
    <3>3. QED BY <1>5, <3>2
  <2>3. g = [k \in 0 .. Rounds |-> g[k]]
    OBVIOUS
  <2> HIDE DEF g
  <2>4. \A k \in 0 .. Rounds : k = 0 \/ k \in 1 .. Rounds
    BY <1>1
  <2>5. \A k \in 0 .. Rounds :
          g[k] = IF k = 0 THEN <<Left(text), Right(text)>>
                 ELSE Back(aes, Rounds - k, g[k - 1])
    BY <2>1, <2>2, <2>4
  <2>6. QED BY <2>3, <2>5 DEF Undone
<1> HIDE DEF g
<1> DEFINE rounds[k \in 0 .. Rounds] ==
             IF k = 0 THEN <<Left(text), Right(text)>>
             ELSE LET s == rounds[k - 1]
                      r == Rounds - k
                  IN  <<(s[2] - aes[r][s[1]]) % Pow[Width(r)], s[1]>>
<1>7. rounds = CHOOSE f : Undone(aes, text, Rounds, f)
  BY DEF Undone, Back
<1>8. Undone(aes, text, Rounds, rounds)
  BY <1>6, <1>7
<1>9. Undo(text) = Join(rounds[Rounds][1], rounds[Rounds][2])
  BY DEF Undo
<1> HIDE DEF rounds
<1>10. PICK st : Undone(aes, text, Rounds, st) /\ Undo(text) = Join(st[Rounds][1], st[Rounds][2])
  BY <1>8, <1>9
<1>11. \A k \in 0 .. Rounds :
         st[k] = IF k = 0 THEN <<Left(text), Right(text)>> ELSE Back(aes, Rounds - k, st[k - 1])
  BY <1>10, UndoneIs
<1> DEFINE G == {k \in Nat : st[k] = tr[Rounds - k]}
<1>12. 0 \in G
  <2>1. 0 \in 0 .. Rounds /\ Rounds - 0 = Rounds
    BY <1>1
  <2>2. QED BY <1>2, <1>4, <1>11, <2>1
<1>13. ASSUME NEW k \in 1 .. Rounds, k - 1 \in G PROVE k \in G
  <2>1. k \in 0 .. Rounds /\ k # 0 /\ k \in Nat
    BY <1>1
  <2>2. st[k - 1] = tr[Rounds - (k - 1)]
    BY <1>13
  <2>3. st[k] = Back(aes, Rounds - k, st[k - 1])
    BY <1>11, <2>1
  <2>4. st[k] = tr[Rounds - k]
    BY <1>5, <2>2, <2>3
  <2>5. QED BY <2>1, <2>4
<1> HIDE DEF G
<1>14. 0 .. Rounds \subseteq G
  BY <1>1, <1>12, <1>13, UpTo
<1>15. st[Rounds] = <<Left(input), Right(input)>>
  <2>1. Rounds \in 0 .. Rounds /\ Rounds - Rounds = 0
    BY <1>1
  <2>2. st[Rounds] = tr[Rounds - Rounds]
    BY <1>14, <2>1 DEF G
  <2>3. QED BY <1>3, <2>1, <2>2
<1>16. Join(Left(input), Right(input)) = input
  BY <1>1, HalvesOf
<1>17. QED BY <1>10, <1>15, <1>16

\* The encryption loses nothing: what undoes the rounds gives the message
\* back, for messages of any length, even or odd, any even number of rounds
\* and whatever AES computes.
THEOREM EncryptionIsReversible == Spec => []EncryptionReversible
<1>1. IInv => EncryptionReversible
  BY UndoIs DEF EncryptionReversible
<1>2. QED BY SpecIInv, <1>1, PTL
=============================================================================
