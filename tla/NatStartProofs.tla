--------------------------- MODULE NatStartProofs ---------------------------
(***************************************************************************)
(* Proofs about NatTable and NatStart, for octets of any number of values, *)
(* files of any prefixes of the three lengths, any command lines, any      *)
(* lcores, sockets and ports, any ciphers that are permutations and any    *)
(* packets.  First the table by itself, then the program on top of it.     *)
(*                                                                         *)
(* Prefixes of the three lengths share the numbers of the entries: those   *)
(* of a /8 are below Octet, those of a /16 below its square.  An address   *)
(* of a prefix that is not 0 has all its entries in the range of their     *)
(* length, so that an entry that ip_to_idx looks at is marked as a prefix  *)
(* only if it is one that has the address.                                 *)
(***************************************************************************)
EXTENDS NatStart, FiniteSetTheorems, SequenceTheorems, WellFoundedInduction, TLAPS

(***************************************************************************)
(* The inductive invariant, part by part.                                  *)
(***************************************************************************)

\* A file lists disjoint prefixes in their order.
Listing ==
  /\ lines \in Seq(Candidates)
  /\ \A n, k \in DOMAIN lines :
       n < k => lines[n] < lines[k] /\ Covers(lines[n]) \cap Covers(lines[k]) = {}

\* An entry is marked as a prefix when it is one of the file, and has its index.
\* (No address is looked up in entry 0.)
Marks ==
  /\ t = [q \in Slots |-> [prev |-> t[q].prev, next |-> t[q].next, index |-> t[q].index]]
  /\ \A n \in DOMAIN lines : t[lines[n]].prev = lines[n] /\ t[lines[n]].index = Before(n)
  /\ \A q \in Slots : q # 0 /\ t[q].prev = q => \E n \in DOMAIN lines : lines[n] = q

Ends ==
  /\ prev_idx = IF lines = <<>> THEN -1 ELSE Before(Len(lines))
  /\ loaded => lines # <<>> /\ MAX_PREFIX = PrevP + 1

IInv == Listing /\ Marks /\ Ends

(***************************************************************************)
(* Addresses and prefixes.                                                 *)
(***************************************************************************)

LEMMA Division ==
  ASSUME NEW x \in Nat, NEW s \in Nat, s > 0
  PROVE  /\ x \div s \in Nat /\ x % s \in 0 .. s - 1
         /\ x = (x \div s) * s + (x % s)
  OBVIOUS

\* The quotient is the number whose multiple is the last one up to x.
LEMMA Quotients ==
  ASSUME NEW x \in Nat, NEW s \in Nat, s > 0, NEW q \in Nat
  PROVE  /\ q * s <= x <=> q <= x \div s
         /\ q * s <= x /\ x <= q * s + s - 1 <=> x \div s = q
<1> DEFINE d == x \div s
<1>1. d \in Nat /\ d * s <= x /\ x < d * s + s
  BY Division
<1> HIDE DEF d
<1>2. q <= d => q * s <= d * s
  BY <1>1
<1>3. q >= d + 1 => q * s >= (d + 1) * s
  BY <1>1
<1>4. (d + 1) * s = d * s + s /\ q * s \in Int /\ d * s \in Int
  BY <1>1
<1>5. q <= d - 1 => q * s + s <= d * s
  <2>1. q <= d - 1 => (q + 1) * s <= d * s
    BY <1>1
  <2>2. (q + 1) * s = q * s + s
    OBVIOUS
  <2>3. QED BY <2>1, <2>2
<1>6. q * s <= x <=> q <= d
  BY <1>1, <1>2, <1>3, <1>4
<1>7. q * s <= x /\ x <= q * s + s - 1 <=> d = q
  BY <1>1, <1>2, <1>3, <1>4, <1>5
<1>8. QED BY <1>6, <1>7 DEF d

LEMMA Sizes ==
  /\ Size24 \in Nat /\ Size16 \in Nat /\ Size8 \in Nat
  /\ Size24 > 0 /\ Size16 > 0 /\ Size8 > 0
  /\ Octet \in Nat /\ Octet > 1 /\ Octet < Octet * Octet /\ Octet * Octet \in Nat
  /\ Octet * Octet < Octet * Octet * Octet
<1>1. Octet \in Nat /\ Octet > 1
  BY NatTableAssumption
<1>2. Octet * Octet \in Nat /\ Octet * Octet > Octet
  BY <1>1
<1> DEFINE S == Octet * Octet
<1>3. S * Octet \in Nat /\ S * Octet > S
  <2> HIDE DEF S
  <2>1. S \in Nat /\ S > 0
    BY <1>1, <1>2 DEF S
  <2>2. QED BY <1>1, <2>1
<1>4. QED BY <1>1, <1>2, <1>3 DEF Size24, Size16, Size8

\* An address is in a prefix when it has the prefix as its first bits.
LEMMA CoversIs ==
  ASSUME NEW q \in Nat, NEW addr \in Nat
  PROVE  /\ addr \in Covers(q) <=> addr \div Size(q) = q
         /\ addr \in Covers(q) => addr % Size(q) = addr - First(q)
<1>1. Size(q) \in Nat /\ Size(q) > 0
  BY Sizes DEF Size
<1>2. addr \in Covers(q) <=> q * Size(q) <= addr /\ addr <= q * Size(q) + Size(q) - 1
  <2>1. q * Size(q) \in Int
    BY <1>1
  <2>2. QED BY <1>1, <2>1 DEF Covers, First
<1>3. addr \in Covers(q) <=> addr \div Size(q) = q
  BY <1>1, <1>2, Quotients
<1>4. addr = (addr \div Size(q)) * Size(q) + (addr % Size(q)) /\ addr % Size(q) \in Int
  BY <1>1, Division
<1>5. addr \div Size(q) = q => addr % Size(q) = addr - q * Size(q)
  BY <1>1, <1>4
<1>6. QED BY <1>3, <1>5 DEF First

\* The addresses of a prefix, and what they have as first bits.
LEMMA FirstBits ==
  ASSUME NEW p \in 1 .. Octet * Octet * Octet - 1, NEW addr \in Covers(p)
  PROVE  /\ addr \in Nat
         /\ addr \div Size8 \in 1 .. Octet - 1
         /\ addr \div Size16 \in Octet .. Octet * Octet - 1
         /\ addr \div Size24 \in Octet * Octet .. Octet * Octet * Octet - 1
<1> DEFINE O == Octet
           S == O * O
           C == O * O * O
<1>1. O \in Nat /\ S \in Nat /\ C \in Nat /\ 1 < O /\ O < S /\ S < C /\ O > 0 /\ S > 0 /\ C > 0
  BY Sizes DEF Size8
<1>2. S = O * O /\ C = O * S /\ C = S * O /\ O * C = S * S /\ O * C = C * O /\ O * C \in Nat
  BY <1>1
<1>3. Size8 = C /\ Size16 = S /\ Size24 = O
  BY DEF Size8, Size16, Size24
<1>4. Size(p) = IF p < O THEN C ELSE IF p < S THEN S ELSE O
  BY <1>3 DEF Size
<1>5. addr \in p * Size(p) .. p * Size(p) + Size(p) - 1 /\ p \in 1 .. C - 1
  BY DEF Covers, First
<1> HIDE DEF O, S, C
<1>6. addr >= C /\ addr < O * C
  <2>1. CASE p < O
    <3>1. Size(p) = C /\ p * C >= C /\ p * C + C <= O * C /\ p * C \in Int
      <4>1. p * C >= 1 * C /\ p * C \in Int
        BY <1>1, <1>5
      <4>2. (p + 1) * C <= O * C
        BY <1>1, <1>5, <2>1
      <4>3. (p + 1) * C = p * C + C
        BY <1>1, <1>5
      <4>4. QED BY <1>1, <1>4, <2>1, <4>1, <4>2, <4>3
    <3>2. QED BY <1>1, <1>2, <1>5, <3>1
  <2>2. CASE p >= O /\ p < S
    <3>1. Size(p) = S /\ p * S >= O * S /\ p * S + S <= S * S /\ p * S \in Int
      <4>1. p * S >= O * S /\ p * S \in Int
        BY <1>1, <1>5, <2>2
      <4>2. (p + 1) * S <= S * S
        BY <1>1, <1>5, <2>2
      <4>3. (p + 1) * S = p * S + S
        BY <1>1, <1>5
      <4>4. QED BY <1>1, <1>4, <2>2, <4>1, <4>2, <4>3
    <3>2. QED BY <1>1, <1>2, <1>5, <3>1
  <2>3. CASE p >= S
    <3>1. Size(p) = O /\ p * O >= S * O /\ p * O + O <= C * O /\ p * O \in Int
      <4>1. p * O >= S * O /\ p * O \in Int
        BY <1>1, <1>5, <2>3
      <4>2. (p + 1) * O <= C * O
        BY <1>1, <1>5
      <4>3. (p + 1) * O = p * O + O
        BY <1>1, <1>5
      <4>4. QED BY <1>1, <1>4, <1>5, <2>3, <4>1, <4>2, <4>3
    <3>2. QED BY <1>1, <1>2, <1>5, <3>1
  <2>4. QED BY <1>1, <1>5, <2>1, <2>2, <2>3
<1>7. addr \in Nat
  BY <1>1, <1>5, <1>6
<1>8. /\ 1 * C <= addr <=> 1 <= addr \div C
      /\ O * C <= addr <=> O <= addr \div C
      /\ O * S <= addr <=> O <= addr \div S
      /\ S * S <= addr <=> S <= addr \div S
      /\ S * O <= addr <=> S <= addr \div O
      /\ C * O <= addr <=> C <= addr \div O
  BY <1>1, <1>7, Quotients
<1>9. addr \div C \in Nat /\ addr \div S \in Nat /\ addr \div O \in Nat
  BY <1>1, <1>7, Division
<1> DEFINE d8  == addr \div C
           d16 == addr \div S
           d24 == addr \div O
<1>10. /\ C <= addr <=> 1 <= d8
       /\ O * C <= addr <=> O <= d8
       /\ C <= addr <=> O <= d16
       /\ O * C <= addr <=> S <= d16
       /\ C <= addr <=> S <= d24
       /\ O * C <= addr <=> C <= d24
  <2>1. 1 * C = C
    BY <1>1
  <2>2. QED BY <1>2, <1>8, <2>1
<1>11. d8 \in Nat /\ d16 \in Nat /\ d24 \in Nat
  BY <1>9
<1> HIDE DEF d8, d16, d24
<1>12. d8 \in 1 .. O - 1 /\ d16 \in O .. S - 1 /\ d24 \in S .. C - 1
  BY <1>1, <1>2, <1>6, <1>7, <1>10, <1>11
<1>13. QED BY <1>3, <1>7, <1>12 DEF O, S, C, d8, d16, d24

-----------------------------------------------------------------------------
(***************************************************************************)
(* The numbers that the file gives its addresses.                          *)
(***************************************************************************)

\* A set of numbers has a least one.
LEMMA LeastOf ==
  ASSUME NEW T, T \subseteq Nat, T # {}
  PROVE  \E k \in T : \A n \in T : k <= n
<1> DEFINE R == OpToRel(<, Nat)
<1>1. IsWellFoundedOn(R, Nat)
  BY NatLessThanWellFounded
<1>2. \A x, y \in Nat : <<x, y>> \in R <=> x < y
  BY DEF OpToRel
<1> HIDE DEF R
<1>3. PICK k \in T : \A n \in T : ~ (<<n, k>> \in R)
  BY <1>1, WFMin
<1>4. ASSUME NEW n \in T PROVE k <= n
  <2>1. n \in Nat /\ k \in Nat /\ ~ (<<n, k>> \in R)
    BY <1>3
  <2>2. ~ (n < k)
    BY <1>2, <2>1
  <2>3. QED BY <2>1, <2>2
<1>5. QED BY <1>4

\* Induction up to n, for a property given as the set of the numbers that
\* have it.
LEMMA UpTo ==
  ASSUME NEW n \in Nat, NEW G, 0 \in G,
         \A k \in 1 .. n : k - 1 \in G => k \in G
  PROVE  0 .. n \subseteq G
<1> DEFINE Bad == {k \in 0 .. n : k \notin G}
<1> SUFFICES ASSUME Bad # {} PROVE FALSE
  OBVIOUS
<1>1. Bad \subseteq Nat
  OBVIOUS
<1> HIDE DEF Bad
<1>2. PICK k \in Bad : \A m \in Bad : k <= m
  BY <1>1, LeastOf
<1>3. k \in 1 .. n /\ k \notin G
  BY <1>2 DEF Bad
<1>4. k - 1 \in G
  BY <1>2, <1>3 DEF Bad
<1>5. QED BY <1>3, <1>4

\* f[k] is the size of the first k prefixes of s.
Summed(s, n, f) ==
  f = [k \in 0 .. n |-> IF k = 0 THEN 0 ELSE f[k - 1] + Size(s[k])]

LEMMA SumExists ==
  ASSUME NEW s, NEW n \in Nat
  PROVE  \E f : Summed(s, n, f)
<1> DEFINE G == {k \in Nat : \E f : Summed(s, k, f)}
<1>1. 0 \in G
  <2>1. Summed(s, 0, [k \in 0 .. 0 |-> 0])
    BY DEF Summed
  <2>2. QED BY <2>1
<1>2. ASSUME NEW k \in 1 .. n, k - 1 \in G PROVE k \in G
  <2>1. PICK f : Summed(s, k - 1, f)
    BY <1>2
  <2> DEFINE g == [m \in 0 .. k |-> IF m < k THEN f[m] ELSE f[k - 1] + Size(s[k])]
  <2>2. \A m \in 0 .. k - 1 : f[m] = IF m = 0 THEN 0 ELSE f[m - 1] + Size(s[m])
    BY <2>1 DEF Summed
  <2>3. \A m \in 0 .. k : g[m] = IF m = 0 THEN 0 ELSE g[m - 1] + Size(s[m])
    BY <2>2
  <2>4. Summed(s, k, g)
    BY <2>3 DEF Summed
  <2>5. QED BY <2>4
<1> HIDE DEF G
<1>3. 0 .. n \subseteq G
  BY <1>1, <1>2, UpTo
<1>4. QED BY <1>3 DEF G

SumOf(s) == CHOOSE f : Summed(s, Len(s), f)

LEMMA BeforeIs ==
  /\ \A n : Before(n) = SumOf(lines)[n - 1]
  /\ \A n : Before(n)' = SumOf(lines')[n - 1]
  BY DEF Before, SumOf, Summed

LEMMA SumIs ==
  ASSUME NEW s, Len(s) \in Nat
  PROVE  /\ SumOf(s)[0] = 0
         /\ \A k \in 1 .. Len(s) : SumOf(s)[k] = SumOf(s)[k - 1] + Size(s[k])
<1>1. Summed(s, Len(s), SumOf(s))
  BY SumExists DEF SumOf
<1> DEFINE f == SumOf(s)
<1>2. f = [k \in 0 .. Len(s) |-> IF k = 0 THEN 0 ELSE f[k - 1] + Size(s[k])]
  BY <1>1 DEF Summed
<1> HIDE DEF f
<1>3. \A k \in 0 .. Len(s) : f[k] = IF k = 0 THEN 0 ELSE f[k - 1] + Size(s[k])
  BY <1>2
<1>4. QED BY <1>3 DEF f

\* A line more changes no number of the lines before it.
LEMMA SumStays ==
  ASSUME NEW s, NEW r, Len(s) \in Nat, Len(r) = Len(s) + 1,
         \A k \in 1 .. Len(s) : r[k] = s[k]
  PROVE  \A n \in 0 .. Len(s) : SumOf(r)[n] = SumOf(s)[n]
<1> DEFINE G == {k \in Nat : SumOf(r)[k] = SumOf(s)[k]}
<1>1. /\ SumOf(s)[0] = 0 /\ SumOf(r)[0] = 0
      /\ \A k \in 1 .. Len(s) : SumOf(s)[k] = SumOf(s)[k - 1] + Size(s[k])
      /\ \A k \in 1 .. Len(s) : SumOf(r)[k] = SumOf(r)[k - 1] + Size(r[k])
  BY SumIs
<1>2. 0 \in G
  BY <1>1
<1>3. ASSUME NEW k \in 1 .. Len(s), k - 1 \in G PROVE k \in G
  BY <1>1, <1>3
<1> HIDE DEF G
<1>4. 0 .. Len(s) \subseteq G
  BY <1>2, <1>3, UpTo
<1>5. QED BY <1>4 DEF G

LEMMA SumIsNat ==
  ASSUME NEW s, Len(s) \in Nat
  PROVE  \A n \in 0 .. Len(s) : SumOf(s)[n] \in Nat
<1> DEFINE G == {k \in Nat : SumOf(s)[k] \in Nat}
<1>1. /\ SumOf(s)[0] = 0
      /\ \A k \in 1 .. Len(s) : SumOf(s)[k] = SumOf(s)[k - 1] + Size(s[k])
  BY SumIs
<1>2. \A p : Size(p) \in Nat
  BY Sizes DEF Size
<1>3. ASSUME NEW k \in 1 .. Len(s), k - 1 \in G PROVE k \in G
  BY <1>1, <1>2, <1>3
<1>4. 0 \in G
  BY <1>1
<1> HIDE DEF G
<1>5. 0 .. Len(s) \subseteq G
  BY <1>3, <1>4, UpTo
<1>6. QED BY <1>5 DEF G

-----------------------------------------------------------------------------
(***************************************************************************)
(* The steps of load_rtbl.                                                 *)
(***************************************************************************)

LEMMA IInvInit == Init => IInv
<1> SUFFICES ASSUME Init PROVE IInv
  OBVIOUS
<1>1. lines = <<>> /\ lines \in Seq(Candidates) /\ DOMAIN lines = {}
  BY EmptySeq, LenProperties DEF Init
<1>2. Listing
  BY <1>1 DEF Listing
<1>3. \A q \in Slots : t[q] = [prev |-> 0, next |-> 0, index |-> 0]
  BY DEF Init
<1>4. t = [q \in Slots |-> [prev |-> t[q].prev, next |-> t[q].next, index |-> t[q].index]]
  BY <1>3 DEF Init
<1>5. Marks
  BY <1>1, <1>3, <1>4 DEF Marks
<1>6. Ends
  BY <1>1 DEF Init, Ends
<1>7. QED BY <1>2, <1>5, <1>6 DEF IInv

\* What is known of the lines.
LEMMA LinesAre ==
  ASSUME Listing
  PROVE  /\ Len(lines) \in Nat /\ DOMAIN lines = 1 .. Len(lines)
         /\ lines = <<>> <=> Len(lines) = 0
         /\ \A n \in DOMAIN lines : /\ lines[n] \in Candidates /\ lines[n] \in Slots
                                    /\ lines[n] \in Nat /\ lines[n] > 0
                                    /\ lines[n] + 1 < Octet * Octet * Octet
         /\ lines # <<>> => /\ Len(lines) \in DOMAIN lines /\ PrevP = lines[Len(lines)]
                            /\ \A n \in DOMAIN lines : n # Len(lines) => lines[n] < PrevP
         /\ Candidates \subseteq Slots \ {0} /\ Candidates \subseteq Nat
<1>1. lines \in Seq(Candidates)
  BY DEF Listing
<1>2. /\ Len(lines) \in Nat /\ DOMAIN lines = 1 .. Len(lines)
      /\ lines = <<>> <=> Len(lines) = 0
      /\ \A n \in 1 .. Len(lines) : lines[n] \in Candidates
  BY <1>1, LenProperties, ElementOfSeq, EmptySeq
<1>3. \A p \in Candidates : /\ p \in Slots /\ p \in Nat /\ p > 0 /\ p + 1 < Octet * Octet * Octet
  <2> DEFINE C == Octet * Octet * Octet
  <2>1. C \in Nat /\ Candidates \subseteq 1 .. C - 2
    BY NatTableAssumption, Sizes DEF Size8
  <2>2. Slots = 0 .. C - 1
    BY DEF Slots
  <2> HIDE DEF C
  <2>3. QED BY <2>1, <2>2 DEF C
<1>4. lines # <<>> => Len(lines) \in DOMAIN lines /\ PrevP = lines[Len(lines)]
  BY <1>2 DEF PrevP
<1>5. ASSUME lines # <<>>, NEW n \in DOMAIN lines, n # Len(lines) PROVE lines[n] < PrevP
  BY <1>2, <1>4, <1>5 DEF Listing
<1>6. QED BY <1>2, <1>3, <1>4, <1>5

\* The index of the next line is the size of the lines so far.
LEMMA NextIndex ==
  ASSUME IInv
  PROVE  (IF lines = <<>> THEN 0 ELSE prev_idx + Size(PrevP)) = SumOf(lines)[Len(lines)]
<1>1. Listing /\ Ends
  BY DEF IInv
<1>2. Len(lines) \in Nat /\ (lines = <<>> <=> Len(lines) = 0)
  BY <1>1, LinesAre
<1>3. CASE lines = <<>>
  BY <1>2, <1>3, SumIs
<1>4. CASE lines # <<>>
  <2>1. prev_idx = SumOf(lines)[Len(lines) - 1] /\ PrevP = lines[Len(lines)]
    BY <1>1, <1>4, BeforeIs, LinesAre DEF Ends
  <2>2. Len(lines) \in 1 .. Len(lines)
    BY <1>2, <1>4
  <2>3. SumOf(lines)[Len(lines)] = SumOf(lines)[Len(lines) - 1] + Size(lines[Len(lines)])
    BY <1>2, <2>2, SumIs
  <2>4. QED BY <1>4, <2>1, <2>3
<1>5. QED BY <1>3, <1>4

LEMMA LoadListing ==
  ASSUME IInv, NEW p \in Candidates, LoadLine(p)
  PROVE  /\ Listing'
         /\ Len(lines') = Len(lines) + 1 /\ DOMAIN lines' = DOMAIN lines \cup {Len(lines) + 1}
         /\ lines'[Len(lines) + 1] = p
         /\ \A n \in DOMAIN lines : lines'[n] = lines[n] /\ n # Len(lines) + 1
<1>1. Listing /\ lines' = Append(lines, p) /\ p > PrevP
  BY DEF IInv, LoadLine
<1>2. \A n \in DOMAIN lines : Covers(lines[n]) \cap Covers(p) = {}
  BY DEF LoadLine
<1>3. /\ lines \in Seq(Candidates) /\ Len(lines) \in Nat /\ DOMAIN lines = 1 .. Len(lines)
  BY <1>1, LinesAre DEF Listing
<1>4. /\ lines' \in Seq(Candidates) /\ Len(lines') = Len(lines) + 1
      /\ \A n \in 1 .. Len(lines) : lines'[n] = lines[n]
      /\ lines'[Len(lines) + 1] = p
  BY <1>1, <1>3, AppendProperties
<1>5. DOMAIN lines' = 1 .. Len(lines) + 1
  BY <1>4, LenProperties
<1>6. /\ \A n \in DOMAIN lines : lines'[n] = lines[n] /\ n # Len(lines) + 1
      /\ DOMAIN lines' = DOMAIN lines \cup {Len(lines) + 1}
  BY <1>3, <1>4, <1>5
<1>7. \A n \in DOMAIN lines : lines[n] < p
  <2> SUFFICES ASSUME NEW n \in DOMAIN lines PROVE lines[n] < p
    OBVIOUS
  <2>1. lines # <<>> /\ lines[n] \in Nat /\ PrevP \in Nat /\ p \in Nat
    BY <1>1, <1>3, LinesAre
  <2>2. lines[n] = PrevP \/ lines[n] < PrevP
    BY <1>1, <2>1, LinesAre
  <2>3. QED BY <1>1, <2>1, <2>2
<1>8. ASSUME NEW n \in DOMAIN lines', NEW k \in DOMAIN lines', n < k
      PROVE  lines'[n] < lines'[k] /\ Covers(lines'[n]) \cap Covers(lines'[k]) = {}
  <2>1. n \in DOMAIN lines /\ lines'[n] = lines[n]
    BY <1>3, <1>5, <1>6, <1>8
  <2>2. CASE k \in DOMAIN lines
    BY <1>1, <1>6, <1>8, <2>1, <2>2 DEF Listing
  <2>3. CASE k = Len(lines) + 1
    BY <1>2, <1>4, <1>7, <2>1, <2>3
  <2>4. QED BY <1>6, <2>2, <2>3
<1>9. Listing'
  BY <1>4, <1>8 DEF Listing, Covers, First, Size, Size8, Size16, Size24
<1>10. QED BY <1>4, <1>6, <1>9

\* The lines before p keep their numbers, and p gets the next one.
LEMMA LoadNumbers ==
  ASSUME IInv, NEW p \in Candidates, LoadLine(p)
  PROVE  /\ \A n \in DOMAIN lines : Before(n)' = Before(n)
         /\ \A n : n = Len(lines) + 1 => Before(n)' = SumOf(lines)[Len(lines)]
         /\ prev_idx' = SumOf(lines)[Len(lines)]
<1>1. Listing /\ Len(lines) \in Nat /\ DOMAIN lines = 1 .. Len(lines)
  BY LinesAre DEF IInv
<1>2. Len(lines') = Len(lines) + 1 /\ \A k \in 1 .. Len(lines) : lines'[k] = lines[k]
  BY <1>1, LoadListing
<1>3. \A n \in 0 .. Len(lines) : SumOf(lines')[n] = SumOf(lines)[n]
  BY <1>1, <1>2, SumStays
<1>4. \A n \in 1 .. Len(lines) : Before(n)' = Before(n)
  <2>1. \A n \in 1 .. Len(lines) : SumOf(lines')[n - 1] = SumOf(lines)[n - 1]
    BY <1>1, <1>3
  <2>2. QED BY <2>1, BeforeIs
<1>5. ASSUME NEW n, n = Len(lines) + 1 PROVE Before(n)' = SumOf(lines')[Len(lines)]
  <2>1. n - 1 = Len(lines)
    BY <1>1, <1>5
  <2>2. QED BY <2>1, BeforeIs
<1>6. prev_idx' = SumOf(lines)[Len(lines)]
  BY NextIndex DEF LoadLine
<1>7. QED BY <1>1, <1>3, <1>4, <1>5, <1>6

LEMMA LoadEntries ==
  ASSUME IInv, NEW p \in Candidates, LoadLine(p)
  PROVE  Marks'
<1> DEFINE idx == SumOf(lines)[Len(lines)]
           next(q) == IF q = p THEN [t[q] EXCEPT !.prev = p, !.index = idx]
                      ELSE IF q = PrevP THEN [t[q] EXCEPT !.next = p]
                      ELSE IF q \in Start .. p - 1
                        THEN [prev |-> PrevP, next |-> p, index |-> prev_idx]
                      ELSE t[q]
<1>1. Listing /\ Marks /\ p > PrevP
  BY DEF IInv, LoadLine
<1>2. t' = [q \in Slots |-> next(q)]
  BY NextIndex DEF LoadLine
<1>3. \A q \in Slots : t[q] = [prev |-> t[q].prev, next |-> t[q].next, index |-> t[q].index]
  BY <1>1 DEF Marks
<1>4. p \in Slots /\ p \in Nat /\ (\A q \in Slots : q \in Int) /\ PrevP \in Int /\ PrevP >= -1
  <2>1. p \in Slots /\ p \in Nat
    BY <1>1, LinesAre
  <2>2. \A q \in Slots : q \in Int
    BY DEF Slots
  <2>3. PrevP \in Int /\ PrevP >= -1
    BY <1>1, LinesAre DEF PrevP
  <2>4. QED BY <2>1, <2>2, <2>3
<1>5. \A q \in Slots : next(q) = [prev |-> next(q).prev, next |-> next(q).next, index |-> next(q).index]
  <2> SUFFICES ASSUME NEW q \in Slots
               PROVE  next(q) = [prev |-> next(q).prev, next |-> next(q).next,
                                 index |-> next(q).index]
    OBVIOUS
  <2>1. t[q] = [prev |-> t[q].prev, next |-> t[q].next, index |-> t[q].index]
    BY <1>3
  <2>2. CASE q = p
    <3>1. next(q) = [prev |-> p, next |-> t[q].next, index |-> idx]
      BY <2>1, <2>2
    <3>2. QED BY <3>1
  <2>3. CASE q # p /\ q = PrevP
    <3>1. next(q) = [prev |-> t[q].prev, next |-> p, index |-> t[q].index]
      BY <2>1, <2>3
    <3>2. QED BY <3>1
  <2>4. CASE q # p /\ q # PrevP
    <3>1. next(q) = [prev |-> PrevP, next |-> p, index |-> prev_idx] \/ next(q) = t[q]
      BY <2>4
    <3>2. QED BY <2>1, <3>1
  <2>5. QED BY <2>2, <2>3, <2>4
<1>6. next(p).prev = p /\ next(p).index = idx
  <2>1. next(p) = [t[p] EXCEPT !.prev = p, !.index = idx]
    OBVIOUS
  <2>2. t[p] = [prev |-> t[p].prev, next |-> t[p].next, index |-> t[p].index]
    BY <1>3, <1>4
  <2>3. next(p) = [prev |-> p, next |-> t[p].next, index |-> idx]
    BY <2>1, <2>2
  <2>4. QED BY <2>3
<1>7. ASSUME NEW q \in Slots, q # p, q \notin Start .. p - 1 \/ q = PrevP
      PROVE  next(q).prev = t[q].prev /\ next(q).index = t[q].index
  <2>1. next(q) = [t[q] EXCEPT !.next = p] \/ next(q) = t[q]
    BY <1>7
  <2>2. t[q] = [prev |-> t[q].prev, next |-> t[q].next, index |-> t[q].index]
    BY <1>3
  <2>3. CASE next(q) = [t[q] EXCEPT !.next = p]
    <3>1. next(q) = [prev |-> t[q].prev, next |-> p, index |-> t[q].index]
      BY <2>2, <2>3
    <3>2. QED BY <3>1
  <2>4. QED BY <2>1, <2>3
<1>8. ASSUME NEW q \in Slots, q # p, q # PrevP, q \in Start .. p - 1
      PROVE  next(q).prev # q
  BY <1>8
<1> HIDE DEF next, idx
<1>9. ASSUME NEW n \in DOMAIN lines'
      PROVE  t'[lines'[n]].prev = lines'[n] /\ t'[lines'[n]].index = Before(n)'
  <2>1. CASE n = Len(lines) + 1
    <3>1. lines'[n] = p /\ Before(n)' = idx
      BY <2>1, LoadListing, LoadNumbers DEF idx
    <3>2. QED BY <1>2, <1>4, <1>6, <3>1
  <2>2. CASE n \in DOMAIN lines
    <3> DEFINE q == lines[n]
    <3>1. lines'[n] = q /\ Before(n)' = Before(n)
      BY <2>2, LoadListing, LoadNumbers
    <3>2. q \in Slots /\ (q = PrevP \/ q < PrevP) /\ PrevP \in Nat /\ lines # <<>> /\ q \in Nat
      <4>1. lines # <<>>
        BY <1>1, <2>2, LinesAre
      <4>2. QED BY <1>1, <2>2, <4>1, LinesAre
    <3>3. q \in Slots /\ q # p /\ (q \notin Start .. p - 1 \/ q = PrevP)
      BY <1>1, <1>4, <3>2 DEF Start
    <3>4. t[q].prev = q /\ t[q].index = Before(n)
      BY <1>1, <2>2 DEF Marks
    <3> HIDE DEF q
    <3>5. t'[q].prev = q /\ t'[q].index = Before(n)
      BY <1>2, <1>7, <3>3, <3>4
    <3>6. QED BY <3>1, <3>5
  <2>3. QED BY <2>1, <2>2, LoadListing
<1>10. ASSUME NEW q \in Slots, q # 0, t'[q].prev = q
       PROVE  \E n \in DOMAIN lines' : lines'[n] = q
  <2>1. CASE q = p
    BY <2>1, LoadListing
  <2>2. CASE q # p
    <3>1. t[q].prev = q
      BY <1>2, <1>7, <1>8, <1>10, <2>2
    <3>2. PICK n \in DOMAIN lines : lines[n] = q
      BY <1>1, <1>10, <3>1 DEF Marks
    <3>3. QED BY <3>2, LoadListing
  <2>3. QED BY <2>1, <2>2
<1>11. t' = [q \in Slots |-> [prev |-> t'[q].prev, next |-> t'[q].next, index |-> t'[q].index]]
  BY <1>2, <1>5
<1>12. QED BY <1>9, <1>10, <1>11 DEF Marks, Slots

LEMMA LoadKeeps ==
  ASSUME IInv, NEW p \in Candidates, LoadLine(p)
  PROVE  IInv'
<1>1. Listing' /\ Marks'
  BY LoadListing, LoadEntries
<1>2. /\ Len(lines') = Len(lines) + 1 /\ Len(lines) \in Nat
      /\ prev_idx' = SumOf(lines)[Len(lines)]
  BY LoadListing, LoadNumbers, LinesAre DEF IInv
<1>3. lines' # <<>>
  <2>1. Len(<<>>) = 0
    OBVIOUS
  <2>2. QED BY <1>2, <2>1
<1>4. prev_idx' = Before(Len(lines))'
  BY <1>2, LoadNumbers
<1>5. ~ loaded'
  BY DEF LoadLine
<1>6. Ends'
  BY <1>3, <1>4, <1>5 DEF Ends
<1>7. QED BY <1>1, <1>6 DEF IInv

LEMMA EndKeeps ==
  ASSUME IInv, EndOfFile
  PROVE  IInv'
<1> DEFINE top == t[PrevP].index + read.size
<1>1. /\ Listing /\ Marks /\ Ends /\ lines' = lines /\ prev_idx' = prev_idx /\ lines # <<>>
      /\ t' = [t EXCEPT ![PrevP].next = PrevP + 1, ![PrevP + 1].index = top]
      /\ MAX_PREFIX' = PrevP + 1
  BY DEF IInv, EndOfFile
<1>2. /\ PrevP \in Slots /\ PrevP + 1 \in Slots /\ PrevP \in Nat
      /\ \A n \in DOMAIN lines : lines[n] \in Slots /\ lines[n] \in Nat /\ lines[n] <= PrevP
  <2> DEFINE C == Octet * Octet * Octet
  <2>1. C \in Nat /\ Slots = 0 .. C - 1
    BY Sizes DEF Slots, Size8
  <2>2. PrevP \in Nat /\ PrevP + 1 < C /\ PrevP \in Slots
    BY <1>1, LinesAre
  <2>3. \A n \in DOMAIN lines : lines[n] \in Slots /\ lines[n] \in Nat /\ lines[n] <= PrevP
    BY <1>1, <2>2, LinesAre
  <2> HIDE DEF C
  <2>4. QED BY <2>1, <2>2, <2>3
<1>3. \A q \in Slots : t[q] = [prev |-> t[q].prev, next |-> t[q].next, index |-> t[q].index]
  BY <1>1 DEF Marks
<1>4. /\ DOMAIN t' = Slots /\ \A q \in Slots : t'[q] =
           IF q = PrevP THEN [t[q] EXCEPT !.next = PrevP + 1]
           ELSE IF q = PrevP + 1 THEN [t[q] EXCEPT !.index = top] ELSE t[q]
      /\ t' = [q \in Slots |-> t'[q]]
  <2>1. DOMAIN t = Slots /\ t = [q \in Slots |-> t[q]]
    BY <1>1 DEF Marks
  <2>2. PrevP \in Slots /\ PrevP + 1 \in Slots /\ PrevP # PrevP + 1
    BY <1>2
  <2>3. t' = [t EXCEPT ![PrevP].next = PrevP + 1, ![PrevP + 1].index = top]
    BY <1>1
  <2> DEFINE h == [t EXCEPT ![PrevP].next = PrevP + 1]
  <2> HIDE DEF top
  <2>4. /\ h = [q \in Slots |-> h[q]]
        /\ \A q \in Slots : h[q] = IF q = PrevP THEN [t[q] EXCEPT !.next = PrevP + 1] ELSE t[q]
    BY <2>1, <2>2
  <2>5. t' = [h EXCEPT ![PrevP + 1] = [h[PrevP + 1] EXCEPT !.index = top]]
    BY <2>3
  <2> HIDE DEF h
  <2>6. QED BY <2>2, <2>4, <2>5
<1> HIDE DEF top
<1>5. ASSUME NEW q \in Slots
      PROVE  /\ t'[q] = [prev |-> t'[q].prev, next |-> t'[q].next, index |-> t'[q].index]
             /\ t'[q].prev = t[q].prev
             /\ q # PrevP + 1 => t'[q].index = t[q].index
  <2>1. t[q] = [prev |-> t[q].prev, next |-> t[q].next, index |-> t[q].index]
    BY <1>3
  <2>2. CASE q = PrevP
    <3>1. t'[q] = [prev |-> t[q].prev, next |-> PrevP + 1, index |-> t[q].index]
      BY <1>4, <2>1, <2>2
    <3>2. QED BY <3>1
  <2>3. CASE q # PrevP /\ q = PrevP + 1
    <3>1. t'[q] = [prev |-> t[q].prev, next |-> t[q].next, index |-> top]
      BY <1>4, <2>1, <2>3
    <3>2. QED BY <2>3, <3>1
  <2>4. CASE q # PrevP /\ q # PrevP + 1
    BY <1>4, <2>1, <2>4
  <2>5. QED BY <2>2, <2>3, <2>4
<1>6. \A n : Before(n)' = Before(n)
  BY <1>1, BeforeIs
<1>7. \A n \in DOMAIN lines : t'[lines[n]].prev = lines[n] /\ t'[lines[n]].index = Before(n)
  <2>1. \A n \in DOMAIN lines : lines[n] # PrevP + 1
    BY <1>2
  <2>2. QED BY <1>1, <1>2, <1>5, <2>1 DEF Marks
<1>8. t' = [q \in Slots |-> [prev |-> t'[q].prev, next |-> t'[q].next, index |-> t'[q].index]]
  BY <1>4, <1>5
<1>9. Marks'
  <2>1. \A n \in DOMAIN lines' : t'[lines'[n]].prev = lines'[n] /\ t'[lines'[n]].index = Before(n)'
    BY <1>1, <1>6, <1>7
  <2>2. \A q \in Slots : q # 0 /\ t'[q].prev = q => \E n \in DOMAIN lines' : lines'[n] = q
    BY <1>1, <1>5, ZenonT(40) DEF Marks
  <2>3. QED BY <1>8, <2>1, <2>2 DEF Marks, Slots
<1>10. Ends'
  BY <1>1, <1>6 DEF Ends, PrevP
<1>11. Listing'
  BY <1>1 DEF Listing, Covers, First, Size, Size8, Size16, Size24
<1>12. QED BY <1>9, <1>10, <1>11 DEF IInv

LEMMA KeepsIInv == IInv /\ [Next]_vars => IInv'
<1> SUFFICES ASSUME IInv, [Next]_vars PROVE IInv'
  OBVIOUS
<1>1. CASE (\E p \in Candidates : LoadLine(p)) \/ EndOfFile
  BY <1>1, LoadKeeps, EndKeeps
<1>2. CASE (\E r \in Others : SkipLine(r)) \/ UNCHANGED vars
  <2>1. UNCHANGED <<t, lines, prev_idx, loaded, MAX_PREFIX>>
    BY <1>2 DEF SkipLine, vars
  <2>2. \A n : Before(n)' = Before(n)
    BY <2>1, BeforeIs
  <2>3. Listing'
    BY <2>1 DEF IInv, Listing, Covers, First, Size, Size8, Size16, Size24
  <2>4. Marks'
    BY <2>1, <2>2 DEF IInv, Marks, Slots
  <2>5. Ends'
    BY <2>1, <2>2 DEF IInv, Ends, PrevP
  <2>6. QED BY <2>3, <2>4, <2>5 DEF IInv
<1>3. QED BY <1>1, <1>2 DEF Next

LEMMA Invariance == Spec => []IInv
  BY IInvInit, KeepsIInv, PTL DEF Spec

-----------------------------------------------------------------------------
(***************************************************************************)
(* The lookup of an address.                                               *)
(***************************************************************************)

\* An entry that ip_to_idx looks at is marked only if it is the prefix.
LEMMA Marked ==
  ASSUME IInv, NEW n \in DOMAIN lines, NEW addr \in Covers(lines[n]),
         NEW q \in Nat, q \in Slots, q # 0, addr \div Size(q) = q
  PROVE  t[q].prev = q <=> q = lines[n]
<1>1. Listing /\ Marks
  BY DEF IInv
<1>2. addr \in Nat
  <2>1. lines[n] \in 1 .. Octet * Octet * Octet - 1
    BY <1>1, LinesAre, NatTableAssumption
  <2>2. QED BY <2>1, FirstBits
<1>3. ASSUME t[q].prev = q PROVE q = lines[n]
  <2>1. PICK k \in DOMAIN lines : lines[k] = q
    BY <1>1, <1>3 DEF Marks
  <2>2. addr \in Covers(lines[k])
    BY <1>2, <2>1, CoversIs
  <2>3. k = n
    <3>1. k \in Nat /\ n \in Nat
      BY <1>1, LinesAre
    <3>2. ~ (k < n) /\ ~ (n < k)
      BY <1>1, <2>2 DEF Listing
    <3>3. QED BY <3>1, <3>2
  <2>4. QED BY <2>1, <2>3
<1>4. ASSUME q = lines[n] PROVE t[q].prev = q
  BY <1>1, <1>4 DEF Marks
<1>5. QED BY <1>3, <1>4

LEMMA IndexIs ==
  ASSUME IInv, NEW n \in DOMAIN lines, NEW addr \in Covers(lines[n])
  PROVE  IndexOf(addr) = Before(n) + (addr - First(lines[n]))
<1>1. Listing /\ n \in Nat
  BY LinesAre DEF IInv
<1>2. \A k \in DOMAIN lines : addr \in Covers(lines[k]) => k = n
  <2> SUFFICES ASSUME NEW k \in DOMAIN lines, addr \in Covers(lines[k]) PROVE k = n
    OBVIOUS
  <2>1. k \in Nat
    BY <1>1, LinesAre
  <2>2. ~ (k < n) /\ ~ (n < k)
    BY <1>1 DEF Listing
  <2>3. QED BY <1>1, <2>1, <2>2
<1>3. (CHOOSE k \in DOMAIN lines : addr \in Covers(lines[k])) = n
  BY <1>2
<1>4. IndexOf(addr) = Before(n) + addr - First(lines[n])
  BY <1>3 DEF IndexOf
<1>5. Before(n) \in Int
  <2>1. Len(lines) \in Nat /\ n \in 1 .. Len(lines)
    BY <1>1, LinesAre
  <2>2. SumOf(lines)[n - 1] \in Nat
    BY <2>1, SumIsNat
  <2>3. QED BY <2>2, BeforeIs
<1>6. addr \in Nat /\ First(lines[n]) \in Int
  <2>1. lines[n] \in 1 .. Octet * Octet * Octet - 1 /\ lines[n] \in Nat
    BY <1>1, LinesAre, NatTableAssumption DEF Listing
  <2>2. Size(lines[n]) \in Nat
    BY Sizes DEF Size
  <2>3. QED BY <2>1, <2>2, FirstBits DEF First
<1>7. QED BY <1>4, <1>5, <1>6

LEMMA AddressNow == IInv => AddressFound
<1> SUFFICES ASSUME IInv, loaded, NEW addr \in Addresses
             PROVE  ip_to_idx(addr) = IndexOf(addr)
  BY DEF AddressFound
<1>1. PICK n \in DOMAIN lines : addr \in Covers(lines[n])
  BY DEF Addresses
<1> DEFINE p == lines[n]
           p24 == addr \div Size24
           p16 == addr \div Size16
           p8 == addr \div Size8
           O == Octet
           S == Octet * Octet
           C == Octet * Octet * Octet
<1>2. Listing /\ Marks /\ Ends
  BY DEF IInv
<1>3. p \in 1 .. C - 1 /\ p \in Nat /\ C \in Nat
  BY <1>2, LinesAre, NatTableAssumption, Sizes DEF Size8
<1>4. addr \in Nat /\ p8 \in 1 .. O - 1 /\ p16 \in O .. S - 1 /\ p24 \in S .. C - 1
  BY <1>1, <1>3, FirstBits
<1>5. O \in Nat /\ S \in Nat /\ 1 < O /\ O < S /\ S < C /\ Slots = 0 .. C - 1
  BY Sizes DEF Slots
<1>6. /\ Size(p) = IF p < O THEN Size8 ELSE IF p < S THEN Size16 ELSE Size24
      /\ \A q : Size(q) = IF q < O THEN Size8 ELSE IF q < S THEN Size16 ELSE Size24
  BY DEF Size
<1>7. addr \div Size(p) = p /\ addr % Size(p) = addr - First(p)
  BY <1>1, <1>3, <1>4, CoversIs
<1>8. t[p].index = Before(n)
  BY <1>2 DEF Marks
<1>9. t[p].index + (addr % Size(p)) = IndexOf(addr)
  BY <1>1, <1>7, <1>8, IndexIs
<1>10. p < MAX_PREFIX
  <2>1. lines # <<>> /\ MAX_PREFIX = PrevP + 1
    BY <1>2, LinesAre DEF Ends
  <2>2. p <= PrevP /\ PrevP \in Nat
    <3>1. PrevP \in Nat /\ (p = PrevP \/ p < PrevP)
      BY <1>2, <2>1, LinesAre
    <3>2. QED BY <1>3, <3>1
  <2>3. QED BY <1>3, <2>1, <2>2
<1> HIDE DEF O, S, C
<1>11. /\ p24 \in Nat /\ p24 \in Slots /\ p24 # 0 /\ Size(p24) = Size24
       /\ p16 \in Nat /\ p16 \in Slots /\ p16 # 0 /\ Size(p16) = Size16
       /\ p8 \in Nat /\ p8 \in Slots /\ p8 # 0 /\ Size(p8) = Size8
  BY <1>3, <1>4, <1>5, <1>6
<1>12. /\ t[p24].prev = p24 <=> p24 = p
       /\ t[p16].prev = p16 <=> p16 = p
       /\ t[p8].prev = p8 <=> p8 = p
  BY <1>1, <1>11, Marked
<1>13. ip_to_idx(addr) =
         CASE p24 < MAX_PREFIX /\ t[p24].prev = p24 -> t[p24].index + (addr % Size24)
           [] OTHER ->
                CASE t[p16].prev = p16 -> t[p16].index + (addr % Size16)
                  [] OTHER -> IF t[p8].prev = p8 THEN t[p8].index + (addr % Size8) ELSE 0
  BY DEF ip_to_idx
<1>14. CASE p >= S
  <2>1. Size(p) = Size24 /\ p24 = p
    BY <1>3, <1>5, <1>6, <1>7, <1>14
  <2>2. QED BY <1>9, <1>10, <1>12, <1>13, <2>1
<1>15. CASE O <= p /\ p < S
  <2>1. Size(p) = Size16 /\ p16 = p /\ p24 # p
    BY <1>3, <1>4, <1>5, <1>6, <1>7, <1>15
  <2>2. QED BY <1>9, <1>12, <1>13, <2>1
<1>16. CASE p < O
  <2>1. Size(p) = Size8 /\ p8 = p /\ p16 # p /\ p24 # p
    BY <1>3, <1>4, <1>5, <1>6, <1>7, <1>16
  <2>2. QED BY <1>9, <1>12, <1>13, <2>1
<1>17. QED BY <1>3, <1>5, <1>14, <1>15, <1>16

\* Whatever mix of prefix lengths the file has, and however many addresses: a
\* reply's address is turned into the index that the file gives it.
THEOREM AddressIsFound == Spec => []AddressFound
<1>1. IInv => AddressFound
  BY AddressNow
<1>2. QED BY <1>1, Invariance, PTL

-----------------------------------------------------------------------------
(***************************************************************************)
(* The numbers of the lines grow, and the size of all of them is that of   *)
(* the set of their addresses, which are disjoint.                         *)
(***************************************************************************)
Total == SumOf(lines)[Len(lines)]

LEMMA SumGrows ==
  ASSUME NEW s, Len(s) \in Nat
  PROVE  \A k \in 0 .. Len(s) : \A m \in 0 .. k : SumOf(s)[m] <= SumOf(s)[k]
<1> DEFINE f == SumOf(s)
           G == {k \in Nat : \A m \in 0 .. k : f[m] <= f[k]}
<1>1. \A k \in 1 .. Len(s) : f[k] = f[k - 1] + Size(s[k])
  BY SumIs
<1>2. \A k \in 0 .. Len(s) : f[k] \in Nat
  BY SumIsNat
<1>3. \A p : Size(p) \in Nat
  BY Sizes DEF Size
<1> HIDE DEF f
<1>4. 0 \in G
  BY <1>2
<1>5. ASSUME NEW k \in 1 .. Len(s), k - 1 \in G PROVE k \in G
  <2>1. f[k - 1] <= f[k] /\ f[k] \in Nat /\ f[k - 1] \in Nat
    <3>1. k - 1 \in 0 .. Len(s) /\ k \in 0 .. Len(s)
      OBVIOUS
    <3>2. Size(s[k]) \in Nat /\ f[k] = f[k - 1] + Size(s[k])
      BY <1>1, <1>3
    <3>3. QED BY <1>2, <3>1, <3>2
  <2>2. ASSUME NEW m \in 0 .. k PROVE f[m] <= f[k]
    <3>1. CASE m = k
      BY <2>1, <3>1
    <3>2. CASE m \in 0 .. k - 1
      <4>1. f[m] <= f[k - 1] /\ f[m] \in Nat
        BY <1>2, <1>5, <3>2
      <4>2. QED BY <2>1, <4>1
    <3>3. QED BY <3>1, <3>2
  <2>3. QED BY <2>2
<1> HIDE DEF G
<1>6. 0 .. Len(s) \subseteq G
  BY <1>4, <1>5, UpTo
<1>7. QED BY <1>6 DEF G, f

\* Each line begins where the one before it ends.
LEMMA Numbers ==
  ASSUME Listing
  PROVE  /\ Total \in Nat /\ (lines = <<>> => Total = 0)
         /\ \A n \in DOMAIN lines :
              /\ Before(n) \in Nat /\ (n = 1 => Before(n) = 0)
              /\ Before(n) + Size(lines[n]) <= Total
              /\ n = Len(lines) => Before(n) + Size(lines[n]) = Total
         /\ \A n, k \in DOMAIN lines :
              /\ n < k => Before(n) + Size(lines[n]) <= Before(k)
              /\ k = n + 1 => Before(n) + Size(lines[n]) = Before(k)
<1> DEFINE f == SumOf(lines)
<1>1. Len(lines) \in Nat /\ DOMAIN lines = 1 .. Len(lines) /\ (lines = <<>> => Len(lines) = 0)
  BY LinesAre
<1>2. /\ f[0] = 0 /\ \A k \in 1 .. Len(lines) : f[k] = f[k - 1] + Size(lines[k])
      /\ \A k \in 0 .. Len(lines) : f[k] \in Nat
      /\ \A k \in 0 .. Len(lines) : \A m \in 0 .. k : f[m] <= f[k]
  BY <1>1, SumIs, SumIsNat, SumGrows
<1>3. (\A n : Before(n) = f[n - 1]) /\ Total = f[Len(lines)]
  BY BeforeIs DEF Total
<1> HIDE DEF f
<1>4. ASSUME NEW n \in DOMAIN lines
      PROVE  /\ Before(n) \in Nat /\ (n = 1 => Before(n) = 0)
             /\ Before(n) + Size(lines[n]) = f[n]
  <2>1. n \in 1 .. Len(lines) /\ n - 1 \in 0 .. Len(lines)
    BY <1>1
  <2>2. Before(n) = f[n - 1] /\ f[n - 1] \in Nat /\ f[n] = f[n - 1] + Size(lines[n])
    BY <1>2, <1>3, <2>1
  <2>3. n = 1 => f[n - 1] = 0
    BY <1>2
  <2>4. QED BY <2>2, <2>3
<1>5. \A n \in DOMAIN lines : f[n] <= Total /\ (n = Len(lines) => f[n] = Total)
  BY <1>1, <1>2, <1>3
<1>6. \A n, k \in DOMAIN lines : (n < k => f[n] <= Before(k)) /\ (k = n + 1 => f[n] = Before(k))
  <2> SUFFICES ASSUME NEW n \in DOMAIN lines, NEW k \in DOMAIN lines
               PROVE  (n < k => f[n] <= Before(k)) /\ (k = n + 1 => f[n] = Before(k))
    OBVIOUS
  <2>1. n \in Nat /\ k - 1 \in 0 .. Len(lines) /\ (n < k => n \in 0 .. k - 1) /\ (k = n + 1 => k - 1 = n)
    BY <1>1
  <2>2. Before(k) = f[k - 1]
    BY <1>3
  <2>3. QED BY <1>2, <2>1, <2>2
<1>7. Total \in Nat /\ (lines = <<>> => Total = 0)
  BY <1>1, <1>2, <1>3
<1>8. QED BY <1>4, <1>5, <1>6, <1>7

\* The number after the last line.
LEMMA NextNumber ==
  ASSUME IInv, NEW p \in Candidates, LoadLine(p)
  PROVE  Total' = Total + Size(p) /\ prev_idx' = Total
<1>1. /\ Listing /\ Len(lines) \in Nat
      /\ Len(lines') = Len(lines) + 1 /\ lines'[Len(lines) + 1] = p
      /\ \A k \in 1 .. Len(lines) : lines'[k] = lines[k]
  BY LoadListing, LinesAre DEF IInv
<1>2. SumOf(lines')[Len(lines)] = SumOf(lines)[Len(lines)]
  BY <1>1, SumStays
<1>3. SumOf(lines')[Len(lines) + 1] = SumOf(lines')[Len(lines) + 1 - 1] + Size(lines'[Len(lines) + 1])
  <2>1. Len(lines') \in Nat /\ Len(lines) + 1 \in 1 .. Len(lines')
    BY <1>1
  <2>2. QED BY <2>1, SumIs
<1>4. Len(lines) + 1 - 1 = Len(lines)
  BY <1>1
<1>5. QED BY <1>1, <1>2, <1>3, <1>4, LoadNumbers DEF Total

\* The addresses of a prefix: as many as its size, all of them addresses.
LEMMA CoversMany ==
  ASSUME NEW p \in Candidates
  PROVE  /\ Covers(p) \subseteq 0 .. Octet * Size8 - 1
         /\ IsFiniteSet(Covers(p)) /\ Cardinality(Covers(p)) = Size(p)
<1>1. p \in 1 .. Octet * Octet * Octet - 1 /\ p \in Nat
  <2>1. p \in 1 .. Octet * Octet * Octet - 2 /\ Octet * Octet * Octet \in Nat
    BY NatTableAssumption, Sizes DEF Size8
  <2>2. QED BY <2>1
<1>2. ASSUME NEW addr \in Covers(p) PROVE addr \in 0 .. Octet * Size8 - 1
  <2>1. addr \in Nat /\ addr \div Size8 \in 1 .. Octet - 1
    BY <1>1, FirstBits
  <2>2. Octet * Size8 <= addr <=> Octet <= addr \div Size8
    BY <2>1, Sizes, Quotients
  <2>3. Octet * Size8 \in Nat
    BY Sizes
  <2>4. QED BY <2>1, <2>2, <2>3, Sizes
<1>3. Size(p) \in Nat /\ Size(p) > 0 /\ First(p) \in Int
  <2>1. Size(p) \in Nat /\ Size(p) > 0
    BY Sizes DEF Size
  <2>2. QED BY <1>1, <2>1 DEF First
<1>4. /\ IsFiniteSet(Covers(p))
      /\ Cardinality(Covers(p)) = Size(p)
  <2> DEFINE b == First(p) + Size(p) - 1
  <2>1. First(p) \in Int /\ b \in Int /\ First(p) <= b /\ b - First(p) + 1 = Size(p)
    BY <1>3
  <2>2. Covers(p) = First(p) .. b
    BY DEF Covers
  <2> HIDE DEF b
  <2>3. QED BY <2>1, <2>2, FS_Interval
<1>5. QED BY <1>2, <1>3, <1>4

Counted == IsFiniteSet(Addresses) /\ Cardinality(Addresses) = Total

LEMMA LoadCounted ==
  ASSUME IInv, Counted, NEW p \in Candidates, LoadLine(p)
  PROVE  Counted'
<1>1. /\ Listing /\ DOMAIN lines' = DOMAIN lines \cup {Len(lines) + 1}
      /\ lines'[Len(lines) + 1] = p
      /\ \A n \in DOMAIN lines : lines'[n] = lines[n]
  BY LoadListing DEF IInv
<1>2. \A n \in DOMAIN lines : Covers(lines[n]) \cap Covers(p) = {}
  BY ZenonT(30) DEF LoadLine
<1>3. Addresses' = UNION {Covers(lines'[n]) : n \in DOMAIN lines'}
  BY DEF Addresses, Covers, First, Size, Size8, Size16, Size24
<1>4. Addresses' = Addresses \cup Covers(p) /\ Addresses \cap Covers(p) = {}
  BY <1>1, <1>2, <1>3 DEF Addresses
<1>5. /\ IsFiniteSet(Covers(p)) /\ Cardinality(Covers(p)) = Size(p) /\ Size(p) \in Nat
      /\ IsFiniteSet(Addresses) /\ Cardinality(Addresses) = Total /\ Total \in Nat
  BY <1>1, CoversMany, Numbers, FS_CardinalityType DEF Counted
<1>6. Cardinality({}) = 0
  BY FS_EmptySet
<1>7. /\ IsFiniteSet(Addresses \cup Covers(p))
      /\ Cardinality(Addresses \cup Covers(p)) = Total + Size(p) - 0
  BY <1>4, <1>5, <1>6, FS_Union
<1>8. Total' = Total + Size(p)
  BY NextNumber
<1>9. QED BY <1>4, <1>5, <1>7, <1>8 DEF Counted

\* There are no more addresses in a file than there are addresses.
LEMMA Bounded ==
  ASSUME Listing, Counted
  PROVE  Total <= Octet * Size8
<1> DEFINE All == 0 .. Octet * Size8 - 1
<1>1. Octet * Size8 \in Nat /\ Octet * Size8 > 0
  BY Sizes
<1>2. IsFiniteSet(All) /\ Cardinality(All) = Octet * Size8
  <2>1. IsFiniteSet(All) /\ Cardinality(All) = Octet * Size8 - 1 - 0 + 1
    BY <1>1, FS_Interval
  <2>2. QED BY <1>1, <2>1
<1>3. Addresses \subseteq All
  <2>1. \A n \in DOMAIN lines : Covers(lines[n]) \subseteq All
    BY LinesAre, CoversMany
  <2> HIDE DEF All
  <2>2. QED BY <2>1 DEF Addresses
<1> HIDE DEF All
<1>4. Cardinality(Addresses) <= Cardinality(All)
  BY <1>2, <1>3, FS_Subset
<1>5. QED BY <1>2, <1>4 DEF Counted

-----------------------------------------------------------------------------
(***************************************************************************)
(* The entries that idx_to_ip starts from.  In a file of prefixes of 8     *)
(* bits only, entry n of idx_tbl is the prefix with the indices from       *)
(* n * 2^24 on.  In a file with none of them, whose /16s come before its   *)
(* /24s, a prefix begins at each multiple of 2^16, and entry n is the one  *)
(* that begins at n * 2^16, as long as the indices are below 2^24.         *)
(***************************************************************************)

IdxRange == 0 .. IdxEntries - 1
IdxSlots == idx_table = [n \in IdxRange |-> idx_table[n]]

AllLong == \A n \in DOMAIN lines : lines[n] < Octet
NoLong  == \A n \in DOMAIN lines : lines[n] >= Octet

Long ==
  AllLong => \A n \in DOMAIN lines : Before(n) = (n - 1) * Size8 /\ idx_table[n - 1] = lines[n]

\* A line begins at b blocks of 24 bits after a blocks of 16.
At(x, a, b) == x = a * Size16 + b * Size24

Whole ==
  NoLong => \A n \in DOMAIN lines : \E a \in Nat, b \in 0 .. Octet - 1 :
              At(Before(n), a, b) /\ (lines[n] < Octet * Octet => b = 0)

Blocks ==
  NoLong /\ prev_idx < Size8 =>
    \A j \in Nat : j * Size16 <= prev_idx =>
      \E k \in DOMAIN lines : idx_table[j] = lines[k] /\ Before(k) = j * Size16

Laid == IdxSlots /\ Long /\ Whole /\ Blocks

\* The next line begins at an entry of idx_tbl, unless it begins behind what the
\* table has entries for.
LEMMA NextSlots ==
  ASSUME IInv, Counted, Counted', NEW p \in Candidates, LoadLine(p)
  PROVE  /\ Total \in Nat /\ Total < Octet * Size8
         /\ Total \div Size8 \in IdxRange /\ 0 \in IdxRange
         /\ Total < IdxEntries * Size16 => Total \div Size16 \in IdxRange
         /\ Size8 <= IdxEntries * Size16
<1>1. Listing /\ Listing' /\ Total' = Total + Size(p)
  BY LoadListing, NextNumber DEF IInv
<1>2. Total \in Nat /\ Size(p) \in Nat /\ Size(p) > 0
  BY <1>1, Numbers, Sizes DEF Size
<1>3. Total' <= Octet * Size8
  <2>1. (Listing /\ Counted => Total <= Octet * Size8)'
    BY Bounded, PTL
  <2>2. QED BY <1>1, <2>1 DEF Size8
<1>4. Total < Octet * Size8
  <2>1. Octet * Size8 \in Nat
    BY Sizes
  <2>2. QED BY <1>1, <1>2, <1>3, <2>1
<1>5. /\ IdxEntries \in Nat /\ IdxEntries >= Octet /\ Octet \in Nat /\ Octet > 1
      /\ Size8 = Octet * Size16 /\ Size16 \in Nat /\ Size16 > 0 /\ Size8 \in Nat /\ Size8 > 0
  <2>1. Octet * Octet * Octet = Octet * (Octet * Octet)
    BY Sizes
  <2>2. QED BY <2>1, NatTableAssumption, Sizes DEF Size8, Size16
<1>6. Size8 <= IdxEntries * Size16
  BY <1>5
<1>7. Total \div Size8 \in Nat /\ Total \div Size16 \in Nat
  BY <1>2, <1>5, Division
<1>8. Total \div Size8 < Octet
  <2>1. Octet * Size8 <= Total <=> Octet <= Total \div Size8
    BY <1>2, <1>5, Quotients
  <2>2. Octet * Size8 \in Nat
    BY <1>5
  <2>3. QED BY <1>2, <1>4, <1>5, <1>7, <2>1, <2>2
<1>9. Total < IdxEntries * Size16 => Total \div Size16 < IdxEntries
  <2>1. IdxEntries * Size16 <= Total <=> IdxEntries <= Total \div Size16
    BY <1>2, <1>5, Quotients
  <2>2. IdxEntries * Size16 \in Nat
    BY <1>5
  <2>3. QED BY <1>2, <1>5, <1>7, <2>1, <2>2
<1>10. QED BY <1>2, <1>4, <1>5, <1>6, <1>7, <1>8, <1>9 DEF IdxRange

\* What a line does to idx_tbl, in terms of where it and the line before begin.
LEMMA StoreIs ==
  ASSUME IInv, IdxSlots, NEW p \in Candidates, LoadLine(p), Total \in Nat,
         Total \div Size8 \in IdxRange, 0 \in IdxRange
  PROVE  /\ IdxSlots'
         /\ lines = <<>> => Total = 0 /\ idx_table'[0] = p
         /\ lines # <<>> =>
              /\ prev_idx \in Nat /\ Total > 0 /\ prev_idx <= Total
              /\ Total = prev_idx + Size(PrevP)
              /\ Total \div Size8 # prev_idx \div Size8 =>
                   /\ idx_table'[Total \div Size8] = p
                   /\ \A j \in IdxRange : j # Total \div Size8 => idx_table'[j] = idx_table[j]
              /\ Total \div Size8 = prev_idx \div Size8 /\ Total \div Size16 # prev_idx \div Size16 =>
                   /\ Total \div Size16 \in IdxRange => idx_table'[Total \div Size16] = p
                   /\ \A j \in IdxRange : j # Total \div Size16 => idx_table'[j] = idx_table[j]
              /\ Total \div Size8 = prev_idx \div Size8 /\ Total \div Size16 = prev_idx \div Size16 =>
                   idx_table' = idx_table
         /\ StoredAt(Total) \subseteq {0, Total \div Size8, Total \div Size16}
         /\ idx_table' = [j \in IdxRange |-> IF j \in StoredAt(Total) THEN p ELSE idx_table[j]]
         /\ overrun' = (overrun \/ ~ (StoredAt(Total) \subseteq IdxRange))
<1>1. Listing /\ Ends
  BY DEF IInv
<1>2. /\ idx_table' = [j \in IdxRange |-> IF j \in StoredAt(Total) THEN p ELSE idx_table[j]]
      /\ overrun' = (overrun \/ ~ (StoredAt(Total) \subseteq IdxRange))
  <2>1. DOMAIN idx_table = IdxRange
    BY DEF IdxSlots
  <2>2. QED BY <2>1, NextIndex, ZenonT(30) DEF LoadLine, Total
<1>3. lines = <<>> => Total = 0
  BY <1>1, Numbers
<1>4. ASSUME lines # <<>>
      PROVE  /\ prev_idx \in Nat /\ Total > 0 /\ prev_idx <= Total
             /\ Total = prev_idx + Size(PrevP)
  <2>1. Len(lines) \in DOMAIN lines /\ PrevP = lines[Len(lines)]
    BY <1>1, <1>4, LinesAre
  <2>2. /\ prev_idx = Before(Len(lines)) /\ Before(Len(lines)) \in Nat
        /\ Before(Len(lines)) + Size(PrevP) = Total
    BY <1>1, <1>4, <2>1, Numbers DEF Ends
  <2>3. Size(PrevP) \in Nat /\ Size(PrevP) > 0
    BY Sizes DEF Size
  <2>4. QED BY <2>2, <2>3
<1>5. \A s : lines # <<>> => Quotient(prev_idx, s) = prev_idx \div s
  BY <1>4 DEF Quotient
<1> DEFINE q8 == Total \div Size8
           q16 == Total \div Size16
           r8 == prev_idx \div Size8
           r16 == prev_idx \div Size16
<1>6. /\ Total = 0 => StoredAt(Total) = {0}
      /\ Total # 0 /\ lines # <<>> =>
           /\ q8 # r8 => StoredAt(Total) = {q8}
           /\ q8 = r8 /\ q16 # r16 => StoredAt(Total) = {q16}
           /\ q8 = r8 /\ q16 = r16 => StoredAt(Total) = {}
      /\ StoredAt(Total) \subseteq {0, q8, q16}
  <2>1. StoredAt(Total) =
          CASE Total = 0 -> {0}
            [] Total # 0 /\ q8 # Quotient(prev_idx, Size8) -> {q8}
            [] Total # 0 /\ q8 = Quotient(prev_idx, Size8) /\ q16 # Quotient(prev_idx, Size16) -> {q16}
            [] OTHER -> {}
    BY DEF StoredAt
  <2> HIDE DEF q8, q16, r8, r16
  <2>2. lines # <<>> => Quotient(prev_idx, Size8) = r8 /\ Quotient(prev_idx, Size16) = r16
    BY <1>5 DEF r8, r16
  <2>3. QED BY <2>1, <2>2
<1>7. q8 \in IdxRange /\ 0 \in IdxRange
  OBVIOUS
<1> HIDE DEF q8, q16, r8, r16
<1>8. \A j \in IdxRange : idx_table'[j] = IF j \in StoredAt(Total) THEN p ELSE idx_table[j]
  BY <1>2
<1>9. idx_table = [j \in IdxRange |-> idx_table[j]]
  BY DEF IdxSlots
<1>10. IdxSlots'
  BY <1>2 DEF IdxSlots, IdxRange
<1>11. lines = <<>> => Total = 0 /\ idx_table'[0] = p
  BY <1>3, <1>6, <1>7, <1>8
<1>12. ASSUME lines # <<>>
       PROVE  /\ q8 # r8 => /\ idx_table'[q8] = p
                            /\ \A j \in IdxRange : j # q8 => idx_table'[j] = idx_table[j]
              /\ q8 = r8 /\ q16 # r16 => /\ q16 \in IdxRange => idx_table'[q16] = p
                                         /\ \A j \in IdxRange : j # q16 => idx_table'[j] = idx_table[j]
              /\ q8 = r8 /\ q16 = r16 => idx_table' = idx_table
  <2>1. Total # 0
    BY <1>4, <1>12
  <2>2. q8 = r8 /\ q16 = r16 => idx_table' = idx_table
    BY <1>2, <1>6, <1>9, <1>12, <2>1
  <2>3. QED BY <1>6, <1>7, <1>8, <1>12, <2>1, <2>2
<1>13. QED BY <1>2, <1>4, <1>6, <1>10, <1>11, <1>12 DEF q8, q16, r8, r16

LEMMA LoadLong ==
  ASSUME IInv, Counted, Counted', Laid, NEW p \in Candidates, LoadLine(p)
  PROVE  Long'
<1>1. /\ Listing /\ Ends /\ Long /\ IdxSlots
      /\ Len(lines) \in Nat /\ DOMAIN lines = 1 .. Len(lines)
      /\ DOMAIN lines' = DOMAIN lines \cup {Len(lines) + 1} /\ lines'[Len(lines) + 1] = p
      /\ \A n \in DOMAIN lines : lines'[n] = lines[n] /\ Before(n)' = Before(n)
      /\ \A n : n = Len(lines) + 1 => Before(n)' = Total
  BY LinesAre, LoadListing, LoadNumbers DEF IInv, Laid, Total
<1>2. /\ Total \in Nat /\ Total < Octet * Size8
      /\ Total \div Size8 \in IdxRange /\ 0 \in IdxRange
  BY NextSlots
<1> SUFFICES ASSUME AllLong', NEW n \in DOMAIN lines'
             PROVE  Before(n)' = (n - 1) * Size8 /\ idx_table'[n - 1] = lines'[n]
  BY DEF Long, Size8
<1>3. AllLong /\ p < Octet
  BY <1>1 DEF AllLong
<1>4. \A k \in DOMAIN lines : Before(k) = (k - 1) * Size8 /\ idx_table[k - 1] = lines[k]
  BY <1>1, <1>3 DEF Long
<1>5. CASE lines = <<>>
  <2>1. n = 1 /\ Len(lines) = 0
    BY <1>1, <1>5, LinesAre
  <2>2. Total = 0 /\ idx_table'[0] = p
    BY <1>1, <1>2, <1>5, StoreIs
  <2>3. lines'[n] = p /\ Before(n)' = 0 /\ n - 1 = 0 /\ 0 * Size8 = 0
    BY <1>1, <2>1, <2>2, Sizes
  <2>4. QED BY <2>2, <2>3
<1>6. CASE lines # <<>>
  <2> DEFINE N == Len(lines)
  <2>1. N \in DOMAIN lines /\ N \in Nat /\ N >= 1 /\ PrevP = lines[N] /\ prev_idx = Before(N)
    BY <1>1, <1>6, LinesAre DEF Ends
  <2>2. Size(PrevP) = Size8 /\ Size8 \in Nat /\ Size8 > 0
    BY <1>3, <2>1, Sizes DEF AllLong, Size
  <2>3. prev_idx = (N - 1) * Size8 /\ Total = N * Size8
    <3>1. prev_idx = (N - 1) * Size8 /\ Total = prev_idx + Size8
      BY <1>1, <1>2, <1>4, <1>6, <2>1, <2>2, StoreIs
    <3>2. (N - 1) * Size8 + Size8 = N * Size8
      BY <2>1, <2>2
    <3>3. QED BY <3>1, <3>2
  <2>4. Total \div Size8 = N /\ prev_idx \div Size8 = N - 1
    <3>1. /\ N * Size8 <= Total /\ Total <= N * Size8 + Size8 - 1
          /\ (N - 1) * Size8 <= prev_idx /\ prev_idx <= (N - 1) * Size8 + Size8 - 1
          /\ prev_idx \in Nat /\ N - 1 \in Nat
      <4>1. N * Size8 \in Int /\ (N - 1) * Size8 \in Int /\ prev_idx \in Nat
        BY <1>1, <1>2, <1>6, <2>1, <2>2, StoreIs
      <4>2. QED BY <2>1, <2>2, <2>3, <4>1
    <3>2. QED BY <1>2, <2>1, <2>2, <3>1, Quotients
  <2>5. /\ idx_table'[N] = p
        /\ \A j \in IdxRange : j # N => idx_table'[j] = idx_table[j]
        /\ N \in IdxRange
    <3>1. Total \div Size8 # prev_idx \div Size8
      BY <2>1, <2>4
    <3>2. QED BY <1>1, <1>2, <1>6, <2>4, <3>1, StoreIs
  <2>6. CASE n = N + 1
    <3>1. n - 1 = N /\ lines'[n] = p /\ Before(n)' = Total
      BY <1>1, <2>1, <2>6
    <3>2. QED BY <2>3, <2>5, <3>1
  <2>7. CASE n \in DOMAIN lines
    <3>1. n - 1 \in IdxRange /\ n - 1 # N
      <4>1. n \in 1 .. N
        BY <1>1, <2>7
      <4>2. N \in 0 .. IdxEntries - 1 /\ IdxEntries \in Nat
        BY <2>5, NatTableAssumption DEF IdxRange
      <4>3. QED BY <4>1, <4>2 DEF IdxRange
    <3>2. QED BY <1>1, <1>4, <2>5, <2>7, <3>1
  <2>8. QED BY <1>1, <2>6, <2>7
<1>7. QED BY <1>5, <1>6

\* Sizes are whole numbers of the smaller blocks.
LEMMA Steps ==
  ASSUME NEW x \in Nat, NEW a \in Nat, NEW b \in 0 .. Octet - 1, At(x, a, b)
  PROVE  /\ x \div Size16 = a
         /\ b = 0 => At(x + Size16, a + 1, 0)
         /\ b + 1 < Octet => At(x + Size24, a, b + 1)
         /\ b + 1 = Octet => At(x + Size24, a + 1, 0)
<1> DEFINE S == Size16
           O == Octet
<1>1. /\ O \in Nat /\ S \in Nat /\ O > 0 /\ S > 0 /\ S = O * O /\ Size24 = O
  BY Sizes DEF Size16, Size24
<1>2. x = a * S + b * O /\ b \in 0 .. O - 1
  BY <1>1 DEF At
<1> HIDE DEF S, O
<1>3. /\ a * S \in Nat /\ b * O \in Nat
      /\ (a + 1) * S = a * S + S /\ (b + 1) * O = b * O + O /\ 0 * O = 0
  BY <1>1, <1>2
<1>4. b * O + O <= S
  <2>1. (b + 1) * O <= O * O
    BY <1>1, <1>2
  <2>2. QED BY <1>1, <1>3, <2>1
<1>5. a * S <= x /\ x <= a * S + S - 1
  BY <1>1, <1>2, <1>3, <1>4
<1>6. x \div S = a
  BY <1>1, <1>5, Quotients
<1>7. b = 0 => x + S = (a + 1) * S + 0 * O
  BY <1>1, <1>2, <1>3
<1>8. x + O = a * S + (b + 1) * O
  BY <1>1, <1>2, <1>3
<1>9. b + 1 = O => x + O = (a + 1) * S + 0 * O
  <2>1. b + 1 = O => (b + 1) * O = S
    BY <1>1, <1>2
  <2>2. QED BY <1>1, <1>3, <1>8, <2>1
<1>10. QED BY <1>1, <1>6, <1>7, <1>8, <1>9 DEF S, O, At

LEMMA NextBlock ==
  ASSUME IInv, Whole, NoLong, NEW p \in Candidates, p > PrevP, lines # <<>>,
         Total = prev_idx + Size(PrevP)
  PROVE  \E a, c \in Nat, b, d \in 0 .. Octet - 1 :
           /\ prev_idx \in Nat /\ At(prev_idx, a, b) /\ At(Total, c, d) /\ c \in {a, a + 1}
           /\ p < Octet * Octet => d = 0
           /\ c # a => d = 0
<1>1. /\ Listing /\ Len(lines) \in DOMAIN lines /\ PrevP = lines[Len(lines)] /\ PrevP \in Nat
      /\ p \in Nat /\ prev_idx = Before(Len(lines)) /\ Before(Len(lines)) \in Nat
  BY LinesAre, Numbers DEF IInv, Ends
<1>2. PICK a \in Nat, b \in 0 .. Octet - 1 :
        At(prev_idx, a, b) /\ (PrevP < Octet * Octet => b = 0)
  BY <1>1 DEF Whole
<1>3. PrevP >= Octet /\ Octet \in Nat /\ Octet * Octet \in Nat /\ Octet > 1
  BY <1>1, Sizes DEF NoLong
<1>4. /\ b = 0 => At(prev_idx + Size16, a + 1, 0)
      /\ b + 1 < Octet => At(prev_idx + Size24, a, b + 1)
      /\ b + 1 = Octet => At(prev_idx + Size24, a + 1, 0)
  BY <1>1, <1>2, Steps
<1>5. CASE PrevP < Octet * Octet
  <2>1. Size(PrevP) = Size16 /\ b = 0
    BY <1>1, <1>2, <1>3, <1>5 DEF Size
  <2>2. At(Total, a + 1, 0) /\ 0 \in 0 .. Octet - 1
    BY <1>3, <1>4, <2>1
  <2>3. QED BY <1>1, <1>2, <2>2
<1>6. CASE ~ (PrevP < Octet * Octet)
  <2>1. Size(PrevP) = Size24 /\ ~ (p < Octet * Octet)
    BY <1>1, <1>3, <1>6 DEF Size
  <2>2. CASE b + 1 < Octet
    <3>1. At(Total, a, b + 1) /\ b + 1 \in 0 .. Octet - 1
      BY <1>3, <1>4, <2>1, <2>2
    <3>2. QED BY <1>1, <1>2, <2>1, <3>1
  <2>3. CASE b + 1 = Octet
    <3>1. At(Total, a + 1, 0) /\ 0 \in 0 .. Octet - 1
      BY <1>3, <1>4, <2>1, <2>3
    <3>2. QED BY <1>1, <1>2, <2>1, <3>1
  <2>4. QED BY <1>3, <2>2, <2>3
<1>7. QED BY <1>5, <1>6

LEMMA LoadBlocks ==
  ASSUME IInv, Counted, Counted', Laid, NEW p \in Candidates, LoadLine(p)
  PROVE  Whole' /\ Blocks'
<1> SUFFICES ASSUME NoLong' PROVE Whole' /\ Blocks'
  BY DEF Whole, Blocks
<1>0. p > PrevP
  BY ZenonT(30) DEF LoadLine
<1>1. /\ Listing /\ Ends /\ Whole /\ Blocks /\ IdxSlots
      /\ Len(lines) \in Nat /\ DOMAIN lines = 1 .. Len(lines)
      /\ DOMAIN lines' = DOMAIN lines \cup {Len(lines) + 1} /\ lines'[Len(lines) + 1] = p
      /\ \A n \in DOMAIN lines : lines'[n] = lines[n] /\ Before(n)' = Before(n)
      /\ \A n : n = Len(lines) + 1 => Before(n)' = Total
      /\ prev_idx' = Total
  BY LinesAre, LoadListing, LoadNumbers DEF IInv, Laid, Total
<1>2. /\ Total \in Nat /\ Total < Octet * Size8
      /\ Total \div Size8 \in IdxRange /\ 0 \in IdxRange
      /\ Total < IdxEntries * Size16 => Total \div Size16 \in IdxRange
      /\ Size8 <= IdxEntries * Size16 /\ IdxEntries * Size16 \in Nat
  <2>1. IdxEntries * Size16 \in Nat
    BY NatTableAssumption, Sizes
  <2>2. QED BY <2>1, NextSlots
<1>3. NoLong
  BY <1>1 DEF NoLong
<1>4. /\ Size16 \in Nat /\ Size16 > 0 /\ Size8 \in Nat /\ Size8 > 0 /\ Octet \in Nat /\ Octet > 1
  BY Sizes
<1> PICK N \in Nat : N = Len(lines) + 1
  BY <1>1
<1>5. N \in DOMAIN lines' /\ lines'[N] = p /\ Before(N)' = Total
  BY <1>1
<1>6. CASE lines = <<>>
  <2>1. DOMAIN lines' = {N} /\ Total = 0 /\ idx_table'[0] = p
    <3>1. DOMAIN lines = {}
      BY <1>1, <1>6, LinesAre
    <3>2. QED BY <1>1, <1>2, <1>6, <3>1, StoreIs
  <2>2. At(0, 0, 0) /\ 0 \in 0 .. Octet - 1
    BY <1>4, Sizes DEF At
  <2>3. Whole'
    <3>1. \A n \in DOMAIN lines' : At(Before(n)', 0, 0)
      BY <1>5, <2>1, <2>2
    <3>2. QED BY <2>2, <3>1 DEF Whole, At, Size16, Size24
  <2>4. \A j \in Nat : j * Size16 <= prev_idx' =>
          \E k \in DOMAIN lines' : idx_table'[j] = lines'[k] /\ Before(k)' = j * Size16
    <3> SUFFICES ASSUME NEW j \in Nat, j * Size16 <= 0
                 PROVE  idx_table'[j] = lines'[N] /\ Before(N)' = j * Size16
      BY <1>1, <1>5, <2>1
    <3>1. j = 0 /\ 0 * Size16 = 0
      BY <1>4
    <3>2. QED BY <1>5, <2>1, <3>1
  <2>5. QED BY <2>3, <2>4 DEF Blocks, Size16, Size8
<1>7. CASE lines # <<>>
  <2>1. prev_idx \in Nat /\ prev_idx <= Total /\ Total = prev_idx + Size(PrevP)
    BY <1>1, <1>2, <1>7, StoreIs
  <2>2. PICK a \in Nat, c \in Nat, b \in 0 .. Octet - 1, d \in 0 .. Octet - 1 :
          /\ At(prev_idx, a, b) /\ At(Total, c, d) /\ c \in {a, a + 1}
          /\ p < Octet * Octet => d = 0
          /\ c # a => d = 0
    BY <1>0, <1>1, <1>3, <1>7, <2>1, NextBlock
  <2>3. c \in Nat
    BY <2>2
  <2>4. Whole'
    <3>1. \A n \in DOMAIN lines' : \E x \in Nat, y \in 0 .. Octet - 1 :
            At(Before(n)', x, y) /\ (lines'[n] < Octet * Octet => y = 0)
      <4> SUFFICES ASSUME NEW n \in DOMAIN lines'
                   PROVE  \E x \in Nat, y \in 0 .. Octet - 1 :
                            At(Before(n)', x, y) /\ (lines'[n] < Octet * Octet => y = 0)
        OBVIOUS
      <4>1. CASE n = N
        BY <1>5, <2>2, <2>3, <4>1
      <4>2. CASE n \in DOMAIN lines
        BY <1>1, <1>3, <4>2 DEF Whole
      <4>3. QED BY <1>1, <4>1, <4>2
    <3>2. QED BY <3>1 DEF Whole, At, Size16, Size24
  <2>5. ASSUME Total < Size8, NEW j \in Nat, j * Size16 <= Total
        PROVE  \E k \in DOMAIN lines' : idx_table'[j] = lines'[k] /\ Before(k)' = j * Size16
    <3>1. Total \div Size8 = 0 /\ prev_idx \div Size8 = 0
      <4>1. 0 * Size8 = 0 /\ prev_idx < Size8
        BY <1>2, <1>4, <2>1, <2>5
      <4>2. QED BY <1>2, <1>4, <2>1, <2>5, <4>1, Quotients
    <3>2. Total \div Size16 = c /\ prev_idx \div Size16 = a
      BY <1>2, <2>1, <2>2, <2>3, Steps
    <3>3. /\ j <= c /\ (j * Size16 <= prev_idx <=> j <= a)
      BY <1>2, <1>4, <2>1, <2>5, <3>2, Quotients
    <3>4. c \in IdxRange
      BY <1>2, <1>4, <2>5, <3>2
    <3>5. CASE c # a /\ j = c
      <4>1. idx_table'[j] = p
        BY <1>1, <1>2, <1>7, <3>1, <3>2, <3>4, <3>5, StoreIs
      <4>2. Total = j * Size16
        <5>1. Total = c * Size16 + 0 * Size24 /\ 0 * Size24 = 0 /\ c * Size16 \in Nat
          BY <1>4, <2>2, <2>3, <3>5, Sizes DEF At
        <5>2. QED BY <3>5, <5>1
      <4>3. QED BY <1>5, <4>1, <4>2
    <3>6. CASE ~ (c # a /\ j = c)
      <4>1. j <= a /\ j \in IdxRange /\ (c # a => j # c)
        <5>1. j <= a /\ (c # a => j # c)
          BY <2>2, <2>3, <3>3, <3>6
        <5>2. c \in 0 .. IdxEntries - 1 /\ IdxEntries \in Nat
          BY <3>4, NatTableAssumption DEF IdxRange
        <5>3. QED BY <2>3, <3>3, <5>1, <5>2 DEF IdxRange
      <4>2. idx_table'[j] = idx_table[j]
        <5>1. CASE c = a
          BY <1>1, <1>2, <1>7, <3>1, <3>2, <5>1, StoreIs
        <5>2. CASE c # a
          BY <1>1, <1>2, <1>7, <3>1, <3>2, <4>1, <5>2, StoreIs
        <5>3. QED BY <5>1, <5>2
      <4>3. prev_idx < Size8
        BY <1>2, <1>4, <2>1, <2>5
      <4>4. PICK k \in DOMAIN lines : idx_table[j] = lines[k] /\ Before(k) = j * Size16
        BY <1>1, <1>3, <3>3, <4>1, <4>3 DEF Blocks
      <4>5. QED BY <1>1, <4>2, <4>4
    <3>7. QED BY <3>5, <3>6
  <2>6. prev_idx' < Size8 => \A j \in Nat : j * Size16 <= prev_idx' =>
          \E k \in DOMAIN lines' : idx_table'[j] = lines'[k] /\ Before(k)' = j * Size16
    BY <1>1, <2>5
  <2>7. QED BY <2>4, <2>6 DEF Blocks, Size16, Size8
<1>8. QED BY <1>6, <1>7

-----------------------------------------------------------------------------
(***************************************************************************)
(* The chain of prefixes that the loop of idx_to_ip follows.               *)
(***************************************************************************)
Chained ==
  /\ \A n, k \in DOMAIN lines : k = n + 1 => t[lines[n]].next = lines[k]
  /\ loaded /\ LastTaken => /\ t[PrevP].next = PrevP + 1 /\ t[PrevP + 1].index = Total
                            /\ MAX_IDX = Total

LEMMA LoadChained ==
  ASSUME IInv, Chained, NEW p \in Candidates, LoadLine(p)
  PROVE  Chained'
<1>1. /\ Listing /\ Marks /\ Len(lines) \in Nat /\ DOMAIN lines = 1 .. Len(lines)
      /\ DOMAIN lines' = DOMAIN lines \cup {Len(lines) + 1} /\ lines'[Len(lines) + 1] = p
      /\ \A n \in DOMAIN lines : lines'[n] = lines[n]
  BY LinesAre, LoadListing DEF IInv
<1> DEFINE idx == IF lines = <<>> THEN 0 ELSE prev_idx + Size(PrevP)
           next(q) == IF q = p THEN [t[q] EXCEPT !.prev = p, !.index = idx]
                      ELSE IF q = PrevP THEN [t[q] EXCEPT !.next = p]
                      ELSE IF q \in Start .. p - 1
                        THEN [prev |-> PrevP, next |-> p, index |-> prev_idx]
                      ELSE t[q]
<1>2. t' = [q \in Slots |-> next(q)] /\ p > PrevP /\ ~ loaded'
  BY ZenonT(30) DEF LoadLine
<1>a. ~ loaded' /\ p > PrevP
  BY ZenonT(30) DEF LoadLine
<1> HIDE DEF next, idx
<1> SUFFICES ASSUME NEW n \in DOMAIN lines', NEW k \in DOMAIN lines', k = n + 1
             PROVE  t'[lines'[n]].next = lines'[k]
  BY <1>a DEF Chained
<1>3. n \in DOMAIN lines /\ n \in Nat /\ lines # <<>> /\ lines'[n] = lines[n]
      /\ (n = Len(lines) <=> k = Len(lines) + 1) /\ (n # Len(lines) => k \in DOMAIN lines)
  <2>1. n \in DOMAIN lines /\ n \in Nat
    BY <1>1
  <2>2. QED BY <1>1, <2>1, LinesAre
<1> DEFINE q == lines[n]
<1>4. /\ q \in Slots /\ q \in Nat /\ PrevP \in Nat /\ p \in Nat /\ (n # Len(lines) => q < PrevP)
      /\ (n = Len(lines) => q = PrevP)
  BY <1>1, <1>3, LinesAre
<1>5. t[q] = [prev |-> t[q].prev, next |-> t[q].next, index |-> t[q].index]
  BY <1>1, <1>4 DEF Marks
<1>6. Start = PrevP + 1 /\ q # p
  BY <1>a, <1>3, <1>4 DEF Start
<1>7. CASE n = Len(lines)
  <2>1. next(q) = [t[q] EXCEPT !.next = p]
    BY <1>4, <1>6, <1>7 DEF next
  <2>2. next(q) = [prev |-> t[q].prev, next |-> p, index |-> t[q].index]
    BY <1>5, <2>1
  <2>3. t'[q].next = p
    BY <1>2, <1>4, <2>2
  <2>4. k = Len(lines) + 1 /\ lines'[n] = q
    BY <1>3, <1>7
  <2>5. lines'[k] = p
    BY <1>1, <2>4
  <2> HIDE DEF q
  <2>6. QED BY <2>3, <2>4, <2>5
<1>8. CASE n # Len(lines)
  <2>1. next(q) = t[q]
    <3>1. q # PrevP /\ q \notin Start .. p - 1
      BY <1>4, <1>6, <1>8
    <3>2. QED BY <1>6, <3>1 DEF next
  <2>2. t'[q] = t[q]
    BY <1>2, <1>4, <2>1
  <2>3. t[q].next = lines[k] /\ lines'[k] = lines[k]
    BY <1>1, <1>3, <1>8 DEF Chained
  <2>4. QED BY <1>3, <2>2, <2>3
<1>9. QED BY <1>7, <1>8

LEMMA EndChained ==
  ASSUME IInv, Chained, EndOfFile
  PROVE  Chained'
<1> DEFINE top == t[PrevP].index + read.size
<1>1. /\ Listing /\ Marks /\ Ends /\ lines # <<>> /\ MAX_IDX' = read.idx + read.size
      /\ t' = [t EXCEPT ![PrevP].next = PrevP + 1, ![PrevP + 1].index = top]
      /\ UNCHANGED <<lines, prev_idx, read>>
  BY DEF IInv, EndOfFile
<1>2. LastTaken => top = Total /\ MAX_IDX' = Total
  <2>1. Total = prev_idx + Size(PrevP)
    BY <1>1, NextIndex DEF Total
  <2>2. t[PrevP].index = prev_idx
    BY <1>1, LinesAre DEF Marks, Ends
  <2>3. LastTaken => read.idx = prev_idx /\ read.size = Size(PrevP)
    BY <1>1 DEF LastTaken, LineOf
  <2>4. QED BY <1>1, <2>1, <2>2, <2>3
<1>3. /\ PrevP \in Slots /\ PrevP + 1 \in Slots /\ PrevP \in Nat /\ DOMAIN lines \subseteq Nat
      /\ \A n \in DOMAIN lines : lines[n] \in Slots /\ lines[n] \in Nat /\ lines[n] <= PrevP
      /\ \A n \in DOMAIN lines : n # Len(lines) => lines[n] < PrevP
      /\ \A n, k \in DOMAIN lines : k = n + 1 => n # Len(lines)
  <2> DEFINE C == Octet * Octet * Octet
  <2>1. C \in Nat /\ Slots = 0 .. C - 1
    BY Sizes DEF Slots, Size8
  <2>2. PrevP \in Nat /\ PrevP + 1 < C /\ PrevP \in Slots
    BY <1>1, LinesAre
  <2>3. \A n \in DOMAIN lines : lines[n] \in Slots /\ lines[n] \in Nat /\ lines[n] <= PrevP
    BY <1>1, <2>2, LinesAre
  <2>4. Len(lines) \in Nat /\ DOMAIN lines = 1 .. Len(lines)
    BY <1>1, LinesAre
  <2>5. \A n, k \in DOMAIN lines : k = n + 1 => n # Len(lines)
    BY <2>4
  <2> HIDE DEF C
  <2>6. QED BY <1>1, <2>1, <2>2, <2>3, <2>4, <2>5, LinesAre
<1> HIDE DEF top
<1>4. \A q \in Slots : t[q] = [prev |-> t[q].prev, next |-> t[q].next, index |-> t[q].index]
  BY <1>1 DEF Marks
<1>5. \A q \in Slots : t'[q] =
           IF q = PrevP THEN [t[q] EXCEPT !.next = PrevP + 1]
           ELSE IF q = PrevP + 1 THEN [t[q] EXCEPT !.index = top] ELSE t[q]
  <2>1. DOMAIN t = Slots /\ t = [q \in Slots |-> t[q]]
    BY <1>1 DEF Marks
  <2>2. PrevP # PrevP + 1
    BY <1>3
  <2> DEFINE h == [t EXCEPT ![PrevP].next = PrevP + 1]
  <2>3. /\ h = [q \in Slots |-> h[q]]
        /\ \A q \in Slots : h[q] = IF q = PrevP THEN [t[q] EXCEPT !.next = PrevP + 1] ELSE t[q]
    BY <1>3, <2>1
  <2>4. t' = [h EXCEPT ![PrevP + 1] = [h[PrevP + 1] EXCEPT !.index = top]]
    BY <1>1
  <2> HIDE DEF h
  <2>5. QED BY <1>3, <2>2, <2>3, <2>4
<1>6. t'[PrevP].next = PrevP + 1
  <2>1. t'[PrevP] = [prev |-> t[PrevP].prev, next |-> PrevP + 1, index |-> t[PrevP].index]
    BY <1>3, <1>4, <1>5
  <2>2. QED BY <2>1
<1>7. t'[PrevP + 1].index = top
  <2>1. PrevP + 1 # PrevP
    BY <1>3
  <2>2. t'[PrevP + 1] = [t[PrevP + 1] EXCEPT !.index = top]
    BY <1>3, <1>5, <2>1
  <2>3. t'[PrevP + 1] = [prev |-> t[PrevP + 1].prev, next |-> t[PrevP + 1].next, index |-> top]
    BY <1>3, <1>4, <2>2
  <2>4. QED BY <2>3
<1>8. \A n \in DOMAIN lines : n # Len(lines) => t'[lines[n]] = t[lines[n]]
  <2>1. \A n \in DOMAIN lines : n # Len(lines) => lines[n] # PrevP /\ lines[n] # PrevP + 1
    BY <1>3
  <2>2. QED BY <1>3, <1>5, <2>1
<1>9. PrevP' = PrevP /\ Total' = Total
  BY <1>1 DEF PrevP, Total
<1>10. \A n, k \in DOMAIN lines : k = n + 1 => t'[lines[n]].next = lines[k]
  BY <1>3, <1>8 DEF Chained
<1>11. LastTaken' => LastTaken
  BY <1>1, <1>9 DEF LastTaken, LineOf, NoLine, Size, Size8, Size16, Size24
<1>12. /\ lines' = lines
       /\ LastTaken' => /\ MAX_IDX' = Total' /\ t'[PrevP'].next = PrevP' + 1
                        /\ t'[PrevP' + 1].index = Total'
  BY <1>1, <1>2, <1>6, <1>7, <1>9, <1>11
<1>13. QED BY <1>10, <1>12 DEF Chained

-----------------------------------------------------------------------------
(***************************************************************************)
(* The types, which need the bound on the number of addresses.  Nothing    *)
(* ever enters an index at 0 or a successor at the last entry.             *)
(***************************************************************************)
Top   == Octet * Octet * Octet - 1
Numbered == -1 .. Octet * Size8
Entry == [prev : Slots \union {-1}, next : Slots, index : Indices]
Edges == t[0].index = 0 /\ t[Top].next = 0

LEMMA Ranges ==
  /\ Top \in Nat /\ Top > 1 /\ Octet * Size8 \in Nat /\ Top <= Octet * Size8
  /\ Slots = 0 .. Top /\ 0 \in Slots /\ Top \in Slots /\ Slots \subseteq Nat
  /\ Numbered \subseteq Indices /\ Numbered = -1 .. Octet * Size8
  /\ \A x, y \in Numbered : x >= 0 => x + y \in Indices
<1>1. Top \in Nat /\ Top > 1 /\ Octet > 1 /\ Size8 = Top + 1 /\ Octet \in Nat
  <2>1. Octet * Octet >= 2 * Octet
    BY Sizes
  <2>2. QED BY <2>1, Sizes DEF Top, Size8
<1>2. Octet * Size8 \in Nat /\ Top <= Octet * Size8
  BY <1>1
<1>3. Slots = 0 .. Top
  BY DEF Slots, Top
<1>4. Indices = -1 .. 2 * (Octet * Size8)
  <2>1. 2 * Octet * Size8 = 2 * (Octet * Size8)
    BY <1>1
  <2>2. QED BY <2>1 DEF Indices
<1> DEFINE K == Octet * Size8
<1>5. K \in Nat
  BY <1>2
<1>6. Numbered = -1 .. K /\ Indices = -1 .. 2 * K
  BY <1>4 DEF Numbered
<1> HIDE DEF K
<1>7. Numbered \subseteq Indices /\ \A x, y \in Numbered : x >= 0 => x + y \in Indices
  BY <1>5, <1>6
<1>8. QED BY <1>1, <1>2, <1>3, <1>7 DEF Numbered

LEMMA TypesAre ==
  TypeOK <=> /\ t \in [Slots -> Entry] /\ idx_table \in [IdxRange -> Slots]
             /\ lines \in Seq(Candidates) /\ overrun \in BOOLEAN /\ loaded \in BOOLEAN
             /\ prev_idx \in Numbered /\ read \in [idx : Numbered, size : 1 .. Octet * Size8]
             /\ MAX_IDX \in Indices /\ MAX_PREFIX \in Slots \union {-1}
  BY DEF TypeOK, Entry, Numbered, IdxRange

LEMMA InitTypes == Init => TypeOK /\ Edges
<1> SUFFICES ASSUME Init PROVE TypeOK /\ Edges
  OBVIOUS
<1>1. /\ 0 \in Indices /\ -1 \in Indices /\ -1 \in Numbered /\ 0 \in Slots /\ Top \in Slots
      /\ 1 \in 1 .. Octet * Size8
  BY Ranges
<1>2. t \in [Slots -> Entry] /\ idx_table \in [IdxRange -> Slots] /\ Edges
  BY <1>1 DEF Init, Entry, Edges, IdxRange
<1>3. lines \in Seq(Candidates)
  BY EmptySeq DEF Init
<1>4. read \in [idx : Numbered, size : 1 .. Octet * Size8]
  BY <1>1 DEF Init, NoLine, LineOf
<1>5. QED BY <1>1, <1>2, <1>3, <1>4, TypesAre DEF Init

LEMMA PrevBelow ==
  ASSUME Listing, lines # <<>>
  PROVE  PrevP \in Nat /\ PrevP > 0 /\ PrevP < Top /\ PrevP \in Slots
<1> DEFINE C == Octet * Octet * Octet
<1>1. C \in Nat /\ Top = C - 1
  BY Sizes DEF Size8, Top
<1>2. PrevP \in Nat /\ PrevP > 0 /\ PrevP + 1 < C /\ PrevP \in Slots
  BY LinesAre
<1> HIDE DEF C
<1>3. QED BY <1>1, <1>2

LEMMA SizeBound ==
  ASSUME NEW p
  PROVE  Size(p) \in 1 .. Octet * Size8
<1>1. /\ Size24 \in Nat /\ Size24 > 0 /\ Size24 < Size16 /\ Size16 \in Nat /\ Size16 < Size8
      /\ Size8 \in Nat /\ Octet \in Nat /\ Octet > 1
  BY Sizes DEF Size8, Size16, Size24
<1>2. Octet * Size8 \in Nat /\ Size8 <= Octet * Size8
  BY <1>1
<1>3. QED BY <1>1, <1>2 DEF Size

LEMMA LoadTypes ==
  ASSUME TypeOK, Edges, IInv, Counted, Counted', Laid, NEW p \in Candidates, LoadLine(p)
  PROVE  TypeOK' /\ Edges'
<1>1. /\ Listing /\ IdxSlots /\ Total \in Nat /\ Total < Octet * Size8 /\ lines' \in Seq(Candidates)
      /\ Total \div Size8 \in IdxRange /\ 0 \in IdxRange
      /\ prev_idx' = Total
  BY NextSlots, LoadListing, NextNumber DEF IInv, Listing, Laid
<1> DEFINE next(q) == IF q = p THEN [t[q] EXCEPT !.prev = p, !.index = Total]
                      ELSE IF q = PrevP THEN [t[q] EXCEPT !.next = p]
                      ELSE IF q \in Start .. p - 1
                        THEN [prev |-> PrevP, next |-> p, index |-> prev_idx]
                      ELSE t[q]
<1>2. t' = [q \in Slots |-> next(q)] /\ read' = LineOf(Total, Size(p))
  BY NextIndex, ZenonT(30) DEF LoadLine, Total
<1>3. loaded' = loaded /\ UNCHANGED <<MAX_IDX, MAX_PREFIX>> /\ p > PrevP
  BY ZenonT(30) DEF LoadLine
<1>4. /\ idx_table' = [j \in IdxRange |-> IF j \in StoredAt(Total) THEN p ELSE idx_table[j]]
      /\ overrun' \in BOOLEAN
  <2>1. /\ idx_table' = [j \in IdxRange |-> IF j \in StoredAt(Total) THEN p ELSE idx_table[j]]
        /\ overrun' = (overrun \/ ~ (StoredAt(Total) \subseteq IdxRange))
    BY <1>1, StoreIs
  <2>2. QED BY <2>1, Zenon
<1> HIDE DEF next
<1>5. /\ p \in Slots /\ p \in Nat /\ p > 0 /\ p < Top /\ PrevP \in -1 .. Top - 1
      /\ Total \in Indices /\ Total \in Numbered /\ prev_idx \in Indices
      /\ PrevP # Top /\ PrevP \in Slots \union {-1}
  <2>1. p \in Slots /\ p \in Nat /\ p > 0 /\ p < Top
    <3> DEFINE C == Octet * Octet * Octet
    <3>1. C \in Nat /\ Candidates \subseteq 1 .. C - 2 /\ Top = C - 1
      BY NatTableAssumption, Sizes DEF Size8, Top
    <3> HIDE DEF C
    <3>2. QED BY <3>1, Ranges
  <2>2. PrevP \in -1 .. Top - 1
    <3>1. CASE lines = <<>>
      BY <3>1, Ranges DEF PrevP
    <3>2. CASE lines # <<>>
      <4>1. PrevP \in Nat /\ PrevP < Top
        BY <1>1, <3>2, PrevBelow
      <4>2. QED BY <4>1, Ranges
    <3>3. QED BY <3>1, <3>2
  <2>3. Total \in Numbered /\ Total \in Indices /\ prev_idx \in Indices
    <3> DEFINE K == Octet * Size8
    <3>1. K \in Nat /\ Total < K /\ Numbered = -1 .. K
      BY <1>1, Ranges
    <3> HIDE DEF K
    <3>2. Total \in Numbered
      BY <1>1, <3>1
    <3>3. prev_idx \in Numbered
      BY TypesAre
    <3>4. QED BY <3>2, <3>3, Ranges
  <2>4. QED BY <2>1, <2>2, <2>3, Ranges
<1>6. ASSUME NEW q \in Slots PROVE next(q) \in Entry
  <2>1. t[q] \in Entry
    BY TypesAre
  <2>2. [prev |-> PrevP, next |-> p, index |-> prev_idx] \in Entry
    BY <1>5 DEF Entry
  <2>3. [t[q] EXCEPT !.prev = p, !.index = Total] \in Entry /\ [t[q] EXCEPT !.next = p] \in Entry
    BY <1>5, <2>1 DEF Entry
  <2>4. QED BY <2>1, <2>2, <2>3 DEF next
<1>7. t' \in [Slots -> Entry]
  BY <1>2, <1>6
<1>8. idx_table' \in [IdxRange -> Slots]
  BY <1>4, <1>5, TypesAre
<1>9. Edges'
  <2>1. Start \in 1 .. Top
    <3>1. lines # <<>> => PrevP \in Nat
      BY <1>1, LinesAre
    <3>2. QED BY <1>5, <3>1, Ranges DEF Start
  <2>2. t'[0] = next(0) /\ t'[Top] = next(Top)
    BY <1>2, Ranges
  <2>3. next(0).index = t[0].index
    <3>1. 0 # p /\ 0 \notin Start .. p - 1
      BY <1>5, <2>1
    <3>2. next(0) = [t[0] EXCEPT !.next = p] \/ next(0) = t[0]
      BY <3>1 DEF next
    <3>3. t[0] \in Entry
      BY Ranges, TypesAre
    <3>4. QED BY <3>2, <3>3 DEF Entry
  <2>4. next(Top) = t[Top]
    <3>1. Top # p /\ Top # PrevP /\ Top \notin Start .. p - 1
      BY <1>5, <2>1
    <3>2. QED BY <3>1 DEF next
  <2>5. QED BY <2>2, <2>3, <2>4 DEF Edges, Top
<1>10. /\ prev_idx' \in Numbered /\ MAX_IDX' \in Indices /\ MAX_PREFIX' \in Slots \union {-1}
       /\ loaded' \in BOOLEAN /\ read' \in [idx : Numbered, size : 1 .. Octet * Size8]
  <2>1. Size(p) \in 1 .. Octet * Size8
    BY SizeBound
  <2>2. QED BY <1>1, <1>2, <1>3, <1>5, <2>1, TypesAre DEF LineOf
<1>11. TypeOK'
  BY <1>1, <1>4, <1>7, <1>8, <1>10 DEF TypeOK, Entry, Indices, Numbered, IdxRange, Slots, Size8
<1>12. QED BY <1>9, <1>11

LEMMA EndTypes ==
  ASSUME TypeOK, Edges, IInv, Counted, EndOfFile
  PROVE  TypeOK' /\ Edges'
<1> DEFINE top == t[PrevP].index + read.size
<1>1. /\ Listing /\ Marks /\ Ends /\ lines # <<>> /\ MAX_IDX' = read.idx + read.size
      /\ MAX_PREFIX' = PrevP + 1 /\ loaded' = TRUE
      /\ t' = [t EXCEPT ![PrevP].next = PrevP + 1, ![PrevP + 1].index = top]
      /\ UNCHANGED <<idx_table, lines, prev_idx, read, overrun>>
  BY DEF IInv, EndOfFile
<1>2. t[PrevP].index = prev_idx /\ prev_idx \in Nat
  <2>1. Len(lines) \in DOMAIN lines /\ PrevP = lines[Len(lines)] /\ prev_idx = Before(Len(lines))
    BY <1>1, LinesAre DEF Ends
  <2>2. QED BY <1>1, <2>1, Numbers DEF Marks
<1>3. top \in Indices /\ MAX_IDX' \in Indices
  <2>1. /\ prev_idx \in Numbered /\ read.idx \in Numbered /\ read.size \in Numbered
        /\ read.size >= 0 /\ prev_idx >= 0
    BY <1>2, Ranges, TypesAre
  <2>2. read.idx + read.size = read.size + read.idx
    BY <2>1, Ranges
  <2>3. QED BY <1>1, <1>2, <2>1, <2>2, Ranges
<1>4. /\ PrevP \in Nat /\ PrevP < Top /\ PrevP > 0 /\ PrevP \in Slots
      /\ PrevP + 1 \in Slots /\ PrevP + 1 # 0 /\ PrevP + 1 # PrevP
  BY <1>1, PrevBelow, Ranges
<1> HIDE DEF top
<1> DEFINE h == [t EXCEPT ![PrevP].next = PrevP + 1]
<1>5. /\ t \in [Slots -> Entry] /\ t[PrevP] \in Entry
      /\ t' = [h EXCEPT ![PrevP + 1] = [h[PrevP + 1] EXCEPT !.index = top]]
      /\ h = [t EXCEPT ![PrevP] = [t[PrevP] EXCEPT !.next = PrevP + 1]]
  BY <1>1, <1>4, TypesAre
<1> HIDE DEF h
<1>6. [t[PrevP] EXCEPT !.next = PrevP + 1] \in Entry
  BY <1>4, <1>5 DEF Entry
<1>7. h \in [Slots -> Entry] /\ h[PrevP + 1] = t[PrevP + 1] /\ h[Top] = t[Top] /\ h[0] = t[0]
  <2>1. /\ h \in [Slots -> Entry]
        /\ \A q \in Slots : q # PrevP => h[q] = t[q]
    BY <1>4, <1>5, <1>6
  <2>2. Top # PrevP /\ 0 # PrevP /\ Top \in Slots /\ 0 \in Slots
    BY <1>4, Ranges
  <2>3. QED BY <1>4, <2>1, <2>2
<1>8. [h[PrevP + 1] EXCEPT !.index = top] \in Entry
  <2>1. h[PrevP + 1] \in Entry
    BY <1>4, <1>7
  <2>2. QED BY <1>3, <2>1 DEF Entry
<1>9. t' \in [Slots -> Entry]
  BY <1>4, <1>5, <1>7, <1>8
<1>10. Edges'
  <2>1. t'[0] = t[0]
    BY <1>4, <1>5, <1>7, Ranges
  <2>2. t'[Top].next = t[Top].next
    <3>1. h[Top] = t[Top] /\ t[Top] \in Entry
      BY <1>4, <1>5, <1>7, Ranges
    <3>2. t'[Top] = t[Top] \/ t'[Top] = [t[Top] EXCEPT !.index = top]
      BY <1>4, <1>5, <1>7, <3>1, Ranges
    <3>3. QED BY <3>1, <3>2 DEF Entry
  <2>3. QED BY <2>1, <2>2 DEF Edges, Top
<1>11. TypeOK'
  <2>1. /\ MAX_IDX' \in Indices /\ MAX_PREFIX' \in Slots \union {-1} /\ loaded' \in BOOLEAN
        /\ overrun' \in BOOLEAN /\ read' \in [idx : Numbered, size : 1 .. Octet * Size8]
        /\ prev_idx' \in Numbered /\ idx_table' \in [IdxRange -> Slots] /\ lines' \in Seq(Candidates)
    BY <1>1, <1>3, <1>4, TypesAre
  <2>2. QED BY <1>9, <2>1 DEF TypeOK, Entry, Indices, Numbered, IdxRange, Slots, Size8
<1>12. QED BY <1>10, <1>11

-----------------------------------------------------------------------------
\* The invariant of the table: AddressFound needs its first part only.
TableInv == IInv /\ Counted /\ Laid /\ Chained /\ TypeOK /\ Edges /\ StoresInside

\* A step that leaves the lines alone leaves their numbers alone.
LEMMA LinesStay ==
  ASSUME UNCHANGED lines
  PROVE  /\ Total' = Total /\ PrevP' = PrevP /\ Addresses' = Addresses
         /\ \A n : Before(n)' = Before(n)
<1>1. \A n : Before(n)' = Before(n)
  BY BeforeIs
<1>2. QED BY <1>1 DEF Total, PrevP, Addresses, Covers, First, Size, Size8, Size16, Size24

LEMMA StillTable ==
  ASSUME Counted, Laid, UNCHANGED <<idx_table, lines, prev_idx>>
  PROVE  Counted' /\ Laid'
<1>1. /\ UNCHANGED <<idx_table, lines, prev_idx>> /\ Total' = Total /\ Addresses' = Addresses
      /\ \A n : Before(n)' = Before(n)
  BY LinesStay
<1>2. Counted' /\ IdxSlots'
  BY <1>1 DEF Counted, IdxSlots, Laid, IdxRange
<1>3. (AllLong' <=> AllLong) /\ (NoLong' <=> NoLong)
  BY <1>1 DEF AllLong, NoLong
<1>4. Long'
  BY <1>1, <1>3 DEF Long, Laid, Size8
<1>5. Whole'
  BY <1>1, <1>3 DEF Whole, Laid, At, Size16, Size24
<1>6. Blocks'
  BY <1>1, <1>3 DEF Blocks, Laid, Size8, Size16
<1>7. QED BY <1>2, <1>4, <1>5, <1>6 DEF Laid

LEMMA InitTable == Init => TableInv
<1> SUFFICES ASSUME Init PROVE TableInv
  OBVIOUS
<1>1. lines = <<>> /\ DOMAIN lines = {} /\ Addresses = {}
  BY EmptySeq DEF Init, Addresses
<1>2. IInv /\ Total = 0
  BY <1>1, IInvInit, Numbers DEF IInv
<1>3. Counted
  BY <1>1, <1>2, FS_EmptySet DEF Counted
<1>4. IdxSlots /\ StoresInside
  BY DEF Init, IdxSlots, IdxRange, StoresInside
<1>5. Long /\ Whole
  BY <1>1 DEF Long, Whole
<1>6. Blocks
  <2> SUFFICES ASSUME NEW j \in Nat, j * Size16 <= prev_idx PROVE FALSE
    BY DEF Blocks
  <2>1. prev_idx = -1 /\ j * Size16 \in Nat
    BY Sizes DEF Init
  <2>2. QED BY <2>1
<1>7. Chained
  BY <1>1 DEF Init, Chained
<1>8. QED BY <1>2, <1>3, <1>4, <1>5, <1>6, <1>7, InitTypes DEF Laid, TableInv

\* The only entry that can be behind idx_tbl is that of a range of 2^16.
LEMMA LoadInside ==
  ASSUME IInv, Counted, Counted', IdxSlots, StoresInside, NEW p \in Candidates, LoadLine(p)
  PROVE  StoresInside'
<1>1. /\ Total \in Nat /\ Total \div Size8 \in IdxRange /\ 0 \in IdxRange
      /\ Total < IdxEntries * Size16 => Total \div Size16 \in IdxRange
      /\ prev_idx' = Total
  BY NextSlots, NextNumber
<1>2. IdxEntries * Size16 \in Nat
  BY NatTableAssumption, Sizes
<1>3. CASE overrun
  <2>1. prev_idx >= IdxEntries * Size16 /\ (lines = <<>> => prev_idx = -1)
    BY <1>3 DEF StoresInside, IInv, Ends
  <2>2. lines # <<>>
    BY <1>2, <2>1
  <2>3. prev_idx \in Nat /\ prev_idx <= Total
    BY <1>1, <2>2, StoreIs
  <2>4. prev_idx' >= IdxEntries * Size16
    BY <1>1, <1>2, <2>1, <2>3
  <2>5. QED BY <2>4 DEF StoresInside, Size16
<1>4. CASE ~ (StoredAt(Total) \subseteq IdxRange)
  <2>1. StoredAt(Total) \subseteq {0, Total \div Size8, Total \div Size16}
    BY <1>1, StoreIs
  <2>2. Total \div Size16 \notin IdxRange
    BY <1>1, <1>4, <2>1
  <2>3. prev_idx' >= IdxEntries * Size16
    BY <1>1, <1>2, <2>2
  <2>4. QED BY <2>3 DEF StoresInside, Size16
<1>5. overrun' = (overrun \/ ~ (StoredAt(Total) \subseteq IdxRange))
  BY <1>1, StoreIs
<1>6. QED BY <1>3, <1>4, <1>5 DEF StoresInside

LEMMA NextTable == TableInv /\ [Next]_vars => TableInv'
<1> SUFFICES ASSUME TableInv, [Next]_vars PROVE TableInv'
  OBVIOUS
<1>1. IInv /\ Counted /\ Laid /\ Chained /\ TypeOK /\ Edges /\ StoresInside
  BY DEF TableInv
<1>2. ASSUME NEW p \in Candidates, LoadLine(p) PROVE TableInv'
  <2>1. IInv' /\ Counted' /\ Chained'
    BY <1>1, <1>2, LoadKeeps, LoadCounted, LoadChained
  <2>2. Long' /\ Whole' /\ Blocks'
    BY <1>1, <1>2, <2>1, LoadLong, LoadBlocks
  <2>3. IdxSlots'
    <3>1. Total \in Nat /\ Total \div Size8 \in IdxRange /\ 0 \in IdxRange
      BY <1>1, <1>2, <2>1, NextSlots
    <3>2. QED BY <1>1, <1>2, <3>1, StoreIs DEF Laid
  <2>4. TypeOK' /\ Edges'
    BY <1>1, <1>2, <2>1, LoadTypes
  <2>5. StoresInside'
    BY <1>1, <1>2, <2>1, LoadInside DEF Laid
  <2>6. QED BY <2>1, <2>2, <2>3, <2>4, <2>5 DEF TableInv, Laid
<1>3. CASE EndOfFile
  <2>1. IInv' /\ Chained'
    BY <1>1, <1>3, EndKeeps, EndChained
  <2>2. UNCHANGED <<idx_table, lines, prev_idx, overrun>>
    BY <1>3 DEF EndOfFile
  <2>3. TypeOK' /\ Edges'
    BY <1>1, <1>3, EndTypes
  <2>4. StoresInside'
    BY <1>1, <2>2 DEF StoresInside, Size16
  <2>5. QED BY <1>1, <2>1, <2>2, <2>3, <2>4, StillTable DEF TableInv
<1>4. ASSUME NEW r \in Others, SkipLine(r) PROVE TableInv'
  <2>1. /\ UNCHANGED <<t, idx_table, lines, prev_idx, overrun, loaded, MAX_IDX, MAX_PREFIX>>
        /\ ~ loaded /\ read' = r
    BY <1>4 DEF SkipLine
  <2>2. Chained'
    BY <1>1, <2>1 DEF Chained
  <2>3. IInv'
    <3>1. Next
      BY <1>4 DEF Next
    <3>2. QED BY <1>1, <3>1, KeepsIInv
  <2>4. read' \in [idx : Numbered, size : 1 .. Octet * Size8]
    <3>1. r \in [idx : 0 .. Octet * Size8, size : 1 .. Octet * Size8]
      BY NatTableAssumption
    <3>2. 0 .. Octet * Size8 \subseteq Numbered
      BY Ranges
    <3>3. QED BY <2>1, <3>1, <3>2
  <2>5. TypeOK' /\ Edges' /\ StoresInside'
    BY <1>1, <2>1, <2>4 DEF TypeOK, Numbered, Edges, StoresInside, Slots, Top, Indices, Size8, Size16
  <2>6. QED BY <1>1, <2>1, <2>2, <2>3, <2>5, StillTable DEF TableInv
<1>5. CASE UNCHANGED vars
  <2>1. UNCHANGED vars
    BY <1>5
  <2>2. UNCHANGED <<t, idx_table, lines, prev_idx, read, overrun, loaded, MAX_IDX>>
    BY <2>1 DEF vars
  <2>3. Chained'
    <3>1. Total' = Total /\ PrevP' = PrevP
      BY <2>2, LinesStay
    <3>2. LastTaken' <=> LastTaken
      BY <2>2, <3>1 DEF LastTaken, LineOf, NoLine, Size, Size8, Size16, Size24
    <3>3. QED BY <1>1, <2>2, <3>1, <3>2 DEF Chained
  <2>4. IInv'
    BY <1>1, <2>1, KeepsIInv
  <2>5. TypeOK' /\ Edges' /\ StoresInside'
    BY <1>1, <2>1 DEF TypeOK, Edges, StoresInside, vars, Slots, Top, Indices, Size8, Size16
  <2>6. QED BY <1>1, <2>2, <2>3, <2>4, <2>5, StillTable DEF TableInv
<1>6. QED BY <1>2, <1>3, <1>4, <1>5 DEF Next

LEMMA TableAlways == Spec => []TableInv
  BY InitTable, NextTable, PTL DEF Spec

\* For octets of any size, any files and any number of entries from Octet on:
\* load_rtbl stores nothing behind idx_tbl while the last index is below the
\* number of entries times 2^16.
THEOREM StoresStayInside == Spec => []StoresInside
<1>1. TableInv => StoresInside
  BY DEF TableInv
<1>2. QED BY <1>1, TableAlways, PTL

-----------------------------------------------------------------------------
(***************************************************************************)
(* The lookup of an index.                                                 *)
(***************************************************************************)

\* f[q] is where the loop of idx_to_ip stops when it is at q, for the entries
\* from b on.
Stops(f, b, i) ==
  \A q \in b .. Top : f[q] = IF t[t[q].next].index > i THEN q
                             ELSE IF t[q].next <= q THEN Endless ELSE f[t[q].next]

LEMMA StopsExist ==
  ASSUME TypeOK, NEW i
  PROVE  \E f : f = [q \in Slots |-> f[q]] /\ Stops(f, 0, i)
<1> DEFINE G == {k \in Nat : \E f : f = [q \in Top - k .. Top |-> f[q]] /\ Stops(f, Top - k, i)}
<1>1. \A q \in Slots : t[q].next \in 0 .. Top
  BY TypesAre, Ranges DEF Entry
<1>2. Top \in Nat /\ Slots = 0 .. Top
  BY Ranges
<1>3. 0 \in G
  <2> DEFINE f == [q \in Top .. Top |-> IF t[t[q].next].index > i THEN q ELSE Endless]
  <2>1. f = [q \in Top .. Top |-> f[q]]
    OBVIOUS
  <2>2. Stops(f, Top, i)
    <3>1. \A q \in Top .. Top : q \in Slots /\ t[q].next <= q
      BY <1>1, <1>2
    <3>2. \A q \in Top .. Top : f[q] = IF t[t[q].next].index > i THEN q ELSE Endless
      OBVIOUS
    <3> HIDE DEF f
    <3>3. QED BY <3>1, <3>2 DEF Stops
  <2> HIDE DEF f
  <2>3. Top - 0 = Top
    BY <1>2
  <2>4. QED BY <2>1, <2>2, <2>3
<1>4. ASSUME NEW k \in 1 .. Top, k - 1 \in G PROVE k \in G
  <2> DEFINE b == Top - k
  <2>1. b \in 0 .. Top /\ Top - (k - 1) = b + 1 /\ b + 1 \in 1 .. Top
    BY <1>2
  <2>2. PICK f : f = [q \in b + 1 .. Top |-> f[q]] /\ Stops(f, b + 1, i)
    BY <1>4, <2>1
  <2> HIDE DEF b
  <2> DEFINE g == [q \in b .. Top |->
                     IF q = b THEN IF t[t[q].next].index > i THEN q
                                   ELSE IF t[q].next <= q THEN Endless ELSE f[t[q].next]
                     ELSE f[q]]
  <2>3. ASSUME NEW q \in b .. Top
        PROVE  g[q] = IF t[t[q].next].index > i THEN q
                      ELSE IF t[q].next <= q THEN Endless ELSE g[t[q].next]
    <3> DEFINE n == t[q].next
    <3>1. n \in 0 .. Top /\ q \in Int
      BY <1>1, <1>2, <2>1
    <3> HIDE DEF n
    <3>2. ~ (n <= q) => g[n] = f[n]
      BY <2>1, <3>1
    <3>3. g[q] = IF t[n].index > i THEN q ELSE IF n <= q THEN Endless ELSE f[n]
      <4>1. CASE q = b
        BY <4>1 DEF n
      <4>2. CASE q # b
        <5>1. q \in b + 1 .. Top
          BY <2>1, <4>2
        <5>2. g[q] = f[q]
          BY <4>2
        <5> HIDE DEF g
        <5>3. QED BY <2>2, <5>1, <5>2 DEF Stops, n
      <4>3. QED BY <4>1, <4>2
    <3> HIDE DEF g
    <3>4. QED BY <3>2, <3>3 DEF n
  <2>4. g = [q \in b .. Top |-> g[q]]
    OBVIOUS
  <2> HIDE DEF g
  <2>5. Stops(g, b, i)
    BY <2>3 DEF Stops
  <2>6. QED BY <1>2, <2>4, <2>5 DEF b
<1> HIDE DEF G
<1>5. Top \in G
  <2>1. 0 .. Top \subseteq G
    BY <1>2, <1>3, <1>4, UpTo
  <2>2. QED BY <1>2, <2>1
<1>6. Top - Top = 0
  BY <1>2
<1>7. QED BY <1>2, <1>5, <1>6 DEF G

LEMMA WalkIs ==
  ASSUME TypeOK, NEW i, NEW q \in Slots
  PROVE  Walk(i, q) = IF t[t[q].next].index > i THEN q
                      ELSE IF t[q].next <= q THEN Endless ELSE Walk(i, t[q].next)
<1> DEFINE Is(f) == f = [r \in Slots |-> IF t[t[r].next].index > i THEN r
                                         ELSE IF t[r].next <= r THEN Endless ELSE f[t[r].next]]
           stop == CHOOSE f : Is(f)
<1>1. \A r : Walk(i, r) = stop[r]
  BY DEF Walk
<1>2. \E f : Is(f)
  <2>1. PICK f : f = [r \in Slots |-> f[r]] /\ Stops(f, 0, i)
    BY StopsExist
  <2>2. \A r \in Slots : f[r] = IF t[t[r].next].index > i THEN r
                                ELSE IF t[r].next <= r THEN Endless ELSE f[t[r].next]
    BY <2>1, Ranges DEF Stops
  <2>3. f = [r \in Slots |-> IF t[t[r].next].index > i THEN r
                             ELSE IF t[r].next <= r THEN Endless ELSE f[t[r].next]]
    BY <2>1, <2>2
  <2>4. QED BY <2>3
<1>3. Is(stop)
  <2> HIDE DEF Is
  <2>1. QED BY <1>2
<1> HIDE DEF stop
<1>4. stop[q] = IF t[t[q].next].index > i THEN q
                ELSE IF t[q].next <= q THEN Endless ELSE stop[t[q].next]
  BY <1>3
<1>5. QED BY <1>1, <1>4

\* The loop stops at an entry, but never at the last one.
LEMMA WalkBounds ==
  ASSUME TypeOK, Edges, NEW i \in Nat, NEW p \in Slots
  PROVE  Walk(i, p) = Endless \/ Walk(i, p) \in 0 .. Top - 1
<1> DEFINE OK(q) == Walk(i, q) = Endless \/ Walk(i, q) \in 0 .. Top - 1
           G == {k \in Nat : \A q \in Top - k .. Top : q \in Slots => OK(q)}
<1>1. Top \in Nat /\ Slots = 0 .. Top /\ \A q \in Slots : t[q].next \in Slots
  BY TypesAre, Ranges DEF Entry
<1>2. ASSUME NEW q \in Slots, q # Top, \A r \in q + 1 .. Top : OK(r) PROVE OK(q)
  <2>1. Walk(i, q) = IF t[t[q].next].index > i THEN q
                     ELSE IF t[q].next <= q THEN Endless ELSE Walk(i, t[q].next)
    BY WalkIs
  <2>2. ~ (t[q].next <= q) => OK(t[q].next)
    BY <1>1, <1>2
  <2>3. q \in 0 .. Top - 1
    BY <1>1, <1>2
  <2>4. QED BY <2>1, <2>2, <2>3
<1>3. OK(Top)
  <2>1. Top \in Slots /\ t[Top].next = 0 /\ t[0].index = 0 /\ 0 <= Top
    BY <1>1 DEF Edges
  <2>2. Walk(i, Top) = Endless
    BY <1>1, <2>1, WalkIs
  <2>3. QED BY <2>2
<1> HIDE DEF OK
<1>4. 0 \in G
  BY <1>1, <1>3
<1>5. ASSUME NEW k \in 1 .. Top, k - 1 \in G PROVE k \in G
  <2> SUFFICES ASSUME NEW q \in Top - k .. Top, q \in Slots PROVE OK(q)
    OBVIOUS
  <2>1. CASE q \in Top - (k - 1) .. Top
    BY <1>5, <2>1
  <2>2. CASE q = Top - k
    <3>1. q # Top /\ \A r \in q + 1 .. Top : r \in Top - (k - 1) .. Top /\ r \in Slots
      BY <1>1, <2>2
    <3>2. QED BY <1>2, <1>5, <3>1
  <2>3. QED BY <1>1, <2>1, <2>2
<1> HIDE DEF G
<1>6. 0 .. Top \subseteq G
  BY <1>1, <1>4, <1>5, UpTo
<1>7. Top \in G
  BY <1>1, <1>6
<1>8. Top - Top = 0
  BY <1>1
<1>9. QED BY <1>1, <1>7, <1>8 DEF G, OK

\* The line an index belongs to.
InLine(i, n) == n \in DOMAIN lines /\ i \in Nat /\ Before(n) <= i /\ i < Before(n) + Size(lines[n])

LEMMA SomeLine ==
  ASSUME Listing, NEW i \in Nat, i < Total
  PROVE  \E n \in DOMAIN lines : InLine(i, n)
<1> DEFINE T == {n \in DOMAIN lines : i < Before(n) + Size(lines[n])}
<1>1. /\ Len(lines) \in Nat /\ DOMAIN lines = 1 .. Len(lines) /\ (lines = <<>> <=> Len(lines) = 0)
      /\ lines # <<>> => Len(lines) \in DOMAIN lines
  BY LinesAre
<1>2. lines # <<>>
  BY Numbers
<1>3. T # {} /\ T \subseteq Nat
  <2>1. Before(Len(lines)) + Size(lines[Len(lines)]) = Total
    BY <1>1, <1>2, Numbers
  <2>2. Len(lines) \in T
    BY <1>1, <1>2, <2>1
  <2>3. QED BY <1>1, <2>2
<1> HIDE DEF T
<1>4. PICK n \in T : \A m \in T : n <= m
  BY <1>3, LeastOf
<1>5. n \in DOMAIN lines /\ n \in Nat /\ i < Before(n) + Size(lines[n]) /\ Before(n) \in Nat
  BY <1>1, <1>4, Numbers DEF T
<1>6. CASE n = 1
  BY <1>5, <1>6, Numbers DEF InLine
<1>7. CASE n # 1
  <2>1. n - 1 \in DOMAIN lines /\ n = (n - 1) + 1 /\ ~ (n <= n - 1)
    BY <1>1, <1>5, <1>7
  <2>2. ~ (i < Before(n - 1) + Size(lines[n - 1]))
    BY <1>4, <2>1 DEF T
  <2>3. Before(n - 1) + Size(lines[n - 1]) = Before(n)
    <3>1. \A m, k \in DOMAIN lines : k = m + 1 => Before(m) + Size(lines[m]) = Before(k)
      BY Numbers
    <3>2. QED BY <1>5, <2>1, <3>1
  <2>4. Before(n) <= i
    BY <1>5, <2>2, <2>3
  <2>5. QED BY <1>5, <2>4 DEF InLine
<1>8. QED BY <1>6, <1>7

\* Only the one line.
LEMMA OneLine ==
  ASSUME Listing, NEW i \in Nat, NEW n \in Nat, NEW k \in Nat, InLine(i, n), InLine(i, k)
  PROVE  n = k
<1>1. n \in DOMAIN lines /\ k \in DOMAIN lines /\ DOMAIN lines \subseteq Nat /\ i \in Nat
  BY LinesAre DEF InLine
<1>2. Before(n) \in Nat /\ Before(k) \in Nat /\ Size(lines[n]) \in Nat /\ Size(lines[k]) \in Nat
  BY <1>1, Numbers, Sizes DEF Size
<1>3. ~ (n < k) /\ ~ (k < n)
  <2>1. n < k => Before(n) + Size(lines[n]) <= Before(k)
    BY <1>1, Numbers
  <2>2. k < n => Before(k) + Size(lines[k]) <= Before(n)
    BY <1>1, Numbers
  <2>3. QED BY <1>1, <1>2, <2>1, <2>2 DEF InLine
<1>4. QED BY <1>1, <1>3

\* From a line up to the one that an index belongs to, the loop stops there.
LEMMA WalkTo ==
  ASSUME TableInv, loaded, LastTaken, NEW i \in Nat, NEW n \in Nat, InLine(i, n),
         NEW k \in 1 .. n
  PROVE  Walk(i, lines[k]) = lines[n]
<1>1. /\ Listing /\ Marks /\ Ends /\ Chained /\ TypeOK
      /\ Len(lines) \in Nat /\ DOMAIN lines = 1 .. Len(lines) /\ lines # <<>>
      /\ n \in 1 .. Len(lines) /\ n \in Nat
  BY LinesAre DEF TableInv, IInv, InLine
<1>2. \A m \in DOMAIN lines : /\ lines[m] \in Slots /\ lines[m] \in Nat
                              /\ Before(m) \in Nat /\ Size(lines[m]) \in Nat
  BY <1>1, LinesAre, Numbers, Sizes DEF Size
<1>3. ASSUME NEW m \in 1 .. n, m + 1 \in DOMAIN lines
      PROVE  t[lines[m]].next = lines[m + 1] /\ t[lines[m + 1]].index = Before(m + 1)
  <2>1. m \in DOMAIN lines
    BY <1>1
  <2>2. QED BY <1>1, <1>3, <2>1 DEF Chained, Marks
<1>4. Walk(i, lines[n]) = lines[n]
  <2>1. t[t[lines[n]].next].index > i
    <3>1. CASE n = Len(lines)
      <4>1. lines[n] = PrevP /\ t[t[lines[n]].next].index = Total
        BY <1>1, <3>1, LinesAre DEF Chained
      <4>2. Before(n) + Size(lines[n]) = Total
        BY <1>1, <3>1, Numbers
      <4>3. QED BY <4>1, <4>2 DEF InLine
    <3>2. CASE n # Len(lines)
      <4>1. n + 1 \in DOMAIN lines /\ n \in 1 .. n
        <5> DEFINE N == Len(lines)
        <5>1. N \in Nat /\ n \in 1 .. N /\ n # N /\ DOMAIN lines = 1 .. N
          BY <1>1, <3>2, Zenon
        <5> HIDE DEF N
        <5>2. QED BY <5>1
      <4>2. t[t[lines[n]].next].index = Before(n + 1)
        BY <1>3, <4>1
      <4>3. Before(n) + Size(lines[n]) = Before(n + 1)
        BY <1>1, <4>1, Numbers
      <4>4. QED BY <4>2, <4>3 DEF InLine
    <3>3. QED BY <3>1, <3>2
  <2>2. QED BY <1>1, <1>2, <2>1, WalkIs
<1>5. ASSUME NEW m \in 1 .. n - 1 PROVE Walk(i, lines[m]) = Walk(i, lines[m + 1])
  <2>1. m \in DOMAIN lines /\ m + 1 \in DOMAIN lines /\ m < m + 1 /\ m + 1 <= n /\ m + 1 \in Nat
    BY <1>1
  <2>2. t[lines[m]].next = lines[m + 1] /\ t[lines[m + 1]].index = Before(m + 1)
    BY <1>1, <1>3, <2>1
  <2>3. ~ (Before(m + 1) > i)
    <3>1. CASE m + 1 = n
      BY <1>2, <2>1, <3>1 DEF InLine
    <3>2. CASE m + 1 # n
      <4>1. m + 1 < n /\ n \in DOMAIN lines
        BY <1>1, <2>1, <3>2
      <4>2. Before(m + 1) + Size(lines[m + 1]) <= Before(n)
        BY <1>1, <2>1, <4>1, Numbers
      <4>3. QED BY <1>2, <2>1, <4>1, <4>2 DEF InLine
    <3>3. QED BY <3>1, <3>2
  <2>4. ~ (lines[m + 1] <= lines[m])
    <3>1. lines[m] < lines[m + 1]
      BY <1>1, <2>1 DEF Listing
    <3>2. QED BY <1>2, <2>1, <3>1
  <2>5. QED BY <1>1, <1>2, <2>1, <2>2, <2>3, <2>4, WalkIs
<1> DEFINE G == {d \in Nat : d < n => Walk(i, lines[n - d]) = lines[n]}
<1>6. 0 \in G
  <2>1. n - 0 = n
    BY <1>1
  <2>2. QED BY <1>4, <2>1
<1>7. ASSUME NEW d \in 1 .. n, d - 1 \in G PROVE d \in G
  <2> SUFFICES ASSUME d < n PROVE Walk(i, lines[n - d]) = lines[n]
    BY <1>1
  <2>1. n - d \in 1 .. n - 1 /\ n - d + 1 = n - (d - 1) /\ d - 1 < n
    BY <1>1, <1>7
  <2>2. Walk(i, lines[n - (d - 1)]) = lines[n]
    BY <1>7, <2>1
  <2>3. Walk(i, lines[n - d]) = Walk(i, lines[n - d + 1])
    BY <1>5, <2>1
  <2>4. QED BY <2>1, <2>2, <2>3
<1> HIDE DEF G
<1>8. 0 .. n \subseteq G
  BY <1>1, <1>6, <1>7, UpTo
<1>9. n - k \in 0 .. n /\ n - k < n /\ n - (n - k) = k
  BY <1>1
<1>10. n - k \in G
  BY <1>8, <1>9
<1>11. QED BY <1>9, <1>10 DEF G

\* The addresses of a line, with the index of each.
LEMMA Placed ==
  ASSUME IInv, NEW n \in DOMAIN lines, NEW addr \in Covers(lines[n])
  PROVE  /\ InLine(IndexOf(addr), n) /\ addr \in Nat
         /\ addr = lines[n] * Size(lines[n]) + (IndexOf(addr) - Before(n))
<1>1. /\ Listing /\ lines[n] \in Nat /\ lines[n] \in 1 .. Octet * Octet * Octet - 1
      /\ Before(n) \in Nat
  BY LinesAre, Numbers, NatTableAssumption DEF IInv
<1>2. IndexOf(addr) = Before(n) + (addr - First(lines[n])) /\ addr \in Nat
  BY <1>1, IndexIs, FirstBits
<1>3. Size(lines[n]) \in Nat /\ First(lines[n]) \in Nat /\ First(lines[n]) = lines[n] * Size(lines[n])
  <2>1. Size(lines[n]) \in Nat
    BY Sizes DEF Size
  <2>2. QED BY <1>1, <2>1 DEF First
<1>4. First(lines[n]) <= addr /\ addr <= First(lines[n]) + Size(lines[n]) - 1
  BY <1>3 DEF Covers
<1>5. QED BY <1>1, <1>2, <1>3, <1>4 DEF InLine

\* A number in the block of s numbers that begins with d.
LEMMA Rest ==
  ASSUME NEW s \in Nat, s > 0, NEW a \in Nat, NEW x \in Nat, NEW d, d = a * s, d <= x, x < d + s
  PROVE  x \div s = a /\ x % s = x - d
<1>1. d \in Nat
  OBVIOUS
<1>2. a * s <= x /\ x <= a * s + s - 1
  BY <1>1
<1>3. x \div s = a
  BY <1>2, Quotients
<1>4. x = (x \div s) * s + (x % s) /\ x % s \in Int
  BY Division
<1>5. x = d + (x % s)
  BY <1>3, <1>4
<1>6. QED BY <1>1, <1>3, <1>4, <1>5

LEMMA IpIs ==
  ASSUME NEW i, NEW p8, NEW p16, p8 = idx_table[i \div Size8], p16 = idx_table[i \div Size16],
         p8 \in Nat
  PROVE  /\ p8 < Octet => idx_to_ip(i) = p8 * Size8 + (i % Size8)
         /\ p8 >= Octet /\ p16 < Octet * Octet => idx_to_ip(i) = p16 * Size16 + (i % Size16)
         /\ p8 >= Octet /\ ~ (p16 < Octet * Octet) =>
              idx_to_ip(i) = IF Walk(i, p16) = Endless THEN Endless
                             ELSE Walk(i, p16) * Size24 + (i % Size24)
<1> DEFINE r8 == p8 * Size8 + (i % Size8)
           r16 == p16 * Size16 + (i % Size16)
           w == Walk(i, p16)
           r24 == IF w = Endless THEN Endless ELSE w * Size24 + (i % Size24)
<1>1. idx_to_ip(i) = CASE p8 < Octet -> r8
                       [] p8 >= Octet /\ p16 < Octet * Octet -> r16
                       [] OTHER -> r24
  BY DEF idx_to_ip
<1> HIDE DEF r8, r16, r24, w
<1>2. Octet \in Nat /\ Octet * Octet \in Nat
  BY Sizes
<1>3. /\ p8 < Octet => idx_to_ip(i) = r8
      /\ p8 >= Octet /\ p16 < Octet * Octet => idx_to_ip(i) = r16
      /\ p8 >= Octet /\ ~ (p16 < Octet * Octet) => idx_to_ip(i) = r24
  BY <1>1, <1>2
<1>4. QED BY <1>3 DEF r8, r16, r24, w

\* In a file of prefixes of 8 bits only.
LEMMA FoundLong ==
  ASSUME TableInv, AllLong, NEW i \in Nat, NEW n \in Nat, InLine(i, n)
  PROVE  idx_to_ip(i) = lines[n] * Size(lines[n]) + (i - Before(n))
<1>1. n \in DOMAIN lines /\ n \in Nat /\ n >= 1 /\ Listing /\ i \in Nat /\ Long
  <2>1. Listing /\ Long /\ n \in DOMAIN lines /\ i \in Nat
    BY DEF TableInv, IInv, Laid, InLine
  <2>2. n \in 1 .. Len(lines) /\ Len(lines) \in Nat
    BY <2>1, LinesAre
  <2>3. QED BY <2>1, <2>2
<1>2. Size8 \in Nat /\ Size8 > 0 /\ Size(lines[n]) = Size8 /\ lines[n] < Octet
  BY <1>1, Sizes DEF AllLong, Size
<1>3. Before(n) = (n - 1) * Size8 /\ idx_table[n - 1] = lines[n] /\ Before(n) \in Nat
  BY <1>1, Numbers DEF Long
<1>4. Before(n) <= i /\ i < Before(n) + Size8 /\ n - 1 \in Nat
  BY <1>1, <1>2 DEF InLine
<1>5. i \div Size8 = n - 1 /\ i % Size8 = i - Before(n)
  <2> DEFINE s == Size8
             a == n - 1
             d == Before(n)
  <2>1. s \in Nat /\ s > 0 /\ a \in Nat /\ i \in Nat /\ d = a * s /\ d <= i /\ i < d + s
    BY <1>2, <1>3, <1>4
  <2> HIDE DEF s, a, d
  <2>2. i \div s = a /\ i % s = i - d
    BY <2>1, Rest
  <2>3. QED BY <2>2 DEF s, a, d
<1>6. idx_to_ip(i) = lines[n] * Size8 + (i % Size8)
  <2>1. idx_table[i \div Size8] = lines[n] /\ lines[n] \in Nat
    BY <1>1, <1>3, <1>5, LinesAre
  <2>2. QED BY <1>2, <2>1, IpIs
<1>7. QED BY <1>2, <1>5, <1>6

\* In a file with none of them, of at most 2^24 addresses.
LEMMA FoundShort ==
  ASSUME TableInv, loaded, LastTaken, NoLong, Total <= Size8,
         NEW i \in Nat, NEW n \in Nat, InLine(i, n)
  PROVE  idx_to_ip(i) = lines[n] * Size(lines[n]) + (i - Before(n))
<1>1. /\ Listing /\ Marks /\ Ends /\ Whole /\ Blocks /\ TypeOK
      /\ n \in DOMAIN lines /\ i \in Nat /\ DOMAIN lines = 1 .. Len(lines) /\ Len(lines) \in Nat
      /\ lines # <<>>
  BY LinesAre DEF TableInv, IInv, Laid, InLine
<1>2. /\ Size16 \in Nat /\ Size16 > 0 /\ Size24 \in Nat /\ Size24 > 0 /\ Size8 \in Nat /\ Size8 > 0
      /\ Octet \in Nat /\ Octet > 1 /\ Octet * Octet \in Nat /\ Octet < Octet * Octet
  BY Sizes
<1>3. \A k \in DOMAIN lines : lines[k] \in Nat /\ Before(k) \in Nat /\ lines[k] >= Octet
                              /\ Size(lines[k]) \in Nat /\ Size(lines[k]) > 0
                              /\ Size(lines[k]) = IF lines[k] < Octet * Octet THEN Size16 ELSE Size24
  BY <1>1, <1>2, LinesAre, Numbers DEF Size, NoLong
<1>4. i < Size8 /\ Before(n) <= i /\ i < Before(n) + Size(lines[n])
  <2>1. Before(n) + Size(lines[n]) <= Total /\ Total \in Nat
    BY <1>1, Numbers
  <2>2. QED BY <1>1, <1>2, <1>3, <2>1 DEF InLine
\* Every line begins before 2^24, so the entries are those of Blocks.
<1>5. /\ prev_idx < Size8 /\ prev_idx \in Nat
      /\ \A k \in DOMAIN lines : Before(k) <= prev_idx
  <2> DEFINE N == Len(lines)
  <2>1. N \in DOMAIN lines /\ prev_idx = Before(N) /\ Before(N) + Size(lines[N]) = Total /\ Total \in Nat
    BY <1>1, LinesAre, Numbers DEF Ends
  <2>2. ASSUME NEW k \in DOMAIN lines PROVE Before(k) <= Before(N)
    <3>1. k < N \/ k = N
      BY <1>1
    <3>2. k < N => Before(k) + Size(lines[k]) <= Before(N)
      BY <1>1, <2>1, Numbers
    <3>3. Before(k) \in Nat /\ Before(N) \in Nat /\ Size(lines[k]) \in Nat
      BY <1>3, <2>1
    <3>4. QED BY <3>1, <3>2, <3>3
  <2>3. Before(N) \in Nat /\ Size(lines[N]) \in Nat /\ Size(lines[N]) > 0
    BY <1>3, <2>1
  <2>4. prev_idx < Size8 /\ prev_idx \in Nat
    BY <1>2, <2>1, <2>3
  <2>5. QED BY <2>1, <2>2, <2>4
<1>6. \A j \in Nat : j * Size16 <= prev_idx =>
        \E k \in DOMAIN lines : idx_table[j] = lines[k] /\ Before(k) = j * Size16
  BY <1>1, <1>5 DEF Blocks
<1>7. i \div Size8 = 0
  <2>1. 0 = 0 * Size8 /\ 0 <= i /\ i < 0 + Size8
    BY <1>2, <1>4
  <2>2. QED BY <1>2, <2>1, Rest
<1> DEFINE j == i \div Size16
<1>8. j \in Nat /\ j * Size16 <= i /\ i < j * Size16 + Size16 /\ j * Size16 \in Nat
  BY <1>1, <1>2, Division
<1> HIDE DEF j
\* The line that begins with the block of the index.
<1>9. PICK a \in Nat, b \in 0 .. Octet - 1 :
         At(Before(n), a, b) /\ (lines[n] < Octet * Octet => b = 0)
  BY <1>1 DEF Whole
<1>10. Before(n) \div Size16 = a /\ a * Size16 <= Before(n) /\ a * Size16 \in Nat
  <2>1. Before(n) \div Size16 = a
    BY <1>1, <1>3, <1>9, Steps
  <2>2. Before(n) \in Nat
    BY <1>1, <1>3
  <2>3. a * Size16 <= Before(n)
    BY <1>2, <2>1, <2>2, Quotients
  <2>4. QED BY <1>2, <2>1, <2>3
\* No block begins within a line, unless it begins with it.
<1>11. j * Size16 <= Before(n)
  <2>1. CASE lines[n] < Octet * Octet
    <3>1. Before(n) = a * Size16 + 0 * Size24 /\ 0 * Size24 = 0 /\ Size(lines[n]) = Size16
      BY <1>1, <1>2, <1>3, <1>9, <2>1 DEF At
    <3>2. i \div Size16 = a
      <4>1. a * Size16 <= i /\ i <= a * Size16 + Size16 - 1
        BY <1>1, <1>2, <1>3, <1>4, <1>10, <3>1
      <4>2. QED BY <1>1, <1>2, <4>1, Quotients
    <3>3. QED BY <1>10, <3>2 DEF j
  <2>2. CASE ~ (lines[n] < Octet * Octet)
    <3>1. Size(lines[n]) = Size24
      BY <1>1, <1>3, <2>2
    <3>2. /\ b + 1 < Octet => At(Before(n) + Size24, a, b + 1)
          /\ b + 1 = Octet => At(Before(n) + Size24, a + 1, 0)
      BY <1>1, <1>3, <1>9, Steps
    <3>3. Before(n) + Size24 <= a * Size16 + Size16
      <4>1. (b + 1) * Size24 <= Size16 /\ (b + 1) * Size24 = b * Size24 + Size24
        <5>1. (b + 1) * Size24 <= Octet * Size24
          BY <1>2
        <5>2. QED BY <1>2, <5>1 DEF Size16, Size24
      <4>2. b * Size24 \in Nat
        BY <1>2
      <4>3. QED BY <1>2, <1>3, <1>9, <1>10, <4>1, <4>2 DEF At
    <3>4. i \div Size16 = a
      <4>1. a * Size16 <= i /\ i <= a * Size16 + Size16 - 1
        <5>1. Before(n) \in Nat
          BY <1>1, <1>3
        <5>2. QED BY <1>2, <1>4, <1>10, <3>1, <3>3, <5>1
      <4>2. QED BY <1>1, <1>2, <4>1, Quotients
    <3>5. QED BY <1>10, <3>4 DEF j
  <2>3. QED BY <2>1, <2>2
<1>12. PICK k \in DOMAIN lines : idx_table[j] = lines[k] /\ Before(k) = j * Size16
  <2>1. j * Size16 <= prev_idx
    BY <1>1, <1>3, <1>5, <1>8, <1>11
  <2>2. QED BY <1>6, <1>8, <2>1
<1>13. k <= n /\ k \in 1 .. n
  <2>1. ~ (n < k)
    <3>1. n < k => Before(n) + Size(lines[n]) <= Before(k)
      BY <1>1, Numbers
    <3>2. Before(n) \in Nat /\ Size(lines[n]) \in Nat
      BY <1>1, <1>3
    <3>3. QED BY <1>4, <1>8, <1>12, <3>1, <3>2
  <2>2. QED BY <1>1, <2>1
<1>14. /\ lines[k] < Octet * Octet => idx_to_ip(i) = lines[k] * Size16 + (i % Size16)
       /\ ~ (lines[k] < Octet * Octet) =>
            idx_to_ip(i) = IF Walk(i, lines[k]) = Endless THEN Endless
                           ELSE Walk(i, lines[k]) * Size24 + (i % Size24)
  <2>1. 0 \in Nat /\ 0 * Size16 <= prev_idx
    BY <1>2, <1>5
  <2>2. PICK m \in DOMAIN lines : idx_table[0] = lines[m]
    BY <1>6, <2>1
  <2>3. lines[m] \in Nat /\ lines[m] >= Octet
    BY <1>3
  <2>4. lines[m] = idx_table[i \div Size8] /\ lines[k] = idx_table[i \div Size16]
    BY <1>7, <1>12, <2>2 DEF j
  <2>5. QED BY <2>3, <2>4, IpIs
<1>15. CASE lines[k] < Octet * Octet
  <2>1. Size(lines[k]) = Size16
    BY <1>3, <1>15
  <2>2. InLine(i, k)
    BY <1>1, <1>8, <1>12, <2>1 DEF InLine
  <2>3. k = n
    BY <1>1, <2>2, OneLine
  <2>4. i % Size16 = i - Before(n)
    <3>1. Before(n) = j * Size16 /\ Before(n) <= i /\ i < Before(n) + Size16
      BY <1>4, <1>12, <2>1, <2>3
    <3> DEFINE s == Size16
               d == Before(n)
    <3>2. s \in Nat /\ s > 0 /\ j \in Nat /\ i \in Nat /\ d = j * s /\ d <= i /\ i < d + s
      BY <1>2, <1>8, <3>1
    <3> HIDE DEF s, d
    <3>3. i \div s = j /\ i % s = i - d
      BY <3>2, Rest
    <3>4. QED BY <3>3 DEF s, d
  <2>5. idx_to_ip(i) = lines[n] * Size16 + (i % Size16)
    BY <1>12, <1>15, <1>14, <2>3
  <2>6. QED BY <2>1, <2>3, <2>4, <2>5
<1>16. CASE ~ (lines[k] < Octet * Octet)
  <2>1. Walk(i, lines[k]) = lines[n] /\ lines[n] # Endless
    <3>1. lines[n] \in Nat
      BY <1>1, <1>3
    <3>2. Walk(i, lines[k]) = lines[n]
      BY <1>13, WalkTo
    <3>3. QED BY <3>1, <3>2 DEF Endless
  <2>2. Size(lines[n]) = Size24
    <3>1. lines[k] = lines[n] \/ lines[k] < lines[n]
      <4>1. k = n \/ k < n
        BY <1>13
      <4>2. k < n => lines[k] < lines[n]
        BY <1>1 DEF Listing
      <4>3. QED BY <4>1, <4>2
    <3>2. lines[n] \in Nat /\ lines[k] \in Nat
      BY <1>1, <1>3
    <3>3. ~ (lines[n] < Octet * Octet)
      BY <1>2, <1>16, <3>1, <3>2
    <3>4. QED BY <1>1, <1>3, <3>3
  <2>3. i % Size24 = i - Before(n)
    <3>1. Before(n) = (a * Octet + b) * Size24
      <4>1. Before(n) = a * (Octet * Octet) + b * Octet /\ Size24 = Octet
        BY <1>9 DEF At, Size16, Size24
      <4>2. QED BY <1>2, <4>1
    <3>2. a * Octet + b \in Nat /\ Before(n) <= i /\ i < Before(n) + Size24
      BY <1>2, <1>4, <2>2
    <3> DEFINE s == Size24
               c == a * Octet + b
               d == Before(n)
    <3>3. s \in Nat /\ s > 0 /\ c \in Nat /\ i \in Nat /\ d = c * s /\ d <= i /\ i < d + s
      BY <1>2, <3>1, <3>2
    <3> HIDE DEF s, c, d
    <3>4. i \div s = c /\ i % s = i - d
      BY <3>3, Rest
    <3>5. QED BY <3>4 DEF s, d
  <2>4. idx_to_ip(i) = lines[n] * Size24 + (i % Size24)
    BY <1>12, <1>16, <1>14, <2>1
  <2>5. QED BY <2>2, <2>3, <2>4
<1>17. QED BY <1>15, <1>16

LEMMA AllAlike ==
  ASSUME TableInv, loaded, Simple
  PROVE  AllLong \/ (NoLong /\ Total <= Size8)
<1>1. /\ Listing /\ MAX_IDX = Total /\ DOMAIN lines = 1 .. Len(lines) /\ Len(lines) \in Nat
      /\ lines # <<>> /\ Total \in Nat
  BY LinesAre, Numbers DEF TableInv, IInv, Ends, Chained, Simple
<1>2. AllLong \/ Total <= Size8
  BY <1>1 DEF Simple, AllLong
<1>3. \A n \in DOMAIN lines : lines[n] \in Nat /\ Before(n) \in Nat /\ Size(lines[n]) \in Nat
                              /\ Size(lines[n]) > 0
  BY <1>1, LinesAre, Numbers, Sizes DEF Size
<1>4. ASSUME Total <= Size8, NEW n \in DOMAIN lines, lines[n] < Octet
      PROVE  AllLong
  <2>1. Size(lines[n]) = Size8 /\ Size8 \in Nat /\ Size8 > 0
    BY <1>4, Sizes DEF Size
  \* A /8 takes the whole of 2^24 indices: there is no other line.
  <2>2. ASSUME NEW k \in DOMAIN lines PROVE k = n
    <3>1. Before(n) + Size(lines[n]) <= Total /\ Before(k) + Size(lines[k]) <= Total
      BY <1>1, Numbers
    <3>2. /\ n < k => Before(n) + Size(lines[n]) <= Before(k)
          /\ k < n => Before(k) + Size(lines[k]) <= Before(n)
      BY <1>1, Numbers
    <3>3. /\ Before(n) \in Nat /\ Before(k) \in Nat /\ Size(lines[k]) \in Nat /\ Size(lines[k]) > 0
      BY <1>3
    <3>4. ~ (n < k) /\ ~ (k < n)
      BY <1>1, <1>4, <2>1, <3>1, <3>2, <3>3
    <3>5. QED BY <1>1, <3>4
  <2>3. QED BY <1>4, <2>2 DEF AllLong
<1>5. ASSUME Total <= Size8, ~ AllLong PROVE NoLong
  <2>1. \A n \in DOMAIN lines : ~ (lines[n] < Octet)
    BY <1>4, <1>5
  <2>2. QED BY <1>3, <2>1, Sizes DEF NoLong
<1>6. QED BY <1>2, <1>5

LEMMA FoundNow ==
  ASSUME TableInv, loaded, Simple, NEW i \in Nat, NEW n \in Nat, InLine(i, n)
  PROVE  idx_to_ip(i) = lines[n] * Size(lines[n]) + (i - Before(n))
  BY AllAlike, FoundLong, FoundShort DEF Simple

LEMMA IndexNow == TableInv => IndexFoundInSimple
<1> SUFFICES ASSUME TableInv, loaded, Simple, NEW addr \in Addresses
             PROVE  idx_to_ip(IndexOf(addr)) = addr
  BY DEF IndexFoundInSimple, IndexFound
<1>1. PICK n \in DOMAIN lines : addr \in Covers(lines[n])
  BY DEF Addresses
<1>2. IInv /\ Listing /\ n \in Nat
  BY LinesAre DEF TableInv, IInv
<1>3. /\ InLine(IndexOf(addr), n)
      /\ addr = lines[n] * Size(lines[n]) + (IndexOf(addr) - Before(n))
  BY <1>1, <1>2, Placed
<1>4. IndexOf(addr) \in Nat
  BY <1>3 DEF InLine
<1>5. QED BY <1>2, <1>3, <1>4, FoundNow

\* For octets of any size, and files of any disjoint prefixes that are all of 8
\* bits or have no more than 2^24 addresses: an index is turned into the address
\* the file gives it, and the loop of idx_to_ip ends.
THEOREM IndexIsFound == Spec => []IndexFoundInSimple
<1>1. TableInv => IndexFoundInSimple
  BY IndexNow
<1>2. QED BY <1>1, TableAlways, PTL

\* Every index below MAX_IDX is that of an address.
LEMMA EveryIndex ==
  ASSUME TableInv, loaded, LastTaken, NEW i \in Nat, i < MAX_IDX
  PROVE  \E addr \in Addresses : IndexOf(addr) = i
<1>1. IInv /\ Listing /\ MAX_IDX = Total
  BY DEF TableInv, IInv, Chained
<1>2. PICK n \in DOMAIN lines : InLine(i, n)
  BY <1>1, SomeLine
<1>3. /\ Before(n) \in Nat /\ lines[n] \in Nat /\ Size(lines[n]) \in Nat
      /\ Before(n) <= i /\ i < Before(n) + Size(lines[n])
  BY <1>1, <1>2, LinesAre, Numbers, Sizes DEF Size, InLine
<1> DEFINE addr == First(lines[n]) + (i - Before(n))
<1>4. First(lines[n]) \in Nat
  BY <1>3 DEF First
<1>5. addr \in Covers(lines[n])
  BY <1>3, <1>4 DEF Covers
<1> HIDE DEF addr
<1>6. IndexOf(addr) = Before(n) + (addr - First(lines[n]))
  BY <1>1, <1>5, IndexIs
<1>7. IndexOf(addr) = i
  BY <1>3, <1>4, <1>6 DEF addr
<1>8. addr \in Addresses
  BY <1>5 DEF Addresses
<1>9. QED BY <1>7, <1>8

\* The table gives addresses, or none at all.
LEMMA IpBounds ==
  ASSUME TypeOK, Edges, NEW i \in 0 .. Octet * Size8 - 1, i < IdxEntries * Size16
  PROVE  idx_to_ip(i) = Endless \/ idx_to_ip(i) \in 0 .. Octet * Size8
<1>1. /\ Size8 \in Nat /\ Size8 > 0 /\ Size16 \in Nat /\ Size16 > 0 /\ Size24 \in Nat /\ Size24 > 0
      /\ Octet \in Nat /\ Octet > 1 /\ Octet * Octet \in Nat /\ Octet * Size8 \in Nat
      /\ Octet * Octet * Size16 = Octet * Size8 /\ (Top + 1) * Size24 = Octet * Size8
  <2>1. Octet \in Nat
    BY Sizes
  <2>2. Octet * Octet * (Octet * Octet) = Octet * (Octet * Octet * Octet)
    BY <2>1
  <2>3. Octet * Octet * Octet * Octet = Octet * (Octet * Octet * Octet)
    BY <2>1
  <2>4. Top + 1 = Octet * Octet * Octet
    BY Sizes DEF Top, Size8
  <2>5. QED BY <2>2, <2>3, <2>4, Sizes DEF Size8, Size16, Size24
<1> DEFINE S == Octet * Octet
           p8 == idx_table[i \div Size8]
           p16 == idx_table[i \div Size16]
\* The first bits of a number below a power, with a rest, are below it.
<1>2. ASSUME NEW s \in Nat, s > 0, NEW m \in Nat, m * s = Octet * Size8, NEW p \in 0 .. m - 1
      PROVE  p * s + (i % s) \in 0 .. Octet * Size8
  <2>1. i % s \in 0 .. s - 1
    BY <1>2, Division
  <2>2. (p + 1) * s <= m * s /\ (p + 1) * s = p * s + s /\ p * s \in Nat
    BY <1>2
  <2>3. QED BY <1>1, <1>2, <2>1, <2>2
<1>3. p8 \in Slots /\ p16 \in Slots
  <2>1. i \div Size8 \in Nat /\ i \div Size16 \in Nat
    BY <1>1, Division
  <2>2. /\ IdxEntries \in Nat /\ IdxEntries >= Octet /\ IdxEntries * Size16 \in Nat
    BY <1>1, NatTableAssumption
  <2>3. i \div Size8 < Octet /\ i \div Size16 < IdxEntries
    <3>1. /\ Octet * Size8 <= i <=> Octet <= i \div Size8
          /\ IdxEntries * Size16 <= i <=> IdxEntries <= i \div Size16
      BY <1>1, <2>2, Quotients
    <3>2. QED BY <1>1, <2>1, <2>2, <3>1
  <2>4. i \div Size8 \in IdxRange /\ i \div Size16 \in IdxRange
    BY <1>1, <2>1, <2>2, <2>3 DEF IdxRange
  <2>5. QED BY <2>4, TypesAre
<1>4. p8 \in Nat /\ p16 \in Nat /\ S \in Nat
  BY <1>1, <1>3, Ranges
<1>5. /\ p8 < Octet => idx_to_ip(i) = p8 * Size8 + (i % Size8)
      /\ p8 >= Octet /\ p16 < S => idx_to_ip(i) = p16 * Size16 + (i % Size16)
      /\ p8 >= Octet /\ ~ (p16 < S) =>
           idx_to_ip(i) = IF Walk(i, p16) = Endless THEN Endless
                          ELSE Walk(i, p16) * Size24 + (i % Size24)
  BY <1>4, IpIs
<1>6. Walk(i, p16) = Endless \/ Walk(i, p16) \in 0 .. Top - 1
  BY <1>3, WalkBounds
<1> HIDE DEF p8, p16, S
<1>7. CASE p8 < Octet
  BY <1>1, <1>2, <1>4, <1>5, <1>7
<1>8. CASE p8 >= Octet /\ p16 < S
  <2>1. S * Size16 = Octet * Size8
    BY <1>1 DEF S
  <2>2. QED BY <1>1, <1>2, <1>4, <1>5, <1>8, <2>1
<1>9. CASE p8 >= Octet /\ ~ (p16 < S)
  <2>1. CASE Walk(i, p16) = Endless
    BY <1>5, <1>9, <2>1
  <2>2. CASE Walk(i, p16) # Endless
    <3>1. Top + 1 \in Nat /\ Walk(i, p16) \in 0 .. (Top + 1) - 1
      BY <1>6, <2>2, Ranges
    <3>2. QED BY <1>1, <1>2, <1>5, <1>9, <2>2, <3>1
  <2>3. QED BY <2>1, <2>2
<1>10. QED BY <1>1, <1>4, <1>7, <1>8, <1>9

-----------------------------------------------------------------------------

(***************************************************************************)
(* The inductive invariant, part by part.                                  *)
(***************************************************************************)

\* What the command line said.
Given ==
  /\ args \in Seq(Arguments) /\ files \subseteq Candidates
  /\ opts = [p |-> opts.p, flags |-> opts.flags, config |-> opts.config,
             jumbo |-> opts.jumbo, entries |-> opts.entries]
  /\ opts.p \subseteq 0 .. MaskBits - 1 /\ opts.config \in Seq(Params)

Ranging ==
  /\ pc \in {"args", "ports", "mem", "nat", "start", "launch", "wait", "stopped"}
  /\ todo \union started \subseteq 0 .. NbPorts - 1
  /\ mem_todo \union loops \union hung \subseteq Lcores
  /\ DOMAIN pool \subseteq 0 .. NbSockets - 1 /\ nat_tbl \subseteq DOMAIN pool
  /\ \A s \in DOMAIN pool : pool[s] \in Nat
  /\ DOMAIN nb_rxq \subseteq 0 .. NbPorts - 1

\* main has looked at the options and goes on.
Past == pc \notin {"args", "stopped"}

\* The ports are done from the lowest one on.
Order ==
  Past =>
    /\ \A c \in Triples : c.port \in EnabledPorts /\ c.lcore \in Lcores
    /\ todo \subseteq EnabledPorts
    /\ todo = EnabledPorts \/ Lowest(EnabledPorts) \notin todo
    /\ pc \in {"mem", "nat"} => todo # {}
    /\ pc \in {"start", "launch", "wait"} => todo = {}

\* The queues of a port are numbered without gaps, and the device has as many.
Configured(port) ==
  /\ InSequence(port) /\ port \in DOMAIN nb_rxq
  /\ nb_rxq[port] = Cardinality(QueuesOf(port))

\* Every lcore has a transmit queue of its own on the port.
TxDone(port) ==
  \A l \in Lcores : <<l, port>> \in DOMAIN tx_id /\ tx_id[<<l, port>>] = TxQueue(l)

PortsDone ==
  Past => /\ \A port \in EnabledPorts \ todo : Configured(port) /\ TxDone(port)
          /\ pc \in {"mem", "nat"} => Configured(Port)

\* The pools are made with the first port, for its queues.
Pools ==
  /\ pc = "args" => DOMAIN pool = {}
  /\ Past =>
       /\ pc = "ports" /\ todo = EnabledPorts => DOMAIN pool = {}
       /\ todo # EnabledPorts =>
            Cardinality(Lcores) <= MaxTxQueue /\ \A l \in Lcores : Socket(l) \in DOMAIN pool
       /\ pc \in {"mem", "nat"} => \A l \in Lcores \ mem_todo : Socket(l) \in DOMAIN pool
       /\ pc = "nat" => mem_todo # {} /\ Socket(Lcore) \in DOMAIN pool
       /\ \A s \in DOMAIN pool : pool[s] = NB_MBUF(nb_rxq[Lowest(EnabledPorts)])

\* A socket has a table only when the file has been read.
Tables == TableInv /\ (nat_tbl # {} => loaded /\ rk \in Ciphers)

\* Every receive queue is set up with the pool of the one lcore that polls it.
RxDone ==
  /\ DOMAIN rx_setup = {<<c.port, c.queue>> : c \in Triples}
  /\ \A c \in Triples : rx_setup[<<c.port, c.queue>>] = Socket(c.lcore)

Running ==
  /\ pc \notin {"wait", "stopped"} => loops = {} /\ out = {}
  /\ pc \in {"start", "launch", "wait"} => RxDone
  /\ pc \in {"launch", "wait"} => started = EnabledPorts
  /\ pc = "wait" => force_quit \/ loops = {l \in Lcores : ListOf(l) # {}}

\* A packet was sent as the table, which no longer changes, translates it.
SentOK(o) ==
  /\ o.was \in Packets /\ o.is = Translated(o.was) /\ o.is.saddr # Endless
  /\ Ptype(o.was) = "ipv4" => nat_tbl # {}
  /\ o.from \in EnabledPorts
  /\ o.port = o.from \/ (o.port \in opts.p /\ Ptype(o.was) # "other")

Sent == \A o \in out : SentOK(o)

MainInv == Given /\ Ranging /\ Order /\ PortsDone /\ Pools /\ Running
NatInv  == MainInv /\ Tables /\ Sent

-----------------------------------------------------------------------------
(***************************************************************************)
(* Numbers and sets.                                                       *)
(***************************************************************************)
LEMMA LowestIs ==
  ASSUME NEW T, T \subseteq Nat, T # {}
  PROVE  Lowest(T) \in T /\ \A n \in T : Lowest(T) <= n
<1>1. PICK k \in T : \A n \in T : k <= n
  BY LeastOf
<1>2. QED BY <1>1 DEF Lowest, Min

LEMMA MaxOfTwo ==
  ASSUME NEW a \in Nat, NEW b \in Nat
  PROVE  Max({a, b}) \in Nat /\ Max({a, b}) >= a
<1>1. \E x \in {a, b} : \A y \in {a, b} : x >= y
  OBVIOUS
<1>2. Max({a, b}) \in {a, b} /\ \A y \in {a, b} : Max({a, b}) >= y
  BY <1>1 DEF Max
<1>3. QED BY <1>2

LEMMA MinOfTwo ==
  ASSUME NEW a \in Nat, NEW b \in Nat
  PROVE  Min({a, b}) \in Nat /\ (a <= b => Min({a, b}) = a)
<1>1. \E x \in {a, b} : \A y \in {a, b} : x =< y
  OBVIOUS
<1>2. Min({a, b}) \in {a, b} /\ \A y \in {a, b} : Min({a, b}) =< y
  BY <1>1 DEF Min
<1>3. QED BY <1>2

\* The place of n in the order of T.
Rank(T, n) == Cardinality({k \in T : k < n})

\* The elements of a finite set of numbers are counted 0, 1, 2 and so on.
LEMMA Ranks ==
  ASSUME NEW T, T \subseteq Nat, IsFiniteSet(T)
  PROVE  /\ Cardinality(T) \in Nat
         /\ \A n \in T : Rank(T, n) \in 0 .. Cardinality(T) - 1
         /\ \A m, n \in T : m # n => Rank(T, m) # Rank(T, n)
         /\ \A q \in 0 .. Cardinality(T) - 1 : \E n \in T : Rank(T, n) = q
<1> DEFINE Below(n) == {k \in T : k < n}
           N == Cardinality(T)
<1>1. N \in Nat
  BY FS_CardinalityType
<1>2. \A n : Rank(T, n) = Cardinality(Below(n))
  BY DEF Rank
<1>3. ASSUME NEW U, U \subseteq T, NEW n \in T, n \notin Below(n), Below(n) \subseteq U, n \in U
      PROVE  /\ Cardinality(Below(n)) \in Nat /\ Cardinality(U) \in Nat
             /\ Cardinality(Below(n)) < Cardinality(U)
  <2>1. IsFiniteSet(U) /\ IsFiniteSet(Below(n))
    <3>1. Below(n) \subseteq T
      OBVIOUS
    <3> HIDE DEF Below
    <3>2. QED BY <1>3, <3>1, FS_Subset
  <2>2. Below(n) # U
    BY <1>3
  <2>3. Cardinality(U) \in Nat /\ Cardinality(Below(n)) \in Nat
    BY <2>1, FS_CardinalityType
  <2>4. Cardinality(Below(n)) <= Cardinality(U)
    BY <1>3, <2>1, FS_Subset
  <2>5. Cardinality(Below(n)) # Cardinality(U)
    BY <1>3, <2>1, <2>2, FS_Subset
  <2>6. QED BY <2>3, <2>4, <2>5
<1>4. \A n \in T : Rank(T, n) \in 0 .. N - 1
  <2> SUFFICES ASSUME NEW n \in T PROVE Rank(T, n) \in 0 .. N - 1
    OBVIOUS
  <2>1. n \notin Below(n) /\ Below(n) \subseteq T
    OBVIOUS
  <2>2. Cardinality(Below(n)) \in Nat /\ Cardinality(Below(n)) < Cardinality(T)
    BY <1>3, <2>1
  <2>3. QED BY <1>1, <1>2, <2>2
<1>5. ASSUME NEW m \in T, NEW n \in T, m < n PROVE Rank(T, m) # Rank(T, n)
  <2>1. Below(n) \subseteq T /\ m \notin Below(m) /\ Below(m) \subseteq Below(n) /\ m \in Below(n)
    <3>1. m \in Nat /\ n \in Nat /\ \A k \in T : k \in Nat
      OBVIOUS
    <3>2. \A k \in T : k < m => k < n
      BY <1>5, <3>1
    <3>3. ~ (m < m)
      BY <3>1
    <3>4. QED BY <1>5, <3>2, <3>3
  <2>2. /\ Cardinality(Below(m)) \in Nat /\ Cardinality(Below(n)) \in Nat
        /\ Cardinality(Below(m)) < Cardinality(Below(n))
    BY <1>3, <2>1
  <2>3. QED BY <1>2, <2>2
<1>6. \A m, n \in T : m # n => Rank(T, m) # Rank(T, n)
  <2> SUFFICES ASSUME NEW m \in T, NEW n \in T, m # n PROVE Rank(T, m) # Rank(T, n)
    OBVIOUS
  <2>1. m < n \/ n < m
    OBVIOUS
  <2>2. QED BY <1>5, <2>1
<1>7. \A q \in 0 .. N - 1 : \E n \in T : Rank(T, n) = q
  <2> DEFINE f == [n \in T |-> Rank(T, n)]
             R == 0 .. N - 1
  <2> HIDE DEF N
  <2>1. f \in [T -> R] /\ \A m, n \in T : f[m] = f[n] => m = n
    BY <1>4, <1>6
  <2>2. IsFiniteSet(R) /\ Cardinality(R) = N
    BY <1>1, FS_Interval
  <2>3. f \in Injection(T, R)
    BY <2>1 DEF Injection, IsInjective
  <2> HIDE DEF f, R
  <2>4. f \in Surjection(T, R)
    BY <2>2, <2>3, FS_Injection DEF N
  <2>5. \A q \in R : \E n \in T : f[n] = q
    BY <2>4 DEF Surjection
  <2>6. QED BY <2>5 DEF f, R
<1>8. QED BY <1>1, <1>4, <1>6, <1>7

-----------------------------------------------------------------------------
(***************************************************************************)
(* What a step leaves as it is.                                            *)
(***************************************************************************)
LEMMA OptsStay ==
  ASSUME UNCHANGED opts
  PROVE  /\ Triples' = Triples /\ EnabledPorts' = EnabledPorts
         /\ \A p : QueuesOf(p)' = QueuesOf(p) /\ (InSequence(p)' <=> InSequence(p))
         /\ \A l : Socket(l)' = Socket(l) /\ ListOf(l)' = ListOf(l)
         /\ \A p : Ptype(p)' = Ptype(p)
<1>1. \A p : QueuesOf(p)' = QueuesOf(p)
  BY DEF QueuesOf
<1>2. \A p : InSequence(p)' <=> InSequence(p)
  BY <1>1 DEF InSequence
<1>3. QED BY <1>1, <1>2 DEF Triples, EnabledPorts, Socket, ListOf, Ptype

LEMMA PortsStay ==
  ASSUME UNCHANGED <<opts, nb_rxq, tx_id>>
  PROVE  \A p : (Configured(p)' <=> Configured(p)) /\ (TxDone(p)' <=> TxDone(p))
<1>1. \A p : QueuesOf(p)' = QueuesOf(p) /\ (InSequence(p)' <=> InSequence(p))
  BY OptsStay
<1>2. QED BY <1>1 DEF Configured, TxDone, TxQueue

LEMMA TranslationStays ==
  ASSUME UNCHANGED <<opts, t, idx_table, rk>>
  PROVE  \A p : Translated(p)' = Translated(p)
<1>1. \A p : process_outgoing_pkt(p)' = process_outgoing_pkt(p)
  BY DEF process_outgoing_pkt, Input, idx_to_ip, Walk, Slots, Size8, Size16, Size24, Endless
<1>2. \A p : Ptype(p)' = Ptype(p)
  BY OptsStay
<1>3. QED BY <1>1, <1>2 DEF Translated

LEMMA SentStays ==
  ASSUME Sent, UNCHANGED <<opts, t, idx_table, rk, nat_tbl, out>>
  PROVE  Sent'
<1> SUFFICES ASSUME NEW o \in out PROVE SentOK(o)'
  BY DEF Sent
<1>1. SentOK(o)
  BY DEF Sent
<1>2. Translated(o.was)' = Translated(o.was)
  BY TranslationStays
<1>3. EnabledPorts' = EnabledPorts /\ Ptype(o.was)' = Ptype(o.was)
  BY OptsStay
<1>4. QED BY <1>1, <1>2, <1>3 DEF SentOK, Endless

\* Only NatLoad changes the table, as NatTable says.
LEMMA NextNatIsNext ==
  ASSUME files \subseteq Candidates, [NextNat]_allVars
  PROVE  /\ [Next]_vars
         /\ UNCHANGED vars \/ NatLoad
<1>1. CASE UNCHANGED allVars
  BY <1>1 DEF allVars, tabVars, vars
<1>2. ASSUME UNCHANGED tabVars PROVE UNCHANGED vars
  BY <1>2 DEF tabVars, vars
<1>3. CASE Main
  <2>1. CASE ArgPorts \/ ArgFlag \/ ArgConfig \/ ArgEntries \/ ArgJumbo
    BY <1>2, <2>1 DEF ArgPorts, ArgFlag, ArgConfig, ArgEntries, ArgJumbo, Take
  <2>2. CASE ArgRefused \/ CheckFailed \/ PortFails \/ MemFails \/ NoFile \/ DeviceFails
    BY <1>2, <2>2 DEF ArgRefused, CheckFailed, PortFails, MemFails, NoFile, DeviceFails, Exit
  <2>3. CASE Checked \/ ConfigurePort \/ SkipSocket \/ MakePool \/ NatAllocFails
    BY <1>2, <2>3 DEF Checked, ConfigurePort, SkipSocket, MakePool, NatAllocFails
  <2>4. CASE TxQueues \/ RxQueues \/ StartPorts \/ launch \/ StopPorts
    BY <1>2, <2>4 DEF TxQueues, RxQueues, StartPorts, launch, StopPorts
  <2>5. CASE NatReady
    BY <2>5 DEF NatReady, vars
  <2>6. CASE NatLoad
    BY <2>6 DEF NatLoad, Next
  <2>7. QED BY <1>3, <2>1, <2>2, <2>3, <2>4, <2>5, <2>6 DEF Main
<1>4. ASSUME NEW l \in Lcores, Loop(l) \/ Leave(l) PROVE UNCHANGED vars
  BY <1>2, <1>4 DEF Loop, Leave, em_get_dst_port, Hang, Crash, Exit
<1>5. CASE signal_handler
  BY <1>2, <1>5 DEF signal_handler
<1>6. QED BY <1>1, <1>3, <1>4, <1>5 DEF NextNat

LEMMA TablesStep ==
  ASSUME NatInv, [NextNat]_allVars
  PROVE  Tables'
<1>1. Tables /\ files \subseteq Candidates
  BY DEF NatInv, MainInv, Given
<1>2. TableInv'
  BY <1>1, NextNatIsNext, NextTable DEF Tables
<1>3. ASSUME UNCHANGED <<nat_tbl, rk, loaded>> PROVE Tables'
  BY <1>1, <1>2, <1>3 DEF Tables
<1>4. CASE NatReady
  <2>1. loaded /\ loaded' = loaded /\ rk' \in IF nat_tbl = {} THEN Ciphers ELSE {rk}
    BY <1>4 DEF NatReady, vars
  <2>2. rk' \in Ciphers
    BY <1>1, <2>1 DEF Tables
  <2>3. QED BY <1>2, <2>1, <2>2 DEF Tables
<1>5. CASE NatLoad
  <2>1. nat_tbl = {}
    <3>1. ~ loaded
      <4>1. (\E p \in files : LoadLine(p)) \/ (\E r \in Others : SkipLine(r)) \/ EndOfFile
        BY <1>5 DEF NatLoad
      <4>2. ASSUME NEW p \in files, LoadLine(p) PROVE ~ loaded
        BY <4>2, ZenonT(30) DEF LoadLine
      <4>3. EndOfFile \/ (\E r \in Others : SkipLine(r)) => ~ loaded
        BY DEF EndOfFile, SkipLine
      <4>4. QED BY <4>1, <4>2, <4>3
    <3>2. QED BY <1>1, <3>1 DEF Tables
  <2>2. nat_tbl' = nat_tbl
    BY <1>5 DEF NatLoad, memVars
  <2>3. QED BY <1>2, <2>1, <2>2 DEF Tables
<1>6. ASSUME UNCHANGED <<tabVars, memVars>> PROVE Tables'
  BY <1>3, <1>6 DEF tabVars, vars, memVars
<1>7. CASE Main
  <2>1. CASE ArgPorts \/ ArgFlag \/ ArgConfig \/ ArgEntries \/ ArgJumbo
    BY <1>6, <2>1 DEF ArgPorts, ArgFlag, ArgConfig, ArgEntries, ArgJumbo, Take
  <2>2. CASE ArgRefused \/ CheckFailed \/ PortFails \/ MemFails \/ NoFile \/ DeviceFails
    BY <1>6, <2>2 DEF ArgRefused, CheckFailed, PortFails, MemFails, NoFile, DeviceFails, Exit
  <2>3. CASE Checked \/ TxQueues \/ RxQueues \/ StartPorts \/ launch \/ StopPorts
    BY <1>6, <2>3 DEF Checked, TxQueues, RxQueues, StartPorts, launch, StopPorts
  <2>4. CASE ConfigurePort \/ SkipSocket \/ MakePool \/ NatAllocFails
    BY <1>3, <2>4 DEF ConfigurePort, SkipSocket, MakePool, NatAllocFails, tabVars, vars
  <2>5. QED BY <1>4, <1>5, <1>7, <2>1, <2>2, <2>3, <2>4 DEF Main
<1>8. ASSUME NEW l \in Lcores, Loop(l) \/ Leave(l) PROVE Tables'
  BY <1>6, <1>8 DEF Loop, Leave, em_get_dst_port, Hang, Crash, Exit
<1>9. CASE signal_handler
  BY <1>6, <1>9 DEF signal_handler
<1>10. CASE UNCHANGED allVars
  BY <1>6, <1>10 DEF allVars
<1>11. QED BY <1>7, <1>8, <1>9, <1>10 DEF NextNat

-----------------------------------------------------------------------------
(***************************************************************************)
(* The steps of main, one after the other.                                 *)
(***************************************************************************)

\* What the steps share: how main is set up does not change.
LEMMA SetUpStays ==
  ASSUME MainInv, UNCHANGED <<pc, startVars, memVars, devVars>>
  PROVE  Given' /\ Order' /\ PortsDone' /\ Pools'
<1>1. UNCHANGED <<pc, args, files, opts, todo, pool, nat_tbl, mem_todo, nb_rxq, tx_id, rx_setup, started>>
  BY DEF startVars, memVars, devVars
<1>2. /\ Triples' = Triples /\ EnabledPorts' = EnabledPorts
      /\ \A l : Socket(l)' = Socket(l)
      /\ \A p : (Configured(p)' <=> Configured(p)) /\ (TxDone(p)' <=> TxDone(p))
  BY <1>1, OptsStay, PortsStay
<1>3. Given'
  BY <1>1 DEF MainInv, Given
<1>4. Order'
  BY <1>1, <1>2 DEF MainInv, Order, Past
<1>5. Port' = Port /\ Lcore' = Lcore
  BY <1>1 DEF Port, Lcore
<1>6. PortsDone'
  BY <1>1, <1>2, <1>5 DEF MainInv, PortsDone, Past
<1>7. Pools'
  BY <1>1, <1>2, <1>5 DEF MainInv, Pools, Past, NB_MBUF
<1>8. QED BY <1>3, <1>4, <1>6, <1>7

LEMMA ExitStep ==
  ASSUME MainInv, Exit
  PROVE  MainInv'
<1>1. /\ pc' = "stopped"
      /\ UNCHANGED <<args, files, opts, todo, pool, nat_tbl, mem_todo, nb_rxq, started, loops, hung, out>>
  BY DEF Exit, startVars, memVars, devVars, loopVars
<1>2. Given' /\ Ranging'
  BY <1>1 DEF MainInv, Given, Ranging
<1>3. Order' /\ PortsDone' /\ Pools' /\ Running'
  BY <1>1 DEF Order, PortsDone, Pools, Running, Past
<1>4. QED BY <1>2, <1>3 DEF MainInv

\* An option of the command line is one of Arguments.
LEMMA ArgIs ==
  ASSUME MainInv, NEW opt, Option(opt)
  PROVE  /\ pc = "args" /\ args # <<>> /\ Len(args) \in Nat /\ Len(args) > 0
         /\ Head(args) \in Arguments /\ Head(args).opt = opt
<1>1. args \in Seq(Arguments) /\ args # <<>>
  BY DEF MainInv, Given, Option
<1>2. Head(args) \in Arguments /\ Len(args) \in Nat
  BY <1>1, HeadTailProperties, LenProperties
<1>3. Len(args) > 0
  BY <1>1, <1>2, EmptySeq
<1>4. QED BY <1>1, <1>2, <1>3 DEF Option

LEMMA TakeStep ==
  ASSUME MainInv, pc = "args", NEW n \in {1, 2}, NEW new, Take(n, new),
         new = [p |-> new.p, flags |-> new.flags, config |-> new.config,
                jumbo |-> new.jumbo, entries |-> new.entries],
         new.p \subseteq 0 .. MaskBits - 1, new.config \in Seq(Params)
  PROVE  MainInv'
<1>1. /\ opts' = new /\ args' = SubSeq(args, n + 1, Len(args)) /\ pc' = pc
      /\ UNCHANGED <<files, todo, pool, nat_tbl, mem_todo, nb_rxq, started, loops, hung, out>>
  BY DEF Take, memVars, devVars, loopVars
<1>2. args' \in Seq(Arguments)
  <2>1. args \in Seq(Arguments) /\ Len(args) \in Nat
    BY LenProperties DEF MainInv, Given
  <2>2. \A k \in n + 1 .. Len(args) : args[k] \in Arguments
    <3>1. ASSUME NEW k \in n + 1 .. Len(args) PROVE args[k] \in Arguments
      <4>1. k \in 1 .. Len(args)
        BY <2>1
      <4>2. QED BY <2>1, <4>1, ElementOfSeq
    <3>2. QED BY <3>1
  <2>3. n + 1 \in Int /\ Len(args) \in Int
    BY <2>1
  <2>4. SubSeq(args, n + 1, Len(args)) \in Seq(Arguments)
    BY <2>2, <2>3, SubSeqProperties
  <2>5. QED BY <1>1, <2>4
<1>3. Given'
  BY <1>1, <1>2 DEF MainInv, Given
<1>4. Ranging'
  BY <1>1 DEF MainInv, Ranging
<1>5. Order' /\ PortsDone' /\ Pools' /\ Running'
  BY <1>1 DEF MainInv, Order, PortsDone, Pools, Running, Past
<1>6. QED BY <1>3, <1>4, <1>5 DEF MainInv

LEMMA ArgSteps ==
  ASSUME MainInv, ArgPorts \/ ArgFlag \/ ArgConfig \/ ArgEntries \/ ArgJumbo
  PROVE  MainInv'
<1>1. /\ opts = [p |-> opts.p, flags |-> opts.flags, config |-> opts.config,
                 jumbo |-> opts.jumbo, entries |-> opts.entries]
      /\ opts.p \subseteq 0 .. MaskBits - 1 /\ opts.config \in Seq(Params)
  BY DEF MainInv, Given
<1>2. CASE ArgPorts
  <2> DEFINE new == [opts EXCEPT !.p = parse_portmask(Head(args))]
  <2>1. pc = "args" /\ Head(args) \in Arguments /\ Head(args).opt = "p" /\ Take(1, new)
    BY <1>2, ArgIs DEF ArgPorts
  <2>2. parse_portmask(Head(args)) \subseteq 0 .. MaskBits - 1
    BY <2>1, StartAssumption DEF parse_portmask
  <2>3. /\ new = [p |-> new.p, flags |-> new.flags, config |-> new.config,
                  jumbo |-> new.jumbo, entries |-> new.entries]
        /\ new.p \subseteq 0 .. MaskBits - 1 /\ new.config \in Seq(Params)
    BY <1>1, <2>2
  <2> HIDE DEF new
  <2>4. QED BY <2>1, <2>3, TakeStep
<1>3. CASE ArgFlag
  <2>1. PICK f : Option(f) /\ Take(1, [opts EXCEPT !.flags = @ \union {f}])
    BY <1>3 DEF ArgFlag
  <2> DEFINE flags == opts.flags \union {f}
             new == [opts EXCEPT !.flags = flags]
  <2>2. pc = "args"
    BY <2>1 DEF Option
  <2>3. Take(1, new)
    BY <2>1
  <2> HIDE DEF flags
  <2>4. /\ new = [p |-> new.p, flags |-> new.flags, config |-> new.config,
                  jumbo |-> new.jumbo, entries |-> new.entries]
        /\ new.p \subseteq 0 .. MaskBits - 1 /\ new.config \in Seq(Params)
    BY <1>1
  <2> HIDE DEF new
  <2>5. QED BY <2>2, <2>3, <2>4, TakeStep
<1>4. CASE ArgConfig
  <2> DEFINE new == [opts EXCEPT !.config = Head(args).val]
  <2>1. pc = "args" /\ Head(args) \in Arguments /\ Head(args).opt = "config" /\ Head(args).ok /\ Take(1, new)
    BY <1>4, ArgIs DEF ArgConfig
  <2>2. Head(args).val \in Seq(Params)
    BY <2>1, StartAssumption
  <2>3. /\ new = [p |-> new.p, flags |-> new.flags, config |-> new.config,
                  jumbo |-> new.jumbo, entries |-> new.entries]
        /\ new.p \subseteq 0 .. MaskBits - 1 /\ new.config \in Seq(Params)
    BY <1>1, <2>2
  <2> HIDE DEF new
  <2>4. QED BY <2>1, <2>3, TakeStep
<1>5. CASE ArgEntries
  <2> DEFINE new == [opts EXCEPT !.entries = Head(args).val]
  <2>1. pc = "args" /\ Take(1, new)
    BY <1>5 DEF ArgEntries, Option
  <2>2. /\ new = [p |-> new.p, flags |-> new.flags, config |-> new.config,
                  jumbo |-> new.jumbo, entries |-> new.entries]
        /\ new.p \subseteq 0 .. MaskBits - 1 /\ new.config \in Seq(Params)
    BY <1>1
  <2> HIDE DEF new
  <2>3. QED BY <2>1, <2>2, TakeStep
<1>6. CASE ArgJumbo
  <2> DEFINE n == IF JumboNext THEN 2 ELSE 1
             flags == opts.flags \union {"enable-jumbo"}
             jumbo == IF JumboNext /\ args[2].opt = "max-pkt-len" THEN args[2].val ELSE opts.jumbo
             new == [opts EXCEPT !.flags = flags, !.jumbo = jumbo]
  <2>1. pc = "args" /\ Take(n, new) /\ n \in {1, 2}
    BY <1>6 DEF ArgJumbo, Option
  <2> HIDE DEF flags, jumbo
  <2>2. new = [p |-> opts.p, flags |-> flags, config |-> opts.config,
               jumbo |-> jumbo, entries |-> opts.entries]
    <3>1. new = [[opts EXCEPT !.flags = flags] EXCEPT !.jumbo = jumbo]
      OBVIOUS
    <3>2. opts = [p |-> opts.p, flags |-> opts.flags, config |-> opts.config,
                  jumbo |-> opts.jumbo, entries |-> opts.entries]
      BY <1>1
    <3> HIDE DEF new
    <3>3. QED BY <3>1, <3>2
  <2> HIDE DEF new, n
  <2>3. /\ new = [p |-> new.p, flags |-> new.flags, config |-> new.config,
                  jumbo |-> new.jumbo, entries |-> new.entries]
        /\ new.p \subseteq 0 .. MaskBits - 1 /\ new.config \in Seq(Params)
    BY <1>1, <2>2
  <2>4. QED BY <2>1, <2>3, TakeStep
<1>7. QED BY <1>2, <1>3, <1>4, <1>5, <1>6

LEMMA CheckedStep ==
  ASSUME MainInv, Checked
  PROVE  MainInv'
<1>1. /\ pc = "args" /\ pc' = "ports" /\ todo' = EnabledPorts /\ ParamsOK
      /\ UNCHANGED <<args, files, pool, nat_tbl, mem_todo, nb_rxq, tx_id, started, loops, hung, out>>
  BY DEF Checked, memVars, devVars, loopVars
<1>2. /\ opts = [p |-> opts.p, flags |-> opts.flags, config |-> opts.config,
                 jumbo |-> opts.jumbo, entries |-> opts.entries]
      /\ opts.p \subseteq 0 .. MaskBits - 1 /\ opts.config \in Seq(Params)
      /\ args \in Seq(Arguments) /\ files \subseteq Candidates
  BY DEF MainInv, Given
<1>3. /\ opts' = [p |-> opts.p, flags |-> opts'.flags, config |-> opts.config,
                  jumbo |-> opts.jumbo, entries |-> opts'.entries]
  <2> DEFINE flags == opts.flags \ {"ipv6"}
  <2>1. opts' = IF "L" \in opts.flags THEN [opts EXCEPT !.flags = flags, !.entries = 4] ELSE opts
    BY DEF Checked
  <2> HIDE DEF flags
  <2>2. QED BY <1>2, <2>1
<1>4. Given' /\ opts'.p = opts.p /\ opts'.config = opts.config
  <2>1. opts'.p = opts.p /\ opts'.config = opts.config /\ opts'.jumbo = opts.jumbo
    BY <1>3
  <2>2. opts' = [p |-> opts'.p, flags |-> opts'.flags, config |-> opts'.config,
                 jumbo |-> opts'.jumbo, entries |-> opts'.entries]
    BY <1>3, <2>1
  <2>3. QED BY <1>1, <1>2, <2>1, <2>2 DEF Given
<1>5. Triples' = Triples /\ EnabledPorts' = EnabledPorts
  BY <1>4 DEF Triples, EnabledPorts
<1>6. Ranging'
  BY <1>1 DEF MainInv, Ranging, EnabledPorts
<1>7. \A c \in Triples : c.port \in EnabledPorts /\ c.lcore \in Lcores
  <2> SUFFICES ASSUME NEW c \in Triples PROVE c.port \in EnabledPorts /\ c.lcore \in Lcores
    OBVIOUS
  <2>1. c.lcore \in Lcores /\ (c.port % MaskBits) \in opts.p /\ c.port < NbPorts
    BY <1>1 DEF ParamsOK
  <2>2. c \in Params
    BY <1>2, ElementOfSeq, LenProperties DEF Triples
  <2>3. c.port \in Nat /\ MaskBits \in Nat /\ NbPorts \in Nat /\ c.port < MaskBits
    <3>1. MaskBits \in Nat /\ NbPorts \in Nat /\ NbPorts <= MaskBits
      BY StartAssumption
    <3>2. c.port \in Nat
      BY <2>2 DEF Params
    <3>3. QED BY <2>1, <3>1, <3>2
  <2>4. c.port % MaskBits = c.port
    BY <2>3
  <2>5. QED BY <2>1, <2>3, <2>4 DEF EnabledPorts
<1>8. Order' /\ PortsDone'
  BY <1>1, <1>5, <1>7 DEF Order, PortsDone, Past
<1>9. Pools'
  <2>1. DOMAIN pool' = {} /\ todo' = EnabledPorts' /\ pc' = "ports"
    BY <1>1, <1>5 DEF MainInv, Pools
  <2>2. QED BY <2>1 DEF Pools, Past
<1>10. Running'
  BY <1>1 DEF MainInv, Running
<1>11. QED BY <1>4, <1>6, <1>8, <1>9, <1>10 DEF MainInv

\* The port that main is at.
LEMMA PortIs ==
  ASSUME MainInv, Past, todo # {}
  PROVE  /\ Port \in todo /\ Port \in EnabledPorts /\ Port \in 0 .. NbPorts - 1
         /\ Lowest(EnabledPorts) \in EnabledPorts /\ EnabledPorts \subseteq 0 .. NbPorts - 1
         /\ todo = EnabledPorts => Port = Lowest(EnabledPorts)
<1>1. /\ todo \subseteq EnabledPorts
      /\ EnabledPorts \subseteq 0 .. NbPorts - 1 /\ EnabledPorts \subseteq Nat
  BY DEF MainInv, Order, EnabledPorts
<1>2. Port \in todo /\ Lowest(EnabledPorts) \in EnabledPorts
  BY <1>1, LowestIs DEF Port
<1>3. QED BY <1>1, <1>2 DEF Port

\* The lcore that init_mem is at.
LEMMA LcoreIs ==
  ASSUME MainInv, mem_todo # {}
  PROVE  Lcore \in mem_todo /\ Lcore \in Lcores
<1>1. mem_todo \subseteq Lcores /\ Lcores \subseteq Nat
  BY StartAssumption DEF MainInv, Ranging
<1>2. QED BY <1>1, LowestIs DEF Lcore

LEMMA QueuesFinite ==
  ASSUME MainInv, NEW p
  PROVE  /\ QueuesOf(p) \subseteq Nat /\ IsFiniteSet(QueuesOf(p)) /\ QueuesOf(p) \subseteq DOMAIN opts.config
         /\ Cardinality(QueuesOf(p)) \in Nat
         /\ InSequence(p) => \A n \in QueuesOf(p) : opts.config[n].queue = Rank(QueuesOf(p), n)
<1>1. opts.config \in Seq(Params)
  BY DEF MainInv, Given
<1>2. Len(opts.config) \in Nat /\ DOMAIN opts.config = 1 .. Len(opts.config)
  BY <1>1, LenProperties
<1>3. QueuesOf(p) \subseteq DOMAIN opts.config
  BY DEF QueuesOf
<1> DEFINE N == Len(opts.config)
           Q == QueuesOf(p)
<1>4. N \in Nat /\ Q \subseteq 1 .. N
  BY <1>2, <1>3
<1> HIDE DEF N, Q
<1>5. IsFiniteSet(1 .. N) /\ Q \subseteq Nat
  BY <1>4, FS_Interval
<1>6. IsFiniteSet(Q) /\ Cardinality(Q) \in Nat
  BY <1>4, <1>5, FS_Subset, FS_CardinalityType
<1>7. QED BY <1>3, <1>5, <1>6 DEF Q, InSequence, Rank

LEMMA ConfigureStep ==
  ASSUME MainInv, ConfigurePort
  PROVE  MainInv'
<1>1. /\ pc = "ports" /\ pc' = "mem" /\ todo # {} /\ InSequence(Port)
      /\ nb_rxq' = With(nb_rxq, Port, Cardinality(QueuesOf(Port))) /\ mem_todo' = Lcores
      /\ UNCHANGED <<args, files, opts, todo, pool, nat_tbl, tx_id, started, loops, hung, out>>
  BY DEF ConfigurePort, startVars, loopVars
<1>2. /\ Port \in todo /\ Port \in EnabledPorts /\ Port \in 0 .. NbPorts - 1
      /\ Lowest(EnabledPorts) \in EnabledPorts /\ todo \subseteq EnabledPorts
      /\ todo = EnabledPorts => Port = Lowest(EnabledPorts)
      /\ todo = EnabledPorts \/ Lowest(EnabledPorts) \notin todo
  BY <1>1, PortIs DEF MainInv, Order, Past
<1>3. /\ Triples' = Triples /\ EnabledPorts' = EnabledPorts /\ Port' = Port
      /\ \A p : QueuesOf(p)' = QueuesOf(p) /\ (InSequence(p)' <=> InSequence(p))
      /\ \A l : Socket(l)' = Socket(l)
  BY <1>1, OptsStay DEF Port
<1>4. /\ DOMAIN nb_rxq' = DOMAIN nb_rxq \union {Port}
      /\ nb_rxq'[Port] = Cardinality(QueuesOf(Port))
      /\ \A p \in DOMAIN nb_rxq : p # Port => nb_rxq'[p] = nb_rxq[p]
  BY <1>1 DEF With
<1>5. Given'
  BY <1>1 DEF MainInv, Given
<1>6. Ranging'
  BY <1>1, <1>2, <1>4 DEF MainInv, Ranging
<1>7. Order'
  BY <1>1, <1>3 DEF MainInv, Order, Past
<1>8. \A p \in EnabledPorts \ todo : Configured(p) /\ TxDone(p)
  BY <1>1 DEF MainInv, PortsDone, Past
<1>9. PortsDone'
  <2>1. Configured(Port)'
    BY <1>1, <1>3, <1>4 DEF Configured
  <2>2. ASSUME NEW p \in EnabledPorts \ todo PROVE Configured(p)' /\ TxDone(p)'
    <3>1. p # Port /\ Configured(p) /\ TxDone(p)
      BY <1>2, <1>8
    <3>2. QED BY <1>1, <1>3, <1>4, <3>1 DEF Configured, TxDone, TxQueue
  <2>3. QED BY <1>1, <1>3, <2>1, <2>2 DEF PortsDone, Past
<1>10. Pools'
  <2>1. /\ todo = EnabledPorts => DOMAIN pool = {}
        /\ todo # EnabledPorts =>
             Cardinality(Lcores) <= MaxTxQueue /\ \A l \in Lcores : Socket(l) \in DOMAIN pool
        /\ \A s \in DOMAIN pool : pool[s] = NB_MBUF(nb_rxq[Lowest(EnabledPorts)])
    BY <1>1 DEF MainInv, Pools, Past
  <2>2. todo # EnabledPorts => nb_rxq'[Lowest(EnabledPorts)] = nb_rxq[Lowest(EnabledPorts)]
    BY <1>2, <1>4, <1>8 DEF Configured
  <2>3. \A s \in DOMAIN pool : pool'[s] = NB_MBUF(nb_rxq'[Lowest(EnabledPorts')])
    BY <1>1, <1>3, <2>1, <2>2
  <2>4. QED BY <1>1, <1>3, <2>1, <2>3 DEF Pools, Past, NB_MBUF
<1>11. Running'
  BY <1>1 DEF MainInv, Running
<1>12. QED BY <1>5, <1>6, <1>7, <1>9, <1>10, <1>11 DEF MainInv

\* The mbufs of a pool, and what they are for when every lcore has a transmit
\* queue on every port.
LEMMA PoolSize ==
  ASSUME NEW n \in Nat
  PROVE  /\ Cardinality(Lcores) \in Nat /\ NB_MBUF(n) \in Nat
         /\ Cardinality(Lcores) <= MaxTxQueue =>
              NB_MBUF(n) >= NbPorts * n * RxDesc + NbPorts * Cardinality(Lcores) * Burst
                              + NbPorts * Cardinality(Lcores) * TxDesc + Cardinality(Lcores) * Cache
<1> DEFINE L == Cardinality(Lcores)
           tx == Min({L, MaxTxQueue})
           need == NbPorts * n * RxDesc + NbPorts * L * Burst + NbPorts * tx * TxDesc + L * Cache
<1>1. /\ NbPorts \in Nat /\ MaxTxQueue \in Nat /\ RxDesc \in Nat /\ TxDesc \in Nat /\ Burst \in Nat
      /\ Cache \in Nat /\ MinMbuf \in Nat /\ L \in Nat
  BY StartAssumption, FS_CardinalityType
<1>2. tx \in Nat /\ (L <= MaxTxQueue => tx = L)
  <2> HIDE DEF L
  <2>1. QED BY <1>1, MinOfTwo
<1>3. NB_MBUF(n) = Max({need, MinMbuf})
  BY DEF NB_MBUF
<1> HIDE DEF L, tx
<1>4. need \in Nat
  BY <1>1, <1>2
<1>5. L <= MaxTxQueue =>
        need = NbPorts * n * RxDesc + NbPorts * L * Burst + NbPorts * L * TxDesc + L * Cache
  BY <1>2
<1> HIDE DEF need
<1>6. NB_MBUF(n) \in Nat /\ NB_MBUF(n) >= need
  BY <1>1, <1>3, <1>4, MaxOfTwo
<1>7. QED BY <1>1, <1>5, <1>6 DEF L

\* An lcore is done: its socket has a pool.
LEMMA LcoreDone ==
  ASSUME MainInv, pc \in {"mem", "nat"}, pc' = "mem", mem_todo # {}, mem_todo' = mem_todo \ {Lcore},
         Socket(Lcore) \in DOMAIN pool, nat_tbl' \subseteq nat_tbl \union {Socket(Lcore)},
         UNCHANGED <<startVars, pool, devVars, loopVars>>
  PROVE  MainInv'
<1>1. UNCHANGED <<args, files, opts, todo, pool, nb_rxq, tx_id, rx_setup, started, loops, hung, out>>
  BY DEF startVars, devVars, loopVars
<1>2. /\ Triples' = Triples /\ EnabledPorts' = EnabledPorts /\ Port' = Port
      /\ \A l : Socket(l)' = Socket(l)
      /\ \A p : (Configured(p)' <=> Configured(p)) /\ (TxDone(p)' <=> TxDone(p))
  BY <1>1, OptsStay, PortsStay DEF Port
<1>3. Given'
  BY <1>1 DEF MainInv, Given
<1>4. Ranging'
  BY <1>1 DEF MainInv, Ranging
<1>5. Order' /\ PortsDone'
  BY <1>1, <1>2 DEF MainInv, Order, PortsDone, Past
<1>6. Pools'
  <2>1. /\ todo # EnabledPorts =>
             Cardinality(Lcores) <= MaxTxQueue /\ \A l \in Lcores : Socket(l) \in DOMAIN pool
        /\ \A l \in Lcores \ mem_todo : Socket(l) \in DOMAIN pool
        /\ \A s \in DOMAIN pool : pool[s] = NB_MBUF(nb_rxq[Lowest(EnabledPorts)])
    BY DEF MainInv, Pools, Past
  <2>2. \A l \in Lcores \ mem_todo' : Socket(l) \in DOMAIN pool
    BY <2>1
  <2>3. QED BY <1>1, <1>2, <2>1, <2>2 DEF Pools, Past, NB_MBUF
<1>7. Running'
  BY <1>1 DEF MainInv, Running
<1>8. QED BY <1>3, <1>4, <1>5, <1>6, <1>7 DEF MainInv

LEMMA PoolStep ==
  ASSUME MainInv, MakePool
  PROVE  MainInv'
<1>1. /\ pc = "mem" /\ mem_todo # {} /\ Socket(Lcore) \notin DOMAIN pool /\ Socket(Lcore) < NbSockets
      /\ pool' = With(pool, Socket(Lcore), NB_MBUF(nb_rxq[Port]))
      /\ \/ pc' = "nat" /\ mem_todo' = mem_todo
         \/ pc' = "mem" /\ mem_todo' = mem_todo \ {Lcore}
      /\ UNCHANGED <<args, files, opts, todo, nat_tbl, nb_rxq, tx_id, rx_setup, started, loops, hung, out>>
  BY DEF MakePool, startVars, devVars, loopVars
<1>2. Lcore \in Lcores /\ Lcore \in mem_todo
  BY <1>1, LcoreIs
<1>3. todo = EnabledPorts /\ Port = Lowest(EnabledPorts) /\ Configured(Port)
  <2>1. todo = EnabledPorts /\ todo # {} /\ Configured(Port)
    BY <1>1, <1>2 DEF MainInv, Pools, Order, PortsDone, Past
  <2>2. QED BY <1>1, <2>1, PortIs DEF Past
<1>4. NB_MBUF(nb_rxq[Port]) \in Nat
  BY <1>3, QueuesFinite, PoolSize DEF Configured
<1> DEFINE size == NB_MBUF(nb_rxq[Port])
           sock == Socket(Lcore)
<1>5. /\ DOMAIN pool' = DOMAIN pool \union {sock} /\ pool'[sock] = size
      /\ \A s \in DOMAIN pool : pool'[s] = pool[s]
  BY <1>1 DEF With
<1>6. /\ Triples' = Triples /\ EnabledPorts' = EnabledPorts /\ Port' = Port
      /\ \A l : Socket(l)' = Socket(l)
      /\ \A p : (Configured(p)' <=> Configured(p)) /\ (TxDone(p)' <=> TxDone(p))
  BY <1>1, OptsStay, PortsStay DEF Port
<1>7. sock \in 0 .. NbSockets - 1
  <2>1. sock \in Nat /\ NbSockets \in Nat
    BY <1>2, StartAssumption DEF Socket
  <2>2. QED BY <1>1, <2>1
<1> HIDE DEF size, sock
<1>8. Given'
  BY <1>1 DEF MainInv, Given
<1>9. Ranging'
  BY <1>1, <1>4, <1>5, <1>7 DEF MainInv, Ranging, size
<1>10. Order' /\ PortsDone'
  BY <1>1, <1>6 DEF MainInv, Order, PortsDone, Past
<1>11. Pools'
  <2>1. /\ \A l \in Lcores \ mem_todo : Socket(l) \in DOMAIN pool
        /\ \A s \in DOMAIN pool : pool[s] = size
    BY <1>1, <1>3 DEF MainInv, Pools, Past, size
  <2>2. \A s \in DOMAIN pool' : pool'[s] = size
    BY <1>5, <2>1
  <2>3. \A s \in DOMAIN pool' : (pool[s] = NB_MBUF(nb_rxq[Lowest(EnabledPorts)]))'
    BY <1>1, <1>3, <1>6, <2>2 DEF NB_MBUF, size
  <2>4. \A l \in Lcores \ mem_todo' : Socket(l)' \in DOMAIN pool'
    BY <1>1, <1>5, <1>6, <2>1 DEF sock
  <2>5. pc' = "nat" => mem_todo' # {} /\ Socket(Lcore)' \in DOMAIN pool'
    <3>1. pc' = "nat" => Lcore' = Lcore
      BY <1>1 DEF Lcore
    <3>2. Socket(Lcore) \in DOMAIN pool'
      BY <1>5 DEF sock
    <3>3. pc' = "nat" => Socket(Lcore)' = Socket(Lcore)
      BY <1>1, <3>1 DEF Socket
    <3>4. QED BY <1>1, <3>2, <3>3
  <2>6. todo' = EnabledPorts' /\ pc' # "ports" /\ pc' # "args"
    BY <1>1, <1>3, <1>6
  <2>7. QED BY <2>3, <2>4, <2>5, <2>6 DEF Pools, Past
<1>12. Running'
  BY <1>1 DEF MainInv, Running
<1>13. QED BY <1>8, <1>9, <1>10, <1>11, <1>12 DEF MainInv

LEMMA TxQueuesStep ==
  ASSUME MainInv, TxQueues
  PROVE  MainInv'
<1>1. /\ pc = "mem" /\ pc' = "ports" /\ mem_todo = {} /\ Cardinality(Lcores) <= MaxTxQueue
      /\ tx_id' = [lp \in DOMAIN tx_id \union (Lcores \X {Port}) |->
                     IF lp[2] = Port THEN TxQueue(lp[1]) ELSE tx_id[lp]]
      /\ todo' = todo \ {Port} /\ todo # {}
      /\ UNCHANGED <<args, files, opts, pool, nat_tbl, mem_todo, nb_rxq, started, loops, hung, out>>
  BY DEF TxQueues, memVars, loopVars, MainInv, Order, Past
<1>2. /\ Port \in todo /\ todo \subseteq EnabledPorts /\ Port \in EnabledPorts
      /\ todo = EnabledPorts => Port = Lowest(EnabledPorts)
      /\ todo = EnabledPorts \/ Lowest(EnabledPorts) \notin todo
      /\ todo' # EnabledPorts
  BY <1>1, PortIs DEF MainInv, Order, Past
<1>3. /\ Triples' = Triples /\ EnabledPorts' = EnabledPorts
      /\ \A p : QueuesOf(p)' = QueuesOf(p) /\ (InSequence(p)' <=> InSequence(p))
      /\ \A l : Socket(l)' = Socket(l)
  BY <1>1, OptsStay
<1>4. Given'
  BY <1>1 DEF MainInv, Given
<1>5. Ranging'
  BY <1>1 DEF MainInv, Ranging
<1>6. Order'
  BY <1>1, <1>2, <1>3 DEF MainInv, Order, Past
<1>7. PortsDone'
  <2>1. /\ \A p \in EnabledPorts \ todo : Configured(p) /\ TxDone(p)
        /\ Configured(Port)
    BY <1>1 DEF MainInv, PortsDone, Past
  <2> DEFINE P == Port
  <2>2. \A l \in Lcores : /\ <<l, P>> \in DOMAIN tx_id' /\ tx_id'[<<l, P>>] = TxQueue(l)
                          /\ \A p : <<l, p>> \in DOMAIN tx_id /\ p # P =>
                               <<l, p>> \in DOMAIN tx_id' /\ tx_id'[<<l, p>>] = tx_id[<<l, p>>]
    <3> HIDE DEF P
    <3>1. tx_id' = [lp \in DOMAIN tx_id \union (Lcores \X {P}) |->
                      IF lp[2] = P THEN TxQueue(lp[1]) ELSE tx_id[lp]]
      BY <1>1 DEF P
    <3>2. QED BY <3>1
  <2>3. ASSUME NEW p \in EnabledPorts \ todo' PROVE Configured(p)' /\ TxDone(p)'
    <3>1. Configured(p)
      BY <1>1, <2>1
    <3>2. Configured(p)'
      BY <1>1, <1>3, <3>1 DEF Configured
    <3>3. CASE p = P
      <4>1. TxDone(p)'
        BY <2>2, <3>3 DEF TxDone, TxQueue
      <4>2. QED BY <3>2, <4>1
    <3>4. CASE p # P
      <4>1. TxDone(p)
        BY <1>1, <2>1, <3>4
      <4>2. TxDone(p)'
        BY <2>2, <3>4, <4>1 DEF TxDone, TxQueue
      <4>3. QED BY <3>2, <4>2
    <3>5. QED BY <3>3, <3>4
  <2>4. QED BY <1>1, <1>3, <2>3 DEF PortsDone, Past
<1>8. Pools'
  <2>1. /\ \A l \in Lcores : Socket(l) \in DOMAIN pool
        /\ \A s \in DOMAIN pool : pool[s] = NB_MBUF(nb_rxq[Lowest(EnabledPorts)])
    BY <1>1 DEF MainInv, Pools, Past
  <2>2. QED BY <1>1, <1>2, <1>3, <2>1 DEF Pools, Past, NB_MBUF
<1>9. Running'
  BY <1>1 DEF MainInv, Running
<1>10. QED BY <1>4, <1>5, <1>6, <1>7, <1>8, <1>9 DEF MainInv

\* A queue of a port whose queues are in sequence has one place in the array.
LEMMA OneTriple ==
  ASSUME MainInv, NEW p, InSequence(p), NEW m \in QueuesOf(p), NEW n \in QueuesOf(p),
         opts.config[m].queue = opts.config[n].queue
  PROVE  m = n
<1>1. /\ QueuesOf(p) \subseteq Nat /\ IsFiniteSet(QueuesOf(p))
      /\ opts.config[m].queue = Rank(QueuesOf(p), m) /\ opts.config[n].queue = Rank(QueuesOf(p), n)
  BY QueuesFinite
<1> DEFINE T == QueuesOf(p)
<1>2. T \subseteq Nat /\ IsFiniteSet(T) /\ m \in T /\ n \in T /\ Rank(T, m) = Rank(T, n)
  BY <1>1
<1> HIDE DEF T
<1>3. \A i, k \in T : i # k => Rank(T, i) # Rank(T, k)
  BY <1>2, Ranks
<1>4. QED BY <1>2, <1>3

LEMMA RxQueuesStep ==
  ASSUME MainInv, RxQueues
  PROVE  MainInv'
<1> DEFINE Last(pq, c) == /\ <<c.port, c.queue>> = pq
                          /\ \A d \in Triples : <<d.port, d.queue>> = pq => d.lcore <= c.lcore
<1>1. /\ pc = "ports" /\ pc' = "start" /\ todo = {}
      /\ rx_setup' = [pq \in {<<c.port, c.queue>> : c \in Triples} |->
                        Socket((CHOOSE c \in Triples : Last(pq, c)).lcore)]
      /\ UNCHANGED <<args, files, opts, todo, pool, nat_tbl, mem_todo, nb_rxq, tx_id, started, loops, hung, out>>
  BY DEF RxQueues, startVars, memVars, loopVars
<1>2. /\ Triples' = Triples /\ EnabledPorts' = EnabledPorts
      /\ \A l : Socket(l)' = Socket(l)
      /\ \A p : (Configured(p)' <=> Configured(p)) /\ (TxDone(p)' <=> TxDone(p))
  BY <1>1, OptsStay, PortsStay
<1>3. \A c, d \in Triples : c.port = d.port /\ c.queue = d.queue => c = d
  <2> SUFFICES ASSUME NEW c \in Triples, NEW d \in Triples, c.port = d.port, c.queue = d.queue
               PROVE  c = d
    OBVIOUS
  <2>1. PICK m \in DOMAIN opts.config : c = opts.config[m]
    BY DEF Triples
  <2>2. PICK n \in DOMAIN opts.config : d = opts.config[n]
    BY DEF Triples
  <2>3. InSequence(c.port)
    BY <1>1 DEF MainInv, Order, PortsDone, Past, Configured
  <2>4. m \in QueuesOf(c.port) /\ n \in QueuesOf(c.port)
    BY <2>1, <2>2 DEF QueuesOf
  <2>5. QED BY <2>1, <2>2, <2>3, <2>4, OneTriple
<1>4. \A c \in Triples : (CHOOSE d \in Triples : Last(<<c.port, c.queue>>, d)) = c
  <2> SUFFICES ASSUME NEW c \in Triples
               PROVE  (CHOOSE d \in Triples : Last(<<c.port, c.queue>>, d)) = c
    OBVIOUS
  <2>1. c.lcore \in Nat
    BY <1>1, StartAssumption DEF MainInv, Order, Past
  <2>2. Last(<<c.port, c.queue>>, c)
    BY <1>3, <2>1
  <2>3. \A d \in Triples : Last(<<c.port, c.queue>>, d) => d = c
    BY <1>3
  <2> HIDE DEF Last
  <2>4. QED BY <2>2, <2>3
<1> HIDE DEF Last
<1>5. Given'
  BY <1>1 DEF MainInv, Given
<1>6. Ranging'
  BY <1>1 DEF MainInv, Ranging
<1>7. Order' /\ PortsDone'
  BY <1>1, <1>2 DEF MainInv, Order, PortsDone, Past
<1>8. Pools'
  BY <1>1, <1>2 DEF MainInv, Pools, Past, NB_MBUF
<1>9. RxDone'
  <2> DEFINE chosen(pq) == CHOOSE c \in Triples : Last(pq, c)
  <2>1. DOMAIN rx_setup' = {<<c.port, c.queue>> : c \in Triples}
    BY <1>1
  <2>2. ASSUME NEW c \in Triples PROVE rx_setup'[<<c.port, c.queue>>] = Socket(c.lcore)
    <3>1. chosen(<<c.port, c.queue>>) = c
      BY <1>4
    <3>2. <<c.port, c.queue>> \in {<<d.port, d.queue>> : d \in Triples}
      OBVIOUS
    <3>3. rx_setup' = [pq \in {<<d.port, d.queue>> : d \in Triples} |-> Socket(chosen(pq).lcore)]
      BY <1>1
    <3> HIDE DEF chosen
    <3>4. QED BY <3>1, <3>2, <3>3
  <2>3. QED BY <1>2, <2>1, <2>2 DEF RxDone
<1>10. Running'
  BY <1>1, <1>9 DEF MainInv, Running
<1>11. QED BY <1>5, <1>6, <1>7, <1>8, <1>10 DEF MainInv

\* Nothing but pc and what says that the ports or the loops are started.
LEMMA StartSteps ==
  ASSUME MainInv, StartPorts \/ launch
  PROVE  MainInv'
<1>1. /\ pc \in {"start", "launch"} /\ pc' \in {"launch", "wait"}
      /\ UNCHANGED <<args, files, opts, todo, pool, nat_tbl, mem_todo, nb_rxq, tx_id, rx_setup, hung, out>>
      /\ pc = "start" => pc' = "launch" /\ started' = EnabledPorts /\ loops' = loops
      /\ pc = "launch" => pc' = "wait" /\ started' = started /\ loops' = {l \in Lcores : ListOf(l) # {}}
  BY DEF StartPorts, launch, startVars, memVars, devVars, loopVars
<1>2. /\ Triples' = Triples /\ EnabledPorts' = EnabledPorts
      /\ \A l : Socket(l)' = Socket(l) /\ ListOf(l)' = ListOf(l)
      /\ \A p : (Configured(p)' <=> Configured(p)) /\ (TxDone(p)' <=> TxDone(p))
  BY <1>1, OptsStay, PortsStay
<1>3. Given'
  BY <1>1 DEF MainInv, Given
<1>4. Ranging'
  BY <1>1 DEF MainInv, Ranging, EnabledPorts
<1>5. Order' /\ PortsDone'
  BY <1>1, <1>2 DEF MainInv, Order, PortsDone, Past
<1>6. Pools'
  BY <1>1, <1>2 DEF MainInv, Pools, Past, NB_MBUF
<1>7. RxDone'
  <2>1. RxDone
    BY <1>1 DEF MainInv, Running
  <2>2. QED BY <1>1, <1>2, <2>1 DEF RxDone
<1>8. Running'
  <2>1. pc = "launch" => started = EnabledPorts
    BY DEF MainInv, Running
  <2>2. started' = EnabledPorts'
    BY <1>1, <1>2, <2>1
  <2>3. pc' = "wait" => loops' = {l \in Lcores : ListOf(l)' # {}}
    BY <1>1, <1>2
  <2>4. pc' = "launch" => loops' = {} /\ out' = {}
    BY <1>1 DEF MainInv, Running
  <2>5. QED BY <1>1, <1>7, <2>2, <2>3, <2>4 DEF Running
<1>9. QED BY <1>3, <1>4, <1>5, <1>6, <1>8 DEF MainInv

\* The loops of the lcores, the signal, the file of prefixes: what main has set
\* up is as it was.
LEMMA RunSteps ==
  ASSUME MainInv, UNCHANGED <<pc, startVars, memVars, devVars>>,
         \/ UNCHANGED loopVars /\ (force_quit => force_quit')
         \/ pc = "wait" /\ loops' \subseteq loops /\ hung' \subseteq Lcores /\ (force_quit => force_quit')
              /\ (loops' = loops \/ force_quit')
  PROVE  MainInv'
<1>1. UNCHANGED <<pc, args, files, opts, todo, pool, nat_tbl, mem_todo, nb_rxq, tx_id, rx_setup, started>>
  BY DEF startVars, memVars, devVars
<1>2. Given' /\ Order' /\ PortsDone' /\ Pools'
  BY SetUpStays
<1>3. Ranging'
  BY <1>1 DEF MainInv, Ranging, loopVars
<1>4. /\ Triples' = Triples /\ EnabledPorts' = EnabledPorts
      /\ \A l : Socket(l)' = Socket(l) /\ ListOf(l)' = ListOf(l)
  BY <1>1, OptsStay
<1>5. RxDone' <=> RxDone
  BY <1>1, <1>4 DEF RxDone
<1>6. Running'
  BY <1>1, <1>4, <1>5 DEF MainInv, Running, loopVars
<1>7. QED BY <1>2, <1>3, <1>6 DEF MainInv

LEMMA StopStep ==
  ASSUME MainInv, StopPorts
  PROVE  MainInv'
<1>1. /\ pc' = "stopped" /\ started' = {}
      /\ UNCHANGED <<args, files, opts, todo, pool, nat_tbl, mem_todo, nb_rxq, loops, hung, out>>
  BY DEF StopPorts, startVars, memVars, loopVars
<1>2. Given' /\ Ranging'
  BY <1>1 DEF MainInv, Given, Ranging
<1>3. Order' /\ PortsDone' /\ Pools' /\ Running'
  BY <1>1 DEF Order, PortsDone, Pools, Running, Past
<1>4. QED BY <1>2, <1>3 DEF MainInv

LEMMA MainStep ==
  ASSUME MainInv, Main
  PROVE  MainInv'
<1>1. CASE ArgPorts \/ ArgFlag \/ ArgConfig \/ ArgEntries \/ ArgJumbo
  BY <1>1, ArgSteps
<1>2. CASE ArgRefused \/ CheckFailed \/ PortFails \/ MemFails \/ NoFile \/ DeviceFails
  <2>1. Exit
    BY <1>2 DEF ArgRefused, CheckFailed, PortFails, MemFails, NoFile, DeviceFails
  <2>2. QED BY <2>1, ExitStep
<1>3. CASE Checked \/ ConfigurePort \/ MakePool \/ TxQueues \/ RxQueues
  BY <1>3, CheckedStep, ConfigureStep, PoolStep, TxQueuesStep, RxQueuesStep
<1>4. CASE StartPorts \/ launch \/ StopPorts
  BY <1>4, StartSteps, StopStep
<1>5. CASE SkipSocket \/ NatAllocFails \/ NatReady
  <2>1. /\ pc \in {"mem", "nat"} /\ pc' = "mem" /\ mem_todo' = mem_todo \ {Lcore}
        /\ nat_tbl' \subseteq nat_tbl \union {Socket(Lcore)}
        /\ UNCHANGED <<startVars, pool, devVars, loopVars>>
    BY <1>5 DEF SkipSocket, NatAllocFails, NatReady
  <2>2. mem_todo # {} /\ Socket(Lcore) \in DOMAIN pool
    BY <1>5 DEF SkipSocket, NatAllocFails, NatReady, MainInv, Pools, Past
  <2>3. QED BY <2>1, <2>2, LcoreDone
<1>6. CASE NatLoad
  <2>1. UNCHANGED <<pc, startVars, memVars, devVars, loopVars, force_quit>>
    BY <1>6 DEF NatLoad
  <2>2. QED BY <2>1, RunSteps
<1>7. QED BY <1>1, <1>2, <1>3, <1>4, <1>5, <1>6 DEF Main

LEMMA LoopStep ==
  ASSUME MainInv, NEW l \in Lcores, Loop(l) \/ Leave(l)
  PROVE  MainInv'
<1>1. ASSUME NEW p, Crash(l, p) PROVE MainInv'
  BY <1>1, ExitStep DEF Crash
<1>2. ASSUME NEW p, NEW c, NEW hop, em_get_dst_port(l, c, p, hop) PROVE MainInv'
  <2>1. /\ pc = "wait" /\ loops' = loops /\ hung' = hung /\ force_quit' = force_quit
        /\ UNCHANGED <<pc, startVars, memVars, devVars>>
    BY <1>2 DEF em_get_dst_port, CanForward
  <2>2. hung' \subseteq Lcores
    BY <2>1 DEF MainInv, Ranging
  <2>3. QED BY <2>1, <2>2, RunSteps
<1>3. ASSUME NEW p, Hang(l, p) PROVE MainInv'
  <2>1. /\ pc = "wait" /\ loops' = loops /\ hung' = hung \union {l} /\ force_quit' = force_quit
        /\ UNCHANGED <<pc, startVars, memVars, devVars>>
    BY <1>3 DEF Hang, CanForward
  <2>2. hung' \subseteq Lcores
    BY <2>1 DEF MainInv, Ranging
  <2>3. QED BY <2>1, <2>2, RunSteps
<1>4. CASE Leave(l)
  <2>1. /\ pc = "wait" /\ loops' \subseteq loops /\ hung' = hung /\ force_quit /\ force_quit'
        /\ UNCHANGED <<pc, startVars, memVars, devVars>>
    BY <1>4 DEF Leave
  <2>2. hung' \subseteq Lcores
    BY <2>1 DEF MainInv, Ranging
  <2>3. QED BY <2>1, <2>2, RunSteps
<1>5. QED BY <1>1, <1>2, <1>3, <1>4 DEF Loop

-----------------------------------------------------------------------------
(***************************************************************************)
(* The packets that were sent.                                             *)
(***************************************************************************)
LEMMA ForwardSent ==
  ASSUME NatInv, NEW l, NEW c \in Triples, NEW p \in Packets, NEW hop, em_get_dst_port(l, c, p, hop)
  PROVE  Sent'
<1> DEFINE o == [lcore |-> l, from |-> c.port, port |-> NextHop(p, c.port, hop),
                 was |-> p, is |-> Translated(p)]
<1>1. /\ pc = "wait" /\ ~ Null(l, p) /\ Translated(p).saddr # Endless /\ out' = out \union {o}
      /\ UNCHANGED <<opts, t, idx_table, rk, nat_tbl>>
  BY DEF em_get_dst_port, CanForward, startVars, memVars, tabVars, vars
<1>2. SentOK(o)
  <2>1. c.port \in EnabledPorts
    BY <1>1 DEF NatInv, MainInv, Order, Past
  <2>2. /\ o.was = p /\ o.is = Translated(p) /\ o.from = c.port
        /\ o.port = NextHop(p, c.port, hop)
    OBVIOUS
  <2>3. \/ NextHop(p, c.port, hop) = c.port
        \/ NextHop(p, c.port, hop) \in opts.p /\ Ptype(p) # "other"
    BY DEF NextHop
  <2>4. Ptype(p) = "ipv4" => nat_tbl # {}
    BY <1>1 DEF Null
  <2> HIDE DEF o
  <2>5. QED BY <1>1, <2>1, <2>2, <2>3, <2>4 DEF SentOK
<1> HIDE DEF o
<1>3. \A q \in out \union {o} : SentOK(q)
  BY <1>2 DEF NatInv, Sent
<1>4. \A q : Translated(q)' = Translated(q) /\ Ptype(q)' = Ptype(q) /\ EnabledPorts' = EnabledPorts
  BY <1>1, TranslationStays, OptsStay
<1>5. \A q : SentOK(q) => SentOK(q)'
  BY <1>1, <1>4 DEF SentOK, Endless
<1>6. QED BY <1>1, <1>3, <1>5 DEF Sent

LEMMA SentStep ==
  ASSUME NatInv, MainInv', [NextNat]_allVars
  PROVE  Sent'
<1>1. ASSUME out' = {} PROVE Sent'
  BY <1>1 DEF Sent
<1>2. ASSUME UNCHANGED <<startVars, memVars, tabVars, out>> PROVE Sent'
  <2>1. UNCHANGED <<opts, t, idx_table, rk, nat_tbl, out>>
    BY <1>2 DEF startVars, memVars, tabVars, vars
  <2>2. QED BY <2>1, SentStays DEF NatInv
<1>3. ASSUME pc' \notin {"wait", "stopped"} PROVE Sent'
  BY <1>1, <1>3 DEF MainInv, Running
<1>4. CASE Main
  <2>1. CASE ArgRefused \/ CheckFailed \/ PortFails \/ MemFails \/ NoFile \/ DeviceFails
    BY <1>2, <2>1 DEF ArgRefused, CheckFailed, PortFails, MemFails, NoFile, DeviceFails, Exit, loopVars
  <2>2. CASE StartPorts \/ launch \/ StopPorts
    BY <1>2, <2>2 DEF StartPorts, launch, StopPorts, loopVars
  <2>3. CASE ArgPorts \/ ArgFlag \/ ArgConfig \/ ArgEntries \/ ArgJumbo
    <3>1. pc' = "args"
      BY <2>3 DEF ArgPorts, ArgFlag, ArgConfig, ArgEntries, ArgJumbo, Take, Option
    <3>2. QED BY <1>3, <3>1
  <2>4. CASE Checked \/ ConfigurePort \/ SkipSocket \/ MakePool \/ NatAllocFails
    <3>1. pc' \in {"ports", "mem", "nat"}
      BY <2>4 DEF Checked, ConfigurePort, SkipSocket, MakePool, NatAllocFails
    <3>2. QED BY <1>3, <3>1
  <2>5. CASE NatLoad \/ NatReady \/ TxQueues \/ RxQueues
    <3>1. pc' \in {"ports", "mem", "nat", "start"}
      BY <2>5 DEF NatLoad, NatReady, TxQueues, RxQueues
    <3>2. QED BY <1>3, <3>1
  <2>6. QED BY <1>4, <2>1, <2>2, <2>3, <2>4, <2>5 DEF Main
<1>5. ASSUME NEW l \in Lcores, Loop(l) \/ Leave(l) PROVE Sent'
  <2>1. ASSUME NEW p \in Packets, NEW c \in Triples, NEW hop, em_get_dst_port(l, c, p, hop) PROVE Sent'
    BY <2>1, ForwardSent
  <2>2. ASSUME NEW p, Hang(l, p) \/ Crash(l, p) PROVE Sent'
    BY <1>2, <2>2 DEF Hang, Crash, Exit, loopVars
  <2>3. CASE Leave(l)
    BY <1>2, <2>3 DEF Leave
  <2>4. QED BY <1>5, <2>1, <2>2, <2>3 DEF Loop
<1>6. CASE signal_handler
  BY <1>2, <1>6 DEF signal_handler, loopVars
<1>7. CASE UNCHANGED allVars
  BY <1>2, <1>7 DEF allVars, loopVars
<1>8. QED BY <1>4, <1>5, <1>6, <1>7 DEF NextNat

LEMMA NatInvInit == InitNat => NatInv
<1> SUFFICES ASSUME InitNat PROVE NatInv
  OBVIOUS
<1>1. /\ pc = "args" /\ todo = {} /\ mem_todo = {} /\ nat_tbl = {} /\ started = {} /\ loops = {}
      /\ hung = {} /\ out = {} /\ Init /\ DOMAIN pool = {} /\ DOMAIN nb_rxq = {}
      /\ opts = [p |-> {}, flags |-> {}, config |-> Default, jumbo |-> 0, entries |-> 4]
  BY DEF InitNat, None
<1>2. args \in Seq(Arguments) /\ files \subseteq Candidates
  <2>1. PICK c \in Invocations : args = c.args /\ files = c.files
    BY DEF InitNat
  <2>2. QED BY <2>1, StartAssumption
<1>3. Given
  <2>1. Default \in Seq(Params)
    BY StartAssumption
  <2>2. QED BY <1>1, <1>2, <2>1 DEF Given
<1>4. Ranging /\ Order /\ PortsDone /\ Pools /\ Running /\ Sent
  BY <1>1 DEF Ranging, Order, PortsDone, Pools, Running, Sent, Past
<1>5. Tables
  BY <1>1, InitTable DEF Tables
<1>6. QED BY <1>3, <1>4, <1>5 DEF NatInv, MainInv

LEMMA NatInvNext == NatInv /\ [NextNat]_allVars => NatInv'
<1> SUFFICES ASSUME NatInv, [NextNat]_allVars PROVE NatInv'
  OBVIOUS
<1>1. MainInv
  BY DEF NatInv
<1>2. MainInv'
  <2>1. CASE Main
    BY <1>1, <2>1, MainStep
  <2>2. ASSUME NEW l \in Lcores, Loop(l) \/ Leave(l) PROVE MainInv'
    BY <1>1, <2>2, LoopStep
  <2>3. CASE signal_handler
    <3>1. UNCHANGED <<pc, startVars, memVars, devVars, loopVars>> /\ force_quit'
      BY <2>3 DEF signal_handler
    <3>2. QED BY <1>1, <3>1, RunSteps
  <2>4. CASE UNCHANGED allVars
    <3>1. UNCHANGED <<pc, startVars, memVars, devVars, loopVars, force_quit>>
      BY <2>4 DEF allVars
    <3>2. QED BY <1>1, <3>1, RunSteps
  <2>5. QED BY <2>1, <2>2, <2>3, <2>4 DEF NextNat
<1>3. Tables'
  BY TablesStep
<1>4. Sent'
  BY <1>2, SentStep
<1>5. QED BY <1>2, <1>3, <1>4 DEF NatInv

LEMMA NatAlways == SpecNat => []NatInv
  BY NatInvInit, NatInvNext, PTL DEF SpecNat

-----------------------------------------------------------------------------
(***************************************************************************)
(* What a packet is translated to.                                         *)
(***************************************************************************)
LEMMA MessageIs ==
  ASSUME NEW port \in 0 .. Ports - 1, NEW host \in 0 .. Hosts - 1
  PROVE  /\ Message(port, host) \in Messages
         /\ MsgPort(Message(port, host)) = port /\ MsgHost(Message(port, host)) = host
<1> DEFINE s == Ports
           x == Message(port, host)
           d == host * s
<1>1. /\ Ports \in Nat /\ Ports > 0 /\ Hosts \in Nat /\ port \in Nat /\ host \in Nat
      /\ port < Ports /\ host + 1 <= Hosts
  BY PacketAssumption
<1>2. x = d + port /\ d \in Nat /\ d + s = (host + 1) * s
  BY <1>1 DEF Message
<1>3. (host + 1) * s <= Hosts * s /\ Ports * Hosts = Hosts * s
  BY <1>1
<1>4. x \in 0 .. Ports * Hosts - 1
  <2> DEFINE m == Hosts * s
             e == (host + 1) * s
  <2>1. m \in Int /\ e \in Int
    BY <1>1
  <2> HIDE DEF x, d, m, e
  <2>2. x = d + port /\ d \in Nat /\ d + s = e /\ e <= m /\ Ports * Hosts = m
    BY <1>2, <1>3 DEF m, e
  <2>3. QED BY <1>1, <2>1, <2>2
<1>5. s \in Nat /\ s > 0 /\ host \in Nat /\ x \in Nat /\ d = host * s /\ d <= x /\ x < d + s
  BY <1>1, <1>2
<1> HIDE DEF s, x, d
<1>6. x \div s = host /\ x % s = x - d
  BY <1>5, Rest
<1>7. x % s = port
  BY <1>1, <1>2, <1>5, <1>6
<1>8. QED BY <1>4, <1>6, <1>7 DEF s, x, Messages, MsgPort, MsgHost

LEMMA MessageParts ==
  ASSUME NEW x \in Messages
  PROVE  /\ MsgPort(x) \in 0 .. Ports - 1 /\ MsgHost(x) \in 0 .. Hosts - 1
         /\ Message(MsgPort(x), MsgHost(x)) = x
<1> DEFINE s == Ports
           q == x \div s
           r == x % s
<1>1. s \in Nat /\ s > 0 /\ Hosts \in Nat /\ x \in Nat /\ x < s * Hosts
  <2>1. Ports \in Nat /\ Ports > 0 /\ Hosts \in Nat
    BY PacketAssumption
  <2>2. Ports * Hosts \in Nat
    BY <2>1
  <2>3. QED BY <2>1, <2>2 DEF Messages
<1>2. q \in Nat /\ r \in 0 .. s - 1 /\ x = q * s + r
  BY <1>1, Division
<1> HIDE DEF s, q, r
<1>3. q < Hosts
  <2> SUFFICES ASSUME q >= Hosts PROVE FALSE
    BY <1>1, <1>2
  <2>1. q * s >= Hosts * s /\ q * s \in Nat /\ Hosts * s = s * Hosts /\ Hosts * s \in Nat
    BY <1>1, <1>2
  <2>2. QED BY <1>1, <1>2, <2>1
<1>4. QED BY <1>1, <1>2, <1>3 DEF MsgPort, MsgHost, Message, s, q, r

LEMMA HostIs ==
  ASSUME NEW addr \in Nat
  PROVE  HostOf(addr) \in 0 .. Hosts - 1 /\ (addr < Hosts => HostOf(addr) = addr)
<1>1. Hosts \in Nat /\ Hosts > 0
  BY PacketAssumption
<1>2. QED BY <1>1 DEF HostOf

LEMMA InputIs ==
  ASSUME NEW p \in Packets
  PROVE  /\ p \in [v : {4, 6}, l4 : {"port", "bits", "none"}, ext : BOOLEAN,
                   saddr : 0 .. Octet * Size8 - 1, daddr : Nat,
                   sport : 0 .. Ports - 1, dport : 0 .. Ports - 1]
         /\ Input(p) \in Messages
         /\ BitXor(MsgPort(Input(p)), p.dport) = p.sport
         /\ BitXor(MsgHost(Input(p)), HostOf(p.daddr)) = HostOf(p.saddr)
<1> DEFINE port == BitXor(p.sport, p.dport)
           host == BitXor(HostOf(p.saddr), HostOf(p.daddr))
<1>1. p \in [v : {4, 6}, l4 : {"port", "bits", "none"}, ext : BOOLEAN,
             saddr : 0 .. Octet * Size8 - 1, daddr : Nat,
             sport : 0 .. Ports - 1, dport : 0 .. Ports - 1]
  BY StartAssumption
<1>2. p.saddr \in Nat /\ p.daddr \in Nat /\ p.sport \in 0 .. Ports - 1 /\ p.dport \in 0 .. Ports - 1
  <2>1. p.saddr \in 0 .. Octet * Size8 - 1 /\ p.daddr \in Nat
    BY <1>1
  <2>2. QED BY <1>1, <2>1
<1>3. HostOf(p.saddr) \in 0 .. Hosts - 1 /\ HostOf(p.daddr) \in 0 .. Hosts - 1
  BY <1>2, HostIs
<1>4. /\ \A x, y \in 0 .. Ports - 1 : BitXor(x, y) \in 0 .. Ports - 1 /\ BitXor(BitXor(x, y), y) = x
      /\ \A x, y \in 0 .. Hosts - 1 : BitXor(x, y) \in 0 .. Hosts - 1 /\ BitXor(BitXor(x, y), y) = x
  BY PacketAssumption
<1>5. port \in 0 .. Ports - 1 /\ BitXor(port, p.dport) = p.sport
  BY <1>2, <1>4
<1>6. host \in 0 .. Hosts - 1 /\ BitXor(host, HostOf(p.daddr)) = HostOf(p.saddr)
  BY <1>3, <1>4
<1>7. Input(p) = Message(port, host)
  BY DEF Input
<1> HIDE DEF port, host
<1>8. QED BY <1>1, <1>5, <1>6, <1>7, MessageIs

\* A packet of IPv4 that was translated, with the table and the key.
LEMMA TranslatedIs ==
  ASSUME Tables, NEW p \in Packets, Ptype(p) = "ipv4", nat_tbl # {}
  PROVE  /\ rk \in Ciphers /\ rk[Input(p)] \in Messages
         /\ DOMAIN Translated(p) = DOMAIN p
         /\ Translated(p).sport = MsgPort(rk[Input(p)])
         /\ Translated(p).saddr = idx_to_ip(MsgHost(rk[Input(p)]))
         /\ Translated(p).daddr = p.daddr /\ Translated(p).dport = p.dport
<1>1. rk \in Ciphers
  BY DEF Tables
<1>2. rk \in [Messages -> Messages] /\ Input(p) \in Messages
  BY <1>1, InputIs, PacketAssumption
<1>3. rk[Input(p)] \in Messages
  BY <1>2
<1> DEFINE y == rk[Input(p)]
           a == MsgPort(y)
           b == idx_to_ip(MsgHost(y))
<1>4. Translated(p) = [p EXCEPT !.sport = a, !.saddr = b]
  BY DEF Translated, process_outgoing_pkt
<1> HIDE DEF a, b
<1>5. /\ Translated(p).sport = a /\ Translated(p).saddr = b
      /\ Translated(p).daddr = p.daddr /\ Translated(p).dport = p.dport
      /\ DOMAIN Translated(p) = DOMAIN p
  BY <1>4, InputIs
<1>6. QED BY <1>1, <1>3, <1>5 DEF a, b

LEMMA SentBounds ==
  ASSUME NatInv, NEW o \in out
  PROVE  o.is.saddr \in 0 .. Octet * Size8 /\ o.is.sport \in 0 .. Ports - 1
<1>1. /\ o.was \in Packets /\ o.is = Translated(o.was) /\ o.is.saddr # Endless
      /\ Ptype(o.was) = "ipv4" => nat_tbl # {}
      /\ Tables
  BY DEF NatInv, Sent, SentOK
<1>2. CASE Ptype(o.was) = "ipv4"
  <2> DEFINE host == MsgHost(rk[Input(o.was)])
  <2>1. /\ rk[Input(o.was)] \in Messages /\ o.is.sport = MsgPort(rk[Input(o.was)])
        /\ o.is.saddr = idx_to_ip(host)
    <3> DEFINE p == o.was
    <3>1. Tables /\ p \in Packets /\ Ptype(p) = "ipv4" /\ nat_tbl # {}
      BY <1>1, <1>2
    <3>2. o.is = Translated(p)
      BY <1>1
    <3> HIDE DEF p
    <3>3. /\ rk[Input(p)] \in Messages /\ Translated(p).sport = MsgPort(rk[Input(p)])
          /\ Translated(p).saddr = idx_to_ip(MsgHost(rk[Input(p)]))
      BY <3>1, TranslatedIs
    <3>4. QED BY <3>2, <3>3 DEF p
  <2>2. o.is.sport \in 0 .. Ports - 1 /\ host \in 0 .. Hosts - 1
    BY <2>1, MessageParts
  <2> HIDE DEF host
  <2>3. host \in 0 .. Octet * Size8 - 1 /\ host < IdxEntries * Size16
    <3>1. /\ Hosts \in Nat /\ Octet * Size8 \in Nat /\ Hosts <= Octet * Size8
          /\ IdxEntries * Size16 \in Nat /\ Hosts <= IdxEntries * Size16
      BY PacketAssumption, NatTableAssumption, Sizes
    <3>2. QED BY <2>2, <3>1
  <2>4. TypeOK /\ Edges
    BY <1>1 DEF Tables, TableInv
  <2>5. idx_to_ip(host) = Endless \/ idx_to_ip(host) \in 0 .. Octet * Size8
    BY <2>3, <2>4, IpBounds
  <2>6. QED BY <1>1, <2>1, <2>2, <2>5
<1>3. CASE Ptype(o.was) # "ipv4"
  <2>1. o.is = o.was
    BY <1>1, <1>3 DEF Translated
  <2>2. o.was.saddr \in 0 .. Octet * Size8 - 1 /\ o.was.sport \in 0 .. Ports - 1
    BY <1>1, InputIs
  <2>3. Octet * Size8 \in Nat
    BY Sizes
  <2>4. QED BY <2>1, <2>2, <2>3
<1>4. QED BY <1>2, <1>3

\* The variables of the NAT, from the command line on, range over what the
\* code's types allow: no address that idx_to_ip or the packet's own header gives
\* has more than 32 bits, and idx_tbl is not overrun.
THEOREM NatTypeCorrect == SpecNat => []TypeOKNat
<1>1. NatInv => TypeOKNat
  <2> SUFFICES ASSUME NatInv PROVE TypeOKNat
    OBVIOUS
  <2>1. TypeOK /\ StoresInside
    BY DEF NatInv, Tables, TableInv
  <2>2. \A o \in out : o.is.saddr \in 0 .. Octet * Size8 /\ o.is.sport \in 0 .. Ports - 1
    BY SentBounds
  <2>3. Ranging /\ opts.p \subseteq 0 .. MaskBits - 1
    BY DEF NatInv, MainInv, Given
  <2>4. nat_tbl \subseteq 0 .. NbSockets - 1
    BY <2>3 DEF Ranging
  <2>5. QED BY <2>1, <2>2, <2>3, <2>4 DEF TypeOKNat, Ranging
<1>2. QED BY <1>1, NatAlways, PTL

\* The whole program does with the table what NatTable says of it, whatever
\* happens between two lines of the file.
THEOREM ProgramKeepsTable == SpecNat => Spec
<1>1. InitNat => Init
  BY DEF InitNat
<1>2. NatInv /\ [NextNat]_allVars => [Next]_vars
  BY NextNatIsNext DEF NatInv, MainInv, Given
<1>3. QED BY <1>1, <1>2, NatAlways, PTL DEF SpecNat, Spec

\* So on every run of the whole program the table gives an address its index and
\* an index its address, and nothing is stored outside of it too early.
THEOREM TableOfProgram == SpecNat => [](AddressFound /\ IndexFoundInSimple /\ StoresInside)
  BY ProgramKeepsTable, AddressIsFound, IndexIsFound, StoresStayInside, PTL

-----------------------------------------------------------------------------
(***************************************************************************)
(* The queues and the pools when the lcores run.                           *)
(***************************************************************************)
LEMMA TripleIs ==
  ASSUME MainInv, pc = "wait", NEW c \in Triples
  PROVE  /\ c \in Params /\ c.port \in EnabledPorts /\ c.lcore \in Lcores
         /\ Configured(c.port) /\ TxDone(c.port)
         /\ c.queue \in 0 .. nb_rxq[c.port] - 1
<1>1. c.port \in EnabledPorts /\ c.lcore \in Lcores /\ todo = {}
  BY DEF MainInv, Order, Past
<1>2. Configured(c.port) /\ TxDone(c.port)
  BY <1>1 DEF MainInv, PortsDone, Past
<1>3. PICK n \in DOMAIN opts.config : c = opts.config[n]
  BY DEF Triples
<1>4. c \in Params
  <2>1. opts.config \in Seq(Params)
    BY DEF MainInv, Given
  <2>2. DOMAIN opts.config = 1 .. Len(opts.config)
    BY <2>1, LenProperties
  <2>3. QED BY <1>3, <2>1, <2>2, ElementOfSeq
<1> DEFINE Q == QueuesOf(c.port)
<1>5. n \in Q
  BY <1>3 DEF QueuesOf
<1>6. Q \subseteq Nat /\ IsFiniteSet(Q) /\ c.queue = Rank(Q, n) /\ nb_rxq[c.port] = Cardinality(Q)
  BY <1>2, <1>3, <1>5, QueuesFinite DEF Configured
<1> HIDE DEF Q
<1>7. Rank(Q, n) \in 0 .. Cardinality(Q) - 1
  BY <1>5, <1>6, Ranks
<1>8. QED BY <1>1, <1>2, <1>4, <1>6, <1>7

LEMMA TxOwn ==
  ASSUME NEW k \in Lcores, NEW l \in Lcores, TxQueue(k) = TxQueue(l)
  PROVE  k = l
<1>1. Lcores \subseteq Nat /\ IsFiniteSet(Lcores)
  BY StartAssumption
<1>2. TxQueue(k) = Rank(Lcores, k) /\ TxQueue(l) = Rank(Lcores, l)
  BY DEF TxQueue, Rank
<1>3. \A m, n \in Lcores : m # n => Rank(Lcores, m) # Rank(Lcores, n)
  BY <1>1, Ranks
<1>4. QED BY <1>2, <1>3

LEMMA ReadyNow == NatInv => QueuesReady
<1> SUFFICES ASSUME NatInv, pc = "wait" PROVE QueuesReady
  BY DEF QueuesReady
<1>1. /\ MainInv /\ Past /\ todo = {} /\ started = EnabledPorts /\ RxDone
      /\ force_quit \/ loops = {l \in Lcores : ListOf(l) # {}}
      /\ \A p \in EnabledPorts : Configured(p) /\ TxDone(p)
  BY DEF NatInv, MainInv, Order, PortsDone, Running, Past
<1>2. ASSUME NEW c \in Triples
      PROVE  /\ c.port \in started /\ c.queue < nb_rxq[c.port]
             /\ rx_setup[<<c.port, c.queue>>] = Socket(c.lcore)
             /\ Socket(c.lcore) \in DOMAIN pool
  <2>1. /\ c.port \in EnabledPorts /\ c.lcore \in Lcores /\ c.queue \in 0 .. nb_rxq[c.port] - 1
        /\ Configured(c.port)
    BY <1>1, TripleIs
  <2>2. \A l \in Lcores : Socket(l) \in DOMAIN pool
    BY <1>1, <2>1 DEF MainInv, Pools
  <2>3. c.queue < nb_rxq[c.port]
    <3>1. nb_rxq[c.port] \in Nat
      BY <1>1, <2>1, QueuesFinite DEF Configured
    <3>2. QED BY <2>1, <3>1
  <2>4. QED BY <1>1, <2>1, <2>2, <2>3 DEF RxDone
<1>3. ASSUME NEW m \in DOMAIN opts.config, NEW n \in DOMAIN opts.config,
             opts.config[m].port = opts.config[n].port,
             opts.config[m].queue = opts.config[n].queue
      PROVE  m = n
  <2> DEFINE p == opts.config[m].port
  <2>1. m \in QueuesOf(p) /\ n \in QueuesOf(p)
    BY <1>3 DEF QueuesOf
  <2>2. opts.config[m] \in Triples
    BY DEF Triples
  <2>3. InSequence(p)
    BY <1>1, <2>2, TripleIs DEF Configured
  <2> HIDE DEF p
  <2>4. QED BY <1>1, <1>3, <2>1, <2>3, OneTriple
<1>4. ASSUME NEW port \in started, NEW q \in 0 .. nb_rxq[port] - 1
      PROVE  \E c \in Triples : c.port = port /\ c.queue = q /\ (c.lcore \in loops \/ force_quit)
  <2> DEFINE Q == QueuesOf(port)
  <2>1. /\ Q \subseteq Nat /\ IsFiniteSet(Q) /\ nb_rxq[port] = Cardinality(Q)
        /\ \A n \in Q : opts.config[n].queue = Rank(Q, n)
    BY <1>1, QueuesFinite DEF Configured
  <2>2. \E n \in Q : Rank(Q, n) = q
    <3>1. q \in 0 .. Cardinality(Q) - 1
      BY <2>1
    <3> HIDE DEF Q
    <3>2. QED BY <2>1, <3>1, Ranks
  <2>3. PICK n \in Q : Rank(Q, n) = q
    BY <2>2
  <2>4. n \in DOMAIN opts.config /\ opts.config[n].port = port /\ opts.config[n].queue = q
    BY <2>1, <2>3 DEF QueuesOf
  <2> DEFINE c == opts.config[n]
  <2>5. c \in Triples
    BY <2>4 DEF Triples
  <2>6. n \in ListOf(c.lcore)
    BY <2>4 DEF ListOf
  <2>7. c.lcore \in Lcores
    BY <1>1, <2>5, TripleIs
  <2>8. c.lcore \in loops \/ force_quit
    BY <1>1, <2>6, <2>7
  <2>9. QED BY <2>4, <2>5, <2>8
<1>5. ASSUME NEW k \in Lcores, NEW l \in Lcores, NEW port \in started,
             tx_id[<<k, port>>] = tx_id[<<l, port>>]
      PROVE  k = l
  <2>1. TxQueue(k) = TxQueue(l)
    BY <1>1, <1>5 DEF TxDone
  <2>2. QED BY <2>1, TxOwn
<1>6. ASSUME opts.p \subseteq 0 .. NbPorts - 1, NEW o \in out PROVE o.port \in started
  <2>1. o.from \in EnabledPorts /\ (o.port = o.from \/ o.port \in opts.p)
    BY DEF NatInv, Sent, SentOK
  <2>2. QED BY <1>1, <1>6, <2>1 DEF EnabledPorts
<1>7. QED BY <1>2, <1>3, <1>4, <1>5, <1>6 DEF QueuesReady

\* For any command line: when the lcores run, no queue is missed, none is polled
\* twice, and none has the pool of another socket, whatever order the array of
\* the command line has.
THEOREM QueuesAreReady == SpecNat => []QueuesReady
  BY ReadyNow, NatAlways, PTL

LEMMA Products ==
  ASSUME NEW a \in Nat, NEW b \in Nat, NEW c \in Nat, a <= b
  PROVE  a * c <= b * c /\ a * c \in Nat /\ b * c \in Nat
  OBVIOUS

LEMMA CountTo ==
  ASSUME NEW n \in Nat
  PROVE  IsFiniteSet(0 .. n - 1) /\ Cardinality(0 .. n - 1) = n
<1>1. 0 \in Int /\ n - 1 \in Int
  OBVIOUS
<1>2. IsFiniteSet(0 .. n - 1) /\ Cardinality(0 .. n - 1) = IF 0 > n - 1 THEN 0 ELSE (n - 1) - 0 + 1
  BY <1>1, FS_Interval
<1>3. QED BY <1>2

LEMMA CoversNow == NatInv => PoolCovers
<1> SUFFICES ASSUME NatInv, pc = "wait", started # {},
                    \A port \in started : nb_rxq[port] <= nb_rxq[Lowest(started)],
                    NEW s \in DOMAIN pool
             PROVE  pool[s] >= Cardinality(Rings(s)) * RxDesc + Cardinality(Lcores) * Cache
                                 + Cardinality(started) * Cardinality(Lcores) * (Burst + TxDesc)
  BY DEF PoolCovers
<1> DEFINE nb == nb_rxq[Lowest(started)]
           L == Cardinality(Lcores)
           P == Cardinality(started)
           R == Cardinality(Rings(s))
           N == NbPorts
<1>1. /\ MainInv /\ Past /\ todo = {} /\ started = EnabledPorts /\ RxDone
      /\ \A p \in EnabledPorts : Configured(p)
  BY DEF NatInv, MainInv, Order, PortsDone, Running, Past
<1>2. /\ L <= MaxTxQueue
      /\ pool[s] = NB_MBUF(nb)
  BY <1>1 DEF MainInv, Pools
<1>3. /\ started \subseteq 0 .. NbPorts - 1 /\ started \subseteq Nat
      /\ Lowest(started) \in started
  <2>1. started \subseteq 0 .. NbPorts - 1
    BY <1>1 DEF MainInv, Ranging
  <2>2. started \subseteq Nat
    BY <2>1
  <2>3. QED BY <2>1, <2>2, LowestIs
<1>4. nb \in Nat
  BY <1>1, <1>3, QueuesFinite DEF Configured
<1>5. /\ N \in Nat /\ RxDesc \in Nat /\ TxDesc \in Nat /\ Burst \in Nat /\ Cache \in Nat
  BY StartAssumption
<1>6. L \in Nat /\ pool[s] >= N * nb * RxDesc + N * L * Burst + N * L * TxDesc + L * Cache
  BY <1>2, <1>4, PoolSize
<1>7. P \in Nat /\ P <= N /\ IsFiniteSet(started)
  <2>1. IsFiniteSet(0 .. N - 1) /\ Cardinality(0 .. N - 1) = N
    BY <1>5, CountTo
  <2>2. IsFiniteSet(started) /\ P <= Cardinality(0 .. N - 1)
    BY <1>3, <2>1, FS_Subset
  <2>3. QED BY <2>1, <2>2, FS_CardinalityType
<1>8. R \in Nat /\ R <= P * nb
  <2> DEFINE K == 0 .. nb - 1
             A == started \X K
  <2>1. IsFiniteSet(K) /\ Cardinality(K) = nb
    BY <1>4, CountTo
  <2>2. Rings(s) \subseteq A
    <3> SUFFICES ASSUME NEW pq \in Rings(s) PROVE pq \in A
      OBVIOUS
    <3>1. PICK c \in Triples : pq = <<c.port, c.queue>>
      BY <1>1 DEF Rings, RxDone
    <3>2. c.port \in started /\ c.queue \in 0 .. nb_rxq[c.port] - 1 /\ Configured(c.port)
      BY <1>1, <3>1, TripleIs
    <3>3. nb_rxq[c.port] \in Nat /\ nb_rxq[c.port] <= nb
      BY <1>1, <3>2, QueuesFinite DEF Configured
    <3>4. c.queue \in K
      BY <1>4, <3>2, <3>3
    <3>5. QED BY <3>1, <3>2, <3>4
  <2> HIDE DEF K
  <2>3. IsFiniteSet(A) /\ Cardinality(A) = P * Cardinality(K)
    BY <1>7, <2>1, FS_Product
  <2> HIDE DEF A, nb, P
  <2>4. IsFiniteSet(Rings(s)) /\ R <= Cardinality(A)
    BY <2>2, <2>3, FS_Subset
  <2>5. R \in Nat
    BY <2>4, FS_CardinalityType
  <2>6. QED BY <2>1, <2>3, <2>4, <2>5
<1> HIDE DEF nb, L, P, R, N
<1>9. R * RxDesc <= N * nb * RxDesc /\ R * RxDesc \in Nat /\ N * nb * RxDesc \in Nat
  <2>1. P * nb <= N * nb /\ P * nb \in Nat /\ N * nb \in Nat
    BY <1>4, <1>5, <1>7, Products
  <2>2. R <= N * nb
    BY <1>8, <2>1
  <2>3. QED BY <1>5, <1>8, <2>1, <2>2, Products
<1>10. /\ P * L * (Burst + TxDesc) <= N * L * (Burst + TxDesc)
       /\ N * L * (Burst + TxDesc) = N * L * Burst + N * L * TxDesc
       /\ P * L * (Burst + TxDesc) \in Nat /\ N * L * Burst \in Nat /\ N * L * TxDesc \in Nat
  <2> DEFINE b == Burst + TxDesc
             x == P * L
             y == N * L
  <2>1. x <= y /\ x \in Nat /\ y \in Nat
    BY <1>5, <1>6, <1>7, Products
  <2>2. b \in Nat
    BY <1>5
  <2>3. y * Burst \in Nat /\ y * TxDesc \in Nat /\ y * (Burst + TxDesc) = y * Burst + y * TxDesc
    BY <1>5, <2>1
  <2> HIDE DEF b, x, y
  <2>4. x * b <= y * b /\ x * b \in Nat
    BY <2>1, <2>2, Products
  <2>5. QED BY <2>3, <2>4 DEF b, x, y
<1>11. L * Cache \in Nat
  BY <1>5, <1>6
<1>12. pool[s] >= R * RxDesc + L * Cache + P * L * (Burst + TxDesc)
  <2>1. pool[s] \in Nat
    BY <1>1 DEF MainInv, Ranging
  <2>2. QED BY <1>6, <1>9, <1>10, <1>11, <2>1
<1>13. QED BY <1>12 DEF L, P, R

\* For any number of ports, queues, lcores and sockets: the pool of a socket has
\* the mbufs that its rings, the batches and the caches can hold at once, when the
\* first port has as many queues as any.
THEOREM PoolsCover == SpecNat => []PoolCovers
  BY CoversNow, NatAlways, PTL

-----------------------------------------------------------------------------
(***************************************************************************)
(* What the outside sees of packets.                                       *)
(***************************************************************************)

\* When the table has as many addresses as the host part has values, every host
\* part leads to an address, and this address back to the host part.
LEMMA AddressOf ==
  ASSUME TableInv, loaded, TableFits, NEW host \in 0 .. Hosts - 1
  PROVE  /\ idx_to_ip(host) \in Addresses
         /\ HostOf(ip_to_idx(idx_to_ip(host))) = host
<1>1. host \in Nat /\ host < Hosts /\ MAX_IDX = Hosts /\ Simple
  BY PacketAssumption DEF TableFits
<1>a. LastTaken
  BY <1>1 DEF Simple
<1>2. PICK addr \in Addresses : IndexOf(addr) = host
  BY <1>1, <1>a, EveryIndex
<1>3. idx_to_ip(IndexOf(addr)) = addr
  BY <1>1, IndexNow DEF IndexFoundInSimple, IndexFound
<1>4. ip_to_idx(addr) = IndexOf(addr)
  BY AddressNow DEF AddressFound, TableInv
<1>5. HostOf(host) = host
  BY <1>1, HostIs
<1>6. QED BY <1>2, <1>3, <1>4, <1>5

LEMMA FlowsNow == NatInv => FlowsApart
<1> SUFFICES ASSUME NatInv, TableFits, NEW o \in out, NEW q \in out,
                    Ptype(o.was) = "ipv4", Ptype(q.was) = "ipv4",
                    o.is.saddr = q.is.saddr, o.is.sport = q.is.sport,
                    o.is.daddr = q.is.daddr, o.is.dport = q.is.dport
             PROVE  HostOf(o.was.saddr) = HostOf(q.was.saddr) /\ o.was.sport = q.was.sport
  BY DEF FlowsApart
<1>1. /\ Tables /\ o.was \in Packets /\ q.was \in Packets /\ nat_tbl # {}
      /\ o.is = Translated(o.was) /\ q.is = Translated(q.was)
  BY DEF NatInv, Sent, SentOK
<1> DEFINE p == o.was
           r == q.was
           c == rk[Input(p)]
           d == rk[Input(r)]
<1>2. Ptype(p) = "ipv4" /\ Ptype(r) = "ipv4"
  OBVIOUS
<1>3. /\ Translated(p).saddr = Translated(r).saddr /\ Translated(p).sport = Translated(r).sport
      /\ Translated(p).daddr = Translated(r).daddr /\ Translated(p).dport = Translated(r).dport
      /\ p \in Packets /\ r \in Packets
  BY <1>1
<1> HIDE DEF p, r
<1>4. /\ rk \in Ciphers /\ c \in Messages /\ d \in Messages
      /\ MsgPort(c) = MsgPort(d) /\ idx_to_ip(MsgHost(c)) = idx_to_ip(MsgHost(d))
      /\ p.daddr = r.daddr /\ p.dport = r.dport
  BY <1>1, <1>2, <1>3, TranslatedIs
\* One address is the address of one host part only.
<1>5. c = d
  <2>1. /\ MsgHost(c) \in 0 .. Hosts - 1 /\ Message(MsgPort(c), MsgHost(c)) = c
        /\ MsgHost(d) \in 0 .. Hosts - 1 /\ Message(MsgPort(d), MsgHost(d)) = d
    BY <1>4, MessageParts
  <2>2. TableInv /\ loaded
    BY <1>1 DEF Tables
  <2>3. /\ HostOf(ip_to_idx(idx_to_ip(MsgHost(c)))) = MsgHost(c)
        /\ HostOf(ip_to_idx(idx_to_ip(MsgHost(d)))) = MsgHost(d)
    BY <2>1, <2>2, AddressOf
  <2>4. MsgHost(c) = MsgHost(d)
    BY <1>4, <2>3
  <2>5. QED BY <1>4, <2>1, <2>4
<1>6. /\ Input(p) \in Messages /\ Input(r) \in Messages
      /\ BitXor(MsgPort(Input(p)), p.dport) = p.sport
      /\ BitXor(MsgHost(Input(p)), HostOf(p.daddr)) = HostOf(p.saddr)
      /\ BitXor(MsgPort(Input(r)), r.dport) = r.sport
      /\ BitXor(MsgHost(Input(r)), HostOf(r.daddr)) = HostOf(r.saddr)
  BY <1>3, InputIs
<1>7. Input(p) = Input(r)
  <2>1. \A x, y \in Messages : rk[x] = rk[y] => x = y
    BY <1>4, PacketAssumption
  <2>2. QED BY <1>5, <1>6, <2>1
<1>8. HostOf(p.saddr) = HostOf(r.saddr) /\ p.sport = r.sport
  BY <1>4, <1>6, <1>7
<1>9. QED BY <1>8 DEF p, r

\* For any permutations as ciphers, any table of the size of the host part and
\* any packets, on any lcores and at any time: two packets to one destination that
\* leave with one public address and port have one port and one host part inside.
THEOREM FlowsStayApart == SpecNat => []FlowsApart
  BY FlowsNow, NatAlways, PTL

LEMMA LeakNow == NatInv => NoLeak
<1> SUFFICES ASSUME NatInv, TableFits, NEW o \in out, o.was.v = 4, o.port # o.from
             PROVE  o.is.saddr \in Addresses
  BY DEF NoLeak
<1> DEFINE p == o.was
<1>1. /\ Tables /\ p \in Packets /\ o.is = Translated(p) /\ Ptype(p) # "other"
      /\ Ptype(p) = "ipv4" => nat_tbl # {}
  BY DEF NatInv, Sent, SentOK
<1>2. p.v = 4
  OBVIOUS
<1> HIDE DEF p
<1>3. Ptype(p) = "ipv4"
  BY <1>1, <1>2 DEF Ptype
<1>4. /\ rk[Input(p)] \in Messages
      /\ Translated(p).saddr = idx_to_ip(MsgHost(rk[Input(p)]))
  BY <1>1, <1>3, TranslatedIs
<1>5. MsgHost(rk[Input(p)]) \in 0 .. Hosts - 1
  BY <1>4, MessageParts
<1>6. TableInv /\ loaded
  BY <1>1, <1>3 DEF Tables
<1>7. QED BY <1>1, <1>4, <1>5, <1>6, AddressOf

\* No packet of IPv4 that leaves by another port shows an inside address: its
\* source is an address of the table.
THEOREM NothingLeaks == SpecNat => []NoLeak
  BY LeakNow, NatAlways, PTL

=============================================================================
