-------------------------- MODULE IpsecLcoreProofs --------------------------
(***************************************************************************)
(* Proofs about IpsecLcore, for any mbufs, flows, SAs, policies and ports, *)
(* any number of queue pairs, any burst size and any device depth.         *)
(*                                                                         *)
(* P is CryptoQueue with its proofs, and with the pool that the crypto     *)
(* path of the lcore sees: a step of the lcore is shown to be a step of P  *)
(* or to leave P alone, and then the invariants proved of P hold here.     *)
(***************************************************************************)
EXTENDS IpsecLcore, SequenceTheorems, FiniteSetTheorems, WellFoundedInduction, TLAPS

P == INSTANCE CryptoQueueProofs WITH pool <- Mbuf \ Crypted

(***************************************************************************)
(* Sequences.  The first lemmas are those of CryptoQueueProofs.            *)
(***************************************************************************)
LEMMA AppendElems ==
  ASSUME NEW S, NEW s \in Seq(S), NEW e \in S
  PROVE  /\ Append(s, e) \in Seq(S)
         /\ Len(Append(s, e)) = Len(s) + 1
         /\ Elems(Append(s, e)) = Elems(s) \cup {e}
         /\ Q!Distinct(s) /\ e \notin Elems(s) => Q!Distinct(Append(s, e))
  BY P!AppendElems, IpsecLcoreAssumption
     DEF Elems, Q!Elems, P!Elems, Q!Distinct, P!Distinct, P!CryptoQueueAssumption

LEMMA TailElems ==
  ASSUME NEW S, NEW s \in Seq(S), s # <<>>
  PROVE  /\ Head(s) \in S /\ Tail(s) \in Seq(S)
         /\ Len(s) \in Nat \ {0} /\ Len(Tail(s)) = Len(s) - 1
         /\ Head(s) \in Elems(s)
         /\ Q!Distinct(s) => /\ Elems(Tail(s)) = Elems(s) \ {Head(s)}
                             /\ Q!Distinct(Tail(s))
  BY P!TailElems, IpsecLcoreAssumption
     DEF Elems, Q!Elems, P!Elems, Q!Distinct, P!Distinct, P!CryptoQueueAssumption

LEMMA SplitElems ==
  ASSUME NEW S, NEW s \in Seq(S), NEW n \in 0 .. Len(s)
  PROVE  LET a == SubSeq(s, 1, n)
             b == SubSeq(s, n + 1, Len(s))
         IN  /\ a \in Seq(S) /\ b \in Seq(S)
             /\ Len(a) = n /\ Len(b) = Len(s) - n
             /\ Q!Distinct(s) => /\ Elems(a) = Elems(s) \ Elems(b)
                                 /\ Elems(b) = Elems(s) \ Elems(a)
                                 /\ Q!Distinct(a) /\ Q!Distinct(b)
  BY P!SplitElems, IpsecLcoreAssumption
     DEF Elems, Q!Elems, P!Elems, Q!Distinct, P!Distinct, P!CryptoQueueAssumption

LEMMA ConcatElems ==
  ASSUME NEW S, NEW s \in Seq(S), NEW t \in Seq(S)
  PROVE  /\ s \o t \in Seq(S)
         /\ Len(s \o t) = Len(s) + Len(t)
         /\ Elems(s \o t) = Elems(s) \cup Elems(t)
         /\ Q!Distinct(s) /\ Q!Distinct(t) /\ Elems(s) \cap Elems(t) = {}
              => Q!Distinct(s \o t)
  BY P!ConcatElems, IpsecLcoreAssumption
     DEF Elems, Q!Elems, P!Elems, Q!Distinct, P!Distinct, P!CryptoQueueAssumption

LEMMA EmptyElems ==
  ASSUME NEW S
  PROVE  <<>> \in Seq(S) /\ Len(<<>>) = 0 /\ Elems(<<>>) = {} /\ Q!Distinct(<<>>)
  BY EmptySeq DEF Elems, Q!Elems, Q!Distinct

LEMMA ElemsOf ==
  ASSUME NEW S, NEW s \in Seq(S)
  PROVE  Elems(s) \subseteq S /\ Len(s) \in Nat
  BY ElementOfSeq, LenProperties DEF Elems, Q!Elems

\* A set of numbers has a least one.
LEMMA LeastOf ==
  ASSUME NEW T, T \subseteq Nat, T # {}
  PROVE  \E k \in T : \A j \in T : k <= j
<1> DEFINE R == OpToRel(<, Nat)
<1>1. IsWellFoundedOn(R, Nat)
  BY NatLessThanWellFounded
<1>2. \A x, y \in Nat : <<x, y>> \in R <=> x < y
  BY DEF OpToRel
<1> HIDE DEF R
<1>3. PICK k \in T : \A j \in T : ~ (<<j, k>> \in R)
  BY <1>1, WFMin
<1>4. ASSUME NEW j \in T PROVE k <= j
  <2>1. j \in Nat /\ k \in Nat /\ ~ (<<j, k>> \in R)
    BY <1>3
  <2>2. ~ (j < k)
    BY <1>2, <2>1
  <2>3. QED BY <2>1, <2>2
<1>5. QED BY <1>4

\* Induction up to n, for a property given as the set of the numbers that
\* have it.
LEMMA UpTo ==
  ASSUME NEW n \in Nat, NEW G, 0 \in G,
         \A k \in 1 .. n : k - 1 \in G => k \in G
  PROVE  0 .. n \subseteq G
<1> DEFINE Bad == {k \in 0 .. n : k \notin G}
<1> SUFFICES ASSUME Bad # {} PROVE FALSE
  OBVIOUS
<1>1. Bad \subseteq Nat
  OBVIOUS
<1> HIDE DEF Bad
<1>2. PICK k \in Bad : \A j \in Bad : k <= j
  BY <1>1, LeastOf
<1>3. k \in 1 .. n /\ k \notin G
  BY <1>2 DEF Bad
<1>4. k - 1 \in G
  BY <1>2, <1>3 DEF Bad
<1>5. QED BY <1>3, <1>4

\* The first n steps of the loop that Keep stands for.
Kept(s, S, n, f) ==
  f = [k \in 0 .. n |-> IF k = 0 THEN <<>>
                        ELSE IF s[k] \in S THEN Append(f[k - 1], s[k]) ELSE f[k - 1]]

LEMMA KeptExists ==
  ASSUME NEW s, NEW S, NEW n \in Nat
  PROVE  \E f : Kept(s, S, n, f)
<1> DEFINE G == {k \in Nat : \E f : Kept(s, S, k, f)}
<1>1. 0 \in G
  <2>1. Kept(s, S, 0, [j \in 0 .. 0 |-> <<>>])
    BY DEF Kept
  <2>2. QED BY <2>1
<1>2. ASSUME NEW k \in 1 .. n, k - 1 \in G PROVE k \in G
  <2>1. PICK f : Kept(s, S, k - 1, f)
    BY <1>2
  <2> DEFINE g == [j \in 0 .. k |-> IF j < k THEN f[j] ELSE
                     IF s[k] \in S THEN Append(f[k - 1], s[k]) ELSE f[k - 1]]
  <2>2. \A j \in 0 .. k - 1 :
          f[j] = IF j = 0 THEN <<>>
                 ELSE IF s[j] \in S THEN Append(f[j - 1], s[j]) ELSE f[j - 1]
    BY <2>1 DEF Kept
  <2>3. \A j \in 0 .. k :
          g[j] = IF j = 0 THEN <<>>
                 ELSE IF s[j] \in S THEN Append(g[j - 1], s[j]) ELSE g[j - 1]
    BY <2>2
  <2>4. Kept(s, S, k, g)
    BY <2>3 DEF Kept
  <2>5. QED BY <2>4
<1> HIDE DEF G
<1>3. 0 .. n \subseteq G
  BY <1>1, <1>2, UpTo
<1>4. QED BY <1>3 DEF G

LEMMA KeepIs ==
  ASSUME NEW s, NEW S, Len(s) \in Nat
  PROVE  \E f : /\ Keep(s, S) = f[Len(s)] /\ f[0] = <<>>
                /\ \A k \in 1 .. Len(s) :
                     f[k] = IF s[k] \in S THEN Append(f[k - 1], s[k]) ELSE f[k - 1]
<1> DEFINE kept[n \in 0 .. Len(s)] ==
             IF n = 0 THEN <<>>
             ELSE IF s[n] \in S THEN Append(kept[n - 1], s[n]) ELSE kept[n - 1]
<1>1. kept = CHOOSE f : Kept(s, S, Len(s), f)
  BY DEF Kept
<1>2. Kept(s, S, Len(s), kept)
  BY <1>1, KeptExists
<1>3. Keep(s, S) = kept[Len(s)]
  BY DEF Keep
<1> HIDE DEF kept
<1>4. /\ kept[0] = <<>>
      /\ \A k \in 1 .. Len(s) :
           kept[k] = IF s[k] \in S THEN Append(kept[k - 1], s[k]) ELSE kept[k - 1]
  <2>1. \A k \in 0 .. Len(s) :
          kept[k] = IF k = 0 THEN <<>>
                    ELSE IF s[k] \in S THEN Append(kept[k - 1], s[k]) ELSE kept[k - 1]
    BY <1>2 DEF Kept
  <2>2. QED BY <2>1
<1>5. QED BY <1>3, <1>4

\* What Keep leaves of a sequence.
LEMMA KeepElems ==
  ASSUME NEW T, NEW s \in Seq(T), NEW S
  PROVE  /\ Keep(s, S) \in Seq(T) /\ Len(Keep(s, S)) <= Len(s)
         /\ Elems(Keep(s, S)) = Elems(s) \cap S
         /\ Q!Distinct(s) => Q!Distinct(Keep(s, S))
<1>0. Len(s) \in Nat /\ \A k \in 1 .. Len(s) : s[k] \in T
  BY ElementOfSeq, LenProperties
<1>1. PICK f : /\ Keep(s, S) = f[Len(s)] /\ f[0] = <<>>
               /\ \A k \in 1 .. Len(s) :
                    f[k] = IF s[k] \in S THEN Append(f[k - 1], s[k]) ELSE f[k - 1]
  BY <1>0, KeepIs
<1> DEFINE First(n) == {s[k] : k \in 1 .. n}
           G == {n \in Nat : /\ f[n] \in Seq(T) /\ Len(f[n]) <= n
                             /\ Elems(f[n]) = First(n) \cap S
                             /\ Q!Distinct(s) => Q!Distinct(f[n])}
<1>2. 0 \in G
  <2>1. First(0) = {}
    OBVIOUS
  <2>2. f[0] \in Seq(T) /\ Len(f[0]) = 0 /\ Elems(f[0]) = {} /\ Q!Distinct(f[0])
    BY <1>1, EmptyElems
  <2>3. QED BY <2>1, <2>2
<1>3. ASSUME NEW n \in 1 .. Len(s), n - 1 \in G PROVE n \in G
  <2>1. /\ f[n - 1] \in Seq(T) /\ Len(f[n - 1]) <= n - 1 /\ Len(f[n - 1]) \in Nat
        /\ Elems(f[n - 1]) = First(n - 1) \cap S
        /\ Q!Distinct(s) => Q!Distinct(f[n - 1])
    BY <1>3, LenProperties
  <2>2. First(n) = First(n - 1) \cup {s[n]}
    OBVIOUS
  <2>3. n \in Nat /\ s[n] \in T
    BY <1>0
  <2> HIDE DEF First
  <2>4. CASE s[n] \in S
    <3>1. f[n] = Append(f[n - 1], s[n])
      BY <1>1, <2>4
    <3>2. /\ f[n] \in Seq(T) /\ Len(f[n]) = Len(f[n - 1]) + 1
          /\ Elems(f[n]) = Elems(f[n - 1]) \cup {s[n]}
          /\ Q!Distinct(f[n - 1]) /\ s[n] \notin Elems(f[n - 1]) => Q!Distinct(f[n])
      BY <2>1, <2>3, <3>1, AppendElems
    <3>3. Q!Distinct(s) => s[n] \notin First(n - 1)
      BY <1>0 DEF Q!Distinct, First
    <3>4. QED BY <2>1, <2>2, <2>3, <2>4, <3>2, <3>3
  <2>5. CASE s[n] \notin S
    <3>1. f[n] = f[n - 1]
      BY <1>1, <2>5
    <3>2. QED BY <2>1, <2>2, <2>3, <2>5, <3>1
  <2>6. QED BY <2>4, <2>5
<1> HIDE DEF G
<1>4. Len(s) \in G
  <2>1. 0 .. Len(s) \subseteq G
    BY <1>0, <1>2, <1>3, UpTo
  <2>2. QED BY <1>0, <2>1
<1>5. First(Len(s)) = Elems(s)
  BY DEF Elems, Q!Elems
<1>6. QED BY <1>1, <1>4, <1>5 DEF G

\* Two disjoint parts of a sequence fit in its length.
LEMMA KeepTwo ==
  ASSUME NEW T, NEW s \in Seq(T), NEW A, NEW B, A \cap B = {}
  PROVE  Len(Keep(s, A)) + Len(Keep(s, B)) <= Len(s)
<1>0. Len(s) \in Nat /\ \A k \in 1 .. Len(s) : s[k] \in T
  BY ElementOfSeq, LenProperties
<1>1. PICK f : /\ Keep(s, A) = f[Len(s)] /\ f[0] = <<>>
               /\ \A k \in 1 .. Len(s) :
                    f[k] = IF s[k] \in A THEN Append(f[k - 1], s[k]) ELSE f[k - 1]
  BY <1>0, KeepIs
<1>2. PICK g : /\ Keep(s, B) = g[Len(s)] /\ g[0] = <<>>
               /\ \A k \in 1 .. Len(s) :
                    g[k] = IF s[k] \in B THEN Append(g[k - 1], s[k]) ELSE g[k - 1]
  BY <1>0, KeepIs
<1> DEFINE G == {n \in Nat : /\ f[n] \in Seq(T) /\ g[n] \in Seq(T)
                             /\ Len(f[n]) + Len(g[n]) <= n}
<1>3. 0 \in G
  <2>1. /\ f[0] \in Seq(T) /\ Len(f[0]) = 0
        /\ g[0] \in Seq(T) /\ Len(g[0]) = 0
    BY <1>1, <1>2, EmptyElems
  <2>2. Len(f[0]) + Len(g[0]) <= 0
    BY <2>1
  <2>3. QED BY <2>1, <2>2
<1>4. ASSUME NEW n \in 1 .. Len(s), n - 1 \in G PROVE n \in G
  <2>1. /\ f[n - 1] \in Seq(T) /\ g[n - 1] \in Seq(T)
        /\ Len(f[n - 1]) \in Nat /\ Len(g[n - 1]) \in Nat
        /\ Len(f[n - 1]) + Len(g[n - 1]) <= n - 1
    BY <1>4, LenProperties
  <2>2. s[n] \in T /\ n \in Nat
    BY <1>0
  <2>3. /\ Append(f[n - 1], s[n]) \in Seq(T) /\ Append(g[n - 1], s[n]) \in Seq(T)
        /\ Len(Append(f[n - 1], s[n])) = Len(f[n - 1]) + 1
        /\ Len(Append(g[n - 1], s[n])) = Len(g[n - 1]) + 1
    BY <2>1, <2>2, AppendElems
  <2>4. /\ f[n] = IF s[n] \in A THEN Append(f[n - 1], s[n]) ELSE f[n - 1]
        /\ g[n] = IF s[n] \in B THEN Append(g[n - 1], s[n]) ELSE g[n - 1]
        /\ ~ (s[n] \in A /\ s[n] \in B)
    BY <1>1, <1>2
  <2>5. /\ f[n] \in Seq(T) /\ g[n] \in Seq(T)
        /\ Len(f[n]) + Len(g[n]) <= n
    <3>1. \/ f[n] = f[n - 1] /\ g[n] = g[n - 1]
          \/ f[n] = Append(f[n - 1], s[n]) /\ g[n] = g[n - 1]
          \/ f[n] = f[n - 1] /\ g[n] = Append(g[n - 1], s[n])
      BY <2>4
    <3> HIDE DEF G
    <3>2. f[n] \in Seq(T) /\ g[n] \in Seq(T)
      BY <2>1, <2>3, <3>1
    <3>3. \/ Len(f[n]) = Len(f[n - 1]) /\ Len(g[n]) = Len(g[n - 1])
          \/ Len(f[n]) = Len(f[n - 1]) + 1 /\ Len(g[n]) = Len(g[n - 1])
          \/ Len(f[n]) = Len(f[n - 1]) /\ Len(g[n]) = Len(g[n - 1]) + 1
      BY <2>3, <3>1
    <3>4. ASSUME NEW a \in Nat, NEW b \in Nat, a + b <= n - 1
          PROVE  a + b <= n /\ a + 1 + b <= n /\ a + (b + 1) <= n
      BY <2>2, <3>4
    <3>5. Len(f[n]) + Len(g[n]) <= n
      <4> DEFINE a == Len(f[n - 1])
                 b == Len(g[n - 1])
      <4>1. a \in Nat /\ b \in Nat /\ a + b <= n - 1
        BY <2>1
      <4>2. \/ Len(f[n]) = a /\ Len(g[n]) = b
            \/ Len(f[n]) = a + 1 /\ Len(g[n]) = b
            \/ Len(f[n]) = a /\ Len(g[n]) = b + 1
        BY <3>3
      <4> HIDE DEF a, b
      <4>3. a + b <= n /\ a + 1 + b <= n /\ a + (b + 1) <= n
        BY <3>4, <4>1
      <4>4. QED BY <4>2, <4>3
    <3>6. QED BY <3>2, <3>5
  <2>6. QED BY <2>2, <2>5
<1> HIDE DEF G
<1>5. Len(s) \in G
  <2>1. 0 .. Len(s) \subseteq G
    BY <1>0, <1>3, <1>4, UpTo
  <2>2. QED BY <1>0, <2>1
<1>6. QED BY <1>1, <1>2, <1>5 DEF G

-----------------------------------------------------------------------------
(***************************************************************************)
(* The inductive invariant, part by part.                                  *)
(***************************************************************************)

\* What each array may hold where process_pkts is.
Control ==
  /\ stage # "crypto" => pc = "caller" /\ out = <<>>
  /\ stage # "sorted" => ipsec = <<>>
  /\ stage = "idle" => ip[4] = <<>> /\ ip[6] = <<>>

\* Until the crypto path is through, the packets in clear are of one burst.
Bounds ==
  /\ TrafficBounded
  /\ stage \in {"sorted", "crypto"} => Len(ip[4]) + Len(ip[6]) <= MaxBurst

\* What waits in the transmit buffers.
Sending == UNION {Elems(tx[p]) : p \in Port}

\* Each mbuf is in one of seven sets, and only in one.
Once(a, b, c, d, e, f, g) ==
  \A m \in Mbuf :
    /\ m \in a \/ m \in b \/ m \in c \/ m \in d \/ m \in e \/ m \in f \/ m \in g
    /\ m \in a => m \notin b /\ m \notin c /\ m \notin d /\ m \notin e /\ m \notin f /\ m \notin g
    /\ m \in b => m \notin c /\ m \notin d /\ m \notin e /\ m \notin f /\ m \notin g
    /\ m \in c => m \notin d /\ m \notin e /\ m \notin f /\ m \notin g
    /\ m \in d => m \notin e /\ m \notin f /\ m \notin g
    /\ m \in e => m \notin f /\ m \notin g
    /\ m \in f => m \notin g

Placed ==
  /\ Once(pool, wire, Crypted, Elems(ipsec), Elems(ip[4]), Elems(ip[6]), Sending)
  /\ \A p, r \in Port : p # r => Elems(tx[p]) \cap Elems(tx[r]) = {}
  /\ Q!Distinct(ipsec) /\ Q!Distinct(ip[4]) /\ Q!Distinct(ip[6])
  /\ \A p \in Port : Q!Distinct(tx[p])

\* A packet in clear, on its way through process_pkts for version v.
Clear(m, v) ==
  /\ flow[m].dir = side /\ flow[m].v = v /\ flow[m].esp = 0 /\ ~ sealed[m]
  /\ stage = "crypto" /\ side = "out" => Cleared(m)

\* A packet that waits for ipsec_enqueue in context c.
Waiting(m, c) == flow[m].dir = c /\ (sealed[m] <=> c = "in")

\* A packet that ipsec_enqueue of context c has given its SA; the device has
\* or has not yet transformed it.
Prepared(m, c, done) ==
  /\ flow[m].dir = c
  /\ sa[m] \in Sa /\ sa[m] = <<c, IF c = "in" THEN flow[m].esp ELSE flow[m].sp>>
  /\ sealed[m] <=> (c = "out") = done

\* What is known of the packets in the arrays of process_pkts.
InTraffic ==
  /\ \A m \in Elems(ipsec) : flow[m].dir = side /\ sealed[m]
  /\ \A v \in Ver : \A m \in Elems(ip[v]) :
       IF stage = "route" THEN Allowed(m) ELSE Clear(m, v)
  /\ stage = "crypto" => ctx = side

\* What is known of the packets in the crypto path; a device has transformed
\* the first ready[q] ops of a queue.
InCrypto ==
  /\ \A m \in Elems(pkts) : Waiting(m, ctx)
  /\ \A m \in Elems(cops) \cup Elems(out) : Prepared(m, ctx, TRUE)
  /\ \A q \in Q!Qp : \A m \in Elems(buf[q]) : Prepared(m, q[1], FALSE)
  /\ \A q \in Q!Qp : \A i \in 1 .. Len(queue[q]) : \A m \in Mbuf :
       m = queue[q][i] => Prepared(m, q[1], i <= ready[q])

Kinds == InTraffic /\ InCrypto /\ SentAsAllowed

IInv ==
  TypeOK /\ Control /\ Bounds /\ Placed /\ Kinds /\ P!Basic /\ P!MbufHeldOnce

LEMMA Constants ==
  /\ P!CryptoQueueAssumption
  /\ NbQps \in [Ctx -> Nat] /\ MaxBurst \in Nat /\ MaxBurst > 0
  /\ P!Qp = Q!Qp
  /\ \A c \in Ctx : \A i \in Nat : i < NbQps[c] => <<c, i>> \in Q!Qp
  BY IpsecLcoreAssumption DEF P!CryptoQueueAssumption, P!Qp, Q!Qp

-----------------------------------------------------------------------------
(***************************************************************************)
(* Every step of the lcore is one of CryptoQueue, or none of its business. *)
(***************************************************************************)

LEMMA CryptedIs ==
  \A m : m \in Crypted <=>
    \/ m \in Elems(pkts) \/ m \in Elems(cops) \/ m \in Elems(out)
    \/ \E q \in Q!Qp : m \in Elems(buf[q]) \/ m \in Elems(queue[q])
<1> SUFFICES ASSUME NEW m
    PROVE m \in Crypted <=>
      \/ m \in Elems(pkts) \/ m \in Elems(cops) \/ m \in Elems(out)
      \/ \E q \in Q!Qp : m \in Elems(buf[q]) \/ m \in Elems(queue[q])
  OBVIOUS
<1> DEFINE A == UNION {Elems(s) : s \in {pkts, cops, out}}
           B == UNION {Elems(buf[q]) \cup Elems(queue[q]) : q \in Q!Qp}
<1>1. m \in A <=> m \in Elems(pkts) \/ m \in Elems(cops) \/ m \in Elems(out)
  BY Zenon
<1>2. m \in B <=> \E q \in Q!Qp : m \in Elems(buf[q]) \/ m \in Elems(queue[q])
  BY Zenon
<1>3. Crypted = A \cup B
  BY DEF Crypted
<1> HIDE DEF A, B
<1>4. QED BY <1>1, <1>2, <1>3

LEMMA CryptedNext ==
  \A m : m \in Crypted' <=>
    \/ m \in Elems(pkts') \/ m \in Elems(cops') \/ m \in Elems(out')
    \/ \E q \in Q!Qp : m \in Elems(buf'[q]) \/ m \in Elems(queue'[q])
<1> SUFFICES ASSUME NEW m
    PROVE m \in Crypted' <=>
      \/ m \in Elems(pkts') \/ m \in Elems(cops') \/ m \in Elems(out')
      \/ \E q \in Q!Qp : m \in Elems(buf'[q]) \/ m \in Elems(queue'[q])
  OBVIOUS
<1> DEFINE A == UNION {Elems(s) : s \in {pkts', cops', out'}}
           B == UNION {Elems(buf'[q]) \cup Elems(queue'[q]) : q \in Q!Qp}
<1>1. m \in A <=> m \in Elems(pkts') \/ m \in Elems(cops') \/ m \in Elems(out')
  BY Zenon
<1>2. m \in B <=> \E q \in Q!Qp : m \in Elems(buf'[q]) \/ m \in Elems(queue'[q])
  BY Zenon
<1>3. Crypted' = A \cup B
  BY DEF Crypted
<1> HIDE DEF A, B
<1>4. QED BY <1>1, <1>2, <1>3

\* The types of the crypto path, and what P knows of its arrays.
LEMMA CryptoNow ==
  ASSUME P!Basic, P!MbufHeldOnce
  PROVE  /\ pkts \in Seq(Mbuf) /\ cops \in Seq(Mbuf) /\ out \in Seq(Mbuf)
         /\ buf \in [Q!Qp -> Seq(Mbuf)] /\ queue \in [Q!Qp -> Seq(Mbuf)]
         /\ in_flight \in [Q!Qp -> Int] /\ ready \in [Q!Qp -> Nat]
         /\ last_qp \in [Ctx -> Nat] /\ polled \in Nat /\ ctx \in Ctx
         /\ pc \in {"caller", "enqueue", "dequeue"}
         /\ pc # "enqueue" => pkts = <<>>
         /\ pc # "dequeue" => cops = <<>>
         /\ pc = "enqueue" => out = <<>>
         /\ Len(out) + Len(cops) <= MaxBurst
         /\ \A c \in Ctx : NbQps[c] # 0 => last_qp[c] < NbQps[c]
         /\ \A q \in Q!Qp : ready[q] <= Len(queue[q])
         /\ \A q \in Q!Qp : in_flight[q] = Len(queue[q])
         /\ Q!Distinct(pkts) /\ Q!Distinct(cops) /\ Q!Distinct(out)
         /\ \A q \in Q!Qp : Q!Distinct(buf[q]) /\ Q!Distinct(queue[q])
  BY Constants DEF P!Basic, P!TypeOK, P!Shape, P!ArraysBounded, P!InFlightExact,
                   P!MbufHeldOnce, P!Distinct, Q!Distinct

\* No two of its arrays share an mbuf.
LEMMA CryptoApart ==
  ASSUME P!Basic, P!MbufHeldOnce
  PROVE  /\ Elems(pkts) \cap (Elems(cops) \cup Elems(out)) = {}
         /\ Elems(cops) \cap Elems(out) = {}
         /\ \A q \in Q!Qp :
              /\ (Elems(pkts) \cup Elems(cops) \cup Elems(out))
                    \cap (Elems(buf[q]) \cup Elems(queue[q])) = {}
              /\ \A r \in Q!Qp :
                   /\ Elems(buf[q]) \cap Elems(queue[r]) = {}
                   /\ q # r => /\ Elems(buf[q]) \cap Elems(buf[r]) = {}
                               /\ Elems(queue[q]) \cap Elems(queue[r]) = {}
<1> DEFINE h == P!held
           At(n, q) == <<n, q>>
<1>1. /\ P!SharesOut(h)
      /\ h[At("pkts", P!NoQp)] = Elems(pkts)
      /\ h[At("cops", P!NoQp)] = Elems(cops)
      /\ h[At("out", P!NoQp)] = Elems(out)
      /\ \A q \in Q!Qp : h[At("buf", q)] = Elems(buf[q])
      /\ \A q \in Q!Qp : h[At("queue", q)] = Elems(queue[q])
  BY Constants, P!HeldNow DEF P!MbufHeldOnce, P!Elems, Elems, Q!Elems
<1>2. /\ \A n \in {"pkts", "cops", "out"} : At(n, P!NoQp) \in P!Place
      /\ \A n \in {"buf", "queue"} : \A q \in Q!Qp : At(n, q) \in P!Place
  BY Constants, P!Places
<1>3. /\ Elems(pkts) \subseteq Mbuf /\ Elems(cops) \subseteq Mbuf /\ Elems(out) \subseteq Mbuf
      /\ \A q \in Q!Qp : Elems(buf[q]) \subseteq Mbuf /\ Elems(queue[q]) \subseteq Mbuf
  BY CryptoNow, ElemsOf
<1>4. ASSUME NEW a \in P!Place, NEW b \in P!Place, a # b, h[a] \subseteq Mbuf
      PROVE  h[a] \cap h[b] = {}
  BY <1>1, <1>4, Constants, P!Apart
<1> HIDE DEF h
<1>5. /\ At("pkts", P!NoQp) # At("cops", P!NoQp) /\ At("pkts", P!NoQp) # At("out", P!NoQp)
      /\ At("cops", P!NoQp) # At("out", P!NoQp)
      /\ \A q, r : /\ At("pkts", P!NoQp) # At("buf", q) /\ At("pkts", P!NoQp) # At("queue", q)
                   /\ At("cops", P!NoQp) # At("buf", q) /\ At("cops", P!NoQp) # At("queue", q)
                   /\ At("out", P!NoQp) # At("buf", q) /\ At("out", P!NoQp) # At("queue", q)
                   /\ At("buf", q) # At("queue", r)
                   /\ q # r => At("buf", q) # At("buf", r) /\ At("queue", q) # At("queue", r)
  OBVIOUS
<1> HIDE DEF At
<1>6. /\ Elems(pkts) \cap Elems(cops) = {} /\ Elems(pkts) \cap Elems(out) = {}
      /\ Elems(cops) \cap Elems(out) = {}
  BY <1>1, <1>2, <1>3, <1>4, <1>5
<1>7. ASSUME NEW q \in Q!Qp
      PROVE  /\ Elems(pkts) \cap Elems(buf[q]) = {} /\ Elems(pkts) \cap Elems(queue[q]) = {}
             /\ Elems(cops) \cap Elems(buf[q]) = {} /\ Elems(cops) \cap Elems(queue[q]) = {}
             /\ Elems(out) \cap Elems(buf[q]) = {} /\ Elems(out) \cap Elems(queue[q]) = {}
  BY <1>1, <1>2, <1>3, <1>4, <1>5
<1>8. ASSUME NEW q \in Q!Qp, NEW r \in Q!Qp
      PROVE  /\ Elems(buf[q]) \cap Elems(queue[r]) = {}
             /\ q # r => /\ Elems(buf[q]) \cap Elems(buf[r]) = {}
                         /\ Elems(queue[q]) \cap Elems(queue[r]) = {}
  BY <1>1, <1>2, <1>3, <1>4, <1>5
<1>9. QED BY <1>6, <1>7, <1>8

\* The crypto path gives up the mbufs of F, which are all its own.
GivesUp(F) ==
  /\ F \subseteq Crypted /\ Crypted \subseteq Mbuf
  /\ Crypted' = Crypted \ F

LEMMA PoolSeen ==
  ASSUME NEW F, GivesUp(F)
  PROVE  (Mbuf \ Crypted)' = (Mbuf \ Crypted) \cup F
  BY DEF GivesUp

LEMMA CryptedInMbuf ==
  ASSUME P!Basic, P!MbufHeldOnce
  PROVE  Crypted \subseteq Mbuf
<1>1. /\ Elems(pkts) \subseteq Mbuf /\ Elems(cops) \subseteq Mbuf /\ Elems(out) \subseteq Mbuf
      /\ \A q \in Q!Qp : Elems(buf[q]) \subseteq Mbuf /\ Elems(queue[q]) \subseteq Mbuf
  BY CryptoNow, ElemsOf
<1>2. QED BY <1>1, CryptedIs

LEMMA RejectStep ==
  ASSUME P!Basic, P!MbufHeldOnce, Q!EnqueueReject
  PROVE  GivesUp({Head(pkts)}) /\ P!EnqueueReject
<1>1. /\ pc = "enqueue" /\ pkts # <<>>
      /\ pkts' = Tail(pkts)
      /\ UNCHANGED <<cops, out, buf, queue>>
  BY DEF Q!EnqueueReject, Q!qpVars
<1>2. pkts \in Seq(Mbuf) /\ Q!Distinct(pkts)
  BY CryptoNow
<1>3. Elems(pkts') = Elems(pkts) \ {Head(pkts)} /\ Head(pkts) \in Elems(pkts)
  BY <1>1, <1>2, TailElems
<1>4. /\ Elems(cops') = Elems(cops) /\ Elems(out') = Elems(out)
      /\ \A q \in Q!Qp : buf'[q] = buf[q] /\ queue'[q] = queue[q]
  BY <1>1
<1>5. /\ Head(pkts) \notin Elems(cops) /\ Head(pkts) \notin Elems(out)
      /\ \A q \in Q!Qp : Head(pkts) \notin Elems(buf[q]) /\ Head(pkts) \notin Elems(queue[q])
  BY <1>3, CryptoApart
<1>6. GivesUp({Head(pkts)})
  <2>1. ASSUME NEW m PROVE m \in Crypted' <=> m \in Crypted /\ m # Head(pkts)
    BY <1>3, <1>4, <1>5, CryptedIs, CryptedNext
  <2>2. Head(pkts) \in Crypted
    BY <1>3, CryptedIs
  <2>3. QED BY <2>1, <2>2, CryptedInMbuf DEF GivesUp
<1>7. P!EnqueueReject
  BY <1>6, PoolSeen DEF Q!EnqueueReject, P!EnqueueReject, Q!qpVars, P!qpVars
<1>8. QED BY <1>6, <1>7

LEMMA BufferStep ==
  ASSUME P!Basic, P!MbufHeldOnce, NEW q \in Q!Qp, Q!EnqueueBuffer(q)
  PROVE  GivesUp({}) /\ P!EnqueueBuffer(q)
<1>1. /\ pc = "enqueue" /\ pkts # <<>>
      /\ pkts' = Tail(pkts)
      /\ buf' = [buf EXCEPT ![q] = Append(buf[q], Head(pkts))]
      /\ UNCHANGED <<cops, out, queue>>
  BY DEF Q!EnqueueBuffer
<1>2. pkts \in Seq(Mbuf) /\ Q!Distinct(pkts) /\ buf \in [Q!Qp -> Seq(Mbuf)]
  BY CryptoNow
<1>3. Elems(pkts') = Elems(pkts) \ {Head(pkts)} /\ Head(pkts) \in Elems(pkts)
      /\ Head(pkts) \in Mbuf
  BY <1>1, <1>2, TailElems
<1>4. Elems(Append(buf[q], Head(pkts))) = Elems(buf[q]) \cup {Head(pkts)}
  BY <1>2, <1>3, AppendElems
<1>5. /\ Elems(cops') = Elems(cops) /\ Elems(out') = Elems(out)
      /\ Elems(buf'[q]) = Elems(buf[q]) \cup {Head(pkts)}
      /\ \A r \in Q!Qp : queue'[r] = queue[r] /\ (r # q => buf'[r] = buf[r])
  BY <1>1, <1>2, <1>4
<1>6. GivesUp({})
  <2>1. ASSUME NEW m, m \in Crypted' PROVE m \in Crypted
    <3>1. \/ m \in Elems(pkts) \/ m \in Elems(cops) \/ m \in Elems(out)
          \/ \E r \in Q!Qp : m \in Elems(buf[r]) \/ m \in Elems(queue[r])
      BY <1>3, <1>5, <2>1, CryptedNext
    <3>2. QED BY <3>1, CryptedIs
  <2>2. ASSUME NEW m, m \in Crypted PROVE m \in Crypted'
    <3>1. \/ m \in Elems(pkts') \/ m \in Elems(cops') \/ m \in Elems(out')
          \/ \E r \in Q!Qp : m \in Elems(buf'[r]) \/ m \in Elems(queue'[r])
      BY <1>3, <1>5, <2>2, CryptedIs
    <3>2. QED BY <3>1, CryptedNext
  <2>3. QED BY <2>1, <2>2, CryptedInMbuf DEF GivesUp
<1>7. (Mbuf \ Crypted)' = Mbuf \ Crypted
  BY <1>6, PoolSeen
<1>8. P!EnqueueBuffer(q)
  BY <1>7 DEF Q!EnqueueBuffer, P!EnqueueBuffer
<1>9. QED BY <1>6, <1>8

LEMMA FlushStep ==
  ASSUME P!Basic, P!MbufHeldOnce, NEW q \in Q!Qp, NEW ret \in 0 .. MaxBurst,
         Q!EnqueueFlush(q, ret)
  PROVE  \E F : /\ GivesUp(F) /\ P!EnqueueFlush(q, ret)
                /\ pool' = pool \cup F
<1> DEFINE burst == Append(buf[q], Head(pkts))
           a == SubSeq(burst, 1, ret)
           F == SubSeq(burst, ret + 1, Len(burst))
<1>1. /\ pc = "enqueue" /\ pkts # <<>>
      /\ ret <= Len(burst)
      /\ pkts' = Tail(pkts)
      /\ buf' = [buf EXCEPT ![q] = <<>>]
      /\ queue' = [queue EXCEPT ![q] = queue[q] \o a]
      /\ pool' = pool \cup Elems(F)
      /\ UNCHANGED <<cops, out>>
  BY DEF Q!EnqueueFlush, Elems
<1>2. /\ pkts \in Seq(Mbuf) /\ Q!Distinct(pkts)
      /\ buf \in [Q!Qp -> Seq(Mbuf)] /\ queue \in [Q!Qp -> Seq(Mbuf)]
      /\ Q!Distinct(buf[q])
  BY CryptoNow
<1>3. /\ Elems(pkts') = Elems(pkts) \ {Head(pkts)} /\ Head(pkts) \in Elems(pkts)
      /\ Head(pkts) \in Mbuf
  BY <1>1, <1>2, TailElems
<1>4. /\ burst \in Seq(Mbuf)
      /\ Elems(burst) = Elems(buf[q]) \cup {Head(pkts)}
      /\ Q!Distinct(burst)
  <2>1. Head(pkts) \notin Elems(buf[q])
    BY <1>3, CryptoApart
  <2>2. QED BY <1>2, <1>3, <2>1, AppendElems
<1>5. /\ a \in Seq(Mbuf)
      /\ Elems(a) = Elems(burst) \ Elems(F)
      /\ Elems(F) = Elems(burst) \ Elems(a)
  <2>1. ret \in 0 .. Len(burst)
    BY <1>1, <1>4, LenProperties
  <2> HIDE DEF burst
  <2>2. QED BY <1>4, <2>1, SplitElems
<1> HIDE DEF burst, a, F
<1>6. Elems(queue[q] \o a) = Elems(queue[q]) \cup Elems(a)
  BY <1>2, <1>5, ConcatElems
<1>7. /\ Elems(cops') = Elems(cops) /\ Elems(out') = Elems(out)
      /\ Elems(buf'[q]) = {}
      /\ Elems(queue'[q]) = Elems(queue[q]) \cup Elems(a)
      /\ \A r \in Q!Qp : r # q => buf'[r] = buf[r] /\ queue'[r] = queue[r]
  BY <1>1, <1>2, <1>6, EmptyElems
<1>8. /\ Elems(F) \cap Elems(a) = {} /\ Elems(F) \subseteq Elems(buf[q]) \cup Elems(pkts)
      /\ Elems(a) \subseteq Elems(buf[q]) \cup Elems(pkts)
      /\ Elems(buf[q]) \subseteq Elems(a) \cup Elems(F)
      /\ Head(pkts) \in Elems(a) \cup Elems(F)
      /\ \A m \in Elems(F) : m \in Elems(pkts) => m = Head(pkts)
  <2>1. \A m \in Elems(buf[q]) : m \notin Elems(pkts)
    BY CryptoApart
  <2>2. QED BY <1>3, <1>4, <1>5, <2>1
<1>9. GivesUp(Elems(F))
  <2>1. ASSUME NEW m, m \in Crypted' PROVE m \in Crypted /\ m \notin Elems(F)
    <3>1. CASE m \in Elems(pkts')
      BY <3>1, <1>3, <1>8, CryptedIs
    <3>2. CASE m \in Elems(cops') \/ m \in Elems(out')
      <4>1. m \notin Elems(pkts) /\ m \notin Elems(buf[q])
        BY <1>7, <3>2, CryptoApart
      <4>2. QED BY <3>2, <4>1, <1>7, <1>8, CryptedIs
    <3>3. CASE \E r \in Q!Qp : m \in Elems(buf'[r])
      <4>1. PICK r \in Q!Qp : m \in Elems(buf'[r])
        BY <3>3
      <4>2. r # q /\ m \in Elems(buf[r])
        BY <4>1, <1>7
      <4>3. m \notin Elems(pkts) /\ m \notin Elems(buf[q])
        BY <4>2, CryptoApart
      <4>4. QED BY <4>2, <4>3, <1>8, CryptedIs
    <3>4. CASE \E r \in Q!Qp : m \in Elems(queue'[r])
      <4>1. PICK r \in Q!Qp : m \in Elems(queue'[r])
        BY <3>4
      <4>2. CASE m \in Elems(queue[r])
        <5>1. m \notin Elems(pkts) /\ m \notin Elems(buf[q])
          BY <4>2, CryptoApart
        <5>2. QED BY <4>2, <5>1, <1>8, CryptedIs
      <4>3. CASE r = q /\ m \in Elems(a)
        BY <4>3, <1>8, CryptedIs
      <4>4. QED BY <4>1, <4>2, <4>3, <1>7
    <3>5. QED BY <2>1, <3>1, <3>2, <3>3, <3>4, CryptedNext
  <2>2. ASSUME NEW m, m \in Crypted, m \notin Elems(F) PROVE m \in Crypted'
    <3>1. \/ m \in Elems(pkts') \/ m \in Elems(cops') \/ m \in Elems(out')
          \/ \E r \in Q!Qp : m \in Elems(buf'[r]) \/ m \in Elems(queue'[r])
      <4>1. CASE m \in Elems(pkts)
        BY <4>1, <1>3, <1>7, <1>8, <2>2
      <4>2. CASE \E r \in Q!Qp : m \in Elems(buf[r])
        BY <4>2, <1>7, <1>8, <2>2
      <4>3. CASE \E r \in Q!Qp : m \in Elems(queue[r])
        BY <4>3, <1>7
      <4>4. QED BY <4>1, <4>2, <4>3, <1>7, <2>2, CryptedIs
    <3>2. QED BY <3>1, CryptedNext
  <2>3. Elems(F) \subseteq Crypted
    BY <1>8, CryptedIs
  <2>4. QED BY <2>1, <2>2, <2>3, CryptedInMbuf DEF GivesUp
<1>10. (Mbuf \ Crypted)' = (Mbuf \ Crypted) \cup P!Elems(F)
  BY <1>9, PoolSeen DEF Elems, Q!Elems, P!Elems
<1>11. P!EnqueueFlush(q, ret)
  BY <1>10 DEF Q!EnqueueFlush, P!EnqueueFlush, burst, F, Q!Elems, P!Elems
<1>12. QED BY <1>1, <1>9, <1>11

LEMMA PollStep ==
  ASSUME P!Basic, P!MbufHeldOnce, Q!PollQp
  PROVE  GivesUp({}) /\ P!PollQp
<1> DEFINE q  == <<ctx, last_qp[ctx]>>
           nb == Q!Smaller(ready[q], MaxBurst - Len(out))
           a  == SubSeq(queue[q], 1, nb)
           b  == SubSeq(queue[q], nb + 1, Len(queue[q]))
<1>1. /\ cops = <<>> /\ polled < NbQps[ctx] /\ Len(out) < MaxBurst
      /\ UNCHANGED <<pkts, out, buf>>
      /\ \/ UNCHANGED <<cops, queue>>
         \/ cops' = a /\ queue' = [queue EXCEPT ![q] = b]
  BY DEF Q!PollQp, Q!qpVars
<1>2. /\ queue \in [Q!Qp -> Seq(Mbuf)] /\ last_qp[ctx] \in Nat /\ ctx \in Ctx
      /\ polled \in Nat /\ NbQps[ctx] \in Nat /\ MaxBurst \in Nat
      /\ out \in Seq(Mbuf)
      /\ \A r \in Q!Qp : ready[r] \in Nat /\ ready[r] <= Len(queue[r]) /\ Q!Distinct(queue[r])
      /\ NbQps[ctx] # 0 => last_qp[ctx] < NbQps[ctx]
  BY CryptoNow, Constants
<1>3. q \in Q!Qp
  BY <1>1, <1>2, Constants
<1>4. /\ Elems(a) \cup Elems(b) = Elems(queue[q])
  <2>1. nb \in 0 .. Len(queue[q])
    <3>1. Len(out) \in Nat /\ Len(queue[q]) \in Nat
      BY <1>2, <1>3, ElemsOf
    <3> DEFINE l == Len(out)
               k == Len(queue[q])
    <3>2. l \in Nat /\ k \in Nat /\ l < MaxBurst /\ ready[q] \in Nat /\ ready[q] <= k
      BY <1>1, <1>2, <1>3, <3>1
    <3> HIDE DEF q, l, k
    <3>3. Q!Smaller(ready[q], MaxBurst - l) \in 0 .. k
      BY <3>2, <1>2 DEF Q!Smaller
    <3>4. QED BY <3>3 DEF l, k
  <2>2. queue[q] \in Seq(Mbuf) /\ Q!Distinct(queue[q])
    BY <1>2, <1>3
  <2> HIDE DEF q, nb
  <2>3. Elems(a) = Elems(queue[q]) \ Elems(b) /\ Elems(b) = Elems(queue[q]) \ Elems(a)
    BY <2>1, <2>2, SplitElems
  <2>4. a \in Seq(Mbuf) /\ b \in Seq(Mbuf)
    BY <2>1, <2>2, SplitElems
  <2> HIDE DEF a, b
  <2>5. ASSUME NEW m PROVE m \in Elems(a) \cup Elems(b) <=> m \in Elems(queue[q])
    BY <2>3
  <2>6. QED BY <2>5
<1> HIDE DEF q, a, b, nb
<1>5. /\ Elems(pkts') = Elems(pkts) /\ Elems(out') = Elems(out) /\ Elems(cops) = {}
      /\ \A r \in Q!Qp : buf'[r] = buf[r]
      /\ \A r \in Q!Qp : r # q => queue'[r] = queue[r]
      /\ Elems(cops') \cup Elems(queue'[q]) = Elems(queue[q])
  BY <1>1, <1>2, <1>3, <1>4, EmptyElems
<1>6. GivesUp({})
  <2>1. ASSUME NEW m PROVE m \in Crypted' <=> m \in Crypted
    <3>1. (\E r \in Q!Qp : m \in Elems(buf'[r])) <=> (\E r \in Q!Qp : m \in Elems(buf[r]))
      BY <1>5
    <3>2. m \in Elems(cops') \/ (\E r \in Q!Qp : m \in Elems(queue'[r]))
            <=> m \in Elems(cops) \/ (\E r \in Q!Qp : m \in Elems(queue[r]))
      BY <1>3, <1>5
    <3>3. QED BY <1>5, <3>1, <3>2, CryptedIs, CryptedNext
  <2>2. QED BY <2>1, CryptedInMbuf DEF GivesUp
<1>7. (Mbuf \ Crypted)' = Mbuf \ Crypted
  BY <1>6, PoolSeen
<1>8. P!PollQp
  BY <1>7 DEF Q!PollQp, P!PollQp, Q!NextQp, P!NextQp, Q!Smaller, P!Smaller, Q!qpVars, P!qpVars
<1>9. QED BY <1>6, <1>8

LEMMA PostStep ==
  ASSUME P!Basic, P!MbufHeldOnce, Q!PostAccept \/ Q!PostReject
  PROVE  \E F : /\ GivesUp(F) /\ pool' = pool \cup F
                /\ P!PostAccept \/ P!PostReject
<1>1. /\ cops # <<>>
      /\ cops' = Tail(cops)
      /\ UNCHANGED <<pkts, buf, queue>>
  BY DEF Q!PostAccept, Q!PostReject, Q!qpVars
<1>2. /\ cops \in Seq(Mbuf) /\ Q!Distinct(cops) /\ out \in Seq(Mbuf)
  BY CryptoNow
<1>3. /\ Elems(cops') = Elems(cops) \ {Head(cops)} /\ Head(cops) \in Elems(cops)
      /\ Head(cops) \in Mbuf
  BY <1>1, <1>2, TailElems
<1>4. /\ Head(cops) \notin Elems(pkts) /\ Head(cops) \notin Elems(out)
      /\ \A q \in Q!Qp : Head(cops) \notin Elems(buf[q]) /\ Head(cops) \notin Elems(queue[q])
  BY <1>3, CryptoApart
<1>5. /\ Elems(pkts') = Elems(pkts)
      /\ \A r \in Q!Qp : buf'[r] = buf[r] /\ queue'[r] = queue[r]
  BY <1>1
<1>6. CASE Q!PostAccept
  <2>1. Elems(out') = Elems(out) \cup {Head(cops)}
    BY <1>2, <1>3, <1>6, AppendElems DEF Q!PostAccept
  <2>2. GivesUp({})
    <3>1. ASSUME NEW m PROVE m \in Crypted' <=> m \in Crypted
      BY <1>3, <1>5, <2>1, CryptedIs, CryptedNext
    <3>2. QED BY <3>1, CryptedInMbuf DEF GivesUp
  <2>3. (Mbuf \ Crypted)' = Mbuf \ Crypted
    BY <2>2, PoolSeen
  <2>4. P!PostAccept
    BY <1>6, <2>3 DEF Q!PostAccept, P!PostAccept, Q!qpVars, P!qpVars
  <2>5. pool' = pool \cup {}
    BY <1>6 DEF Q!PostAccept
  <2>6. QED BY <2>2, <2>4, <2>5
<1>7. CASE Q!PostReject
  <2>1. out' = out
    BY <1>7 DEF Q!PostReject
  <2>2. GivesUp({Head(cops)})
    <3>1. ASSUME NEW m PROVE m \in Crypted' <=> m \in Crypted /\ m # Head(cops)
      BY <1>3, <1>4, <1>5, <2>1, CryptedIs, CryptedNext
    <3>2. Head(cops) \in Crypted
      BY <1>3, CryptedIs
    <3>3. QED BY <3>1, <3>2, CryptedInMbuf DEF GivesUp
  <2>3. (Mbuf \ Crypted)' = (Mbuf \ Crypted) \cup {Head(cops)}
    BY <2>2, PoolSeen
  <2>4. P!PostReject
    BY <1>7, <2>3 DEF Q!PostReject, P!PostReject, Q!qpVars, P!qpVars
  <2>5. pool' = pool \cup {Head(cops)}
    BY <1>7 DEF Q!PostReject
  <2>6. QED BY <2>2, <2>4, <2>5
<1>8. QED BY <1>6, <1>7

\* The steps that move no mbuf.
LEMMA StillStep ==
  ASSUME P!Basic, P!MbufHeldOnce,
         \/ Q!EnqueueDone \/ Q!DequeueDone
         \/ \E q \in Q!Qp : Q!DeviceFinish(q)
  PROVE  /\ GivesUp({})
         /\ \/ P!EnqueueDone \/ P!DequeueDone
            \/ \E q \in P!Qp : P!DeviceFinish(q)
<1>1. UNCHANGED <<pkts, cops, out, buf, queue>>
  BY DEF Q!EnqueueDone, Q!DequeueDone, Q!DeviceFinish, Q!qpVars, Q!callVars
<1>2. GivesUp({})
  <2>1. ASSUME NEW m PROVE m \in Crypted' <=> m \in Crypted
    BY <1>1, CryptedIs, CryptedNext
  <2>2. QED BY <2>1, CryptedInMbuf DEF GivesUp
<1>3. (Mbuf \ Crypted)' = Mbuf \ Crypted
  BY <1>2, PoolSeen
<1>4. ASSUME Q!EnqueueDone PROVE P!EnqueueDone
  BY <1>3, <1>4 DEF Q!EnqueueDone, P!EnqueueDone, Q!qpVars, P!qpVars
<1>5. ASSUME Q!DequeueDone PROVE P!DequeueDone
  BY <1>3, <1>5 DEF Q!DequeueDone, P!DequeueDone, Q!qpVars, P!qpVars
<1>6. ASSUME NEW q \in Q!Qp, Q!DeviceFinish(q) PROVE P!DeviceFinish(q)
  BY <1>3, <1>6 DEF Q!DeviceFinish, P!DeviceFinish, Q!callVars, P!callVars
<1>7. QED BY <1>2, <1>4, <1>5, <1>6, Constants

\* The packets of s, none of the crypto path's, are handed to it.
LEMMA CallStep ==
  ASSUME P!Basic, P!MbufHeldOnce, NEW s \in Seq(Mbuf),
         Q!Distinct(s), Len(s) <= MaxBurst, Elems(s) \cap Crypted = {},
         pc = "caller", out = <<>>, side \in Ctx, Enter(s)
  PROVE  /\ \E c \in Ctx, t \in P!Bursts : P!Call(c, t)
         /\ Crypted' = Crypted \cup Elems(s)
<1>1. /\ pkts' = s /\ ctx' = side /\ pc' = "enqueue"
      /\ UNCHANGED <<cops, out, polled, last_qp, buf, in_flight, queue, ready>>
  BY DEF Enter
<1>2. Elems(pkts) = {}
  BY CryptoNow, EmptyElems
<1>3. Crypted' = Crypted \cup Elems(s)
  <2>1. ASSUME NEW m PROVE m \in Crypted' <=> m \in Crypted \/ m \in Elems(s)
    BY <1>1, <1>2, CryptedIs, CryptedNext
  <2>2. QED BY <2>1
<1>4. s \in P!Bursts
  <2>1. Len(s) \in 0 .. MaxBurst /\ s \in [1 .. Len(s) -> Mbuf \ Crypted]
    <3>1. /\ Len(s) \in Nat /\ s \in [1 .. Len(s) -> Mbuf]
      BY LenProperties
    <3>2. \A i \in 1 .. Len(s) : s[i] \in Elems(s)
      BY DEF Elems, Q!Elems
    <3>3. QED BY <3>1, <3>2, Constants
  <2>2. QED BY <2>1 DEF P!Bursts, Q!Distinct, P!Distinct
<1>5. P!Elems(s) = Elems(s)
  BY DEF Elems, Q!Elems, P!Elems
<1>6. P!Call(side, s)
  BY <1>1, <1>3, <1>5 DEF P!Call, P!qpVars
<1>7. QED BY <1>3, <1>4, <1>6

\* The packets of out are handed back.
LEMMA LeaveStep ==
  ASSUME P!Basic, P!MbufHeldOnce, Leave
  PROVE  GivesUp(Elems(out)) /\ (P!Consume \/ UNCHANGED P!vars)
<1>1. /\ pc = "caller" /\ out' = <<>>
      /\ UNCHANGED <<pc, ctx, pkts, cops, polled, last_qp, buf, in_flight, queue, ready>>
  BY DEF Leave
<1>2. /\ Elems(out') = {} /\ Elems(pkts) = {} /\ Elems(cops) = {}
      /\ \A m \in Elems(out) : \A q \in Q!Qp : m \notin Elems(buf[q]) /\ m \notin Elems(queue[q])
  BY <1>1, CryptoNow, CryptoApart, EmptyElems
<1>3. GivesUp(Elems(out))
  <2>1. ASSUME NEW m PROVE m \in Crypted' <=> m \in Crypted /\ m \notin Elems(out)
    BY <1>1, <1>2, CryptedIs, CryptedNext
  <2>2. Elems(out) \subseteq Crypted
    BY CryptedIs
  <2>3. QED BY <2>1, <2>2, CryptedInMbuf DEF GivesUp
<1>4. (Mbuf \ Crypted)' = (Mbuf \ Crypted) \cup P!Elems(out)
  BY <1>3, PoolSeen DEF Elems, Q!Elems, P!Elems
<1>5. CASE out # <<>>
  BY <1>1, <1>3, <1>4, <1>5 DEF P!Consume, P!qpVars
<1>6. CASE out = <<>>
  <2>1. P!Elems(out) = {}
    BY <1>6, EmptyElems DEF Elems, Q!Elems, P!Elems
  <2>2. QED BY <1>1, <1>3, <1>4, <1>6, <2>1 DEF P!vars, P!callVars, P!qpVars
<1>7. QED BY <1>5, <1>6

-----------------------------------------------------------------------------
(***************************************************************************)
(* The steps of the lcore, and where each takes the mbufs.                 *)
(***************************************************************************)

\* The types, spelt out.
LEMMA Types ==
  ASSUME IInv
  PROVE  /\ pool \subseteq Mbuf /\ wire \subseteq Mbuf
         /\ side \in Ctx /\ ctx \in Ctx
         /\ pkts \in Seq(Mbuf) /\ cops \in Seq(Mbuf) /\ out \in Seq(Mbuf)
         /\ ipsec \in Seq(Mbuf) /\ ip \in [Ver -> Seq(Mbuf)]
         /\ ip[4] \in Seq(Mbuf) /\ ip[6] \in Seq(Mbuf)
         /\ tx \in [Port -> Seq(Mbuf)]
         /\ buf \in [Q!Qp -> Seq(Mbuf)] /\ queue \in [Q!Qp -> Seq(Mbuf)]
         /\ ready \in [Q!Qp -> Nat]
         /\ flow \in [Mbuf -> Flow \cup {NoFlow}]
         /\ sealed \in [Mbuf -> BOOLEAN]
         /\ sa \in [Mbuf -> Sa \cup {NoSa}]
  BY DEF IInv, TypeOK, Q!TypeOK, Ver

\* The SA of a packet that is not refused, and its queue pair.
LEMMA Found ==
  ASSUME IInv, FoundSa # NoSa
  PROVE  /\ FoundSa \in Sa /\ FoundSa[1] = ctx
         /\ FoundSa = <<ctx, IF ctx = "in" THEN flow[Head(pkts)].esp
                                          ELSE flow[Head(pkts)].sp>>
         /\ <<ctx, SaQp[FoundSa]>> \in Q!Qp
<1>1. /\ FoundSa \in Sa
      /\ FoundSa = <<ctx, IF ctx = "in" THEN flow[Head(pkts)].esp
                                        ELSE flow[Head(pkts)].sp>>
  BY Types DEF FoundSa, Of, NoSa, Ctx
<1>2. FoundSa[1] = ctx
  BY <1>1
<1>3. SaQp[FoundSa] \in Nat /\ SaQp[FoundSa] < NbQps[ctx]
  BY <1>1, <1>2, IpsecLcoreAssumption
<1>4. QED BY <1>1, <1>2, <1>3, Types, Constants

\* A step of the crypto path: what it gives up is back in the pool.
LEMMA CryptoMoves ==
  ASSUME IInv, Refuse \/ Accept \/ Crypto \/ \E q \in Q!Qp : DeviceFinish(q)
  PROVE  /\ P!Next
         /\ \E F : GivesUp(F) /\ pool' = pool \cup F
         /\ UNCHANGED <<trafficVars, tx, wire>>
<1>0. P!Basic /\ P!MbufHeldOnce
  BY DEF IInv
<1>1. CASE Refuse
  <2>1. Q!EnqueueReject /\ pool' = pool \cup {Head(pkts)}
    BY <1>1 DEF Refuse, Q!EnqueueReject
  <2>2. GivesUp({Head(pkts)}) /\ P!EnqueueReject
    BY <1>0, <2>1, RejectStep
  <2>3. UNCHANGED <<trafficVars, tx, wire>>
    BY <1>1 DEF Refuse
  <2>4. QED BY <2>1, <2>2, <2>3 DEF P!Next, P!Enqueue
<1>2. CASE Accept
  <2> DEFINE q == <<ctx, SaQp[FoundSa]>>
  <2>1. /\ FoundSa # NoSa
        /\ \/ Q!EnqueueBuffer(q)
           \/ \E ret \in 0 .. MaxBurst : Q!EnqueueFlush(q, ret)
        /\ UNCHANGED <<trafficVars, tx, wire>>
    BY <1>2 DEF Accept
  <2>2. q \in Q!Qp
    BY <2>1, Found
  <2> HIDE DEF q
  <2>3. CASE Q!EnqueueBuffer(q)
    <3>1. GivesUp({}) /\ P!EnqueueBuffer(q)
      BY <1>0, <2>2, <2>3, BufferStep
    <3>2. pool' = pool \cup {}
      BY <2>3 DEF Q!EnqueueBuffer
    <3>3. QED BY <2>1, <2>2, <3>1, <3>2, Constants DEF P!Next, P!Enqueue
  <2>4. CASE \E ret \in 0 .. MaxBurst : Q!EnqueueFlush(q, ret)
    <3>1. PICK ret \in 0 .. MaxBurst : Q!EnqueueFlush(q, ret)
      BY <2>4
    <3>2. PICK F : GivesUp(F) /\ P!EnqueueFlush(q, ret) /\ pool' = pool \cup F
      BY <1>0, <2>2, <3>1, FlushStep
    <3>3. P!Next
      BY <2>2, <3>2, Constants DEF P!Next, P!Enqueue
    <3>4. QED BY <2>1, <3>2, <3>3
  <2>5. QED BY <2>1, <2>3, <2>4
<1>3. CASE Crypto
  <2>1. UNCHANGED <<trafficVars, tx, wire>>
    BY <1>3 DEF Crypto
  <2>2. CASE Q!EnqueueDone \/ Q!DequeueDone
    <3>1. GivesUp({}) /\ P!Next
      BY <1>0, <2>2, StillStep DEF P!Next, P!Enqueue, P!Dequeue
    <3>2. pool' = pool \cup {}
      BY <2>2 DEF Q!EnqueueDone, Q!DequeueDone
    <3>3. QED BY <2>1, <3>1, <3>2
  <2>3. CASE Q!PollQp
    <3>1. GivesUp({}) /\ P!Next
      BY <1>0, <2>3, PollStep DEF P!Next, P!Dequeue
    <3>2. pool' = pool \cup {}
      BY <2>3 DEF Q!PollQp
    <3>3. QED BY <2>1, <3>1, <3>2
  <2>4. CASE Q!PostAccept \/ Q!PostReject
    <3>1. PICK F : GivesUp(F) /\ pool' = pool \cup F /\ (P!PostAccept \/ P!PostReject)
      BY <1>0, <2>4, PostStep
    <3>2. P!Next
      BY <3>1 DEF P!Next, P!Dequeue
    <3>3. QED BY <2>1, <3>1, <3>2
  <2>5. QED BY <1>3, <2>2, <2>3, <2>4 DEF Crypto, Q!Dequeue
<1>4. CASE \E q \in Q!Qp : DeviceFinish(q)
  <2>1. \E q \in Q!Qp : Q!DeviceFinish(q)
    BY <1>4 DEF DeviceFinish
  <2>2. pool' = pool \cup {}
    BY <2>1 DEF Q!DeviceFinish
  <2>3. UNCHANGED <<trafficVars, tx, wire>>
    BY <1>4 DEF DeviceFinish
  <2>4. /\ GivesUp({})
        /\ \/ P!EnqueueDone \/ P!DequeueDone
           \/ \E q \in P!Qp : P!DeviceFinish(q)
    BY <1>0, <2>1, StillStep, Zenon
  <2>5. P!Next
    BY <2>4, Zenon DEF P!Next, P!Enqueue, P!Dequeue
  <2>6. QED BY <2>2, <2>3, <2>4, <2>5
<1>5. QED BY <1>1, <1>2, <1>3, <1>4

\* What one step must keep of the places of the mbufs.
Kept1 == [P!Next]_(P!vars) /\ Control' /\ Bounds' /\ Placed'

LEMMA CryptoPlaces ==
  ASSUME IInv, Refuse \/ Accept \/ Crypto \/ \E q \in Q!Qp : DeviceFinish(q)
  PROVE  Kept1
<1>1. /\ P!Next
      /\ \E F : GivesUp(F) /\ pool' = pool \cup F
      /\ UNCHANGED <<trafficVars, tx, wire>>
  BY CryptoMoves
<1>2. UNCHANGED <<side, stage, ipsec, ip, tx, wire>>
  BY <1>1 DEF trafficVars
<1>3. PICK F : F \subseteq Crypted /\ Crypted' = Crypted \ F /\ pool' = pool \cup F
  BY <1>1 DEF GivesUp
<1>4. P!Basic /\ P!Basic'
  BY <1>1, Constants, P!NextBasic DEF IInv
<1>5. stage = "crypto" \/ (pc' = pc /\ out' = out /\ pkts' = pkts)
  <2>1. pc # "caller" => stage = "crypto"
    BY DEF IInv, Control
  <2>2. ASSUME Refuse \/ Accept \/ Crypto PROVE pc # "caller"
    <3>1. CASE Refuse
      BY <3>1 DEF Refuse, Q!EnqueueReject
    <3>2. CASE Accept
      BY <3>2 DEF Accept
    <3>3. CASE Crypto
      <4>1. cops # <<>> => pc = "dequeue"
        BY CryptoNow DEF IInv
      <4>2. \/ Q!EnqueueDone \/ Q!PollQp \/ Q!PostAccept \/ Q!PostReject \/ Q!DequeueDone
        BY <3>3 DEF Crypto, Q!Dequeue
      <4>3. QED
        BY <4>1, <4>2 DEF Q!EnqueueDone, Q!PollQp, Q!PostAccept, Q!PostReject, Q!DequeueDone
    <3>4. QED BY <2>2, <3>1, <3>2, <3>3
  <2>3. ASSUME NEW q \in Q!Qp, DeviceFinish(q) PROVE pc' = pc /\ out' = out /\ pkts' = pkts
    BY <2>3 DEF DeviceFinish, Q!DeviceFinish, Q!callVars
  <2>4. QED BY <2>1, <2>2, <2>3
<1>6. Control'
  BY <1>2, <1>5 DEF IInv, Control
<1>7. Bounds'
  <2>1. Len(pkts') <= MaxBurst
    <3>1. pkts' = pkts \/ (pkts # <<>> /\ pkts' = Tail(pkts))
      <4>1. CASE Refuse
        BY <4>1 DEF Refuse, Q!EnqueueReject
      <4>2. CASE Accept
        BY <4>2 DEF Accept, Q!EnqueueBuffer, Q!EnqueueFlush
      <4>3. CASE Crypto
        BY <4>3 DEF Crypto, Q!Dequeue, Q!EnqueueDone, Q!PollQp, Q!PostAccept,
                    Q!PostReject, Q!DequeueDone
      <4>4. CASE \E q \in Q!Qp : DeviceFinish(q)
        BY <4>4 DEF DeviceFinish, Q!DeviceFinish, Q!callVars
      <4>5. QED BY <4>1, <4>2, <4>3, <4>4
    <3>2. Len(pkts) <= MaxBurst /\ Len(pkts) \in Nat /\ MaxBurst \in Nat
      BY Types, ElemsOf, Constants DEF IInv, Bounds, TrafficBounded
    <3>3. pkts # <<>> => Len(Tail(pkts)) = Len(pkts) - 1
      BY Types, TailElems
    <3> DEFINE l == Len(pkts)
    <3>4. l <= MaxBurst /\ l \in Nat /\ (Len(pkts') = l \/ Len(pkts') = l - 1)
      BY <3>1, <3>2, <3>3
    <3> HIDE DEF l
    <3>5. QED BY <3>2, <3>4
  <2>2. QED BY <1>2, <2>1 DEF IInv, Bounds, TrafficBounded
<1>8. Placed'
  <2>1. Sending' = Sending
    BY <1>2 DEF Sending
  <2>2. Once(pool', wire', Crypted', Elems(ipsec'), Elems(ip'[4]), Elems(ip'[6]), Sending')
    BY <1>2, <1>3, <2>1 DEF IInv, Placed, Once
  <2>3. QED BY <1>2, <2>2 DEF IInv, Placed
<1>9. QED BY <1>1, <1>6, <1>7, <1>8 DEF Kept1

\* What a burst from a port consists of.
LEMMA Arrivals ==
  ASSUME IInv, NEW s \in Q!Bursts, NEW f \in [DOMAIN s -> Flow]
  PROVE  /\ s \in Seq(Mbuf) /\ Q!Distinct(s) /\ Len(s) <= MaxBurst /\ Elems(s) \subseteq pool
         /\ \A m \in Elems(s) : (CHOOSE i \in DOMAIN s : s[i] = m) \in DOMAIN s
<1>1. PICK n \in 0 .. MaxBurst : s \in [1 .. n -> pool]
  BY DEF Q!Bursts
<1>2. n \in Nat /\ n <= MaxBurst /\ s \in [1 .. n -> Mbuf]
  BY <1>1, Types, Constants
<1>3. s \in Seq(Mbuf) /\ Len(s) = n /\ DOMAIN s = 1 .. n
  BY <1>2
<1>4. Elems(s) \subseteq pool
  BY <1>1, <1>3 DEF Elems, Q!Elems
<1>5. ASSUME NEW m \in Elems(s) PROVE (CHOOSE i \in DOMAIN s : s[i] = m) \in DOMAIN s
  BY <1>3 DEF Elems, Q!Elems
<1>6. QED BY <1>2, <1>3, <1>4, <1>5 DEF Q!Bursts

LEMMA ReceivePlaces ==
  ASSUME IInv, NEW d \in Ctx, NEW s \in Q!Bursts, NEW f \in [DOMAIN s -> Flow],
         Receive(d, s, f)
  PROVE  Kept1
<1> DEFINE arrived == [m \in Mbuf |-> IF m \in Elems(s)
                         THEN f[CHOOSE i \in DOMAIN s : s[i] = m] ELSE flow[m]]
           IsEsp == {m \in Mbuf : arrived[m].esp # 0}
           Is(v) == {m \in Mbuf : arrived[m].esp = 0 /\ arrived[m].v = v}
<1>1. /\ stage = "idle" /\ stage' = "sorted"
      /\ pool' = pool \ Elems(s)
      /\ ipsec' = Keep(s, IsEsp)
      /\ ip' = [v \in Ver |-> Keep(s, Is(v))]
      /\ UNCHANGED <<cryptoVars, tx, wire>>
  BY DEF Receive
<1>2. s \in Seq(Mbuf) /\ Q!Distinct(s) /\ Len(s) <= MaxBurst /\ Elems(s) \subseteq pool
  BY Arrivals
<1>3. \A m \in Elems(s) : m \in Mbuf /\ (arrived[m].v = 4 \/ arrived[m].v = 6)
  <2>1. ASSUME NEW m \in Elems(s) PROVE arrived[m] \in FlowType /\ m \in Mbuf
    <3>1. m \in Mbuf /\ (CHOOSE i \in DOMAIN s : s[i] = m) \in DOMAIN s
      BY <1>2, Arrivals, Types
    <3>2. QED BY <3>1, IpsecLcoreAssumption
  <2>2. QED BY <2>1 DEF FlowType, Ver
<1>4. Is(4) \cap Is(6) = {} /\ IsEsp \cap Is(4) = {} /\ IsEsp \cap Is(6) = {}
      /\ Elems(s) \subseteq IsEsp \cup Is(4) \cup Is(6)
  <2> HIDE DEF arrived
  <2>1. \A m \in Elems(s) : m \in IsEsp \/ m \in Is(4) \/ m \in Is(6)
    BY <1>3
  <2>2. QED BY <2>1
<1> HIDE DEF IsEsp, Is
<1>5. /\ ip'[4] = Keep(s, Is(4)) /\ ip'[6] = Keep(s, Is(6))
  BY <1>1 DEF Ver
<1>6. UNCHANGED <<pc, pkts, cops, out, buf, queue, last_qp, polled, in_flight, ready, ctx>>
  BY <1>1 DEF cryptoVars
<1>7. ipsec = <<>> /\ ip[4] = <<>> /\ ip[6] = <<>> /\ pc = "caller" /\ out = <<>>
  BY <1>1 DEF IInv, Control
<1>8. /\ Elems(ipsec') = Elems(s) \cap IsEsp /\ Q!Distinct(ipsec') /\ Len(ipsec') <= Len(s)
      /\ Elems(ip'[4]) = Elems(s) \cap Is(4) /\ Q!Distinct(ip'[4]) /\ ip'[4] \in Seq(Mbuf)
      /\ Elems(ip'[6]) = Elems(s) \cap Is(6) /\ Q!Distinct(ip'[6]) /\ ip'[6] \in Seq(Mbuf)
      /\ ipsec' \in Seq(Mbuf)
  <2>1. \A S : /\ Keep(s, S) \in Seq(Mbuf) /\ Len(Keep(s, S)) <= Len(s)
               /\ Elems(Keep(s, S)) = Elems(s) \cap S
               /\ Q!Distinct(Keep(s, S))
    BY <1>2, KeepElems
  <2> HIDE DEF arrived
  <2>2. QED BY <1>1, <1>5, <2>1
<1>9. Len(ip'[4]) + Len(ip'[6]) <= Len(s)
  BY <1>2, <1>4, <1>5, KeepTwo
<1>10. Control'
  BY <1>1, <1>6, <1>7 DEF Control
<1>11. Bounds'
  <2>1. /\ Len(s) \in Nat /\ Len(ip'[4]) \in Nat /\ Len(ip'[6]) \in Nat
        /\ Len(ipsec') \in Nat /\ MaxBurst \in Nat
    BY <1>2, <1>8, ElemsOf, Constants
  <2> DEFINE a == Len(s)
             b == Len(ip'[4])
             c == Len(ip'[6])
             e == Len(ipsec')
  <2>2. /\ a \in Nat /\ b \in Nat /\ c \in Nat /\ e \in Nat /\ a <= MaxBurst
        /\ b + c <= a /\ e <= a
    BY <2>1, <1>2, <1>8, <1>9
  <2> HIDE DEF a, b, c, e
  <2>3. b <= 2 * MaxBurst /\ c <= 2 * MaxBurst /\ e <= MaxBurst /\ b + c <= MaxBurst
    BY <2>1, <2>2
  <2>4. /\ \A v \in Ver : Len(ip'[v]) <= 2 * MaxBurst
        /\ Len(ipsec') <= MaxBurst /\ Len(ip'[4]) + Len(ip'[6]) <= MaxBurst
    BY <2>3 DEF Ver, a, b, c, e
  <2>5. Len(pkts') <= MaxBurst /\ \A p \in Port : Len(tx'[p]) < MaxBurst
    BY <1>1, <1>6 DEF IInv, Bounds, TrafficBounded
  <2>6. QED BY <2>4, <2>5 DEF Bounds, TrafficBounded
<1>12. Crypted' = Crypted
  BY <1>6 DEF Crypted
<1>13. Placed'
  <2>1. Sending' = Sending /\ wire' = wire
    BY <1>1 DEF Sending
  <2>2. Elems(ipsec) = {} /\ Elems(ip[4]) = {} /\ Elems(ip[6]) = {}
    BY <1>7, EmptyElems
  <2>3. Once(pool', wire', Crypted', Elems(ipsec'), Elems(ip'[4]), Elems(ip'[6]), Sending')
    BY <1>1, <1>2, <1>4, <1>8, <1>12, <2>1, <2>2 DEF IInv, Placed, Once
  <2>4. QED BY <1>1, <1>8, <2>3 DEF IInv, Placed
<1>14. UNCHANGED P!vars
  BY <1>6, <1>12 DEF P!vars, P!callVars, P!qpVars
<1>15. QED BY <1>10, <1>11, <1>13, <1>14 DEF Kept1

LEMMA CallInboundPlaces ==
  ASSUME IInv, CallInbound
  PROVE  Kept1
<1>1. /\ stage = "sorted" /\ stage' = "crypto" /\ Enter(ipsec)
      /\ pkts' = ipsec /\ ipsec' = <<>>
      /\ UNCHANGED <<pool, side, ip, tx, wire, out>>
  BY DEF CallInbound, Enter
<1>2. pc = "caller" /\ out = <<>>
  BY <1>1 DEF IInv, Control
<1>3. Elems(ipsec) \cap Crypted = {}
  BY Types, ElemsOf DEF IInv, Placed, Once
<1>4. /\ \E c \in Ctx, t \in P!Bursts : P!Call(c, t)
      /\ Crypted' = Crypted \cup Elems(ipsec)
  <2>1. /\ ipsec \in Seq(Mbuf) /\ Q!Distinct(ipsec) /\ Len(ipsec) <= MaxBurst
        /\ side \in Ctx /\ P!Basic /\ P!MbufHeldOnce
    BY Types DEF IInv, Placed, Bounds, TrafficBounded
  <2>2. QED BY <1>1, <1>2, <1>3, <2>1, CallStep
<1>5. P!Next
  BY <1>4 DEF P!Next
<1>6. Control'
  BY <1>1, <1>2 DEF Control
<1>7. Bounds'
  <2>1. Len(ipsec') <= MaxBurst
    BY <1>1, EmptyElems, Constants
  <2>2. QED BY <1>1, <2>1 DEF IInv, Bounds, TrafficBounded
<1>8. Placed'
  <2>1. Sending' = Sending
    BY <1>1 DEF Sending
  <2>2. Elems(ipsec') = {} /\ Q!Distinct(ipsec')
    BY <1>1, EmptyElems
  <2>3. Once(pool', wire', Crypted', Elems(ipsec'), Elems(ip'[4]), Elems(ip'[6]), Sending')
    BY <1>1, <1>4, <2>1, <2>2 DEF IInv, Placed, Once
  <2>4. QED BY <1>1, <2>2, <2>3 DEF IInv, Placed
<1>9. QED BY <1>5, <1>6, <1>7, <1>8 DEF Kept1

\* outbound_sp does one thing with a packet.
LEMMA OneVerdict ==
  ASSUME NEW m
  PROVE  /\ Refused(m) \/ Protected(m) \/ Cleared(m)
         /\ Refused(m) => ~ Protected(m)
         /\ Cleared(m) => ~ Refused(m) /\ ~ Protected(m)
  BY DEF Refused, Protected, Cleared, Discard

LEMMA CallOutboundPlaces ==
  ASSUME IInv, CallOutbound
  PROVE  Kept1
<1> DEFINE C == {m \in Mbuf : Cleared(m)}
           S == {m \in Mbuf : Protected(m)}
           R == {m \in Elems(ip[4] \o ip[6]) : Refused(m)}
           both == ip[4] \o ip[6]
           s == Keep(both, S)
<1>1. /\ stage = "sorted" /\ stage' = "crypto" /\ Enter(s)
      /\ pkts' = s /\ ipsec' = <<>>
      /\ ip' = [v \in Ver |-> Keep(ip[v], C)]
      /\ pool' = pool \cup Elems(ipsec) \cup R
      /\ UNCHANGED <<side, tx, wire, out>>
  BY DEF CallOutbound, Enter
<1>2. pc = "caller" /\ out = <<>>
  BY <1>1 DEF IInv, Control
<1>3. /\ ip[4] \in Seq(Mbuf) /\ ip[6] \in Seq(Mbuf)
      /\ Q!Distinct(ip[4]) /\ Q!Distinct(ip[6])
      /\ Elems(ip[4]) \cap Elems(ip[6]) = {}
      /\ Elems(ip[4]) \subseteq Mbuf /\ Elems(ip[6]) \subseteq Mbuf
  BY Types, ElemsOf, SMTT(20) DEF IInv, Placed, Once
<1>4. /\ both \in Seq(Mbuf) /\ Q!Distinct(both)
      /\ Elems(both) = Elems(ip[4]) \cup Elems(ip[6])
      /\ Len(both) = Len(ip[4]) + Len(ip[6])
  BY <1>3, ConcatElems
<1>5. R = {m \in Elems(ip[4]) \cup Elems(ip[6]) : Refused(m)}
  BY <1>4
<1> HIDE DEF both, R
<1>6. /\ s \in Seq(Mbuf) /\ Q!Distinct(s) /\ Len(s) <= Len(both)
      /\ Elems(s) = (Elems(ip[4]) \cup Elems(ip[6])) \cap S
  BY <1>4, KeepElems, ZenonT(40)
<1>7. /\ ip'[4] = Keep(ip[4], C) /\ ip'[6] = Keep(ip[6], C)
  BY <1>1 DEF Ver
<1> HIDE DEF C, S, s
<1>8. /\ Elems(ip'[4]) = Elems(ip[4]) \cap C /\ Q!Distinct(ip'[4]) /\ ip'[4] \in Seq(Mbuf)
      /\ Len(ip'[4]) <= Len(ip[4])
      /\ Elems(ip'[6]) = Elems(ip[6]) \cap C /\ Q!Distinct(ip'[6]) /\ ip'[6] \in Seq(Mbuf)
      /\ Len(ip'[6]) <= Len(ip[6])
  BY <1>3, <1>7, KeepElems
<1>9. /\ Len(ip[4]) + Len(ip[6]) <= MaxBurst /\ MaxBurst \in Nat
      /\ Len(s) <= MaxBurst
  <2>1. Len(ip[4]) + Len(ip[6]) <= MaxBurst /\ MaxBurst \in Nat
    BY <1>1, Constants DEF IInv, Bounds
  <2>2. Len(s) \in Nat /\ Len(both) \in Nat
    BY <1>4, <1>6, ElemsOf
  <2>3. Len(both) <= MaxBurst
    BY <1>4, <2>1
  <2> DEFINE k == Len(s)
             n == Len(both)
  <2>4. k \in Nat /\ n \in Nat /\ k <= n /\ n <= MaxBurst
    BY <1>6, <2>2, <2>3
  <2> HIDE DEF k, n
  <2>5. k <= MaxBurst
    BY <2>1, <2>4
  <2>6. QED BY <2>1, <2>5 DEF k
<1>10. Elems(s) \cap Crypted = {}
  BY <1>3, <1>6 DEF IInv, Placed, Once
<1>11. /\ \E c \in Ctx, t \in P!Bursts : P!Call(c, t)
       /\ Crypted' = Crypted \cup Elems(s)
  <2>1. side \in Ctx /\ P!Basic /\ P!MbufHeldOnce
    BY Types DEF IInv
  <2>2. QED BY <1>1, <1>2, <1>6, <1>9, <1>10, <2>1, CallStep
<1>12. P!Next
  BY <1>11 DEF P!Next
<1>13. Control'
  BY <1>1, <1>2 DEF Control
<1>14. Bounds'
  <2>1. Len(ipsec') <= MaxBurst /\ Len(pkts') <= MaxBurst
    BY <1>1, <1>9, EmptyElems, Constants
  <2>2. /\ Len(ip'[4]) <= 2 * MaxBurst /\ Len(ip'[6]) <= 2 * MaxBurst
        /\ Len(ip'[4]) + Len(ip'[6]) <= MaxBurst
    <3> DEFINE a == Len(ip[4])
               b == Len(ip[6])
               c == Len(ip'[4])
               d == Len(ip'[6])
    <3>1. /\ a \in Nat /\ b \in Nat /\ c \in Nat /\ d \in Nat /\ MaxBurst \in Nat
          /\ c <= a /\ d <= b /\ a + b <= MaxBurst
      BY <1>3, <1>8, <1>9, ElemsOf, ZenonT(40)
    <3> HIDE DEF a, b, c, d
    <3>2. c <= 2 * MaxBurst /\ d <= 2 * MaxBurst /\ c + d <= MaxBurst
      BY <3>1
    <3>3. QED BY <3>2 DEF c, d
  <2>3. \A p \in Port : Len(tx'[p]) < MaxBurst
    BY <1>1 DEF IInv, Bounds, TrafficBounded
  <2>4. QED BY <2>1, <2>2, <2>3 DEF Bounds, TrafficBounded, Ver
<1>15. Placed'
  <2>1. Sending' = Sending
    BY <1>1 DEF Sending
  <2>2. Elems(ipsec') = {} /\ Q!Distinct(ipsec')
    BY <1>1, EmptyElems
  <2>3. ASSUME NEW m \in Elems(ip[4]) \cup Elems(ip[6])
        PROVE  /\ m \in R \/ m \in S \/ m \in C
               /\ m \in R => m \notin S /\ m \notin C
               /\ m \in S => m \notin C
    BY <1>3, <1>5, OneVerdict DEF C, S
  <2>4. R \subseteq Elems(ip[4]) \cup Elems(ip[6])
    BY <1>5
  <2>5. Once(pool', wire', Crypted', Elems(ipsec'), Elems(ip'[4]), Elems(ip'[6]), Sending')
    <3>1. Once(pool \cup Elems(ipsec) \cup R, wire, Crypted \cup Elems(s), {},
               Elems(ip[4]) \cap C, Elems(ip[6]) \cap C, Sending)
      BY <1>6, <2>3, <2>4 DEF IInv, Placed, Once
    <3>2. QED BY <1>1, <1>8, <1>11, <2>1, <2>2, <3>1
  <2>6. QED BY <1>1, <1>8, <2>2, <2>5 DEF IInv, Placed
<1>16. QED BY <1>12, <1>13, <1>14, <1>15 DEF Kept1

\* What both directions do with the packets that came out.
LEMMA LeavePlaces ==
  ASSUME IInv, Leave,
         ip' \in [Ver -> Seq(Mbuf)], Q!Distinct(ip'[4]), Q!Distinct(ip'[6]),
         \A v \in Ver : Len(ip'[v]) <= Len(ip[v]) + Len(out),
         Once(pool', wire, Crypted \ Elems(out), {},
              Elems(ip'[4]), Elems(ip'[6]), Sending)
  PROVE  Kept1
<1>1. /\ stage = "crypto" /\ stage' = "route" /\ pc = "caller" /\ pc' = "caller"
      /\ out' = <<>>
      /\ UNCHANGED <<pkts, cops, side, ipsec, tx, wire>>
  BY DEF Leave
<1>2. ipsec = <<>>
  BY <1>1 DEF IInv, Control
<1>3. /\ GivesUp(Elems(out)) /\ [P!Next]_(P!vars)
  BY LeaveStep DEF IInv, P!Next
<1>4. Control'
  BY <1>1, <1>2 DEF Control
<1>5. Bounds'
  <2>1. ASSUME NEW v \in Ver PROVE Len(ip'[v]) <= 2 * MaxBurst
    <3>1. /\ Len(ip[4]) \in Nat /\ Len(ip[6]) \in Nat /\ Len(ip'[v]) \in Nat
          /\ Len(out) \in Nat /\ Len(cops) \in Nat /\ MaxBurst \in Nat
      BY Types, ElemsOf, Constants
    <3>2. Len(ip[4]) + Len(ip[6]) <= MaxBurst /\ Len(out) + Len(cops) <= MaxBurst
      BY <1>1, CryptoNow DEF IInv, Bounds
    <3>3. Len(ip[v]) \in Nat /\ (Len(ip[v]) = Len(ip[4]) \/ Len(ip[v]) = Len(ip[6]))
          /\ Len(ip'[v]) <= Len(ip[v]) + Len(out)
      BY <3>1 DEF Ver
    <3> DEFINE a == Len(ip[4])
               b == Len(ip[6])
               c == Len(out)
               d == Len(cops)
               e == Len(ip[v])
               f == Len(ip'[v])
    <3>4. /\ a \in Nat /\ b \in Nat /\ c \in Nat /\ d \in Nat /\ e \in Nat /\ f \in Nat
          /\ a + b <= MaxBurst /\ c + d <= MaxBurst /\ (e = a \/ e = b) /\ f <= e + c
      BY <3>1, <3>2, <3>3
    <3> HIDE DEF a, b, c, d, e, f
    <3>5. f <= 2 * MaxBurst
      BY <3>1, <3>4
    <3>6. QED BY <3>5 DEF f
  <2>2. /\ Len(ipsec') <= MaxBurst /\ Len(pkts') <= MaxBurst
        /\ \A p \in Port : Len(tx'[p]) < MaxBurst
    BY <1>1 DEF IInv, Bounds, TrafficBounded
  <2>3. QED BY <1>1, <2>1, <2>2 DEF Bounds, TrafficBounded
<1>6. Placed'
  <2>1. Sending' = Sending
    BY <1>1 DEF Sending
  <2>2. Elems(ipsec') = {} /\ Q!Distinct(ipsec')
    BY <1>1, <1>2, EmptyElems
  <2>3. Crypted' = Crypted \ Elems(out)
    BY <1>3 DEF GivesUp
  <2>4. QED BY <1>1, <2>1, <2>2, <2>3 DEF IInv, Placed
<1>7. QED BY <1>3, <1>4, <1>5, <1>6 DEF Kept1

\* The packets that came out are the crypto path's, and none of the others.
LEMMA OutApart ==
  ASSUME IInv
  PROVE  /\ Elems(out) \subseteq Crypted /\ Elems(out) \subseteq Mbuf
         /\ Elems(ip[4]) \subseteq Mbuf /\ Elems(ip[6]) \subseteq Mbuf
         /\ Elems(ip[4]) \cap Elems(ip[6]) = {}
         /\ \A v \in Ver : Elems(ip[v]) \cap Elems(out) = {}
         /\ Q!Distinct(out) /\ \A v \in Ver : Q!Distinct(ip[v])
<1>1. Elems(out) \subseteq Crypted
  BY CryptedIs
<1>2. Elems(out) \subseteq Mbuf /\ Elems(ip[4]) \subseteq Mbuf /\ Elems(ip[6]) \subseteq Mbuf
  BY Types, ElemsOf
<1>3. QED BY <1>1, <1>2, CryptoNow DEF IInv, Placed, Once, Ver

LEMMA ReturnInboundPlaces ==
  ASSUME IInv, ReturnInbound
  PROVE  Kept1
<1> DEFINE PF == {m \in Mbuf : Passes(m, FALSE)}
           PT == {m \in Mbuf : Passes(m, TRUE)}
           V(v) == {m \in Mbuf : Version(m) = v}
           a(v) == Keep(ip[v], PF)
           b(v) == Keep(Keep(out, V(v)), PT)
           kept(v) == a(v) \o b(v)
           all == (ip[4] \o ip[6]) \o out
           O == Elems(out)
<1>1. /\ Leave
      /\ ip' = [v \in Ver |-> kept(v)]
      /\ pool' = pool \cup (Elems(all) \ Elems(kept(4) \o kept(6)))
  BY DEF ReturnInbound, OfVersion
<1>2. V(4) \cap V(6) = {}
  OBVIOUS
<1> HIDE DEF PF, PT, V
<1>3. ASSUME NEW v \in Ver
      PROVE  /\ kept(v) \in Seq(Mbuf) /\ Q!Distinct(kept(v))
             /\ Len(kept(v)) <= Len(ip[v]) + Len(out)
             /\ Elems(kept(v)) = (Elems(ip[v]) \cap PF) \cup (O \cap V(v) \cap PT)
  <2>1. /\ ip[v] \in Seq(Mbuf) /\ out \in Seq(Mbuf)
        /\ Q!Distinct(ip[v]) /\ Q!Distinct(out)
        /\ Elems(ip[v]) \cap Elems(out) = {}
    BY Types, OutApart
  <2>2. /\ a(v) \in Seq(Mbuf) /\ Q!Distinct(a(v)) /\ Len(a(v)) <= Len(ip[v])
        /\ Elems(a(v)) = Elems(ip[v]) \cap PF
    BY <2>1, KeepElems
  <2>3. /\ Keep(out, V(v)) \in Seq(Mbuf) /\ Q!Distinct(Keep(out, V(v)))
        /\ Len(Keep(out, V(v))) <= Len(out)
        /\ Elems(Keep(out, V(v))) = O \cap V(v)
    BY <2>1, KeepElems
  <2>4. /\ b(v) \in Seq(Mbuf) /\ Q!Distinct(b(v))
        /\ Len(b(v)) <= Len(Keep(out, V(v)))
        /\ Elems(b(v)) = O \cap V(v) \cap PT
    BY <2>3, KeepElems
  <2>5. /\ Len(a(v)) \in Nat /\ Len(b(v)) \in Nat /\ Len(ip[v]) \in Nat /\ Len(out) \in Nat
        /\ Len(Keep(out, V(v))) \in Nat
    BY <2>1, <2>2, <2>3, <2>4, ElemsOf
  <2>6. Elems(a(v)) \cap Elems(b(v)) = {}
    BY <2>1, <2>2, <2>4
  <2> HIDE DEF a, b
  <2>7. /\ kept(v) \in Seq(Mbuf) /\ Q!Distinct(kept(v))
        /\ Len(kept(v)) = Len(a(v)) + Len(b(v))
        /\ Elems(kept(v)) = Elems(a(v)) \cup Elems(b(v))
    BY <2>2, <2>4, <2>6, ConcatElems
  <2>8. Len(a(v)) + Len(b(v)) <= Len(ip[v]) + Len(out)
    <3> DEFINE i == Len(a(v))
               j == Len(b(v))
               k == Len(ip[v])
               l == Len(out)
               n == Len(Keep(out, V(v)))
    <3>1. i \in Nat /\ j \in Nat /\ k \in Nat /\ l \in Nat /\ n \in Nat
          /\ i <= k /\ j <= n /\ n <= l
      BY <2>2, <2>3, <2>4, <2>5
    <3> HIDE DEF i, j, k, l, n
    <3>2. i + j <= k + l
      BY <3>1
    <3>3. QED BY <3>2 DEF i, j, k, l
  <2>9. QED BY <2>2, <2>4, <2>7, <2>8
<1> HIDE DEF kept
<1>4. /\ ip'[4] = kept(4) /\ ip'[6] = kept(6) /\ ip' \in [Ver -> Seq(Mbuf)]
      /\ 4 \in Ver /\ 6 \in Ver
      /\ \A v \in Ver : Len(ip'[v]) <= Len(ip[v]) + Len(out)
  BY <1>1, <1>3 DEF Ver
<1>5. Elems(all) = Elems(ip[4]) \cup Elems(ip[6]) \cup O
  <2> DEFINE c == ip[4] \o ip[6]
  <2>1. c \in Seq(Mbuf) /\ Elems(c) = Elems(ip[4]) \cup Elems(ip[6])
    BY Types, ConcatElems
  <2>2. out \in Seq(Mbuf) /\ all = c \o out
    BY Types
  <2> HIDE DEF c, all
  <2>3. Elems(c \o out) = Elems(c) \cup O
    BY <2>1, <2>2, ConcatElems
  <2>4. QED BY <2>1, <2>2, <2>3
<1>6. Elems(kept(4) \o kept(6)) = Elems(kept(4)) \cup Elems(kept(6))
  BY <1>3, <1>4, ConcatElems
<1> HIDE DEF all, O
<1>7. Once(pool', wire, Crypted \ O, {}, Elems(ip'[4]), Elems(ip'[6]), Sending)
  <2>1. ipsec = <<>>
    BY <1>1 DEF IInv, Control, Leave
  <2>2. Elems(ipsec) = {}
    BY <2>1, EmptyElems
  <2>3. O \subseteq Crypted
    BY OutApart DEF O
  <2>4. Once(pool, wire, Crypted, {}, Elems(ip[4]), Elems(ip[6]), Sending)
    BY <2>2 DEF IInv, Placed
  <2> DEFINE E4 == (Elems(ip[4]) \cap PF) \cup (O \cap V(4) \cap PT)
             E6 == (Elems(ip[6]) \cap PF) \cup (O \cap V(6) \cap PT)
  <2>5. /\ Elems(ip'[4]) = E4 /\ Elems(ip'[6]) = E6
        /\ pool' = pool \cup ((Elems(ip[4]) \cup Elems(ip[6]) \cup O) \ (E4 \cup E6))
    BY <1>1, <1>3, <1>4, <1>5, <1>6
  <2>6. Once(pool \cup ((Elems(ip[4]) \cup Elems(ip[6]) \cup O) \ (E4 \cup E6)),
             wire, Crypted \ O, {}, E4, E6, Sending)
    BY <1>2, <2>3, <2>4 DEF Once
  <2>7. QED BY <2>5, <2>6
<1>8. QED BY <1>1, <1>3, <1>4, <1>7, LeavePlaces DEF O

\* A packet that came out of the outbound crypto path has an SA, and its
\* outer header is of one of the two versions.
LEMMA OutVersion ==
  ASSUME IInv, NEW m \in Elems(out)
  PROVE  Version(m) \in Ver
<1>1. Prepared(m, ctx, TRUE) /\ m \in Mbuf
  BY Types, ElemsOf DEF IInv, Kinds, InCrypto
<1>2. SaTunnel[sa[m]] \in {0} \cup Ver
  BY <1>1, IpsecLcoreAssumption DEF Prepared
<1>3. flow[m].v \in Ver
  <2>1. flow[m] \in FlowType \cup {NoFlow}
    BY <1>1, Types, IpsecLcoreAssumption
  <2>2. QED BY <2>1 DEF FlowType, NoFlow, Ver
<1>4. QED BY <1>2, <1>3 DEF Version

LEMMA ReturnOutboundPlaces ==
  ASSUME IInv, ReturnOutbound
  PROVE  Kept1
<1> DEFINE V(v) == {m \in Mbuf : Version(m) = v}
           O == Elems(out)
           kept(v) == ip[v] \o Keep(out, V(v))
<1>1. /\ Leave
      /\ ip' = [v \in Ver |-> kept(v)]
      /\ pool' = pool
  BY DEF ReturnOutbound, OfVersion
<1>2. V(4) \cap V(6) = {} /\ O \subseteq V(4) \cup V(6)
  BY OutVersion, OutApart DEF Ver
<1> HIDE DEF V
<1>3. ASSUME NEW v \in Ver
      PROVE  /\ kept(v) \in Seq(Mbuf) /\ Q!Distinct(kept(v))
             /\ Len(kept(v)) <= Len(ip[v]) + Len(out)
             /\ Elems(kept(v)) = Elems(ip[v]) \cup (O \cap V(v))
  <2> DEFINE k == Keep(out, V(v))
  <2>1. /\ ip[v] \in Seq(Mbuf) /\ out \in Seq(Mbuf)
        /\ Q!Distinct(ip[v]) /\ Q!Distinct(out)
        /\ Elems(ip[v]) \cap Elems(out) = {}
    BY Types, OutApart
  <2>2. /\ k \in Seq(Mbuf) /\ Q!Distinct(k) /\ Len(k) <= Len(out) /\ Elems(k) = O \cap V(v)
    BY <2>1, KeepElems
  <2> HIDE DEF k
  <2>3. Elems(ip[v]) \cap Elems(k) = {}
    BY <2>1, <2>2
  <2>4. /\ ip[v] \o k \in Seq(Mbuf) /\ Q!Distinct(ip[v] \o k)
        /\ Len(ip[v] \o k) = Len(ip[v]) + Len(k)
        /\ Elems(ip[v] \o k) = Elems(ip[v]) \cup Elems(k)
    BY <2>1, <2>2, <2>3, ConcatElems
  <2>5. Len(ip[v]) + Len(k) <= Len(ip[v]) + Len(out)
    <3>1. Len(ip[v]) \in Nat /\ Len(k) \in Nat /\ Len(out) \in Nat
      BY <2>1, <2>2, ElemsOf
    <3> DEFINE i == Len(ip[v])
               j == Len(k)
               l == Len(out)
    <3>2. i \in Nat /\ j \in Nat /\ l \in Nat /\ j <= l
      BY <2>2, <3>1
    <3> HIDE DEF i, j, l
    <3>3. i + j <= i + l
      BY <3>2
    <3>4. QED BY <3>3 DEF i, j, l
  <2>6. QED BY <2>2, <2>4, <2>5 DEF k
<1> HIDE DEF kept
<1>4. /\ ip'[4] = kept(4) /\ ip'[6] = kept(6) /\ ip' \in [Ver -> Seq(Mbuf)]
      /\ 4 \in Ver /\ 6 \in Ver
      /\ \A v \in Ver : Len(ip'[v]) <= Len(ip[v]) + Len(out)
  BY <1>1, <1>3 DEF Ver
<1> HIDE DEF O
<1>5. Once(pool', wire, Crypted \ O, {}, Elems(ip'[4]), Elems(ip'[6]), Sending)
  <2>1. ipsec = <<>>
    BY <1>1 DEF IInv, Control, Leave
  <2>2. Elems(ipsec) = {}
    BY <2>1, EmptyElems
  <2>3. O \subseteq Crypted
    BY OutApart DEF O
  <2>4. Once(pool, wire, Crypted, {}, Elems(ip[4]), Elems(ip[6]), Sending)
    BY <2>2 DEF IInv, Placed
  <2>5. Once(pool, wire, Crypted \ O, {}, Elems(ip[4]) \cup (O \cap V(4)),
             Elems(ip[6]) \cup (O \cap V(6)), Sending)
    BY <1>2, <2>3, <2>4 DEF Once
  <2>6. QED BY <1>1, <1>3, <1>4, <2>5
<1>6. QED BY <1>1, <1>3, <1>4, <1>5, LeavePlaces DEF O

\* The steps outside the crypto path leave P alone.
LEMMA Outside ==
  ASSUME UNCHANGED cryptoVars
  PROVE  /\ Crypted' = Crypted /\ UNCHANGED P!vars
         /\ UNCHANGED <<pc, ctx, pkts, cops, out, polled, last_qp, buf, in_flight,
                        queue, ready>>
  BY DEF cryptoVars, Crypted, P!vars, P!callVars, P!qpVars

\* The next packet to be routed.
LEMMA NextRouted ==
  ASSUME IInv, ip[Routing] # <<>>, ip' = [ip EXCEPT ![Routing] = Tail(ip[Routing])]
  PROVE  /\ Routing \in Ver /\ Head(ip[Routing]) \in Mbuf
         /\ ip' \in [Ver -> Seq(Mbuf)]
         /\ \A v \in Ver : /\ Q!Distinct(ip'[v]) /\ Len(ip'[v]) <= Len(ip[v])
                           /\ Elems(ip'[v]) = Elems(ip[v]) \ {Head(ip[Routing])}
         /\ Head(ip[Routing]) \in Elems(ip[Routing])
<1> DEFINE r == Routing
           h == Head(ip[r])
<1>1. r \in Ver
  BY DEF Routing, Ver
<1>2. ip[r] \in Seq(Mbuf) /\ Q!Distinct(ip[r]) /\ ip[r] # <<>>
  BY <1>1, Types, OutApart
<1> HIDE DEF r
<1>3. /\ h \in Mbuf /\ h \in Elems(ip[r]) /\ Tail(ip[r]) \in Seq(Mbuf)
      /\ Len(ip[r]) \in Nat \ {0} /\ Len(Tail(ip[r])) = Len(ip[r]) - 1
      /\ Elems(Tail(ip[r])) = Elems(ip[r]) \ {h} /\ Q!Distinct(Tail(ip[r]))
  BY <1>2, TailElems
<1>4. ip' = [ip EXCEPT ![r] = Tail(ip[r])]
  BY DEF r
<1>5. ip' \in [Ver -> Seq(Mbuf)] /\ ip'[r] = Tail(ip[r])
      /\ \A v \in Ver : v # r => ip'[v] = ip[v]
  BY <1>1, <1>3, <1>4, Types
<1> HIDE DEF h
<1>6. ASSUME NEW v \in Ver
      PROVE  /\ Q!Distinct(ip'[v]) /\ Len(ip'[v]) <= Len(ip[v])
             /\ Elems(ip'[v]) = Elems(ip[v]) \ {h}
  <2>1. CASE v = r
    <3>1. ip'[v] = Tail(ip[r]) /\ ip[v] = ip[r]
      BY <1>5, <2>1
    <3> DEFINE k == Len(ip[r])
               l == Len(Tail(ip[r]))
    <3>2. k \in Nat /\ l = k - 1
      BY <1>3
    <3> HIDE DEF k, l
    <3>3. l <= k
      BY <3>2
    <3>4. QED BY <1>3, <3>1, <3>3 DEF k, l
  <2>2. CASE v # r
    <3>1. ip'[v] = ip[v] /\ Q!Distinct(ip[v]) /\ Len(ip[v]) \in Nat
      BY <1>5, <2>2, OutApart, Types, ElemsOf
    <3>2. h \notin Elems(ip[v])
      <4>1. Elems(ip[v]) \cap Elems(ip[r]) = {}
        BY <1>1, <2>2, OutApart DEF Ver
      <4>2. QED BY <1>3, <4>1
    <3>3. QED BY <3>1, <3>2
  <2>3. QED BY <2>1, <2>2
<1>7. QED BY <1>1, <1>3, <1>5, <1>6 DEF r, h

LEMMA UnroutedPlaces ==
  ASSUME IInv, Unrouted
  PROVE  Kept1
<1> DEFINE h == Head(ip[Routing])
<1>1. /\ stage = "route" /\ ip[Routing] # <<>>
      /\ ip' = [ip EXCEPT ![Routing] = Tail(ip[Routing])]
      /\ pool' = pool \cup {h}
      /\ UNCHANGED <<cryptoVars, side, stage, ipsec, tx, wire>>
  BY DEF Unrouted
<1>2. /\ Crypted' = Crypted /\ UNCHANGED P!vars
      /\ UNCHANGED <<pc, pkts, out>>
  BY <1>1, Outside
<1>3. /\ Routing \in Ver /\ h \in Mbuf /\ h \in Elems(ip[Routing])
      /\ \A v \in Ver : /\ Q!Distinct(ip'[v]) /\ Len(ip'[v]) <= Len(ip[v])
                        /\ Elems(ip'[v]) = Elems(ip[v]) \ {h}
      /\ ip' \in [Ver -> Seq(Mbuf)]
  BY <1>1, NextRouted
<1> HIDE DEF h
<1>4. Control'
  BY <1>1, <1>2 DEF IInv, Control
<1>5. Bounds'
  <2>1. ASSUME NEW v \in Ver PROVE Len(ip'[v]) <= 2 * MaxBurst
    <3>1. Len(ip'[v]) \in Nat /\ Len(ip[v]) \in Nat /\ MaxBurst \in Nat
      BY <1>3, Types, ElemsOf, Constants
    <3>2. Len(ip[v]) <= 2 * MaxBurst /\ Len(ip'[v]) <= Len(ip[v])
      BY <1>3 DEF IInv, Bounds, TrafficBounded
    <3> DEFINE i == Len(ip'[v])
               j == Len(ip[v])
    <3>3. i \in Nat /\ j \in Nat /\ i <= j /\ j <= 2 * MaxBurst
      BY <3>1, <3>2
    <3> HIDE DEF i, j
    <3>4. i <= 2 * MaxBurst
      BY <3>1, <3>3
    <3>5. QED BY <3>4 DEF i
  <2>2. QED BY <1>1, <1>2, <2>1 DEF IInv, Bounds, TrafficBounded
<1>6. Placed'
  <2>1. Sending' = Sending
    BY <1>1 DEF Sending
  <2>2. Elems(ip'[4]) = Elems(ip[4]) \ {h} /\ Elems(ip'[6]) = Elems(ip[6]) \ {h}
        /\ h \in Elems(ip[4]) \cup Elems(ip[6])
    BY <1>3 DEF Ver
  <2>3. Once(pool', wire', Crypted', Elems(ipsec'), Elems(ip'[4]), Elems(ip'[6]), Sending')
    BY <1>1, <1>2, <1>3, <2>1, <2>2 DEF IInv, Placed, Once
  <2>4. QED BY <1>1, <1>3, <2>3 DEF IInv, Placed, Ver
<1>7. QED BY <1>2, <1>4, <1>5, <1>6 DEF Kept1

LEMMA RouteDonePlaces ==
  ASSUME IInv, RouteDone
  PROVE  Kept1
<1>1. /\ stage = "route" /\ stage' = "idle" /\ ip[4] = <<>> /\ ip[6] = <<>>
      /\ UNCHANGED <<cryptoVars, pool, side, ipsec, ip, tx, wire>>
  BY DEF RouteDone
<1>2. /\ Crypted' = Crypted /\ UNCHANGED P!vars
      /\ UNCHANGED <<pc, pkts, out>>
  BY <1>1, Outside
<1>3. Control'
  BY <1>1, <1>2 DEF IInv, Control
<1>4. Bounds'
  BY <1>1, <1>2 DEF IInv, Bounds, TrafficBounded
<1>5. Placed'
  BY <1>1, <1>2 DEF IInv, Placed, Sending
<1>6. QED BY <1>2, <1>3, <1>4, <1>5 DEF Kept1

LEMMA TransmittedPlaces ==
  ASSUME IInv, Transmitted
  PROVE  Kept1
<1>1. /\ pool' = pool \cup wire /\ wire' = {}
      /\ UNCHANGED <<cryptoVars, side, stage, ipsec, ip, tx>>
  BY DEF Transmitted, trafficVars
<1>2. /\ Crypted' = Crypted /\ UNCHANGED P!vars
      /\ UNCHANGED <<pc, pkts, out>>
  BY <1>1, Outside
<1>3. Control'
  BY <1>1, <1>2 DEF IInv, Control
<1>4. Bounds'
  BY <1>1, <1>2 DEF IInv, Bounds, TrafficBounded
<1>5. Placed'
  <2>1. Sending' = Sending
    BY <1>1 DEF Sending
  <2>2. Once(pool \cup wire, {}, Crypted, Elems(ipsec), Elems(ip[4]), Elems(ip[6]), Sending)
    BY DEF IInv, Placed, Once
  <2>3. QED BY <1>1, <1>2, <2>1, <2>2 DEF IInv, Placed
<1>6. QED BY <1>2, <1>3, <1>4, <1>5 DEF Kept1

\* The part of s that the device takes is on the wire, the rest back in the pool.
LEMMA BurstSent ==
  ASSUME IInv, NEW s \in Seq(Mbuf), Q!Distinct(s), NEW ret \in 0 .. MaxBurst,
         ret <= Len(s), SendBurst(s, ret)
  PROVE  \E A, B : /\ wire' = wire \cup A /\ pool' = pool \cup B
                   /\ A \cap B = {} /\ A \cup B = Elems(s)
<1> DEFINE a == SubSeq(s, 1, ret)
           b == SubSeq(s, ret + 1, Len(s))
<1>1. Len(s) \in Nat /\ ret \in 0 .. Len(s)
  BY ElemsOf, Constants
<1>2. /\ Elems(a) = Elems(s) \ Elems(b) /\ Elems(b) = Elems(s) \ Elems(a)
  BY <1>1, SplitElems
<1>3. wire' = wire \cup Elems(a) /\ pool' = pool \cup Elems(b)
  BY DEF SendBurst
<1> HIDE DEF a, b
<1>4. Elems(a) \cap Elems(b) = {} /\ Elems(a) \cup Elems(b) = Elems(s)
  <2>1. ASSUME NEW m
        PROVE  /\ ~ (m \in Elems(a) /\ m \in Elems(b))
               /\ m \in Elems(a) \/ m \in Elems(b) <=> m \in Elems(s)
    BY <1>2
  <2>2. QED BY <2>1
<1>5. QED BY <1>3, <1>4

\* Emptying one transmit buffer.
LEMMA TxEmptied ==
  ASSUME IInv, NEW p \in Port, tx' = [tx EXCEPT ![p] = <<>>]
  PROVE  /\ tx'[p] = <<>> /\ \A r \in Port : r # p => tx'[r] = tx[r]
         /\ Sending' = Sending \ Elems(tx[p]) /\ Elems(tx[p]) \subseteq Sending
         /\ \A r \in Port : Q!Distinct(tx'[r]) /\ Len(tx'[r]) < MaxBurst
         /\ \A q, r \in Port : q # r => Elems(tx'[q]) \cap Elems(tx'[r]) = {}
<1>1. tx'[p] = <<>> /\ \A r \in Port : r # p => tx'[r] = tx[r]
  BY Types
<1>2. \A q, r \in Port : q # r => Elems(tx[q]) \cap Elems(tx[r]) = {}
  BY DEF IInv, Placed
<1>3. Elems(<<>>) = {} /\ Q!Distinct(<<>>) /\ Len(<<>>) < MaxBurst
  BY EmptyElems, Constants
<1>4. ASSUME NEW m PROVE m \in Sending' <=> m \in Sending /\ m \notin Elems(tx[p])
  BY <1>1, <1>2, <1>3 DEF Sending
<1>5. Elems(tx[p]) \subseteq Sending
  BY DEF Sending
<1>6. \A r \in Port : Q!Distinct(tx[r]) /\ Len(tx[r]) < MaxBurst
  BY DEF IInv, Placed, Bounds, TrafficBounded
<1>7. QED BY <1>1, <1>2, <1>3, <1>4, <1>5, <1>6

LEMMA DrainPlaces ==
  ASSUME IInv, NEW p \in Port, NEW ret \in 0 .. MaxBurst, Drain(p, ret)
  PROVE  Kept1
<1>1. /\ ret <= Len(tx[p]) /\ SendBurst(tx[p], ret)
      /\ tx' = [tx EXCEPT ![p] = <<>>]
      /\ UNCHANGED <<cryptoVars, side, stage, ipsec, ip>>
  BY DEF Drain, trafficVars
<1>2. /\ Crypted' = Crypted /\ UNCHANGED P!vars
      /\ UNCHANGED <<pc, pkts, out>>
  BY <1>1, Outside
<1>3. tx[p] \in Seq(Mbuf) /\ Q!Distinct(tx[p])
  BY Types DEF IInv, Placed
<1>4. PICK A, B : /\ wire' = wire \cup A /\ pool' = pool \cup B
                  /\ A \cap B = {} /\ A \cup B = Elems(tx[p])
  BY <1>1, <1>3, BurstSent
<1>5. /\ Sending' = Sending \ Elems(tx[p]) /\ Elems(tx[p]) \subseteq Sending
      /\ \A r \in Port : Q!Distinct(tx'[r]) /\ Len(tx'[r]) < MaxBurst
      /\ \A q, r \in Port : q # r => Elems(tx'[q]) \cap Elems(tx'[r]) = {}
  BY <1>1, TxEmptied
<1>6. Control'
  BY <1>1, <1>2 DEF IInv, Control
<1>7. Bounds'
  BY <1>1, <1>2, <1>5 DEF IInv, Bounds, TrafficBounded
<1>8. Placed'
  <2>1. Once(pool \cup B, wire \cup A, Crypted, Elems(ipsec), Elems(ip[4]), Elems(ip[6]),
             Sending \ Elems(tx[p]))
    BY <1>4, <1>5 DEF IInv, Placed, Once
  <2>2. QED BY <1>1, <1>2, <1>4, <1>5, <2>1 DEF IInv, Placed
<1>9. QED BY <1>2, <1>6, <1>7, <1>8 DEF Kept1

LEMMA SendPlaces ==
  ASSUME IInv, NEW p \in Port, NEW ret \in 0 .. MaxBurst, Send(p, ret)
  PROVE  Kept1
<1> DEFINE h == Head(ip[Routing])
           burst == Append(tx[p], h)
<1>1. /\ stage = "route" /\ ip[Routing] # <<>>
      /\ ip' = [ip EXCEPT ![Routing] = Tail(ip[Routing])]
      /\ UNCHANGED <<cryptoVars, side, stage, ipsec>>
      /\ \/ /\ ~ Full(burst)
            /\ tx' = [tx EXCEPT ![p] = burst]
            /\ UNCHANGED <<pool, wire>>
         \/ /\ ret <= Len(burst)
            /\ tx' = [tx EXCEPT ![p] = <<>>]
            /\ SendBurst(burst, ret)
  BY DEF Send
<1>2. /\ Crypted' = Crypted /\ UNCHANGED P!vars
      /\ UNCHANGED <<pc, pkts, out>>
  BY <1>1, Outside
<1>3. /\ Routing \in Ver /\ h \in Mbuf /\ h \in Elems(ip[Routing])
      /\ \A v \in Ver : /\ Q!Distinct(ip'[v]) /\ Len(ip'[v]) <= Len(ip[v])
                        /\ Elems(ip'[v]) = Elems(ip[v]) \ {h}
      /\ ip' \in [Ver -> Seq(Mbuf)]
  BY <1>1, NextRouted
<1> HIDE DEF h
<1>4. /\ Elems(ip'[4]) = Elems(ip[4]) \ {h} /\ Elems(ip'[6]) = Elems(ip[6]) \ {h}
      /\ h \in Elems(ip[4]) \cup Elems(ip[6])
      /\ Q!Distinct(ip'[4]) /\ Q!Distinct(ip'[6])
  BY <1>3 DEF Ver
<1>5. /\ Once(pool, wire, Crypted, Elems(ipsec), Elems(ip[4]), Elems(ip[6]), Sending)
      /\ Elems(tx[p]) \subseteq Sending /\ h \notin Sending
  BY <1>3, <1>4 DEF IInv, Placed, Once, Sending
<1>6. tx[p] \in Seq(Mbuf) /\ Q!Distinct(tx[p]) /\ Len(tx[p]) < MaxBurst
  BY Types DEF IInv, Placed, Bounds, TrafficBounded
<1>7. /\ burst \in Seq(Mbuf) /\ Len(burst) = Len(tx[p]) + 1
      /\ Elems(burst) = Elems(tx[p]) \cup {h} /\ Q!Distinct(burst)
  BY <1>3, <1>5, <1>6, AppendElems
<1> HIDE DEF burst
<1>8. Control'
  BY <1>1, <1>2 DEF IInv, Control
<1>9. ASSUME NEW v \in Ver PROVE Len(ip'[v]) <= 2 * MaxBurst
  <2>1. Len(ip'[v]) \in Nat /\ Len(ip[v]) \in Nat /\ MaxBurst \in Nat
    BY <1>3, Types, ElemsOf, Constants
  <2>2. Len(ip[v]) <= 2 * MaxBurst /\ Len(ip'[v]) <= Len(ip[v])
    BY <1>3 DEF IInv, Bounds, TrafficBounded
  <2> DEFINE i == Len(ip'[v])
             j == Len(ip[v])
  <2>3. i \in Nat /\ j \in Nat /\ i <= j /\ j <= 2 * MaxBurst
    BY <2>1, <2>2
  <2> HIDE DEF i, j
  <2>4. i <= 2 * MaxBurst
    BY <2>1, <2>3
  <2>5. QED BY <2>4 DEF i
<1>10. CASE ~ Full(burst) /\ tx' = [tx EXCEPT ![p] = burst] /\ UNCHANGED <<pool, wire>>
  <2>1. tx'[p] = burst /\ \A r \in Port : r # p => tx'[r] = tx[r]
    BY <1>10, Types
  <2>2. Len(burst) < MaxBurst
    <3>1. Len(tx[p]) \in Nat /\ MaxBurst \in Nat /\ Len(burst) # MaxBurst
      BY <1>6, <1>10, ElemsOf, Constants DEF Full
    <3> DEFINE i == Len(tx[p])
               j == Len(burst)
    <3>2. i \in Nat /\ i < MaxBurst /\ j = i + 1 /\ j # MaxBurst
      BY <1>6, <1>7, <3>1
    <3> HIDE DEF i, j
    <3>3. j < MaxBurst
      BY <3>1, <3>2
    <3>4. QED BY <3>3 DEF j
  <2>3. \A r \in Port : Len(tx'[r]) < MaxBurst
    BY <2>1, <2>2 DEF IInv, Bounds, TrafficBounded
  <2>4. Bounds'
    BY <1>1, <1>2, <1>9, <2>3 DEF IInv, Bounds, TrafficBounded
  <2>5. Sending' = Sending \cup {h}
    <3>1. ASSUME NEW m PROVE m \in Sending' <=> m \in Sending \/ m = h
      BY <1>7, <2>1 DEF Sending
    <3>2. QED BY <3>1
  <2>6. Once(pool, wire, Crypted, Elems(ipsec), Elems(ip[4]) \ {h}, Elems(ip[6]) \ {h},
             Sending \cup {h})
    BY <1>4, <1>5 DEF Once
  <2>7. \A r \in Port : Q!Distinct(tx'[r])
    BY <1>7, <2>1 DEF IInv, Placed
  <2>8. \A q, r \in Port : q # r => Elems(tx'[q]) \cap Elems(tx'[r]) = {}
    <3>1. \A r \in Port : h \notin Elems(tx[r])
      BY <1>5 DEF Sending
    <3>2. \A q, r \in Port : q # r => Elems(tx[q]) \cap Elems(tx[r]) = {}
      BY DEF IInv, Placed
    <3>3. \A r \in Port : r # p => Elems(tx'[p]) \cap Elems(tx'[r]) = {}
      BY <1>7, <2>1, <3>1, <3>2
    <3>4. QED BY <2>1, <3>2, <3>3
  <2>9. Placed'
    BY <1>1, <1>2, <1>4, <1>10, <2>5, <2>6, <2>7, <2>8 DEF IInv, Placed
  <2>10. QED BY <1>2, <1>8, <2>4, <2>9 DEF Kept1
<1>11. CASE ret <= Len(burst) /\ tx' = [tx EXCEPT ![p] = <<>>] /\ SendBurst(burst, ret)
  <2>1. PICK A, B : /\ wire' = wire \cup A /\ pool' = pool \cup B
                    /\ A \cap B = {} /\ A \cup B = Elems(burst)
    BY <1>7, <1>11, BurstSent
  <2>2. /\ Sending' = Sending \ Elems(tx[p])
        /\ \A r \in Port : Q!Distinct(tx'[r]) /\ Len(tx'[r]) < MaxBurst
        /\ \A q, r \in Port : q # r => Elems(tx'[q]) \cap Elems(tx'[r]) = {}
    BY <1>11, TxEmptied
  <2>3. Bounds'
    BY <1>1, <1>2, <1>9, <2>2 DEF IInv, Bounds, TrafficBounded
  <2>4. Once(pool \cup B, wire \cup A, Crypted, Elems(ipsec), Elems(ip[4]) \ {h},
             Elems(ip[6]) \ {h}, Sending \ Elems(tx[p]))
    BY <1>4, <1>5, <1>7, <2>1 DEF Once
  <2>5. Placed'
    BY <1>1, <1>2, <1>4, <2>1, <2>2, <2>4 DEF IInv, Placed
  <2>6. QED BY <1>2, <1>8, <2>3, <2>5 DEF Kept1
<1>12. QED BY <1>1, <1>10, <1>11

LEMMA NextPlaces ==
  ASSUME IInv, [Next]_vars
  PROVE  /\ [P!Next]_(P!vars) /\ Control' /\ Bounds' /\ Placed'
         /\ P!Basic' /\ P!MbufHeldOnce'
<1>1. ASSUME UNCHANGED vars PROVE Kept1
  <2>1. UNCHANGED <<pool, cryptoVars, side, stage, ipsec, ip, tx, wire>>
    BY <1>1 DEF vars, trafficVars
  <2>2. /\ Crypted' = Crypted /\ UNCHANGED P!vars
        /\ UNCHANGED <<pc, pkts, out>>
    BY <2>1, Outside
  <2>3. Control'
    BY <2>1, <2>2 DEF IInv, Control
  <2>4. Bounds'
    BY <2>1, <2>2 DEF IInv, Bounds, TrafficBounded
  <2>5. Placed'
    BY <2>1, <2>2 DEF IInv, Placed, Sending
  <2>6. QED BY <2>2, <2>3, <2>4, <2>5 DEF Kept1
<1>2. ASSUME NEW d \in Ctx, NEW s \in Q!Bursts,
             \E f \in [DOMAIN s -> Flow] : Receive(d, s, f)
      PROVE  Kept1
  BY <1>2, ReceivePlaces
<1>3. ASSUME CallInbound PROVE Kept1
  BY <1>3, CallInboundPlaces
<1>4. ASSUME CallOutbound PROVE Kept1
  BY <1>4, CallOutboundPlaces
<1>5. ASSUME Refuse \/ Accept \/ Crypto \/ \E q \in Q!Qp : DeviceFinish(q) PROVE Kept1
  BY <1>5, CryptoPlaces
<1>6. ASSUME ReturnInbound PROVE Kept1
  BY <1>6, ReturnInboundPlaces
<1>7. ASSUME ReturnOutbound PROVE Kept1
  BY <1>7, ReturnOutboundPlaces
<1>8. ASSUME Unrouted PROVE Kept1
  BY <1>8, UnroutedPlaces
<1>9. ASSUME NEW p \in Port, NEW ret \in 0 .. MaxBurst, Send(p, ret) \/ Drain(p, ret)
      PROVE  Kept1
  BY <1>9, SendPlaces, DrainPlaces
<1>10. ASSUME RouteDone PROVE Kept1
  BY <1>10, RouteDonePlaces
<1>11. ASSUME Transmitted PROVE Kept1
  BY <1>11, TransmittedPlaces
<1>12. Kept1
  BY <1>1, <1>2, <1>3, <1>4, <1>5, <1>6, <1>7, <1>8, <1>9, <1>10, <1>11, Zenon DEF Next
<1>13. [P!Next]_(P!vars) /\ Control' /\ Bounds' /\ Placed'
  BY <1>12 DEF Kept1
<1>14. P!Basic /\ P!MbufHeldOnce
  BY DEF IInv
<1>15. P!Basic'
  BY <1>13, <1>14, Constants, P!NextBasic
<1>16. P!MbufHeldOnce'
  BY <1>13, <1>14, Constants, P!NextHeldOnce
<1>17. QED BY <1>13, <1>15, <1>16

-----------------------------------------------------------------------------
(***************************************************************************)
(* The types, step by step.                                                *)
(***************************************************************************)

LEMMA ContentsKept ==
  ASSUME NEW f \in [Mbuf -> Flow \cup {NoFlow}], NEW e \in [Mbuf -> BOOLEAN],
         Contents(f, e)
  PROVE  /\ flow' \in [Mbuf -> Flow \cup {NoFlow}]
         /\ sealed' \in [Mbuf -> BOOLEAN]
         /\ \A m \in Mbuf : m \notin pool' => flow'[m] = f[m] /\ sealed'[m] = e[m]
  BY DEF Contents

\* What a step does to the packets that are not back in the pool, unless it
\* receives them or is the device's.
LEMMA SameKept ==
  ASSUME IInv, SameContents \/ UNCHANGED <<flow, sealed>>
  PROVE  /\ flow' \in [Mbuf -> Flow \cup {NoFlow}]
         /\ sealed' \in [Mbuf -> BOOLEAN]
         /\ \A m \in Mbuf : m \notin pool' => flow'[m] = flow[m] /\ sealed'[m] = sealed[m]
  BY Types, ContentsKept DEF SameContents

\* What Receive makes of the contents of the mbufs.
LEMMA ReceiveContents ==
  ASSUME IInv, NEW d \in Ctx, NEW s \in Q!Bursts, NEW f \in [DOMAIN s -> Flow],
         Receive(d, s, f)
  PROVE  /\ flow' \in [Mbuf -> Flow \cup {NoFlow}]
         /\ sealed' \in [Mbuf -> BOOLEAN]
         /\ \A m \in Mbuf : m \notin pool /\ m \notin Elems(s)
              => flow'[m] = flow[m] /\ sealed'[m] = sealed[m]
         /\ \A m \in Elems(s) : /\ m \in Mbuf /\ m \notin pool'
                                /\ flow'[m].dir = d
                                /\ sealed'[m] <=> flow'[m].esp # 0
         /\ Elems(ipsec') = {m \in Elems(s) : flow'[m].esp # 0}
         /\ \A v \in Ver : Elems(ip'[v]) = {m \in Elems(s) : flow'[m].esp = 0 /\ flow'[m].v = v}
<1> DEFINE arrived == [m \in Mbuf |-> IF m \in Elems(s)
                         THEN f[CHOOSE i \in DOMAIN s : s[i] = m] ELSE flow[m]]
           e == [m \in Mbuf |-> IF m \in Elems(s) THEN arrived[m].esp # 0 ELSE sealed[m]]
           IsEsp == {m \in Mbuf : arrived[m].esp # 0}
           Is(v) == {m \in Mbuf : arrived[m].esp = 0 /\ arrived[m].v = v}
<1>1. /\ \A i \in DOMAIN f : f[i].dir = d
      /\ pool' = pool \ Elems(s)
      /\ ipsec' = Keep(s, IsEsp)
      /\ ip' = [v \in Ver |-> Keep(s, Is(v))]
      /\ Contents(arrived, e)
  BY DEF Receive
<1>2. s \in Seq(Mbuf) /\ Elems(s) \subseteq Mbuf
      /\ \A m \in Elems(s) : (CHOOSE i \in DOMAIN s : s[i] = m) \in DOMAIN s
  BY Arrivals, ElemsOf
<1>3. /\ arrived \in [Mbuf -> Flow \cup {NoFlow}]
      /\ \A m \in Elems(s) : arrived[m].dir = d
      /\ \A m \in Mbuf : m \notin Elems(s) => arrived[m] = flow[m]
  <2>1. ASSUME NEW m \in Elems(s)
        PROVE  /\ m \in Mbuf /\ arrived[m] \in Flow /\ arrived[m].dir = d
    <3>1. arrived[m] = f[CHOOSE i \in DOMAIN s : s[i] = m] /\ m \in Mbuf
      BY <1>2
    <3>2. (CHOOSE i \in DOMAIN s : s[i] = m) \in DOMAIN s
      BY <1>2
    <3> HIDE DEF arrived
    <3>3. QED BY <1>1, <3>1, <3>2
  <2>2. ASSUME NEW m \in Mbuf, m \notin Elems(s)
        PROVE  arrived[m] = flow[m] /\ arrived[m] \in Flow \cup {NoFlow}
    BY <2>2, Types
  <2>3. arrived = [m \in Mbuf |-> arrived[m]]
    OBVIOUS
  <2> HIDE DEF arrived
  <2>4. QED BY <2>1, <2>2, <2>3
<1> HIDE DEF arrived
<1>4. /\ e \in [Mbuf -> BOOLEAN]
      /\ \A m \in Elems(s) : e[m] <=> arrived[m].esp # 0
      /\ \A m \in Mbuf : m \notin Elems(s) => e[m] = sealed[m]
  BY <1>2, Types
<1> HIDE DEF e
<1>5. /\ flow' \in [Mbuf -> Flow \cup {NoFlow}] /\ sealed' \in [Mbuf -> BOOLEAN]
      /\ \A m \in Mbuf : m \notin pool' => flow'[m] = arrived[m] /\ sealed'[m] = e[m]
  BY <1>1, <1>3, <1>4, ContentsKept
<1>6. \A m \in Elems(s) : /\ m \in Mbuf /\ m \notin pool'
                          /\ flow'[m] = arrived[m] /\ flow'[m].dir = d
                          /\ sealed'[m] <=> flow'[m].esp # 0
  <2>1. ASSUME NEW m \in Elems(s)
        PROVE  /\ m \in Mbuf /\ m \notin pool'
               /\ flow'[m] = arrived[m] /\ flow'[m].dir = d
               /\ sealed'[m] <=> flow'[m].esp # 0
    <3>1. m \in Mbuf /\ m \notin pool'
      BY <1>1, <1>2
    <3>2. flow'[m] = arrived[m] /\ sealed'[m] = e[m] /\ arrived[m].dir = d
      BY <1>3, <1>5, <3>1
    <3>3. e[m] <=> arrived[m].esp # 0
      BY <1>4, Zenon
    <3>4. QED BY <3>1, <3>2, <3>3, Zenon
  <2>2. QED BY <2>1
<1>7. Elems(ipsec') = Elems(s) \cap IsEsp
      /\ \A v \in Ver : Elems(ip'[v]) = Elems(s) \cap Is(v)
  <2> HIDE DEF IsEsp, Is
  <2>1. \A S : Elems(Keep(s, S)) = Elems(s) \cap S
    BY <1>2, KeepElems
  <2>2. QED BY <1>1, <2>1
<1>8. /\ Elems(ipsec') = {m \in Elems(s) : flow'[m].esp # 0}
      /\ \A v \in Ver : Elems(ip'[v]) = {m \in Elems(s) : flow'[m].esp = 0 /\ flow'[m].v = v}
  BY <1>6, <1>7
<1>9. ASSUME NEW m \in Mbuf, m \notin pool, m \notin Elems(s)
      PROVE  flow'[m] = flow[m] /\ sealed'[m] = sealed[m]
  <2>1. m \notin pool'
    BY <1>1, <1>9
  <2>2. flow'[m] = arrived[m] /\ sealed'[m] = e[m]
    BY <1>5, <2>1
  <2>3. arrived[m] = flow[m]
    BY <1>3, <1>9
  <2>4. e[m] = sealed[m]
    BY <1>4, <1>9, Zenon
  <2>5. QED BY <2>2, <2>3, <2>4
<1>10. QED BY <1>5, <1>6, <1>8, <1>9

\* The types of the arrays outside the crypto path.
Arrays ==
  /\ pool \subseteq Mbuf /\ wire \subseteq Mbuf
  /\ side \in Ctx /\ stage \in {"idle", "sorted", "crypto", "route"}
  /\ ipsec \in Seq(Mbuf) /\ ip \in [Ver -> Seq(Mbuf)] /\ tx \in [Port -> Seq(Mbuf)]

LEMMA KeepSeq == \A s \in Seq(Mbuf) : \A S : Keep(s, S) \in Seq(Mbuf)
  BY KeepElems

LEMMA Joined ==
  \A s, t \in Seq(Mbuf) : s \o t \in Seq(Mbuf) /\ Elems(s \o t) \subseteq Mbuf
<1> TAKE s, t \in Seq(Mbuf)
<1> DEFINE u == s \o t
<1>1. u \in Seq(Mbuf)
  BY ConcatElems
<1> HIDE DEF u
<1>2. Elems(u) \subseteq Mbuf
  BY <1>1, ElemsOf
<1>3. QED BY <1>1, <1>2 DEF u

LEMMA NextArrays ==
  ASSUME IInv, [Next]_vars
  PROVE  Arrays'
<1>0. Arrays
  BY DEF IInv, TypeOK, Q!TypeOK, Arrays
<1>1. ASSUME UNCHANGED vars PROVE Arrays'
  BY <1>0, <1>1 DEF Arrays, vars, trafficVars
<1>2. ASSUME NEW d \in Ctx, NEW s \in Q!Bursts,
             \E f \in [DOMAIN s -> Flow] : Receive(d, s, f)
      PROVE  Arrays'
  <2>1. PICK f \in [DOMAIN s -> Flow] : Receive(d, s, f)
    BY <1>2
  <2>2. s \in Seq(Mbuf)
    BY Arrivals
  <2>3. \A S : Keep(s, S) \in Seq(Mbuf)
    BY <2>2, KeepSeq
  <2>4. ipsec' \in Seq(Mbuf) /\ ip' \in [Ver -> Seq(Mbuf)]
    BY <2>1, <2>3 DEF Receive
  <2>5. pool' \subseteq pool /\ side' = d /\ stage' = "sorted" /\ UNCHANGED <<tx, wire>>
    BY <2>1 DEF Receive
  <2>6. QED BY <1>0, <2>4, <2>5 DEF Arrays
<1>3. ASSUME CallInbound PROVE Arrays'
  BY <1>0, <1>3, EmptyElems DEF Arrays, CallInbound, Enter
<1>4. ASSUME CallOutbound PROVE Arrays'
  <2>1. Elems(ip[4] \o ip[6]) \subseteq Mbuf /\ Elems(ipsec) \subseteq Mbuf
    BY Types, Joined, ElemsOf
  <2>2. pool' \subseteq Mbuf
    BY <1>0, <1>4, <2>1 DEF Arrays, CallOutbound
  <2>3. ip' \in [Ver -> Seq(Mbuf)]
    BY <1>0, <1>4, KeepSeq DEF Arrays, CallOutbound
  <2>4. ipsec' \in Seq(Mbuf) /\ stage' = "crypto" /\ UNCHANGED <<side, tx, wire>>
    BY <1>4, EmptyElems DEF CallOutbound, Enter
  <2>5. QED BY <1>0, <2>2, <2>3, <2>4 DEF Arrays
<1>5. ASSUME Refuse \/ Accept \/ Crypto \/ \E q \in Q!Qp : DeviceFinish(q) PROVE Arrays'
  <2>1. /\ \E F : GivesUp(F) /\ pool' = pool \cup F
        /\ UNCHANGED <<trafficVars, tx, wire>>
    BY <1>5, CryptoMoves
  <2>2. pool' \subseteq Mbuf
    BY <1>0, <2>1 DEF GivesUp, Arrays
  <2>3. QED BY <1>0, <2>1, <2>2 DEF Arrays, trafficVars
<1>6. ASSUME ReturnInbound PROVE Arrays'
  <2>1. ASSUME NEW v \in Ver PROVE ip'[v] \in Seq(Mbuf) /\ ip' = [u \in Ver |-> ip'[u]]
    <3> DEFINE a == Keep(ip[v], {m \in Mbuf : Passes(m, FALSE)})
               b == Keep(OfVersion(out, v), {m \in Mbuf : Passes(m, TRUE)})
    <3>1. a \in Seq(Mbuf) /\ b \in Seq(Mbuf)
      BY Types, KeepSeq DEF OfVersion
    <3>2. ip'[v] = a \o b /\ ip' = [u \in Ver |-> ip'[u]]
      BY <1>6 DEF ReturnInbound
    <3> HIDE DEF a, b
    <3>3. QED BY <3>1, <3>2, Joined
  <2>2. 4 \in Ver
    BY DEF Ver
  <2>3. ip' \in [Ver -> Seq(Mbuf)]
    BY <2>1, <2>2
  <2>4. pool' \subseteq Mbuf
    <3> DEFINE c == (ip[4] \o ip[6]) \o out
    <3>1. Elems(c) \subseteq Mbuf
      BY Types, Joined
    <3>2. pool' \subseteq pool \cup Elems(c)
      BY <1>6 DEF ReturnInbound
    <3> HIDE DEF c
    <3>3. QED BY <1>0, <3>1, <3>2 DEF Arrays
  <2>5. stage' = "route" /\ UNCHANGED <<side, ipsec, tx, wire>>
    BY <1>6 DEF ReturnInbound, Leave
  <2>6. QED BY <1>0, <2>3, <2>4, <2>5 DEF Arrays
<1>7. ASSUME ReturnOutbound PROVE Arrays'
  <2>1. ASSUME NEW v \in Ver PROVE ip[v] \o OfVersion(out, v) \in Seq(Mbuf)
    <3>1. ip[v] \in Seq(Mbuf) /\ OfVersion(out, v) \in Seq(Mbuf)
      BY Types, KeepSeq DEF OfVersion
    <3>2. QED BY <3>1, Joined
  <2>2. ip' \in [Ver -> Seq(Mbuf)]
    BY <1>7, <2>1 DEF ReturnOutbound
  <2>3. stage' = "route" /\ UNCHANGED <<pool, side, ipsec, tx, wire>>
    BY <1>7 DEF ReturnOutbound, Leave
  <2>4. QED BY <1>0, <2>2, <2>3 DEF Arrays
<1>8. ASSUME Unrouted PROVE Arrays'
  <2>1. ip' \in [Ver -> Seq(Mbuf)] /\ Head(ip[Routing]) \in Mbuf
    BY <1>8, NextRouted DEF Unrouted
  <2>2. QED BY <1>0, <1>8, <2>1 DEF Arrays, Unrouted
<1>9. ASSUME NEW p \in Port, NEW ret \in 0 .. MaxBurst, Send(p, ret) PROVE Arrays'
  <2> DEFINE burst == Append(tx[p], Head(ip[Routing]))
  <2>1. ip' \in [Ver -> Seq(Mbuf)] /\ Head(ip[Routing]) \in Mbuf
    BY <1>9, NextRouted DEF Send
  <2>2. burst \in Seq(Mbuf)
    BY <2>1, Types
  <2>3. UNCHANGED <<side, stage, ipsec>>
    BY <1>9 DEF Send
  <2>4. \/ tx' = [tx EXCEPT ![p] = burst] /\ UNCHANGED <<pool, wire>>
        \/ /\ tx' = [tx EXCEPT ![p] = <<>>] /\ ret <= Len(burst)
           /\ SendBurst(burst, ret)
    BY <1>9 DEF Send
  <2> HIDE DEF burst
  <2>5. CASE tx' = [tx EXCEPT ![p] = burst] /\ UNCHANGED <<pool, wire>>
    BY <1>0, <2>1, <2>2, <2>3, <2>5 DEF Arrays
  <2>6. CASE tx' = [tx EXCEPT ![p] = <<>>] /\ ret <= Len(burst) /\ SendBurst(burst, ret)
    <3>1. ret \in 0 .. Len(burst)
      BY <2>2, <2>6, ElemsOf
    <3> DEFINE a == SubSeq(burst, 1, ret)
               b == SubSeq(burst, ret + 1, Len(burst))
    <3>2. a \in Seq(Mbuf) /\ b \in Seq(Mbuf)
      BY <2>2, <3>1, SplitElems
    <3>3. wire' = wire \cup Elems(a) /\ pool' = pool \cup Elems(b)
      BY <2>6 DEF SendBurst
    <3> HIDE DEF a, b
    <3>4. Elems(a) \subseteq Mbuf /\ Elems(b) \subseteq Mbuf
      BY <3>2, ElemsOf
    <3>5. tx' \in [Port -> Seq(Mbuf)]
      BY <2>6, Types, EmptyElems
    <3>6. QED BY <1>0, <2>1, <2>3, <3>3, <3>4, <3>5 DEF Arrays
  <2>7. QED BY <2>4, <2>5, <2>6
<1>10. ASSUME NEW p \in Port, NEW ret \in 0 .. MaxBurst, Drain(p, ret) PROVE Arrays'
  <2>1. /\ ret <= Len(tx[p]) /\ SendBurst(tx[p], ret)
        /\ tx' = [tx EXCEPT ![p] = <<>>]
        /\ UNCHANGED <<side, stage, ipsec, ip>>
    BY <1>10 DEF Drain, trafficVars
  <2>2. tx[p] \in Seq(Mbuf)
    BY Types
  <2>3. ret \in 0 .. Len(tx[p])
    BY <2>1, <2>2, ElemsOf
  <2> DEFINE a == SubSeq(tx[p], 1, ret)
             b == SubSeq(tx[p], ret + 1, Len(tx[p]))
  <2>4. a \in Seq(Mbuf) /\ b \in Seq(Mbuf)
    BY <2>2, <2>3, SplitElems
  <2>5. wire' = wire \cup Elems(a) /\ pool' = pool \cup Elems(b)
    BY <2>1 DEF SendBurst
  <2> HIDE DEF a, b
  <2>6. Elems(a) \subseteq Mbuf /\ Elems(b) \subseteq Mbuf
    BY <2>4, ElemsOf
  <2>7. tx' \in [Port -> Seq(Mbuf)]
    BY <2>1, Types, EmptyElems
  <2>8. QED BY <1>0, <2>1, <2>5, <2>6, <2>7 DEF Arrays
<1>11. ASSUME RouteDone PROVE Arrays'
  BY <1>0, <1>11 DEF Arrays, RouteDone
<1>12. ASSUME Transmitted PROVE Arrays'
  BY <1>0, <1>12 DEF Arrays, Transmitted, trafficVars
<1>13. QED
  BY <1>1, <1>2, <1>3, <1>4, <1>5, <1>6, <1>7, <1>8, <1>9, <1>10, <1>11, <1>12, Zenon
     DEF Next

\* The SA found is one of the table or none.
LEMMA FoundType == FoundSa \in Sa \cup {NoSa}
  BY DEF FoundSa, Of

LEMMA NextContents ==
  ASSUME IInv, [Next]_vars
  PROVE  /\ flow' \in [Mbuf -> Flow \cup {NoFlow}]
         /\ sealed' \in [Mbuf -> BOOLEAN]
         /\ sa' \in [Mbuf -> Sa \cup {NoSa}]
<1> DEFINE T == /\ flow' \in [Mbuf -> Flow \cup {NoFlow}]
                /\ sealed' \in [Mbuf -> BOOLEAN]
                /\ sa' \in [Mbuf -> Sa \cup {NoSa}]
<1>1. ASSUME UNCHANGED vars PROVE T
  BY <1>1, Types DEF vars
<1>2. ASSUME NEW d \in Ctx, NEW s \in Q!Bursts,
             \E f \in [DOMAIN s -> Flow] : Receive(d, s, f)
      PROVE  T
  <2>1. PICK f \in [DOMAIN s -> Flow] : Receive(d, s, f)
    BY <1>2
  <2>2. sa' = sa
    BY <2>1 DEF Receive
  <2>3. flow' \in [Mbuf -> Flow \cup {NoFlow}] /\ sealed' \in [Mbuf -> BOOLEAN]
    BY <2>1, ReceiveContents
  <2>4. QED BY <2>2, <2>3, Types
<1>3. ASSUME sa' = sa, SameContents \/ UNCHANGED <<flow, sealed>> PROVE T
  BY <1>3, SameKept, Types
<1>4. ASSUME Refuse \/ Accept PROVE T
  <2>1. SameContents /\ \/ sa' = sa
                        \/ sa' = [sa EXCEPT ![Head(pkts)] = FoundSa]
    BY <1>4 DEF Refuse, Accept
  <2>2. QED BY <2>1, SameKept, FoundType, Types
<1>5. ASSUME NEW q \in Q!Qp, DeviceFinish(q) PROVE T
  BY <1>5, Types DEF DeviceFinish
<1>6. ASSUME \/ CallInbound \/ CallOutbound \/ Crypto \/ ReturnInbound \/ ReturnOutbound
             \/ Unrouted \/ RouteDone \/ Transmitted
             \/ \E p \in Port, ret \in 0 .. MaxBurst : Send(p, ret) \/ Drain(p, ret)
      PROVE  sa' = sa /\ (SameContents \/ UNCHANGED <<flow, sealed>>)
  BY <1>6 DEF CallInbound, CallOutbound, Crypto, ReturnInbound, ReturnOutbound, Unrouted,
              RouteDone, Transmitted, Send, Drain, Enter, Leave
<1>7. T
  BY <1>1, <1>2, <1>3, <1>4, <1>5, <1>6, Zenon DEF Next
<1>8. QED BY <1>7

LEMMA NextTypes ==
  ASSUME IInv, [Next]_vars
  PROVE  TypeOK'
<1>1. P!TypeOK'
  BY NextPlaces DEF P!Basic
<1>2. Arrays'
  BY NextArrays
<1>3. QED BY <1>1, <1>2, NextContents, Constants DEF TypeOK, Q!TypeOK, P!TypeOK, Arrays

-----------------------------------------------------------------------------
(***************************************************************************)
(* The contents of the packets, step by step.                              *)
(***************************************************************************)

\* A packet that a step leaves as it is.
Same(m) == flow'[m] = flow[m] /\ sealed'[m] = sealed[m] /\ sa'[m] = sa[m]

\* Whatever is in one of the arrays is not in the pool.
LEMMA HeldOut ==
  ASSUME IInv, [Next]_vars
  PROVE  \A m : /\ m \in Mbuf => (m \in Crypted' => m \notin pool')
                /\ m \in Mbuf => (m \in Sending' => m \notin pool')
                /\ m \in Elems(ipsec') => m \in Mbuf /\ m \notin pool'
                /\ \A v \in Ver : m \in Elems(ip'[v]) => m \in Mbuf /\ m \notin pool'
<1>1. Arrays' /\ Placed'
  BY NextArrays, NextPlaces
<1>2. /\ Once(pool', wire', Crypted', Elems(ipsec'), Elems(ip'[4]), Elems(ip'[6]), Sending')
      /\ ipsec' \in Seq(Mbuf) /\ ip'[4] \in Seq(Mbuf) /\ ip'[6] \in Seq(Mbuf)
  BY <1>1 DEF Arrays, Placed, Ver
<1>3. Elems(ipsec') \subseteq Mbuf /\ Elems(ip'[4]) \subseteq Mbuf /\ Elems(ip'[6]) \subseteq Mbuf
  BY <1>2, ElemsOf
<1>4. QED BY <1>2, <1>3 DEF Once, Ver

\* The packets of the crypto path are in it.
LEMMA InCrypted ==
  ASSUME IInv, [Next]_vars
  PROVE  /\ \A m : m \in Elems(pkts') \/ m \in Elems(cops') \/ m \in Elems(out')
                    => m \in Mbuf /\ m \in Crypted'
         /\ \A q \in Q!Qp : \A m \in Elems(buf'[q]) : m \in Mbuf /\ m \in Crypted'
         /\ \A q \in Q!Qp : \A i \in 1 .. Len(queue'[q]) : queue'[q][i] \in Crypted'
<1>1. TypeOK'
  BY NextTypes
<1>2. /\ pkts' \in Seq(Mbuf) /\ cops' \in Seq(Mbuf) /\ out' \in Seq(Mbuf)
      /\ buf' \in [Q!Qp -> Seq(Mbuf)]
  BY <1>1 DEF TypeOK, Q!TypeOK
<1>3. Elems(pkts') \subseteq Mbuf /\ Elems(cops') \subseteq Mbuf /\ Elems(out') \subseteq Mbuf
      /\ \A q \in Q!Qp : Elems(buf'[q]) \subseteq Mbuf
  BY <1>2, ElemsOf
<1>4. \A q \in Q!Qp : \A i \in 1 .. Len(queue'[q]) : queue'[q][i] \in Elems(queue'[q])
  BY DEF Elems, Q!Elems
<1>5. QED BY <1>3, <1>4, CryptedNext

\* The crypto path, when its packets are left as they are and where they are,
\* but for what is accepted or given up of those it has dequeued.
LEMMA CryptoFramed ==
  ASSUME IInv, [Next]_vars,
         UNCHANGED <<ctx, buf, queue, ready>>,
         Elems(pkts') \subseteq Elems(pkts),
         Elems(cops') \cup Elems(out') \subseteq Elems(cops) \cup Elems(out),
         \A m \in Mbuf : m \in Crypted' => Same(m)
  PROVE  InCrypto'
<1>1. InCrypto
  BY DEF IInv, Kinds
<1>2. ASSUME NEW m \in Elems(pkts') PROVE Waiting(m, ctx)'
  BY <1>1, <1>2, InCrypted DEF InCrypto, Waiting, Same
<1>3. ASSUME NEW m \in Elems(cops') \cup Elems(out') PROVE Prepared(m, ctx, TRUE)'
  BY <1>1, <1>3, InCrypted DEF InCrypto, Prepared, Same
<1>4. ASSUME NEW q \in Q!Qp, NEW m \in Elems(buf'[q]) PROVE Prepared(m, q[1], FALSE)'
  BY <1>1, <1>4, InCrypted DEF InCrypto, Prepared, Same
<1>5. ASSUME NEW q \in Q!Qp, NEW i \in 1 .. Len(queue'[q]), NEW m \in Mbuf, m = queue'[q][i]
      PROVE  Prepared(m, q[1], i <= ready[q])'
  <2>1. m \in Crypted' /\ m = queue[q][i] /\ i \in 1 .. Len(queue[q])
    BY <1>5, InCrypted
  <2>2. Same(m) /\ Prepared(m, q[1], i <= ready[q])
    BY <1>1, <2>1 DEF InCrypto
  <2>3. ready'[q] = ready[q]
    OBVIOUS
  <2>4. QED BY <2>2, <2>3 DEF Prepared, Same
<1>6. QED BY <1>2, <1>3, <1>4, <1>5 DEF InCrypto

\* The transmit buffers, when nothing new is put in them.
LEMMA SendingFramed ==
  ASSUME IInv, [Next]_vars,
         \A p \in Port : Elems(tx'[p]) \subseteq Elems(tx[p]),
         \A m \in Mbuf : m \in Sending' => Same(m)
  PROVE  SentAsAllowed'
<1>1. SentAsAllowed
  BY DEF IInv, Kinds
<1>2. ASSUME NEW p \in Port, NEW m \in Elems(tx'[p]) PROVE Allowed(m)'
  <2>1. m \in Elems(tx[p]) /\ m \in Mbuf /\ m \in Sending'
    <3>1. m \in Elems(tx[p])
      OBVIOUS
    <3>2. Elems(tx[p]) \subseteq Mbuf
      BY Types, ElemsOf
    <3>3. QED BY <3>1, <3>2 DEF Sending
  <2>2. Same(m) /\ Allowed(m)
    BY <1>1, <2>1 DEF SentAsAllowed
  <2>3. QED BY <2>2 DEF Same, Allowed
<1>3. QED BY <1>2 DEF SentAsAllowed

\* The packets in clear, when none is added and the version, direction and
\* stage of process_pkts ask no more of them.
LEMMA TrafficFramed ==
  ASSUME IInv, [Next]_vars,
         stage' = stage, side' = side, ctx' = ctx,
         ipsec' = ipsec, \A v \in Ver : Elems(ip'[v]) \subseteq Elems(ip[v]),
         \A m \in Mbuf : m \notin pool' => Same(m)
  PROVE  InTraffic'
<1>1. InTraffic
  BY DEF IInv, Kinds
<1>2. ASSUME NEW m \in Elems(ipsec') PROVE flow'[m].dir = side' /\ sealed'[m]
  BY <1>1, <1>2, HeldOut DEF InTraffic, Same
<1>3. ASSUME NEW v \in Ver, NEW m \in Elems(ip'[v])
      PROVE  IF stage' = "route" THEN Allowed(m)' ELSE Clear(m, v)'
  <2>1. Same(m) /\ m \in Elems(ip[v])
    BY <1>3, HeldOut
  <2>2. IF stage = "route" THEN Allowed(m) ELSE Clear(m, v)
    BY <1>1, <2>1 DEF InTraffic
  <2>3. Allowed(m) => Allowed(m)'
    BY <2>1 DEF Same, Allowed
  <2>4. Clear(m, v) => Clear(m, v)'
    BY <2>1 DEF Same, Clear, Cleared, Refused, Protected, Filtered
  <2>5. QED BY <2>2, <2>3, <2>4
<1>4. QED BY <1>1, <1>2, <1>3 DEF InTraffic

LEMMA SameAll ==
  ASSUME IInv, [Next]_vars, sa' = sa, SameContents \/ UNCHANGED <<flow, sealed>>
  PROVE  /\ \A m \in Mbuf : m \notin pool' => Same(m)
         /\ \A m \in Mbuf : m \in Crypted' \/ m \in Sending' => Same(m)
         /\ \A m \in Elems(ipsec') : Same(m)
         /\ \A v \in Ver : \A m \in Elems(ip'[v]) : Same(m)
  BY SameKept, HeldOut DEF Same

\* Routing and sending: a packet that was allowed to be sent still is.
LEMMA RoutedKinds ==
  ASSUME IInv, [Next]_vars,
         UNCHANGED <<cryptoVars, side, ipsec, sa>>, SameContents,
         stage = "route", stage' = "route",
         \A v \in Ver : Elems(ip'[v]) \subseteq Elems(ip[v]),
         \A p \in Port : Elems(tx'[p]) \subseteq
           Elems(tx[p]) \cup Elems(ip[4]) \cup Elems(ip[6])
  PROVE  Kinds'
<1>1. \A m \in Mbuf : (m \notin pool' \/ m \in Crypted' \/ m \in Sending') => Same(m)
  BY SameAll
<1>2. InTraffic'
  BY <1>1, TrafficFramed, Outside
<1>3. InCrypto'
  BY <1>1, CryptoFramed, Outside
<1>4. ASSUME NEW p \in Port, NEW m \in Elems(tx'[p]) PROVE Allowed(m)'
  <2>1. m \in Elems(tx[p]) \/ m \in Elems(ip[4]) \/ m \in Elems(ip[6])
    BY <1>4
  <2>2. m \in Mbuf
    BY <2>1, Types, ElemsOf
  <2>3. m \in Sending'
    BY DEF Sending
  <2>4. Allowed(m)
    BY <2>1 DEF IInv, Kinds, InTraffic, SentAsAllowed, Ver
  <2>5. Same(m)
    BY <1>1, <2>2, <2>3
  <2>6. QED BY <2>4, <2>5 DEF Same, Allowed
<1>5. QED BY <1>2, <1>3, <1>4 DEF Kinds, SentAsAllowed

LEMMA UnroutedKinds ==
  ASSUME IInv, [Next]_vars, Unrouted
  PROVE  Kinds'
<1>1. /\ stage = "route" /\ stage' = "route" /\ ip[Routing] # <<>>
      /\ ip' = [ip EXCEPT ![Routing] = Tail(ip[Routing])]
      /\ SameContents
      /\ UNCHANGED <<cryptoVars, side, ipsec, tx, sa>>
  BY DEF Unrouted
<1>2. \A v \in Ver : Elems(ip'[v]) \subseteq Elems(ip[v])
  BY <1>1, NextRouted
<1>3. QED BY <1>1, <1>2, RoutedKinds

LEMMA SendKinds ==
  ASSUME IInv, [Next]_vars, NEW p \in Port, NEW ret \in 0 .. MaxBurst, Send(p, ret)
  PROVE  Kinds'
<1> DEFINE h == Head(ip[Routing])
           burst == Append(tx[p], h)
<1>1. /\ stage = "route" /\ stage' = "route" /\ ip[Routing] # <<>>
      /\ ip' = [ip EXCEPT ![Routing] = Tail(ip[Routing])]
      /\ SameContents
      /\ UNCHANGED <<cryptoVars, side, ipsec, sa>>
      /\ tx' = [tx EXCEPT ![p] = burst] \/ tx' = [tx EXCEPT ![p] = <<>>]
  BY DEF Send
<1>2. /\ h \in Mbuf /\ h \in Elems(ip[4]) \cup Elems(ip[6])
      /\ \A v \in Ver : Elems(ip'[v]) \subseteq Elems(ip[v])
  <2>1. /\ Routing \in Ver /\ h \in Mbuf /\ h \in Elems(ip[Routing])
        /\ \A v \in Ver : Elems(ip'[v]) = Elems(ip[v]) \ {h}
    BY <1>1, NextRouted
  <2>2. QED BY <2>1 DEF Ver
<1> HIDE DEF h
<1>3. Elems(burst) = Elems(tx[p]) \cup {h} /\ Elems(<<>>) = {}
  BY <1>2, Types, AppendElems, EmptyElems
<1> HIDE DEF burst
<1>4. ASSUME NEW r \in Port
      PROVE  Elems(tx'[r]) \subseteq Elems(tx[r]) \cup Elems(ip[4]) \cup Elems(ip[6])
  <2>1. tx'[r] = tx[r] \/ (r = p /\ tx'[r] \in {burst, <<>>})
    BY <1>1, Types
  <2>2. QED BY <1>2, <1>3, <2>1
<1>5. QED BY <1>1, <1>2, <1>4, RoutedKinds

LEMMA IdleKinds ==
  ASSUME IInv, [Next]_vars,
         RouteDone \/ Transmitted \/ \E p \in Port, ret \in 0 .. MaxBurst : Drain(p, ret)
  PROVE  Kinds'
<1>1. /\ UNCHANGED <<cryptoVars, side, ipsec, ip, sa>>
      /\ SameContents \/ UNCHANGED <<flow, sealed>>
  BY DEF RouteDone, Transmitted, Drain, trafficVars
<1>2. \A m \in Mbuf : (m \notin pool' \/ m \in Crypted' \/ m \in Sending') => Same(m)
  BY <1>1, SameAll
<1>3. InTraffic'
  <2>1. CASE RouteDone
    <3>1. stage' = "idle" /\ ip'[4] = <<>> /\ ip'[6] = <<>> /\ ipsec' = <<>>
      BY <2>1 DEF RouteDone, IInv, Control
    <3>2. Elems(ip'[4]) = {} /\ Elems(ip'[6]) = {} /\ Elems(ipsec') = {}
      BY <3>1, EmptyElems
    <3>3. QED BY <3>1, <3>2 DEF InTraffic, Ver
  <2>2. CASE stage' = stage
    BY <1>1, <1>2, <2>2, TrafficFramed, Outside
  <2>3. QED BY <2>1, <2>2 DEF Transmitted, Drain, trafficVars
<1>4. InCrypto'
  BY <1>1, <1>2, CryptoFramed, Outside
<1>5. SentAsAllowed'
  <2>1. ASSUME NEW p \in Port PROVE Elems(tx'[p]) \subseteq Elems(tx[p])
    <3>1. tx'[p] = tx[p] \/ tx'[p] = <<>>
      BY Types DEF RouteDone, Transmitted, Drain
    <3>2. QED BY <3>1, EmptyElems
  <2>2. QED BY <1>2, <2>1, SendingFramed
<1>6. QED BY <1>3, <1>4, <1>5 DEF Kinds

LEMMA CallInboundKinds ==
  ASSUME IInv, [Next]_vars, CallInbound
  PROVE  Kinds'
<1>1. /\ stage = "sorted" /\ stage' = "crypto" /\ side = "in" /\ side' = "in" /\ ctx' = "in"
      /\ pkts' = ipsec /\ ipsec' = <<>>
      /\ UNCHANGED <<pool, cops, out, buf, queue, ready, ip, tx, flow, sealed, sa>>
  BY DEF CallInbound, Enter
<1>2. \A m : Same(m)
  BY <1>1 DEF Same
<1>3. pc = "caller" /\ out = <<>> /\ cops = <<>>
  BY <1>1, CryptoNow DEF IInv, Control
<1>4. Elems(ipsec') = {} /\ Elems(cops') = {} /\ Elems(out') = {}
  BY <1>1, <1>3, EmptyElems
<1>5. InTraffic'
  <2>1. ASSUME NEW v \in Ver, NEW m \in Elems(ip'[v]) PROVE Clear(m, v)'
    BY <1>1, <1>2, <2>1 DEF IInv, Kinds, InTraffic, Clear, Same
  <2>2. QED BY <1>1, <1>4, <2>1 DEF InTraffic
<1>6. InCrypto'
  <2>1. ASSUME NEW m \in Elems(pkts') PROVE Waiting(m, ctx)'
    BY <1>1, <1>2, <2>1 DEF IInv, Kinds, InTraffic, Waiting, Same
  <2>2. ASSUME NEW q \in Q!Qp, NEW m \in Elems(buf'[q]) PROVE Prepared(m, q[1], FALSE)'
    BY <1>1, <1>2, <2>2 DEF IInv, Kinds, InCrypto, Prepared, Same
  <2>3. ASSUME NEW q \in Q!Qp, NEW i \in 1 .. Len(queue'[q]), NEW m \in Mbuf, m = queue'[q][i]
        PROVE  Prepared(m, q[1], i <= ready[q])'
    <3>1. m = queue[q][i] /\ i \in 1 .. Len(queue[q]) /\ ready' = ready
      BY <1>1, <2>3
    <3>2. Prepared(m, q[1], i <= ready[q])
      BY <3>1 DEF IInv, Kinds, InCrypto
    <3>3. QED BY <1>2, <3>1, <3>2 DEF Prepared, Same
  <2>4. QED BY <1>4, <2>1, <2>2, <2>3 DEF InCrypto
<1>7. SentAsAllowed'
  BY <1>1, <1>2, SendingFramed
<1>8. QED BY <1>5, <1>6, <1>7 DEF Kinds

LEMMA CallOutboundKinds ==
  ASSUME IInv, [Next]_vars, CallOutbound
  PROVE  Kinds'
<1> DEFINE C == {m \in Mbuf : Cleared(m)}
           S == {m \in Mbuf : Protected(m)}
           both == ip[4] \o ip[6]
<1>1. /\ stage = "sorted" /\ stage' = "crypto" /\ side = "out" /\ side' = "out"
      /\ ctx' = "out"
      /\ pkts' = Keep(both, S) /\ ipsec' = <<>>
      /\ ip' = [v \in Ver |-> Keep(ip[v], C)]
      /\ UNCHANGED <<cops, out, buf, queue, ready, tx, sa>>
      /\ SameContents
  BY DEF CallOutbound, Enter
<1>2. /\ \A m \in Mbuf : (m \in Crypted' \/ m \in Sending') => Same(m)
      /\ \A v \in Ver : \A m \in Elems(ip'[v]) : Same(m)
  BY <1>1, SameAll
<1>3. pc = "caller" /\ out = <<>> /\ cops = <<>>
  BY <1>1, CryptoNow DEF IInv, Control
<1>4. Elems(ipsec') = {} /\ Elems(cops') = {} /\ Elems(out') = {}
  BY <1>1, <1>3, EmptyElems
<1>5. /\ \A v \in Ver : Elems(ip'[v]) = Elems(ip[v]) \cap C
      /\ Elems(pkts') = (Elems(ip[4]) \cup Elems(ip[6])) \cap S
  <2>1. both \in Seq(Mbuf) /\ Elems(both) = Elems(ip[4]) \cup Elems(ip[6])
    BY Types, ConcatElems
  <2> HIDE DEF both, C, S
  <2>2. Elems(Keep(both, S)) = Elems(both) \cap S
    BY <2>1, KeepElems
  <2>3. ASSUME NEW v \in Ver PROVE Elems(Keep(ip[v], C)) = Elems(ip[v]) \cap C
    BY Types, KeepElems
  <2>4. QED BY <1>1, <2>1, <2>2, <2>3
<1>6. InTraffic'
  <2>1. ASSUME NEW v \in Ver, NEW m \in Elems(ip'[v]) PROVE Clear(m, v)'
    <3>1. Same(m) /\ m \in Elems(ip[v]) /\ Cleared(m)
      BY <1>2, <1>5, <2>1
    <3>2. Clear(m, v)
      BY <1>1, <3>1 DEF IInv, Kinds, InTraffic
    <3>3. Cleared(m)'
      BY <3>1 DEF Same, Cleared, Refused, Protected, Filtered
    <3>4. QED BY <1>1, <3>1, <3>2, <3>3 DEF Clear, Same
  <2>2. QED BY <1>1, <1>4, <2>1 DEF InTraffic
<1>7. InCrypto'
  <2>1. ASSUME NEW m \in Elems(pkts') PROVE Waiting(m, ctx)'
    <3>1. Same(m)
      BY <1>2, <2>1, InCrypted
    <3>2. \E v \in Ver : m \in Elems(ip[v])
      BY <1>5, <2>1 DEF Ver
    <3>3. flow[m].dir = "out" /\ ~ sealed[m]
      BY <1>1, <3>2 DEF IInv, Kinds, InTraffic, Clear
    <3>4. QED BY <1>1, <3>1, <3>3 DEF Waiting, Same
  <2>2. ASSUME NEW q \in Q!Qp, NEW m \in Elems(buf'[q]) PROVE Prepared(m, q[1], FALSE)'
    <3>1. Same(m)
      BY <1>2, <2>2, InCrypted
    <3>2. QED BY <1>1, <2>2, <3>1 DEF IInv, Kinds, InCrypto, Prepared, Same
  <2>3. ASSUME NEW q \in Q!Qp, NEW i \in 1 .. Len(queue'[q]), NEW m \in Mbuf, m = queue'[q][i]
        PROVE  Prepared(m, q[1], i <= ready[q])'
    <3>1. m = queue[q][i] /\ i \in 1 .. Len(queue[q]) /\ ready' = ready
      BY <1>1, <2>3
    <3>2. Prepared(m, q[1], i <= ready[q])
      BY <3>1 DEF IInv, Kinds, InCrypto
    <3>3. Same(m)
      BY <1>2, <2>3, InCrypted
    <3>4. QED BY <3>1, <3>2, <3>3 DEF Prepared, Same
  <2>4. QED BY <1>4, <2>1, <2>2, <2>3 DEF InCrypto
<1>8. SentAsAllowed'
  BY <1>1, <1>2, SendingFramed
<1>9. QED BY <1>6, <1>7, <1>8 DEF Kinds

\* What leaves the crypto path and the filters is as the policy asks.
LEMMA ReturnKinds ==
  ASSUME IInv, [Next]_vars, Leave, SameContents \/ UNCHANGED <<flow, sealed>>,
         \A v \in Ver : \A m \in Elems(ip'[v]) :
           \/ m \in Elems(ip[v]) /\ (ctx = "in" => Passes(m, FALSE))
           \/ m \in Elems(out) /\ (ctx = "in" => Passes(m, TRUE))
  PROVE  Kinds'
<1>1. /\ stage = "crypto" /\ stage' = "route" /\ pc = "caller" /\ out' = <<>>
      /\ UNCHANGED <<ctx, pkts, cops, buf, queue, ready, ipsec, tx, sa>>
  BY DEF Leave
<1>2. /\ \A m \in Mbuf : (m \in Crypted' \/ m \in Sending') => Same(m)
      /\ \A v \in Ver : \A m \in Elems(ip'[v]) : Same(m)
  BY <1>1, SameAll
<1>3. ipsec = <<>> /\ cops = <<>> /\ ctx = side /\ ctx \in Ctx
  BY <1>1, CryptoNow DEF IInv, Control, Kinds, InTraffic
<1>4. Elems(ipsec') = {} /\ Elems(cops') = {} /\ Elems(out') = {}
  BY <1>1, <1>3, EmptyElems
<1>5. ASSUME NEW v \in Ver, NEW m \in Elems(ip'[v]) PROVE Allowed(m)
  <2>1. CASE m \in Elems(ip[v]) /\ (ctx = "in" => Passes(m, FALSE))
    <3>1. Clear(m, v)
      BY <1>1, <2>1 DEF IInv, Kinds, InTraffic
    <3>3. /\ flow[m].dir = ctx /\ flow[m].esp = 0 /\ ~ sealed[m]
          /\ ctx = "out" => Cleared(m)
      BY <1>1, <1>3, <3>1 DEF Clear
    <3>4. flow[m].sp \in Nat \cup {Bypass, Discard}
      <4>1. m \in Mbuf
        BY <1>5, HeldOut
      <4>2. flow[m] \in FlowType \cup {NoFlow}
        BY <4>1, Types, IpsecLcoreAssumption
      <4>3. QED BY <4>2 DEF FlowType, NoFlow
    <3>5. CASE ctx = "in"
      <4>1. Passes(m, FALSE)
        BY <2>1, <3>5
      <4>2. ~ HasSp["in"][flow[m].v] \/ flow[m].sp = Bypass
        BY <3>3, <4>1 DEF Passes, Version
      <4>3. QED BY <3>3, <3>5, <4>2 DEF Allowed
    <3>6. CASE ctx = "out"
      <4>1. ~ HasSp["out"][flow[m].v] \/ flow[m].sp = Bypass
        BY <3>3, <3>4, <3>6 DEF Cleared, Refused, Protected, Filtered, Bypass, Discard
      <4>2. QED BY <3>3, <3>6, <4>1 DEF Allowed
    <3>7. QED BY <1>3, <3>5, <3>6 DEF Ctx
  <2>2. CASE m \in Elems(out) /\ (ctx = "in" => Passes(m, TRUE))
    <3>1. Prepared(m, ctx, TRUE)
      BY <2>2 DEF IInv, Kinds, InCrypto
    <3>2. /\ flow[m].dir = ctx /\ sa[m] \in Sa /\ (sealed[m] <=> ctx = "out")
          /\ sa[m] = <<ctx, IF ctx = "in" THEN flow[m].esp ELSE flow[m].sp>>
      BY <3>1, Zenon DEF Prepared
    <3>3. sa[m][2] \in Nat \ {0}
      BY <3>2, IpsecLcoreAssumption
    <3>4. CASE ctx = "in"
      <4>1. flow[m].esp # 0 /\ sa[m] = <<"in", flow[m].esp>> /\ ~ sealed[m]
        BY <3>2, <3>3, <3>4
      <4>2. Passes(m, TRUE)
        BY <2>2, <3>4
      <4>3. \/ ~ HasSp["in"][flow[m].v] \/ flow[m].sp = Bypass
            \/ sa[m] = <<"in", flow[m].sp>>
        BY <3>2, <3>4, <4>1, <4>2 DEF Passes, Version
      <4>4. flow[m].esp = flow[m].sp \/ ~ (sa[m] = <<"in", flow[m].sp>>)
        BY <4>1
      <4>5. QED BY <3>2, <3>4, <4>1, <4>3, <4>4 DEF Allowed
    <3>5. CASE ctx = "out"
      <4>1. sa[m] = <<"out", flow[m].sp>> /\ sealed[m]
        BY <3>2, <3>5
      <4>2. flow[m].sp > 0
        BY <3>3, <4>1
      <4>3. QED BY <3>2, <3>5, <4>1, <4>2 DEF Allowed
    <3>6. QED BY <1>3, <3>4, <3>5 DEF Ctx
  <2>3. QED BY <1>5, <2>1, <2>2
<1>6. InTraffic'
  <2>1. ASSUME NEW v \in Ver, NEW m \in Elems(ip'[v]) PROVE Allowed(m)'
    BY <1>2, <1>5, <2>1 DEF Same, Allowed
  <2>2. QED BY <1>1, <1>4, <2>1 DEF InTraffic
<1>7. InCrypto'
  <2>1. ASSUME NEW m \in Elems(pkts') PROVE Waiting(m, ctx)'
    <3>1. Same(m)
      BY <1>2, <2>1, InCrypted
    <3>2. QED BY <1>1, <2>1, <3>1 DEF IInv, Kinds, InCrypto, Waiting, Same
  <2>2. ASSUME NEW q \in Q!Qp, NEW m \in Elems(buf'[q]) PROVE Prepared(m, q[1], FALSE)'
    <3>1. Same(m)
      BY <1>2, <2>2, InCrypted
    <3>2. QED BY <1>1, <2>2, <3>1 DEF IInv, Kinds, InCrypto, Prepared, Same
  <2>3. ASSUME NEW q \in Q!Qp, NEW i \in 1 .. Len(queue'[q]), NEW m \in Mbuf, m = queue'[q][i]
        PROVE  Prepared(m, q[1], i <= ready[q])'
    <3>1. m = queue[q][i] /\ i \in 1 .. Len(queue[q]) /\ ready' = ready
      BY <1>1, <2>3
    <3>2. Prepared(m, q[1], i <= ready[q])
      BY <3>1 DEF IInv, Kinds, InCrypto
    <3>3. Same(m)
      BY <1>2, <2>3, InCrypted
    <3>4. QED BY <3>1, <3>2, <3>3 DEF Prepared, Same
  <2>4. QED BY <1>4, <2>1, <2>2, <2>3 DEF InCrypto
<1>8. SentAsAllowed'
  BY <1>1, <1>2, SendingFramed
<1>9. QED BY <1>6, <1>7, <1>8 DEF Kinds

LEMMA ReturnInboundKinds ==
  ASSUME IInv, [Next]_vars, ReturnInbound
  PROVE  Kinds'
<1> DEFINE PF == {m \in Mbuf : Passes(m, FALSE)}
           PT == {m \in Mbuf : Passes(m, TRUE)}
           V(v) == {m \in Mbuf : Version(m) = v}
           a(v) == Keep(ip[v], PF)
           o(v) == Keep(out, V(v))
           b(v) == Keep(o(v), PT)
<1>1. /\ Leave /\ SameContents
      /\ ip' = [v \in Ver |-> a(v) \o b(v)]
  BY DEF ReturnInbound, OfVersion
<1>2. ASSUME NEW v \in Ver, NEW m \in Elems(ip'[v])
      PROVE  \/ m \in Elems(ip[v]) /\ Passes(m, FALSE)
             \/ m \in Elems(out) /\ Passes(m, TRUE)
  <2> HIDE DEF PF, PT, V
  <2>1. ip[v] \in Seq(Mbuf) /\ out \in Seq(Mbuf)
    BY Types
  <2>2. a(v) \in Seq(Mbuf) /\ Elems(a(v)) = Elems(ip[v]) \cap PF
    BY <2>1, KeepElems
  <2>3. o(v) \in Seq(Mbuf) /\ Elems(o(v)) = Elems(out) \cap V(v)
    BY <2>1, KeepElems
  <2> HIDE DEF o
  <2>4. b(v) \in Seq(Mbuf) /\ Elems(b(v)) = Elems(o(v)) \cap PT
    BY <2>3, KeepElems
  <2> HIDE DEF a, b
  <2>5. Elems(a(v) \o b(v)) = Elems(a(v)) \cup Elems(b(v))
    BY <2>2, <2>4, ConcatElems
  <2>6. ip'[v] = a(v) \o b(v)
    BY <1>1
  <2>7. (m \in Elems(ip[v]) /\ m \in PF) \/ (m \in Elems(out) /\ m \in PT)
    BY <1>2, <2>2, <2>3, <2>4, <2>5, <2>6
  <2>8. QED BY <2>7 DEF PF, PT
<1>3. QED BY <1>1, <1>2, ReturnKinds

LEMMA ReturnOutboundKinds ==
  ASSUME IInv, [Next]_vars, ReturnOutbound
  PROVE  Kinds'
<1> DEFINE V(v) == {m \in Mbuf : Version(m) = v}
           o(v) == Keep(out, V(v))
<1>1. /\ Leave /\ ctx = "out" /\ UNCHANGED <<flow, sealed>>
      /\ ip' = [v \in Ver |-> ip[v] \o o(v)]
  BY DEF ReturnOutbound, OfVersion
<1> HIDE DEF V
<1>2. ASSUME NEW v \in Ver, NEW m \in Elems(ip'[v])
      PROVE  m \in Elems(ip[v]) \/ m \in Elems(out)
  <2>1. ip[v] \in Seq(Mbuf) /\ out \in Seq(Mbuf)
    BY Types
  <2>2. o(v) \in Seq(Mbuf) /\ Elems(o(v)) = Elems(out) \cap V(v)
    BY <2>1, KeepElems
  <2> HIDE DEF o
  <2>3. Elems(ip[v] \o o(v)) = Elems(ip[v]) \cup Elems(o(v))
    BY <2>1, <2>2, ConcatElems
  <2>4. ip'[v] = ip[v] \o o(v)
    BY <1>1
  <2>5. QED BY <1>2, <2>2, <2>3, <2>4
<1>3. QED BY <1>1, <1>2, ReturnKinds

LEMMA ReceiveKinds ==
  ASSUME IInv, [Next]_vars,
         NEW d \in Ctx, NEW s \in Q!Bursts, NEW f \in [DOMAIN s -> Flow], Receive(d, s, f)
  PROVE  Kinds'
<1>1. /\ stage' = "sorted" /\ side' = d /\ pool' = pool \ Elems(s)
      /\ UNCHANGED <<cryptoVars, tx, sa>>
  BY DEF Receive
<1>2. /\ \A m \in Mbuf : m \notin pool /\ m \notin Elems(s)
              => flow'[m] = flow[m] /\ sealed'[m] = sealed[m]
      /\ \A m \in Elems(s) : /\ m \in Mbuf /\ m \notin pool'
                             /\ flow'[m].dir = d
                             /\ sealed'[m] <=> flow'[m].esp # 0
      /\ Elems(ipsec') = {m \in Elems(s) : flow'[m].esp # 0}
      /\ \A v \in Ver : Elems(ip'[v]) = {m \in Elems(s) : flow'[m].esp = 0 /\ flow'[m].v = v}
  BY ReceiveContents
<1>3. ASSUME NEW m \in Mbuf, m \in Crypted' \/ m \in Sending' PROVE Same(m)
  <2>1. Crypted' = Crypted /\ Sending' = Sending
    BY <1>1, Outside DEF Sending
  <2>2. m \notin pool
    BY <1>3, <2>1 DEF IInv, Placed, Once
  <2>3. m \notin Elems(s)
    BY <2>2, Arrivals
  <2>4. QED BY <1>1, <1>2, <2>2, <2>3 DEF Same
<1>4. InTraffic'
  <2>1. ASSUME NEW m \in Elems(ipsec') PROVE flow'[m].dir = side' /\ sealed'[m]
    BY <1>1, <1>2, <2>1
  <2>2. ASSUME NEW v \in Ver, NEW m \in Elems(ip'[v]) PROVE Clear(m, v)'
    BY <1>1, <1>2, <2>2 DEF Clear
  <2>3. QED BY <1>1, <2>1, <2>2 DEF InTraffic
<1>5. InCrypto'
  BY <1>1, <1>3, CryptoFramed, Outside
<1>6. SentAsAllowed'
  BY <1>1, <1>3, SendingFramed
<1>7. QED BY <1>4, <1>5, <1>6 DEF Kinds

\* The steps of the crypto path change nothing outside it.
LEMMA CryptoKinds ==
  ASSUME IInv, [Next]_vars, UNCHANGED <<trafficVars, tx, ctx>>,
         \A m \in Mbuf : m \notin pool' /\ m \notin Crypted' => Same(m),
         InCrypto'
  PROVE  Kinds'
<1>1. UNCHANGED <<side, stage, ipsec, ip>>
  BY DEF trafficVars
<1>2. Once(pool', wire', Crypted', Elems(ipsec'), Elems(ip'[4]), Elems(ip'[6]), Sending')
  BY NextPlaces DEF Placed
<1>3. InTraffic
  BY DEF IInv, Kinds
<1>4. ASSUME NEW m \in Elems(ipsec') PROVE flow'[m].dir = side' /\ sealed'[m]
  <2>1. m \in Mbuf /\ m \notin pool' /\ m \notin Crypted'
    BY <1>2, <1>4, HeldOut DEF Once
  <2>2. Same(m)
    BY <2>1
  <2>3. QED BY <1>1, <1>3, <1>4, <2>2 DEF InTraffic, Same
<1>5. ASSUME NEW v \in Ver, NEW m \in Elems(ip'[v])
      PROVE  IF stage' = "route" THEN Allowed(m)' ELSE Clear(m, v)'
  <2>1. m \in Mbuf /\ m \notin pool' /\ m \notin Crypted'
    BY <1>2, <1>5, HeldOut DEF Once, Ver
  <2>2. Same(m)
    BY <2>1
  <2>3. IF stage = "route" THEN Allowed(m) ELSE Clear(m, v)
    BY <1>1, <1>3, <1>5 DEF InTraffic
  <2>4. Allowed(m) => Allowed(m)'
    BY <2>2 DEF Same, Allowed
  <2>5. Clear(m, v) => Clear(m, v)'
    BY <1>1, <2>2 DEF Same, Clear, Cleared, Refused, Protected, Filtered
  <2>6. QED BY <1>1, <2>3, <2>4, <2>5
<1>6. InTraffic'
  BY <1>1, <1>3, <1>4, <1>5 DEF InTraffic
<1>7. ASSUME NEW m \in Mbuf, m \in Sending' PROVE Same(m)
  <2>1. m \notin pool' /\ m \notin Crypted'
    BY <1>2, <1>7 DEF Once
  <2>2. QED BY <2>1
<1>8. SentAsAllowed'
  BY <1>7, SendingFramed
<1>9. QED BY <1>6, <1>8 DEF Kinds

LEMMA RefuseKinds ==
  ASSUME IInv, [Next]_vars, Refuse
  PROVE  Kinds'
<1>1. /\ pkts # <<>> /\ pkts' = Tail(pkts) /\ pool' = pool \cup {Head(pkts)}
      /\ UNCHANGED <<ctx, cops, out, buf, queue, ready>>
      /\ SameContents /\ UNCHANGED <<trafficVars, tx>>
      /\ sa' = sa \/ sa' = [sa EXCEPT ![Head(pkts)] = FoundSa]
  BY DEF Refuse, Q!EnqueueReject, Q!qpVars
<1>2. Elems(pkts') \subseteq Elems(pkts)
  BY <1>1, Types, TailElems, CryptoNow DEF IInv
<1>3. ASSUME NEW m \in Mbuf, m \notin pool' PROVE Same(m)
  <2>1. m # Head(pkts)
    BY <1>1, <1>3
  <2>2. sa'[m] = sa[m]
    BY <1>1, <2>1, Types
  <2>3. QED BY <1>1, <1>3, <2>2, SameKept DEF Same
<1>4. InCrypto'
  <2>1. \A m \in Mbuf : m \in Crypted' => Same(m)
    BY <1>3, HeldOut
  <2>2. QED BY <1>1, <1>2, <2>1, CryptoFramed
<1>5. QED BY <1>1, <1>3, <1>4, CryptoKinds

LEMMA CryptoStepKinds ==
  ASSUME IInv, [Next]_vars, Crypto
  PROVE  Kinds'
<1>1. /\ SameContents /\ UNCHANGED <<trafficVars, tx, sa>>
      /\ \/ Q!EnqueueDone \/ Q!PollQp \/ Q!PostAccept \/ Q!PostReject \/ Q!DequeueDone
  BY DEF Crypto, Q!Dequeue
<1>2. \A m \in Mbuf : (m \notin pool' \/ m \in Crypted') => Same(m)
  BY <1>1, SameAll
<1>3. ASSUME Q!EnqueueDone \/ Q!DequeueDone PROVE InCrypto' /\ ctx' = ctx
  <2>1. UNCHANGED <<ctx, pkts, cops, out, buf, queue, ready>>
    BY <1>3 DEF Q!EnqueueDone, Q!DequeueDone, Q!qpVars
  <2>2. QED BY <1>2, <2>1, CryptoFramed
<1>4. ASSUME Q!PostAccept \/ Q!PostReject PROVE InCrypto' /\ ctx' = ctx
  <2>1. /\ cops # <<>> /\ cops' = Tail(cops)
        /\ UNCHANGED <<ctx, pkts, buf, queue, ready>>
        /\ out' = out \/ out' = Append(out, Head(cops))
    BY <1>4 DEF Q!PostAccept, Q!PostReject, Q!qpVars
  <2>2. cops \in Seq(Mbuf) /\ Q!Distinct(cops) /\ out \in Seq(Mbuf)
    BY CryptoNow DEF IInv
  <2>3. /\ Elems(cops') \subseteq Elems(cops) /\ Head(cops) \in Elems(cops)
        /\ Head(cops) \in Mbuf
    BY <2>1, <2>2, TailElems
  <2>4. Elems(out') \subseteq Elems(out) \cup {Head(cops)}
    BY <2>1, <2>2, <2>3, AppendElems, ZenonT(40)
  <2>5. Elems(cops') \cup Elems(out') \subseteq Elems(cops) \cup Elems(out)
    BY <2>3, <2>4
  <2>6. QED BY <1>2, <2>1, <2>5, CryptoFramed
<1>5. ASSUME Q!PollQp PROVE InCrypto' /\ ctx' = ctx
  <2> DEFINE q  == <<ctx, last_qp[ctx]>>
             nb == Q!Smaller(ready[q], MaxBurst - Len(out))
             a  == SubSeq(queue[q], 1, nb)
             b  == SubSeq(queue[q], nb + 1, Len(queue[q]))
  <2>1. /\ cops = <<>> /\ polled < NbQps[ctx] /\ Len(out) < MaxBurst
        /\ UNCHANGED <<ctx, pkts, out, buf>>
        /\ \/ UNCHANGED <<cops, queue, ready>>
           \/ /\ cops' = a /\ queue' = [queue EXCEPT ![q] = b]
              /\ ready' = [ready EXCEPT ![q] = ready[q] - nb]
    BY <1>5 DEF Q!PollQp, Q!qpVars
  <2>2. CASE UNCHANGED <<cops, queue, ready>>
    BY <1>2, <2>1, <2>2, CryptoFramed
  <2>3. CASE /\ cops' = a /\ queue' = [queue EXCEPT ![q] = b]
             /\ ready' = [ready EXCEPT ![q] = ready[q] - nb]
    <3>1. /\ queue \in [Q!Qp -> Seq(Mbuf)] /\ ready \in [Q!Qp -> Nat]
          /\ last_qp[ctx] \in Nat /\ ctx \in Ctx
          /\ polled \in Nat /\ NbQps[ctx] \in Nat /\ MaxBurst \in Nat /\ Len(out) \in Nat
          /\ \A r \in Q!Qp : ready[r] <= Len(queue[r]) /\ Len(queue[r]) \in Nat
          /\ NbQps[ctx] # 0 => last_qp[ctx] < NbQps[ctx]
      BY CryptoNow, ElemsOf, Constants DEF IInv
    <3>2. q \in Q!Qp /\ q[1] = ctx
      BY <2>1, <3>1, Constants
    <3>3. nb \in 0 .. Len(queue[q]) /\ nb <= ready[q]
      <4> DEFINE l == Len(out)
                 k == Len(queue[q])
      <4>1. l \in Nat /\ k \in Nat /\ l < MaxBurst /\ ready[q] \in Nat /\ ready[q] <= k
        BY <2>1, <3>1, <3>2
      <4> HIDE DEF q, l, k
      <4>2. Q!Smaller(ready[q], MaxBurst - l) \in 0 .. k /\ Q!Smaller(ready[q], MaxBurst - l) <= ready[q]
        BY <3>1, <4>1 DEF Q!Smaller
      <4>3. QED BY <4>2 DEF l, k
    <3> HIDE DEF q, nb
    <3>4. /\ Len(a) = nb /\ Len(b) = Len(queue[q]) - nb
          /\ \A i \in 1 .. Len(a) : a[i] = queue[q][i] /\ i \in 1 .. Len(queue[q]) /\ i <= ready[q]
          /\ \A i \in 1 .. Len(b) : b[i] = queue[q][nb + i] /\ nb + i \in 1 .. Len(queue[q])
      <4> DEFINE u == queue[q]
      <4>1. u \in Seq(Mbuf) /\ Len(u) \in Nat /\ nb \in 0 .. Len(u) /\ ready[q] \in Nat
            /\ nb <= ready[q]
        BY <3>1, <3>2, <3>3
      <4> HIDE DEF u
      <4>2. /\ Len(SubSeq(u, 1, nb)) = nb /\ Len(SubSeq(u, nb + 1, Len(u))) = Len(u) - nb
            /\ \A i \in 1 .. nb : SubSeq(u, 1, nb)[i] = u[i]
            /\ \A i \in 1 .. Len(u) - nb : SubSeq(u, nb + 1, Len(u))[i] = u[nb + i]
        <5>1. /\ Len(SubSeq(u, 1, nb)) = nb /\ Len(SubSeq(u, nb + 1, Len(u))) = Len(u) - nb
          BY <4>1, SplitElems
        <5>2. \A i \in 1 .. nb : SubSeq(u, 1, nb)[i] = u[i]
          BY <4>1
        <5>3. \A i \in 1 .. Len(u) - nb : SubSeq(u, nb + 1, Len(u))[i] = u[nb + i]
          BY <4>1
        <5>4. QED BY <5>1, <5>2, <5>3
      <4>3. QED BY <4>1, <4>2 DEF u
    <3> HIDE DEF a, b
    <3>5. /\ queue'[q] = b /\ ready'[q] = ready[q] - nb /\ cops' = a
          /\ \A r \in Q!Qp : r # q => queue'[r] = queue[r] /\ ready'[r] = ready[r]
      BY <2>3, <3>1, <3>2
    <3>6. InCrypto
      BY DEF IInv, Kinds
    <3>7. ASSUME NEW m \in Elems(pkts') PROVE Waiting(m, ctx)'
      <4>1. Same(m)
        BY <1>2, <3>7, InCrypted
      <4>2. QED BY <2>1, <3>6, <3>7, <4>1 DEF InCrypto, Waiting, Same
    <3>8. ASSUME NEW m \in Elems(cops') \cup Elems(out') PROVE Prepared(m, ctx, TRUE)'
      <4>1. Same(m) /\ m \in Mbuf
        BY <1>2, <3>8, InCrypted
      <4>2. Prepared(m, ctx, TRUE)
        <5>1. CASE m \in Elems(out)
          BY <3>6, <5>1 DEF InCrypto
        <5>2. CASE m \in Elems(cops')
          <6>1. PICK i \in 1 .. Len(a) : m = a[i]
            BY <3>5, <5>2 DEF Elems, Q!Elems
          <6>2. Prepared(m, q[1], i <= ready[q]) /\ i <= ready[q]
            BY <3>2, <3>4, <3>6, <4>1, <6>1 DEF InCrypto
          <6>3. QED BY <3>2, <6>2 DEF Prepared
        <5>3. QED BY <2>1, <3>8, <5>1, <5>2
      <4>3. QED BY <2>1, <4>1, <4>2 DEF Prepared, Same
    <3>9. ASSUME NEW r \in Q!Qp, NEW m \in Elems(buf'[r]) PROVE Prepared(m, r[1], FALSE)'
      <4>1. Same(m)
        BY <1>2, <3>9, InCrypted
      <4>2. QED BY <2>1, <3>6, <3>9, <4>1 DEF InCrypto, Prepared, Same
    <3>10. ASSUME NEW r \in Q!Qp, NEW i \in 1 .. Len(queue'[r]), NEW m \in Mbuf, m = queue'[r][i]
           PROVE  Prepared(m, r[1], i <= ready[r])'
      <4>1. Same(m)
        BY <1>2, <3>10, InCrypted
      <4>2. Prepared(m, r[1], i <= ready'[r])
        <5>1. CASE r = q
          <6>1. /\ m = queue[q][nb + i] /\ nb + i \in 1 .. Len(queue[q])
                /\ ready'[r] = ready[q] - nb
            BY <3>4, <3>5, <3>10, <5>1
          <6>2. Prepared(m, q[1], nb + i <= ready[q])
            BY <3>2, <3>6, <6>1 DEF InCrypto
          <6>3. (nb + i <= ready[q]) <=> (i <= ready'[r])
            BY <3>1, <3>2, <3>3, <6>1
          <6>4. (nb + i <= ready[q]) = (i <= ready'[r])
            BY <6>3
          <6>5. QED BY <5>1, <6>2, <6>4, Zenon
        <5>2. CASE r # q
          BY <3>5, <3>6, <3>10, <5>2 DEF InCrypto
        <5>3. QED BY <5>1, <5>2
      <4>3. QED BY <4>1, <4>2 DEF Prepared, Same
    <3>11. QED BY <2>1, <3>7, <3>8, <3>9, <3>10 DEF InCrypto
  <2>4. QED BY <2>1, <2>2, <2>3
<1>6. InCrypto' /\ ctx' = ctx
  BY <1>1, <1>3, <1>4, <1>5
<1>7. QED BY <1>1, <1>2, <1>6, CryptoKinds

\* The packet that is accepted joins the buffer of its queue pair, or goes on
\* with it to the device, prepared.
LEMMA AcceptKinds ==
  ASSUME IInv, [Next]_vars, Accept
  PROVE  Kinds'
<1>a. PICK h \in Mbuf : h = Head(pkts) /\ h \in Elems(pkts)
  BY Types, TailElems DEF Accept
<1>b. PICK q \in Q!Qp : q = <<ctx, SaQp[FoundSa]>>
  BY Found DEF Accept
<1> DEFINE burst == Append(buf[q], h)
<1>1. /\ pkts # <<>> /\ pkts' = Tail(pkts) /\ FoundSa # NoSa
      /\ UNCHANGED <<ctx, cops, out, ready>>
      /\ SameContents /\ UNCHANGED <<trafficVars, tx>>
      /\ sa' = [sa EXCEPT ![h] = FoundSa]
      /\ \/ buf' = [buf EXCEPT ![q] = burst] /\ UNCHANGED queue
         \/ /\ buf' = [buf EXCEPT ![q] = <<>>]
            /\ \E ret \in 0 .. MaxBurst :
                 /\ ret <= Len(burst)
                 /\ queue' = [queue EXCEPT ![q] = queue[q] \o SubSeq(burst, 1, ret)]
  BY <1>a, <1>b DEF Accept, Q!EnqueueBuffer, Q!EnqueueFlush
<1>2. /\ h \in Mbuf /\ h \in Elems(pkts) /\ Elems(pkts') = Elems(pkts) \ {h}
  BY <1>1, <1>a, Types, TailElems, CryptoNow DEF IInv
<1>3. /\ FoundSa \in Sa /\ q \in Q!Qp /\ q[1] = ctx
      /\ FoundSa = <<ctx, IF ctx = "in" THEN flow[h].esp ELSE flow[h].sp>>
  BY <1>1, <1>a, <1>b, Found
<1>4. /\ buf \in [Q!Qp -> Seq(Mbuf)] /\ queue \in [Q!Qp -> Seq(Mbuf)]
      /\ sa \in [Mbuf -> Sa \cup {NoSa}] /\ ctx \in Ctx
      /\ \A r \in Q!Qp : ready[r] \in Nat /\ ready[r] <= Len(queue[r])
  BY Types, CryptoNow DEF IInv
<1>5. \A m \in Mbuf : m \notin pool' => flow'[m] = flow[m] /\ sealed'[m] = sealed[m]
  BY <1>1, SameKept
<1>6. ASSUME NEW m \in Mbuf, m # h, m \notin pool' PROVE Same(m)
  <2>1. sa'[m] = sa[m]
    BY <1>1, <1>4, <1>6
  <2>2. QED BY <1>5, <1>6, <2>1 DEF Same
<1>7. InCrypto
  BY DEF IInv, Kinds
<1>8. ASSUME h \notin pool' PROVE Prepared(h, ctx, FALSE)'
  <2>1. Waiting(h, ctx)
    BY <1>2, <1>7 DEF InCrypto
  <2>2. flow'[h] = flow[h] /\ sealed'[h] = sealed[h] /\ sa'[h] = FoundSa /\ ctx' = ctx
    BY <1>1, <1>2, <1>4, <1>5, <1>8
  <2>3. (sealed[h] <=> ctx = "in") /\ (ctx = "in" <=> ~ (ctx = "out"))
    BY <1>4, <2>1 DEF Waiting, Ctx
  <2>4. sealed'[h] <=> (ctx' = "out") = FALSE
    BY <2>2, <2>3
  <2>5. flow'[h].dir = ctx'
    BY <2>1, <2>2 DEF Waiting
  <2>6. FoundSa = <<ctx', IF ctx' = "in" THEN flow'[h].esp ELSE flow'[h].sp>>
    BY <1>3, <2>2
  <2>7. sa'[h] \in Sa
        /\ sa'[h] = <<ctx', IF ctx' = "in" THEN flow'[h].esp ELSE flow'[h].sp>>
    BY <1>3, <2>2, <2>6
  <2>8. QED BY <2>4, <2>5, <2>7, Zenon DEF Prepared
\* Every packet of the burst that reaches the device or stays.
<1>9. ASSUME NEW m \in Mbuf, m \in Elems(burst), m \notin pool'
      PROVE  Prepared(m, q[1], FALSE)'
  <2>1. Elems(burst) = Elems(buf[q]) \cup {h}
    BY <1>2, <1>3, <1>4, AppendElems
  <2>2. CASE m = h
    BY <1>1, <1>3, <1>8, <1>9, <2>2 DEF Prepared
  <2>3. CASE m # h /\ m \in Elems(buf[q])
    <3>1. Prepared(m, q[1], FALSE) /\ Same(m)
      BY <1>3, <1>6, <1>7, <1>9, <2>3 DEF InCrypto
    <3>2. QED BY <3>1 DEF Prepared, Same
  <2>4. QED BY <1>9, <2>1, <2>2, <2>3
<1>10. burst \in Seq(Mbuf) /\ Elems(<<>>) = {}
  BY <1>2, <1>3, <1>4, AppendElems, EmptyElems
<1> HIDE DEF burst
<1>11. /\ h \notin Elems(pkts') /\ h \notin Elems(cops') /\ h \notin Elems(out')
       /\ \A r \in Q!Qp : h \notin Elems(buf[r]) /\ h \notin Elems(queue[r])
  BY <1>1, <1>2, CryptoApart DEF IInv
<1>12. ASSUME NEW m \in Elems(pkts') PROVE Waiting(m, ctx)'
  <2>1. m # h /\ m \in Mbuf /\ m \notin pool' /\ m \in Elems(pkts)
    BY <1>2, <1>12, InCrypted, HeldOut
  <2>2. Same(m) /\ Waiting(m, ctx)
    BY <1>6, <1>7, <2>1 DEF InCrypto
  <2>3. QED BY <1>1, <2>2 DEF Waiting, Same
<1>13. ASSUME NEW m \in Elems(cops') \cup Elems(out') PROVE Prepared(m, ctx, TRUE)'
  <2>1. m # h /\ m \in Mbuf /\ m \notin pool'
    BY <1>11, <1>13, InCrypted, HeldOut
  <2>2. Same(m) /\ Prepared(m, ctx, TRUE)
    BY <1>1, <1>6, <1>7, <1>13, <2>1 DEF InCrypto
  <2>3. QED BY <1>1, <2>2 DEF Prepared, Same
<1>14. ASSUME NEW r \in Q!Qp, NEW m \in Elems(buf'[r]) PROVE Prepared(m, r[1], FALSE)'
  <2>1. m \in Mbuf /\ m \notin pool'
    BY <1>14, InCrypted, HeldOut
  <2>2. CASE r = q
    <3>1. buf'[r] = burst \/ buf'[r] = <<>>
      BY <1>1, <1>3, <1>4, <2>2
    <3>2. m \in Elems(burst)
      BY <1>10, <1>14, <3>1
    <3>3. QED BY <1>9, <2>1, <2>2, <3>2
  <2>3. CASE r # q
    <3>1. buf'[r] = buf[r]
      BY <1>1, <1>3, <1>4, <2>3
    <3>2. m # h
      BY <1>11, <1>14, <3>1
    <3>3. Same(m) /\ Prepared(m, r[1], FALSE)
      BY <1>6, <1>7, <1>14, <2>1, <3>1, <3>2 DEF InCrypto
    <3>4. QED BY <3>3 DEF Prepared, Same
  <2>4. QED BY <2>2, <2>3
\* The queues, as they were.
<1>15. ASSUME NEW r \in Q!Qp, NEW i \in 1 .. Len(queue[r]), NEW m \in Mbuf, m = queue[r][i],
              m \notin pool'
       PROVE  Prepared(m, r[1], i <= ready[r])'
  <2>1. m # h
    BY <1>11, <1>15 DEF Elems, Q!Elems
  <2>2. Same(m) /\ Prepared(m, r[1], i <= ready[r])
    BY <1>6, <1>7, <1>15, <2>1 DEF InCrypto
  <2>3. ready' = ready
    BY <1>1
  <2>4. QED BY <2>2, <2>3 DEF Prepared, Same
<1>16. ASSUME NEW r \in Q!Qp, NEW i \in 1 .. Len(queue'[r]), NEW m \in Mbuf, m = queue'[r][i]
       PROVE  Prepared(m, r[1], i <= ready[r])'
  <2>1. m \notin pool'
    BY <1>16, InCrypted, HeldOut
  <2>2. CASE queue'[r] = queue[r]
    BY <1>15, <1>16, <2>1, <2>2
  <2>3. CASE r = q /\ \E ret \in 0 .. MaxBurst :
                 /\ ret <= Len(burst)
                 /\ queue'[q] = queue[q] \o SubSeq(burst, 1, ret)
    <3>1. PICK ret \in 0 .. MaxBurst : /\ ret <= Len(burst)
                                       /\ queue'[q] = queue[q] \o SubSeq(burst, 1, ret)
      BY <2>3
    <3> DEFINE a == SubSeq(burst, 1, ret)
               u == queue[q]
    <3>2. /\ a \in Seq(Mbuf) /\ \A k \in 1 .. Len(a) : a[k] \in Elems(burst)
      <4>1. ret \in 0 .. Len(burst)
        BY <1>10, <3>1, ElemsOf
      <4>2. a \in Seq(Mbuf) /\ Len(a) = ret
        BY <1>10, <4>1, SplitElems
      <4>3. \A k \in 1 .. ret : a[k] = burst[k] /\ k \in 1 .. Len(burst)
        BY <1>10, <4>1
      <4>4. QED BY <4>2, <4>3 DEF Elems, Q!Elems
    <3>3. u \in Seq(Mbuf) /\ queue'[r] = u \o a /\ u = queue[r]
      BY <1>3, <1>4, <2>3, <3>1
    <3> HIDE DEF a, u
    <3>4. /\ Len(u) \in Nat /\ Len(a) \in Nat /\ Len(u \o a) = Len(u) + Len(a)
          /\ \A k \in 1 .. Len(u) + Len(a) :
               (u \o a)[k] = IF k <= Len(u) THEN u[k] ELSE a[k - Len(u)]
      BY <3>2, <3>3, ConcatProperties, LenProperties
    <3>5. i \in 1 .. Len(u) + Len(a) /\ m = (u \o a)[i]
      BY <1>16, <3>3, <3>4
    <3>6. CASE i <= Len(u)
      <4>1. i \in 1 .. Len(queue[r]) /\ m = queue[r][i]
        BY <3>3, <3>4, <3>5, <3>6
      <4>2. QED BY <1>15, <2>1, <4>1
    <3>7. CASE i > Len(u)
      <4>1. m \in Elems(burst)
        <5>1. i - Len(u) \in 1 .. Len(a) /\ m = a[i - Len(u)]
          BY <3>4, <3>5, <3>7
        <5>2. QED BY <3>2, <5>1
      <4>2. ~ (i <= ready'[r])
        <5>1. ready'[r] \in Nat /\ ready'[r] <= Len(u)
          BY <1>1, <1>4, <3>3
        <5>2. QED BY <3>4, <3>5, <3>7, <5>1
      <4>3. Prepared(m, q[1], FALSE)'
        BY <1>9, <2>1, <4>1
      <4>4. (i <= ready'[r]) = FALSE
        BY <4>2
      <4>5. QED BY <2>3, <4>3, <4>4 DEF Prepared
    <3>8. QED BY <3>4, <3>5, <3>6, <3>7
  <2>4. queue'[r] = queue[r] \/ r = q
    BY <1>1, <1>3, <1>4
  <2>5. QED BY <1>1, <1>3, <1>4, <2>2, <2>3, <2>4
<1>17. InCrypto'
  BY <1>12, <1>13, <1>14, <1>16 DEF InCrypto
<1>18. ASSUME NEW m \in Mbuf, m \notin pool', m \notin Crypted' PROVE Same(m)
  <2>1. m # h
    <3>1. h \in Crypted' \/ h \in pool'
      <4>1. h \in Crypted
        BY <1>2, CryptedIs
      <4>2. \E F : GivesUp(F) /\ pool' = pool \cup F
        BY CryptoMoves
      <4>3. QED BY <4>1, <4>2 DEF GivesUp
    <3>2. QED BY <1>18, <3>1
  <2>2. QED BY <1>6, <1>18, <2>1
<1>19. QED BY <1>1, <1>17, <1>18, CryptoKinds

LEMMA DeviceFinishKinds ==
  ASSUME IInv, [Next]_vars, NEW q \in Q!Qp, DeviceFinish(q)
  PROVE  Kinds'
<1>1. /\ ready[q] < Len(queue[q])
      /\ ready' = [ready EXCEPT ![q] = ready[q] + 1]
      /\ UNCHANGED <<ctx, pkts, cops, out, buf, queue, pool>>
      /\ UNCHANGED <<trafficVars, tx, flow, sa>>
      /\ sealed' = [sealed EXCEPT ![queue[q][ready[q] + 1]] = ~ @]
  BY DEF DeviceFinish, Q!DeviceFinish, Q!callVars
<1>2. /\ queue \in [Q!Qp -> Seq(Mbuf)] /\ ready \in [Q!Qp -> Nat]
      /\ sealed \in [Mbuf -> BOOLEAN]
      /\ \A r \in Q!Qp : Q!Distinct(queue[r])
  BY Types, CryptoNow DEF IInv
<1> DEFINE n == ready[q] + 1
<1>3. n \in 1 .. Len(queue[q]) /\ Len(queue[q]) \in Nat
  BY <1>1, <1>2, ElemsOf
<1>4. PICK x \in Mbuf : x = queue[q][n]
  BY <1>2, <1>3, ElementOfSeq
<1>5. x \in Elems(queue[q])
  BY <1>3, <1>4 DEF Elems, Q!Elems
<1>6. /\ \A m \in Mbuf : m # x => Same(m)
      /\ flow'[x] = flow[x] /\ sa'[x] = sa[x] /\ sealed'[x] = ~ sealed[x]
  BY <1>1, <1>2, <1>4 DEF Same
<1>7. x \in Crypted'
  <2>1. x \in Elems(queue'[q])
    BY <1>1, <1>5
  <2>2. QED BY <2>1, CryptedNext
<1>8. /\ x \notin Elems(pkts) /\ x \notin Elems(cops) /\ x \notin Elems(out)
      /\ \A r \in Q!Qp : /\ x \notin Elems(buf[r])
                         /\ r # q => x \notin Elems(queue[r])
  BY <1>5, CryptoApart DEF IInv
<1>9. InCrypto
  BY DEF IInv, Kinds
<1>10. ASSUME NEW m \in Elems(pkts') PROVE Waiting(m, ctx)'
  <2>1. Same(m)
    BY <1>1, <1>6, <1>8, <1>10, InCrypted
  <2>2. QED BY <1>1, <1>9, <1>10, <2>1 DEF InCrypto, Waiting, Same
<1>11. ASSUME NEW m \in Elems(cops') \cup Elems(out') PROVE Prepared(m, ctx, TRUE)'
  <2>1. Same(m)
    BY <1>1, <1>6, <1>8, <1>11, InCrypted
  <2>2. QED BY <1>1, <1>9, <1>11, <2>1 DEF InCrypto, Prepared, Same
<1>12. ASSUME NEW r \in Q!Qp, NEW m \in Elems(buf'[r]) PROVE Prepared(m, r[1], FALSE)'
  <2>1. Same(m)
    BY <1>1, <1>6, <1>8, <1>12, InCrypted
  <2>2. QED BY <1>1, <1>9, <1>12, <2>1 DEF InCrypto, Prepared, Same
<1>13. ASSUME NEW r \in Q!Qp, NEW i \in 1 .. Len(queue'[r]), NEW m \in Mbuf, m = queue'[r][i]
       PROVE  Prepared(m, r[1], i <= ready[r])'
  <2>1. m = queue[r][i] /\ i \in 1 .. Len(queue[r]) /\ m \in Elems(queue[r])
    BY <1>1, <1>13 DEF Elems, Q!Elems
  <2>2. Prepared(m, r[1], i <= ready[r])
    BY <1>9, <1>13, <2>1 DEF InCrypto
  <2>3. CASE r # q
    <3>1. Same(m) /\ ready'[r] = ready[r]
      BY <1>1, <1>2, <1>6, <1>8, <2>1, <2>3
    <3>2. QED BY <2>2, <3>1 DEF Prepared, Same
  <2>4. CASE r = q /\ i # n
    <3>1. m # x
      BY <1>2, <1>3, <1>4, <2>1, <2>4 DEF Q!Distinct
    <3>2. (i <= ready'[r]) <=> (i <= ready[r])
      BY <1>1, <1>2, <1>3, <2>1, <2>4
    <3>3. (i <= ready'[r]) = (i <= ready[r])
      BY <3>2
    <3>4. Same(m)
      BY <1>6, <3>1
    <3>5. QED BY <2>2, <3>3, <3>4 DEF Prepared, Same
  <2>5. CASE r = q /\ i = n
    <3>1. m = x /\ (i <= ready[r]) = FALSE /\ (i <= ready'[r]) = TRUE
      BY <1>1, <1>2, <1>4, <2>1, <2>5
    <3>2. Prepared(x, r[1], FALSE)
      BY <2>2, <3>1
    <3>3. sealed'[x] <=> (r[1] = "out") = TRUE
      <4>1. sealed[x] <=> (r[1] = "out") = FALSE
        BY <3>2 DEF Prepared
      <4>2. QED BY <1>2, <1>6, <4>1
    <3>4. Prepared(x, r[1], TRUE)'
      BY <1>6, <3>2, <3>3, Zenon DEF Prepared
    <3>5. QED BY <3>1, <3>4 DEF Prepared
  <2>6. QED BY <2>3, <2>4, <2>5
<1>14. InCrypto'
  BY <1>10, <1>11, <1>12, <1>13 DEF InCrypto
<1>15. ASSUME NEW m \in Mbuf, m \notin pool', m \notin Crypted' PROVE Same(m)
  BY <1>6, <1>7, <1>15
<1>16. QED BY <1>1, <1>14, <1>15, CryptoKinds

LEMMA NextKinds ==
  ASSUME IInv, [Next]_vars
  PROVE  Kinds'
<1>1. ASSUME UNCHANGED vars PROVE Kinds'
  <2>1. UNCHANGED <<cryptoVars, pool, trafficVars, tx, sa, flow, sealed>>
    BY <1>1 DEF vars
  <2>2. \A m \in Mbuf : (m \notin pool' \/ m \in Crypted') => Same(m)
    BY <2>1, SameAll
  <2>3. InCrypto'
    BY <2>1, <2>2, CryptoFramed, Outside
  <2>4. QED BY <2>1, <2>2, <2>3, CryptoKinds, Outside
<1>2. ASSUME NEW d \in Ctx, NEW s \in Q!Bursts,
             \E f \in [DOMAIN s -> Flow] : Receive(d, s, f)
      PROVE  Kinds'
  BY <1>2, ReceiveKinds
<1>3. ASSUME CallInbound PROVE Kinds'
  BY <1>3, CallInboundKinds
<1>4. ASSUME CallOutbound PROVE Kinds'
  BY <1>4, CallOutboundKinds
<1>5. ASSUME Refuse \/ Accept \/ Crypto PROVE Kinds'
  BY <1>5, RefuseKinds, AcceptKinds, CryptoStepKinds
<1>6. ASSUME NEW q \in Q!Qp, DeviceFinish(q) PROVE Kinds'
  BY <1>6, DeviceFinishKinds
<1>7. ASSUME ReturnInbound \/ ReturnOutbound PROVE Kinds'
  BY <1>7, ReturnInboundKinds, ReturnOutboundKinds
<1>8. ASSUME Unrouted PROVE Kinds'
  BY <1>8, UnroutedKinds
<1>9. ASSUME NEW p \in Port, NEW ret \in 0 .. MaxBurst, Send(p, ret) PROVE Kinds'
  BY <1>9, SendKinds
<1>10. ASSUME RouteDone \/ Transmitted \/ \E p \in Port, ret \in 0 .. MaxBurst : Drain(p, ret)
       PROVE  Kinds'
  BY <1>10, IdleKinds
<1>11. QED
  BY <1>1, <1>2, <1>3, <1>4, <1>5, <1>6, <1>7, <1>8, <1>9, <1>10, Zenon DEF Next

-----------------------------------------------------------------------------
(***************************************************************************)
(* The theorems.                                                           *)
(***************************************************************************)

LEMMA InitIInv == Init => IInv
<1> SUFFICES ASSUME Init PROVE IInv
  OBVIOUS
<1> USE DEF Ver
<1>1. /\ Q!Init /\ ctx = "in" /\ side = "in" /\ stage = "idle"
      /\ ipsec = <<>> /\ ip = [v \in Ver |-> <<>>] /\ tx = [p \in Port |-> <<>>]
      /\ wire = {} /\ flow = [m \in Mbuf |-> NoFlow]
      /\ sealed = [m \in Mbuf |-> FALSE] /\ sa = [m \in Mbuf |-> NoSa]
  BY DEF Init
<1>2. /\ pc = "caller" /\ pool = Mbuf /\ pkts = <<>> /\ cops = <<>> /\ out = <<>>
      /\ buf = [q \in Q!Qp |-> <<>>] /\ queue = [q \in Q!Qp |-> <<>>]
      /\ polled = 0 /\ last_qp = [c \in Ctx |-> 0]
      /\ in_flight = [q \in Q!Qp |-> 0] /\ ready = [q \in Q!Qp |-> 0]
  BY <1>1 DEF Q!Init
<1>3. <<>> \in Seq(Mbuf) /\ Len(<<>>) = 0 /\ Elems(<<>>) = {} /\ Q!Distinct(<<>>)
  BY EmptyElems
<1>4. Crypted = {}
  <2>1. ASSUME NEW m PROVE m \notin Crypted
    BY <1>2, <1>3, CryptedIs
  <2>2. QED BY <2>1
<1>5. Sending = {}
  BY <1>1, <1>3 DEF Sending
<1>6. P!Init
  BY <1>1, <1>2, <1>4, Constants DEF P!Init, Q!Init, Ctx
<1>7. P!Basic /\ P!MbufHeldOnce
  BY <1>6, Constants, P!InitBasic, P!InitHeldOnce
<1>8. TypeOK
  BY <1>1, <1>2, <1>3 DEF TypeOK, Q!TypeOK, Ctx
<1>9. Control
  BY <1>1, <1>2 DEF Control
<1>10. Bounds
  <2>1. MaxBurst \in Nat /\ 0 < MaxBurst /\ 0 <= 2 * MaxBurst
    BY Constants
  <2>2. QED BY <1>1, <1>2, <1>3, <2>1 DEF Bounds, TrafficBounded
<1>11. Placed
  BY <1>1, <1>2, <1>3, <1>4, <1>5 DEF Placed, Once
<1>12. Kinds
  <2>1. InTraffic
    BY <1>1, <1>3 DEF InTraffic
  <2>2. InCrypto
    <3>1. Elems(pkts) = {} /\ Elems(cops) = {} /\ Elems(out) = {}
      BY <1>2, <1>3
    <3>2. \A q \in Q!Qp : Elems(buf[q]) = {}
      BY <1>2, <1>3
    <3>3. \A q \in Q!Qp : Len(queue[q]) = 0
      BY <1>2, <1>3
    <3>4. \A q \in Q!Qp : 1 .. Len(queue[q]) = {}
      BY <3>3
    <3>5. QED BY <3>1, <3>2, <3>4 DEF InCrypto
  <2>3. SentAsAllowed
    BY <1>1, <1>3 DEF SentAsAllowed
  <2>4. QED BY <2>1, <2>2, <2>3 DEF Kinds
<1>13. QED BY <1>7, <1>8, <1>9, <1>10, <1>11, <1>12 DEF IInv

LEMMA NextIInv == IInv /\ [Next]_vars => IInv'
  BY NextTypes, NextPlaces, NextKinds DEF IInv

LEMMA SpecIInv == Spec => []IInv
  BY InitIInv, NextIInv, PTL DEF Spec

\* Every variable keeps its type: in particular the arrays of process_pkts,
\* the buffers of the queue pairs and the transmit buffers hold mbufs, and
\* priv->sa of an mbuf is an SA of the table or has never been set.
THEOREM TypeCorrect == Spec => []TypeOK
<1>1. IInv => TypeOK
  BY DEF IInv
<1>2. QED BY SpecIInv, <1>1, PTL

\* The arrays of struct traffic_type are never overrun, and a transmit buffer
\* always has room for one more packet, for any burst size.
THEOREM TrafficIsBounded == Spec => []TrafficBounded
<1>1. IInv => TrafficBounded
  BY DEF IInv, Bounds
<1>2. QED BY SpecIInv, <1>1, PTL

\* Nothing leaves the gateway but what the policy of its direction lets out,
\* in the form it asks for, for any flows, SAs and policies.
THEOREM SentIsAllowed == Spec => []SentAsAllowed
<1>1. IInv => SentAsAllowed
  BY DEF IInv, Kinds
<1>2. QED BY SpecIInv, <1>1, PTL

\* The lcore is a correct caller of the crypto path: every behaviour of the
\* lcore is one of CryptoQueue, with the mbufs outside the crypto path as its
\* pool.
THEOREM CryptoPathIsUsed == Spec => CryptoPathUsed
<1>1. Init => Caller!Init
  <2>1. ASSUME Init PROVE Caller!Init
    <3>1. Q!Init /\ ctx = "in"
      BY <2>1 DEF Init
    <3>2. Crypted = {}
      <4>1. ASSUME NEW m PROVE m \notin Crypted
        BY <3>1, EmptyElems, CryptedIs DEF Q!Init
      <4>2. QED BY <4>1
    <3>3. QED BY <3>1, <3>2, Constants DEF Caller!Init, Q!Init, Ctx, Caller!Qp, Q!Qp
  <2>2. QED BY <2>1
<1>2. IInv /\ [Next]_vars => [Caller!Next]_(Caller!vars)
  <2>1. ASSUME IInv, [Next]_vars PROVE [P!Next]_(P!vars)
    BY <2>1, NextPlaces
  <2>2. [P!Next]_(P!vars) <=> [Caller!Next]_(Caller!vars)
    BY DEF P!Next, P!Bursts, P!Call, P!Enqueue, P!EnqueueReject, P!EnqueueBuffer,
           P!EnqueueFlush, P!EnqueueDone, P!Dequeue, P!PollQp, P!PostAccept, P!PostReject,
           P!DequeueDone, P!Consume, P!DeviceFinish, P!Qp, P!vars, P!callVars, P!qpVars,
           P!Elems, P!Distinct, P!Smaller, P!NextQp,
           Caller!Next, Caller!Bursts, Caller!Call, Caller!Enqueue, Caller!EnqueueReject,
           Caller!EnqueueBuffer, Caller!EnqueueFlush, Caller!EnqueueDone, Caller!Dequeue,
           Caller!PollQp, Caller!PostAccept, Caller!PostReject, Caller!DequeueDone,
           Caller!Consume, Caller!DeviceFinish, Caller!Qp, Caller!vars, Caller!callVars,
           Caller!qpVars, Caller!Elems, Caller!Distinct, Caller!Smaller, Caller!NextQp
  <2>3. QED BY <2>1, <2>2
<1>3. QED BY SpecIInv, <1>1, <1>2, PTL DEF Spec, CryptoPathUsed, Caller!Spec

\* Every mbuf outside the crypto path is in exactly one place, once.
THEOREM MbufIsHeldOnce == Spec => []MbufHeldOnce
<1>1. ASSUME IInv PROVE MbufHeldOnce
  <2> DEFINE places ==
        {<<"pool", pool>>, <<"wire", wire>>, <<"crypto", Crypted>>,
         <<"ipsec", Elems(ipsec)>>, <<"ip4", Elems(ip[4])>>,
         <<"ip6", Elems(ip[6])>>} \cup {<<p, Elems(tx[p])>> : p \in Port}
  <2>1. /\ Once(pool, wire, Crypted, Elems(ipsec), Elems(ip[4]), Elems(ip[6]), Sending)
        /\ \A p, r \in Port : p # r => Elems(tx[p]) \cap Elems(tx[r]) = {}
    BY <1>1 DEF IInv, Placed
  <2>2. ASSUME NEW m \in Mbuf PROVE Cardinality({x \in places : m \in x[2]}) = 1
    <3> DEFINE here == {x \in places : m \in x[2]}
    <3>1. \E x : here = {x}
      <4>1. /\ \A x \in places :
                 \/ x = <<"pool", pool>> \/ x = <<"wire", wire>> \/ x = <<"crypto", Crypted>>
                 \/ x = <<"ipsec", Elems(ipsec)>> \/ x = <<"ip4", Elems(ip[4])>>
                 \/ x = <<"ip6", Elems(ip[6])>> \/ \E p \in Port : x = <<p, Elems(tx[p])>>
            /\ <<"pool", pool>> \in places /\ <<"wire", wire>> \in places
            /\ <<"crypto", Crypted>> \in places /\ <<"ipsec", Elems(ipsec)>> \in places
            /\ <<"ip4", Elems(ip[4])>> \in places /\ <<"ip6", Elems(ip[6])>> \in places
            /\ \A p \in Port : <<p, Elems(tx[p])>> \in places
        OBVIOUS
      <4> HIDE DEF places
      <4>2. ASSUME NEW x \in places, m \in x[2], NEW y \in places, m \in y[2]
            PROVE  x = y
        <5>1. \A p \in Port : m \in Elems(tx[p]) => m \in Sending
          BY DEF Sending
        <5>2. QED BY <2>1, <4>1, <4>2, <5>1 DEF Once
      <4>3. \E x \in places : m \in x[2]
        <5>1. m \in Sending => \E p \in Port : m \in Elems(tx[p])
          BY DEF Sending
        <5>2. QED BY <2>1, <4>1, <5>1 DEF Once
      <4>4. QED BY <4>2, <4>3
    <3>2. QED BY <3>1, FS_Singleton
  <2>3. \A s \in {ipsec, ip[4], ip[6]} \cup {tx[p] : p \in Port} : Q!Distinct(s)
    BY <1>1 DEF IInv, Placed
  <2>4. QED BY <2>2, <2>3 DEF MbufHeldOnce
<1>2. QED BY SpecIInv, <1>1, PTL

-----------------------------------------------------------------------------
(***************************************************************************)
(* The order of the packets of an SA.  Ord(s, a, b): a stands before b.    *)
(***************************************************************************)

Ord(s, a, b) == \E i, j \in 1 .. Len(s) : i < j /\ s[i] = a /\ s[j] = b

LEMMA Precedes ==
  ASSUME NEW s, NEW a, NEW b, NEW i \in 1 .. Len(s), NEW j \in 1 .. Len(s),
         i < j, s[i] = a, s[j] = b
  PROVE  Ord(s, a, b)
  BY Zenon DEF Ord

LEMMA OrdIn ==
  ASSUME NEW s, NEW a, NEW b, Ord(s, a, b)
  PROVE  a \in Elems(s) /\ b \in Elems(s)
  BY DEF Ord, Elems, Q!Elems

LEMMA OrdEmpty ==
  ASSUME NEW a, NEW b
  PROVE  ~ Ord(<<>>, a, b)
<1>1. Len(<<>>) = 0
  BY EmptyElems
<1>2. QED BY <1>1 DEF Ord

\* Where every entry is another packet, the order goes one way.
LEMMA OrdOneWay ==
  ASSUME NEW T, NEW s \in Seq(T), Q!Distinct(s), NEW a, NEW b, Ord(s, a, b)
  PROVE  ~ Ord(s, b, a)
<1>1. Len(s) \in Nat /\ \A i, j \in 1 .. Len(s) : i # j => s[i] # s[j]
  BY ElemsOf DEF Q!Distinct
<1>2. QED BY <1>1 DEF Ord

LEMMA OrdAppend ==
  ASSUME NEW T, NEW s \in Seq(T), NEW e \in T, NEW a, NEW b, Ord(Append(s, e), a, b)
  PROVE  Ord(s, a, b) \/ (a \in Elems(s) /\ b = e)
<1>1. Len(s) \in Nat /\ Len(Append(s, e)) = Len(s) + 1
  BY ElemsOf, AppendElems
<1>2. /\ \A k \in 1 .. Len(s) : Append(s, e)[k] = s[k]
      /\ Append(s, e)[Len(s) + 1] = e
  BY <1>1
<1> DEFINE t == Append(s, e)
<1>3. PICK i, j \in 1 .. Len(t) : i < j /\ t[i] = a /\ t[j] = b
  BY DEF Ord
<1>4. /\ Len(t) = Len(s) + 1 /\ t[Len(s) + 1] = e
      /\ \A k \in 1 .. Len(s) : t[k] = s[k]
  BY <1>1, <1>2
<1> HIDE DEF t
<1>5. i \in 1 .. Len(s) /\ (j = Len(s) + 1 \/ j \in 1 .. Len(s))
  BY <1>1, <1>3, <1>4
<1>6. s[i] = a
  BY <1>3, <1>4, <1>5
<1>7. CASE j = Len(s) + 1
  BY <1>3, <1>4, <1>5, <1>6, <1>7 DEF Elems, Q!Elems
<1>8. CASE j \in 1 .. Len(s)
  <2>1. s[j] = b
    BY <1>3, <1>4, <1>8
  <2>2. i < j
    BY <1>3
  <2>3. QED BY <1>1, <1>5, <1>6, <1>8, <2>1, <2>2, Precedes
<1>9. QED BY <1>5, <1>7, <1>8

LEMMA OrdConcat ==
  ASSUME NEW T, NEW s \in Seq(T), NEW t \in Seq(T), NEW a, NEW b, Ord(s \o t, a, b)
  PROVE  Ord(s, a, b) \/ Ord(t, a, b) \/ (a \in Elems(s) /\ b \in Elems(t))
<1>1. Len(s) \in Nat /\ Len(t) \in Nat /\ Len(s \o t) = Len(s) + Len(t)
  BY ElemsOf, ConcatElems
<1> DEFINE u == s \o t
<1>2. PICK i, j \in 1 .. Len(u) : i < j /\ u[i] = a /\ u[j] = b
  BY DEF Ord
<1>3. /\ \A k \in 1 .. Len(s) : u[k] = s[k]
      /\ \A k \in 1 .. Len(u) : k > Len(s) => u[k] = t[k - Len(s)]
  BY <1>1
<1>4. Len(u) = Len(s) + Len(t)
  BY <1>1
<1> HIDE DEF u
<1>5. CASE j <= Len(s)
  <2>1. i \in 1 .. Len(s) /\ j \in 1 .. Len(s)
    BY <1>1, <1>2, <1>4, <1>5
  <2>2. s[i] = a /\ s[j] = b
    BY <1>2, <1>3, <2>1
  <2>3. QED BY <1>1, <1>2, <2>1, <2>2, Precedes
<1>6. CASE i > Len(s)
  <2>1. /\ i - Len(s) \in 1 .. Len(t) /\ j - Len(s) \in 1 .. Len(t)
        /\ i - Len(s) < j - Len(s)
    BY <1>1, <1>2, <1>4, <1>6
  <2>2. t[i - Len(s)] = a /\ t[j - Len(s)] = b
    BY <1>1, <1>2, <1>3, <1>6
  <2> DEFINE x == i - Len(s)
             y == j - Len(s)
  <2>3. x \in 1 .. Len(t) /\ y \in 1 .. Len(t) /\ x < y /\ t[x] = a /\ t[y] = b
    BY <2>1, <2>2
  <2> HIDE DEF x, y
  <2>4. QED BY <2>3, Precedes
<1>7. CASE i <= Len(s) /\ j > Len(s)
  <2>1. i \in 1 .. Len(s) /\ j - Len(s) \in 1 .. Len(t)
    BY <1>1, <1>2, <1>4, <1>7
  <2>2. s[i] = a /\ t[j - Len(s)] = b
    BY <1>1, <1>2, <1>3, <1>7, <2>1
  <2>3. QED BY <2>1, <2>2 DEF Elems, Q!Elems
<1>8. QED BY <1>1, <1>2, <1>4, <1>5, <1>6, <1>7

\* Cutting a sequence in two keeps the order in both parts, and the first
\* part stands before the second.
LEMMA OrdSplit ==
  ASSUME NEW T, NEW s \in Seq(T), NEW n \in 0 .. Len(s), NEW a, NEW b
  PROVE  LET u == SubSeq(s, 1, n)
             v == SubSeq(s, n + 1, Len(s))
         IN  /\ Ord(u, a, b) => Ord(s, a, b)
             /\ Ord(v, a, b) => Ord(s, a, b)
             /\ a \in Elems(u) /\ b \in Elems(v) => Ord(s, a, b)
             /\ a \in Elems(u) => a \in Elems(s)
             /\ a \in Elems(v) => a \in Elems(s)
<1> DEFINE u == SubSeq(s, 1, n)
           v == SubSeq(s, n + 1, Len(s))
<1>0. \A k \in 1 .. Len(s) : s[k] \in T
  BY ElementOfSeq
<1>1. /\ Len(s) \in Nat /\ n \in Nat /\ n <= Len(s)
      /\ Len(u) = n /\ Len(v) = Len(s) - n
  BY ElemsOf, SplitElems
<1>2. /\ \A k \in 1 .. n : u[k] = s[k]
      /\ \A k \in 1 .. Len(s) - n : v[k] = s[k + n]
  <2>1. \A k \in 1 .. n : u[k] = s[k]
    <3>1. \A k \in 1 .. n - 1 + 1 : u[k] = s[1 + k - 1]
      BY <1>1, <1>0, SubSeqProperties
    <3>2. QED BY <1>1, <3>1
  <2>2. \A k \in 1 .. Len(s) - n : v[k] = s[k + n]
    <3>1. \A k \in 1 .. Len(s) - (n + 1) + 1 : v[k] = s[n + 1 + k - 1]
      BY <1>1, <1>0, SubSeqProperties
    <3>2. QED BY <1>1, <3>1
  <2>3. QED BY <2>1, <2>2
<1> HIDE DEF u, v
<1>3. Ord(u, a, b) => Ord(s, a, b)
  <2>1. \A k \in 1 .. n : k \in 1 .. Len(s)
    BY <1>1
  <2>2. QED BY <1>1, <1>2, <2>1 DEF Ord
<1>4. \A k \in 1 .. Len(s) - n : k + n \in 1 .. Len(s)
  BY <1>1
<1>5. Ord(v, a, b) => Ord(s, a, b)
  <2>1. SUFFICES ASSUME Ord(v, a, b) PROVE Ord(s, a, b)
    OBVIOUS
  <2>2. PICK i, j \in 1 .. Len(s) - n : i < j /\ v[i] = a /\ v[j] = b
    BY <1>1, <2>1 DEF Ord
  <2>3. i + n < j + n /\ s[i + n] = a /\ s[j + n] = b
    BY <1>1, <1>2, <2>2
  <2>4. QED BY <1>4, <2>2, <2>3 DEF Ord
<1>6. a \in Elems(u) /\ b \in Elems(v) => Ord(s, a, b)
  <2>1. SUFFICES ASSUME a \in Elems(u), b \in Elems(v) PROVE Ord(s, a, b)
    OBVIOUS
  <2>2. PICK i \in 1 .. n : u[i] = a
    BY <1>1, <2>1 DEF Elems, Q!Elems
  <2>3. PICK j \in 1 .. Len(s) - n : v[j] = b
    BY <1>1, <2>1 DEF Elems, Q!Elems
  <2>4. i < j + n /\ i \in 1 .. Len(s) /\ s[i] = a /\ s[j + n] = b
    BY <1>1, <1>2, <2>2, <2>3
  <2>5. QED BY <1>4, <2>4 DEF Ord
<1>7. (a \in Elems(u) => a \in Elems(s)) /\ (a \in Elems(v) => a \in Elems(s))
  <2>1. \A k \in 1 .. n : k \in 1 .. Len(s)
    BY <1>1
  <2>2. \A k \in 1 .. Len(u) : \E l \in 1 .. Len(s) : u[k] = s[l]
    BY <1>1, <1>2, <2>1
  <2>3. \A k \in 1 .. Len(v) : \E l \in 1 .. Len(s) : v[k] = s[l]
    BY <1>1, <1>2, <1>4
  <2>4. ASSUME NEW w, \A k \in 1 .. Len(w) : \E l \in 1 .. Len(s) : w[k] = s[l],
               a \in Elems(w)
        PROVE  a \in Elems(s)
    <3>1. PICK k \in 1 .. Len(w) : a = w[k]
      BY <2>4 DEF Elems, Q!Elems
    <3>2. QED BY <2>4, <3>1 DEF Elems, Q!Elems
  <2>5. QED BY <2>2, <2>3, <2>4
<1>8. QED BY <1>3, <1>5, <1>6, <1>7 DEF u, v

LEMMA OrdTail ==
  ASSUME NEW T, NEW s \in Seq(T), s # <<>>, NEW a, NEW b
  PROVE  /\ Ord(Tail(s), a, b) => Ord(s, a, b)
         /\ a \in Elems(Tail(s)) => a \in Elems(s)
         /\ b \in Elems(Tail(s)) => Ord(s, Head(s), b)
<1>1. Len(s) \in Nat \ {0} /\ Len(Tail(s)) = Len(s) - 1
  BY TailElems
<1>2. Head(s) = s[1] /\ \A k \in 1 .. Len(s) - 1 : Tail(s)[k] = s[k + 1]
  BY <1>1, HeadTailProperties
<1>3. \A k \in 1 .. Len(s) - 1 : k + 1 \in 1 .. Len(s) /\ 1 < k + 1
  BY <1>1
<1> DEFINE u == Tail(s)
<1>4. Len(u) = Len(s) - 1 /\ \A k \in 1 .. Len(u) : u[k] = s[k + 1]
  BY <1>1, <1>2
<1> HIDE DEF u
<1>5. ASSUME Ord(u, a, b) PROVE Ord(s, a, b)
  <2>1. PICK i, j \in 1 .. Len(u) : i < j /\ u[i] = a /\ u[j] = b
    BY <1>5 DEF Ord
  <2>2. /\ i + 1 \in 1 .. Len(s) /\ j + 1 \in 1 .. Len(s) /\ i + 1 < j + 1
        /\ s[i + 1] = a /\ s[j + 1] = b
    BY <1>1, <1>3, <1>4, <2>1
  <2>3. QED BY <2>2 DEF Ord
<1>6. a \in Elems(u) => a \in Elems(s)
  BY <1>3, <1>4 DEF Elems, Q!Elems
<1>7. ASSUME b \in Elems(u) PROVE Ord(s, Head(s), b)
  <2>1. PICK j \in 1 .. Len(u) : u[j] = b
    BY <1>7 DEF Elems, Q!Elems
  <2>2. 1 \in 1 .. Len(s) /\ j + 1 \in 1 .. Len(s) /\ 1 < j + 1 /\ s[j + 1] = b
    BY <1>1, <1>3, <1>4, <2>1
  <2>3. QED BY <1>2, <2>2 DEF Ord
<1>8. QED BY <1>5, <1>6, <1>7 DEF u

\* A filter keeps the order of what it keeps.
LEMMA OrdKeep ==
  ASSUME NEW T, NEW s \in Seq(T), NEW S, NEW a, NEW b, Ord(Keep(s, S), a, b)
  PROVE  Ord(s, a, b)
<1>0. Len(s) \in Nat /\ \A k \in 1 .. Len(s) : s[k] \in T
  BY ElementOfSeq, LenProperties
<1>1. PICK f : /\ Keep(s, S) = f[Len(s)] /\ f[0] = <<>>
               /\ \A k \in 1 .. Len(s) :
                    f[k] = IF s[k] \in S THEN Append(f[k - 1], s[k]) ELSE f[k - 1]
  BY <1>0, KeepIs
<1> DEFINE First(n) == {s[k] : k \in 1 .. n}
           OrdFirst(n) == \E i, j \in 1 .. n : i < j /\ s[i] = a /\ s[j] = b
           G == {n \in Nat : /\ f[n] \in Seq(T) /\ Elems(f[n]) \subseteq First(n)
                             /\ Ord(f[n], a, b) => OrdFirst(n)}
<1>2. 0 \in G
  <2>1. f[0] \in Seq(T) /\ Elems(f[0]) = {} /\ ~ Ord(f[0], a, b)
    BY <1>1, EmptyElems, OrdEmpty
  <2>2. QED BY <2>1
<1>3. ASSUME NEW n \in 1 .. Len(s), n - 1 \in G PROVE n \in G
  <2>1. /\ f[n - 1] \in Seq(T) /\ Elems(f[n - 1]) \subseteq First(n - 1)
        /\ Ord(f[n - 1], a, b) => OrdFirst(n - 1)
    BY <1>3
  <2>2. n \in Nat /\ s[n] \in T
    BY <1>0
  <2>3. First(n - 1) \subseteq First(n) /\ s[n] \in First(n)
    BY <2>2
  <2>4. OrdFirst(n - 1) => OrdFirst(n)
    BY <2>2
  <2>5. a \in First(n - 1) /\ b = s[n] => OrdFirst(n)
    BY <2>2
  <2> HIDE DEF First, OrdFirst
  <2>6. CASE s[n] \in S
    <3>1. f[n] = Append(f[n - 1], s[n])
      BY <1>1, <2>6
    <3>2. f[n] \in Seq(T) /\ Elems(f[n]) = Elems(f[n - 1]) \cup {s[n]}
      BY <2>1, <2>2, <3>1, AppendElems
    <3>3. Ord(f[n], a, b) => Ord(f[n - 1], a, b) \/ (a \in Elems(f[n - 1]) /\ b = s[n])
      BY <2>1, <2>2, <3>1, OrdAppend
    <3>4. QED BY <2>1, <2>2, <2>3, <2>4, <2>5, <3>2, <3>3
  <2>7. CASE s[n] \notin S
    <3>1. f[n] = f[n - 1]
      BY <1>1, <2>7
    <3>2. QED BY <2>1, <2>2, <2>3, <2>4, <3>1
  <2>8. QED BY <2>6, <2>7
<1> HIDE DEF G
<1>4. Len(s) \in G
  <2>1. 0 .. Len(s) \subseteq G
    BY <1>0, <1>2, <1>3, UpTo
  <2>2. QED BY <1>0, <2>1
<1>5. QED BY <1>1, <1>4 DEF G, Ord

(***************************************************************************)
(* The places of a line, from the transmit buffer back to the burst that   *)
(* is collected: a packet stays where it is or goes to the place in front. *)
(***************************************************************************)

Path(p, v, q) == <<tx[p], ip[v], out, cops, queue[q], buf[q]>>

On(W, a) == \E k \in 1 .. 6 : a \in Elems(W[k])

Ahead(W, a, b) ==
  \/ \E k \in 1 .. 6 : Ord(W[k], a, b)
  \/ \E k, l \in 1 .. 6 : k < l /\ a \in Elems(W[k]) /\ b \in Elems(W[l])

\* As far as a and b go, the place that held s holds no more than that in t.
Keeps(s, t, a, b) ==
  /\ a \in Elems(t) => a \in Elems(s)
  /\ b \in Elems(t) => b \in Elems(s)
  /\ Ord(t, a, b) => Ord(s, a, b)

LEMMA KeepsSame == ASSUME NEW s, NEW a, NEW b PROVE Keeps(s, s, a, b)
  BY DEF Keeps

LEMMA KeepsNone == ASSUME NEW s, NEW a, NEW b PROVE Keeps(s, <<>>, a, b)
  BY EmptyElems, OrdEmpty DEF Keeps

\* Nothing moves.
LEMMA AheadStill ==
  ASSUME NEW W, NEW X, NEW a, NEW b,
         \A k \in 1 .. 6 : Keeps(W[k], X[k], a, b), Ahead(X, a, b)
  PROVE  Ahead(W, a, b)
  BY DEF Keeps, Ahead

\* Some of the place behind is appended to place n.
LEMMA AheadMove ==
  ASSUME NEW W, NEW X, NEW a, NEW b, NEW n \in 1 .. 5, NEW T,
         NEW u \in Seq(T), NEW w \in Seq(T), X[n] = u \o w,
         \A k \in 1 .. 6 : k # n => Keeps(W[k], X[k], a, b),
         Keeps(W[n], u, a, b), Keeps(W[n + 1], w, a, b),
         a \in Elems(w) /\ b \in Elems(X[n + 1]) => Ord(W[n + 1], a, b),
         Ahead(X, a, b)
  PROVE  Ahead(W, a, b)
<1>1. n + 1 \in 1 .. 6 /\ n \in 1 .. 6 /\ n < n + 1
  OBVIOUS
<1>2. /\ a \in Elems(X[n]) => a \in Elems(W[n]) \/ a \in Elems(w)
      /\ b \in Elems(X[n]) => b \in Elems(W[n]) \/ b \in Elems(w)
  BY ConcatElems DEF Keeps
<1>3. /\ a \in Elems(w) => a \in Elems(W[n + 1])
      /\ b \in Elems(w) => b \in Elems(W[n + 1])
  BY DEF Keeps
<1>4. ASSUME Ord(X[n], a, b) PROVE Ahead(W, a, b)
  <2>1. Ord(u, a, b) \/ Ord(w, a, b) \/ (a \in Elems(u) /\ b \in Elems(w))
    BY <1>4, OrdConcat
  <2>2. \/ Ord(W[n], a, b) \/ Ord(W[n + 1], a, b)
        \/ a \in Elems(W[n]) /\ b \in Elems(W[n + 1])
    BY <2>1 DEF Keeps
  <2>3. QED BY <1>1, <2>2, Zenon DEF Ahead
<1>5. ASSUME NEW k \in 1 .. 6, Ord(X[k], a, b) PROVE Ahead(W, a, b)
  <2>1. k # n => Ord(W[k], a, b)
    BY <1>5 DEF Keeps
  <2>2. QED BY <1>4, <1>5, <2>1 DEF Ahead
<1>6. ASSUME NEW k \in 1 .. 6, NEW l \in 1 .. 6, k < l,
             a \in Elems(X[k]), b \in Elems(X[l])
      PROVE  Ahead(W, a, b)
  <2>1. CASE k = n
    <3>1. l # n /\ b \in Elems(W[l])
      BY <1>6, <2>1 DEF Keeps
    <3>2. CASE a \in Elems(W[n])
      BY <1>6, <2>1, <3>1, <3>2 DEF Ahead
    <3>3. CASE a \in Elems(w) /\ l = n + 1
      BY <1>1, <1>6, <3>3 DEF Ahead
    <3>4. CASE a \in Elems(w) /\ l # n + 1
      <4>1. n + 1 < l /\ a \in Elems(W[n + 1])
        BY <1>3, <1>6, <2>1, <3>4
      <4>2. QED BY <1>1, <3>1, <4>1 DEF Ahead
    <3>5. QED BY <1>2, <1>6, <2>1, <3>2, <3>3, <3>4
  <2>2. CASE k # n
    <3>1. a \in Elems(W[k])
      BY <1>6, <2>2 DEF Keeps
    <3>2. CASE l = n
      <4>1. k < n /\ k < n + 1
        BY <1>6, <3>2
      <4>2. b \in Elems(W[n]) \/ b \in Elems(W[n + 1])
        BY <1>2, <1>3, <1>6, <3>2, Zenon
      <4>3. QED BY <1>1, <3>1, <4>1, <4>2 DEF Ahead
    <3>3. CASE l # n
      <4>1. b \in Elems(W[l])
        BY <1>6, <3>3 DEF Keeps
      <4>2. QED BY <1>6, <3>1, <4>1 DEF Ahead
    <3>4. QED BY <3>2, <3>3
  <2>3. QED BY <2>1, <2>2
<1>7. QED BY <1>5, <1>6, Zenon DEF Ahead

\* Where no packet is twice, only one of two is ahead of the other.
LEMMA AheadOneWay ==
  ASSUME NEW W, NEW T, \A k \in 1 .. 6 : W[k] \in Seq(T) /\ Q!Distinct(W[k]),
         \A k, l \in 1 .. 6 : k < l => Elems(W[k]) \cap Elems(W[l]) = {},
         NEW a, NEW b, Ahead(W, a, b)
  PROVE  ~ Ahead(W, b, a)
<1>1. \A k \in 1 .. 6 : Ord(W[k], a, b) => ~ Ord(W[k], b, a)
  BY OrdOneWay
<1>2. \A k \in 1 .. 6 : /\ Ord(W[k], a, b) => a \in Elems(W[k]) /\ b \in Elems(W[k])
                        /\ Ord(W[k], b, a) => a \in Elems(W[k]) /\ b \in Elems(W[k])
  BY OrdIn
<1>3. ASSUME NEW k \in 1 .. 6, NEW l \in 1 .. 6, NEW m, m \in Elems(W[k]), m \in Elems(W[l])
      PROVE  k = l
  BY <1>3
<1>4. QED BY <1>1, <1>2, <1>3 DEF Ahead

\* The order of a step: what p, v and q hold now stays in its order.
PathKept(p, v, q) ==
  \A a, b : /\ On(Path(p, v, q), a) /\ On(Path(p, v, q), b)
            /\ Ahead(Path(p, v, q)', a, b)
            => Ahead(Path(p, v, q), a, b)

\* The places of a path, one by one.
LEMMA PathPlaces ==
  ASSUME NEW p, NEW v, NEW q
  PROVE  /\ Path(p, v, q)[1] = tx[p] /\ Path(p, v, q)[2] = ip[v]
         /\ Path(p, v, q)[3] = out /\ Path(p, v, q)[4] = cops
         /\ Path(p, v, q)[5] = queue[q] /\ Path(p, v, q)[6] = buf[q]
         /\ Path(p, v, q)'[1] = tx'[p] /\ Path(p, v, q)'[2] = ip'[v]
         /\ Path(p, v, q)'[3] = out' /\ Path(p, v, q)'[4] = cops'
         /\ Path(p, v, q)'[5] = queue'[q] /\ Path(p, v, q)'[6] = buf'[q]
  BY DEF Path

\* No place of a path holds what another holds, or what is elsewhere.
LEMMA PathApart ==
  ASSUME IInv, NEW p \in Port, NEW v \in Ver, NEW q \in Q!Qp
  PROVE  LET W == Path(p, v, q)
         IN  /\ \A k \in 1 .. 6 : W[k] \in Seq(Mbuf) /\ Q!Distinct(W[k])
             /\ \A k, l \in 1 .. 6 : k < l => Elems(W[k]) \cap Elems(W[l]) = {}
             /\ \A a : On(W, a) =>
                  /\ a \in Mbuf /\ a \notin pool /\ a \notin Elems(pkts)
                  /\ \A u \in Ver : u # v => a \notin Elems(ip[u])
                  /\ \A r \in Q!Qp : r # q => a \notin Elems(queue[r])
<1> DEFINE W == Path(p, v, q)
<1>1. /\ W[1] = tx[p] /\ W[2] = ip[v] /\ W[3] = out
      /\ W[4] = cops /\ W[5] = queue[q] /\ W[6] = buf[q]
  BY PathPlaces
<1>2. /\ tx[p] \in Seq(Mbuf) /\ ip[v] \in Seq(Mbuf) /\ out \in Seq(Mbuf)
      /\ cops \in Seq(Mbuf) /\ queue[q] \in Seq(Mbuf) /\ buf[q] \in Seq(Mbuf)
  BY Types
<1>3. /\ Q!Distinct(tx[p]) /\ Q!Distinct(ip[v]) /\ Q!Distinct(out)
      /\ Q!Distinct(cops) /\ Q!Distinct(queue[q]) /\ Q!Distinct(buf[q])
  BY CryptoNow, OutApart DEF IInv, Placed
<1>4. /\ Elems(tx[p]) \subseteq Mbuf /\ Elems(ip[v]) \subseteq Mbuf
      /\ Elems(out) \subseteq Mbuf /\ Elems(cops) \subseteq Mbuf
      /\ Elems(queue[q]) \subseteq Mbuf /\ Elems(buf[q]) \subseteq Mbuf
  BY <1>2, ElemsOf
<1>5. /\ Elems(out) \subseteq Crypted /\ Elems(cops) \subseteq Crypted
      /\ Elems(queue[q]) \subseteq Crypted /\ Elems(buf[q]) \subseteq Crypted
      /\ Elems(tx[p]) \subseteq Sending
  <2>1. Elems(tx[p]) \subseteq Sending
    BY DEF Sending
  <2>2. QED BY <2>1, CryptedIs
<1>6. /\ Elems(pkts) \cap (Elems(cops) \cup Elems(out)) = {}
      /\ Elems(cops) \cap Elems(out) = {}
      /\ (Elems(pkts) \cup Elems(cops) \cup Elems(out))
            \cap (Elems(buf[q]) \cup Elems(queue[q])) = {}
      /\ Elems(buf[q]) \cap Elems(queue[q]) = {}
      /\ \A r \in Q!Qp :
           /\ (Elems(cops) \cup Elems(out)) \cap Elems(queue[r]) = {}
           /\ r # q => /\ Elems(queue[q]) \cap Elems(queue[r]) = {}
                       /\ Elems(buf[q]) \cap Elems(queue[r]) = {}
  BY CryptoApart DEF IInv
<1>7. /\ Elems(tx[p]) \cap (Elems(ip[4]) \cup Elems(ip[6]) \cup Crypted \cup pool) = {}
      /\ \A u \in Ver : Elems(ip[u]) \cap (Crypted \cup pool) = {}
      /\ Elems(ip[4]) \cap Elems(ip[6]) = {}
      /\ Crypted \cap pool = {}
  <2>1. Crypted \subseteq Mbuf /\ pool \subseteq Mbuf
    BY CryptedInMbuf, Types DEF IInv
  <2>2. \A m \in Mbuf :
          /\ m \in pool => m \notin Crypted /\ m \notin Elems(ip[4])
                           /\ m \notin Elems(ip[6]) /\ m \notin Sending
          /\ m \in Crypted => m \notin Elems(ip[4]) /\ m \notin Elems(ip[6])
                              /\ m \notin Sending
          /\ m \in Elems(ip[4]) => m \notin Elems(ip[6]) /\ m \notin Sending
          /\ m \in Elems(ip[6]) => m \notin Sending
    BY Zenon DEF IInv, Placed, Once
  <2>3. QED BY <1>4, <1>5, <2>1, <2>2 DEF Ver
<1>8. Elems(pkts) \subseteq Crypted /\ \A r \in Q!Qp : Elems(queue[r]) \subseteq Crypted
  BY CryptedIs
<1> HIDE DEF W
<1>9. ASSUME NEW k \in 1 .. 6 PROVE W[k] \in Seq(Mbuf) /\ Q!Distinct(W[k])
  <2>1. k \in {1, 2, 3, 4, 5, 6}
    OBVIOUS
  <2>2. QED BY <1>1, <1>2, <1>3, <2>1
<1>10. ASSUME NEW k \in 1 .. 6, NEW l \in 1 .. 6, k < l
       PROVE  Elems(W[k]) \cap Elems(W[l]) = {}
  <2>1. \A m \in {3, 4, 5, 6} : Elems(W[m]) \subseteq Crypted
    BY <1>1, <1>5
  <2>2. Elems(W[1]) \cap (Elems(W[2]) \cup Crypted) = {}
    BY <1>1, <1>7 DEF Ver
  <2>3. Elems(W[2]) \cap Crypted = {}
    BY <1>1, <1>7
  <2>4. /\ Elems(W[3]) \cap Elems(W[4]) = {} /\ Elems(W[3]) \cap Elems(W[5]) = {}
        /\ Elems(W[3]) \cap Elems(W[6]) = {} /\ Elems(W[4]) \cap Elems(W[5]) = {}
        /\ Elems(W[4]) \cap Elems(W[6]) = {} /\ Elems(W[5]) \cap Elems(W[6]) = {}
    BY <1>1, <1>6
  <2>5. CASE k \in {1, 2}
    <3>1. (k = 1 /\ l = 2) \/ l \in {3, 4, 5, 6}
      BY <1>10, <2>5
    <3>2. QED BY <2>1, <2>2, <2>3, <2>5, <3>1
  <2>6. CASE k \in {3, 4, 5}
    <3>1. \/ k = 3 /\ l \in {4, 5, 6}
          \/ k = 4 /\ l \in {5, 6}
          \/ k = 5 /\ l = 6
      BY <1>10, <2>6
    <3>2. QED BY <2>4, <3>1
  <2>7. QED BY <1>10, <2>5, <2>6
<1>11. ASSUME NEW a, On(W, a)
       PROVE  /\ a \in Mbuf /\ a \notin pool /\ a \notin Elems(pkts)
              /\ \A u \in Ver : u # v => a \notin Elems(ip[u])
              /\ \A r \in Q!Qp : r # q => a \notin Elems(queue[r])
  <2>1. \/ a \in Elems(tx[p]) \/ a \in Elems(ip[v])
        \/ a \in Elems(out) \/ a \in Elems(cops)
        \/ a \in Elems(queue[q]) \/ a \in Elems(buf[q])
    BY <1>1, <1>11 DEF On
  <2>2. CASE a \in Elems(tx[p])
    BY <1>4, <1>7, <1>8, <2>2 DEF Ver
  <2>3. CASE a \in Elems(ip[v])
    BY <1>4, <1>7, <1>8, <2>3 DEF Ver
  <2>4. CASE a \in Elems(out) \cup Elems(cops)
    BY <1>4, <1>5, <1>6, <1>7, <2>4
  <2>5. CASE a \in Elems(queue[q]) \cup Elems(buf[q])
    BY <1>4, <1>5, <1>6, <1>7, <2>5
  <2>6. QED BY <2>1, <2>2, <2>3, <2>4, <2>5
<1>12. QED BY <1>9, <1>10, <1>11 DEF W

\* Actions that leave every place of the path as it is or let some of it go.
LEMMA PathStill ==
  ASSUME NEW p, NEW v, NEW q,
         \A a, b : On(Path(p, v, q), a) /\ On(Path(p, v, q), b) =>
           /\ Keeps(tx[p], tx'[p], a, b) /\ Keeps(ip[v], ip'[v], a, b)
           /\ Keeps(out, out', a, b) /\ Keeps(cops, cops', a, b)
           /\ Keeps(queue[q], queue'[q], a, b) /\ Keeps(buf[q], buf'[q], a, b)
  PROVE  PathKept(p, v, q)
<1> DEFINE W == Path(p, v, q)
           X == Path(p, v, q)'
<1>1. SUFFICES ASSUME NEW a, NEW b, On(W, a), On(W, b), Ahead(X, a, b)
               PROVE  Ahead(W, a, b)
  BY DEF PathKept
<1>2. /\ Keeps(W[1], X[1], a, b) /\ Keeps(W[2], X[2], a, b)
      /\ Keeps(W[3], X[3], a, b) /\ Keeps(W[4], X[4], a, b)
      /\ Keeps(W[5], X[5], a, b) /\ Keeps(W[6], X[6], a, b)
  BY <1>1, PathPlaces
<1> HIDE DEF W, X
<1>3. ASSUME NEW k \in 1 .. 6 PROVE Keeps(W[k], X[k], a, b)
  <2>1. k \in {1, 2, 3, 4, 5, 6}
    OBVIOUS
  <2>2. QED BY <1>2, <2>1
<1>4. QED BY <1>1, <1>3, AheadStill

\* Actions that take packets from place n + 1 of the path and append w to
\* place n, that kept u.
LEMMA PathMove ==
  ASSUME NEW p, NEW v, NEW q, NEW n \in 1 .. 5,
         NEW u \in Seq(Mbuf), NEW w \in Seq(Mbuf),
         LET W == Path(p, v, q)
             X == Path(p, v, q)'
         IN  /\ X[n] = u \o w
             /\ \A a, b : On(W, a) /\ On(W, b) =>
                  /\ \A k \in 1 .. 6 : k # n => Keeps(W[k], X[k], a, b)
                  /\ Keeps(W[n], u, a, b) /\ Keeps(W[n + 1], w, a, b)
                  /\ a \in Elems(w) /\ b \in Elems(X[n + 1]) => Ord(W[n + 1], a, b)
  PROVE  PathKept(p, v, q)
<1> DEFINE W == Path(p, v, q)
           X == Path(p, v, q)'
<1>1. SUFFICES ASSUME NEW a, NEW b, On(W, a), On(W, b), Ahead(X, a, b)
               PROVE  Ahead(W, a, b)
  BY DEF PathKept
<1>2. /\ X[n] = u \o w
      /\ \A k \in 1 .. 6 : k # n => Keeps(W[k], X[k], a, b)
      /\ Keeps(W[n], u, a, b) /\ Keeps(W[n + 1], w, a, b)
      /\ a \in Elems(w) /\ b \in Elems(X[n + 1]) => Ord(W[n + 1], a, b)
  BY <1>1
<1> HIDE DEF W, X
<1>3. QED BY <1>1, <1>2, AheadMove

\* A burst that arrives joins no path, and the arrays it comes to are empty.
LEMMA ReceiveOrder ==
  ASSUME IInv, NEW p \in Port, NEW v \in Ver, NEW q \in Q!Qp,
         NEW d \in Ctx, NEW s \in Q!Bursts, NEW f \in [DOMAIN s -> Flow], Receive(d, s, f)
  PROVE  PathKept(p, v, q)
<1>1. s \in Seq(Mbuf) /\ Elems(s) \subseteq pool
  BY Arrivals
<1>2. /\ UNCHANGED <<cryptoVars, tx>>
      /\ \E S : ip'[v] = Keep(s, S)
  BY DEF Receive
<1>3. UNCHANGED <<out, cops, queue, buf, tx>>
  BY <1>2 DEF cryptoVars
<1>4. Elems(ip'[v]) \subseteq pool
  BY <1>1, <1>2, KeepElems
<1>5. ASSUME NEW a, NEW b, On(Path(p, v, q), a), On(Path(p, v, q), b)
      PROVE  Keeps(ip[v], ip'[v], a, b)
  <2>1. a \notin pool /\ b \notin pool
    BY <1>5, PathApart
  <2>2. a \notin Elems(ip'[v]) /\ b \notin Elems(ip'[v])
    BY <1>4, <2>1
  <2>3. ~ Ord(ip'[v], a, b)
    BY <2>2, OrdIn
  <2>4. QED BY <2>2, <2>3 DEF Keeps
<1>6. QED BY <1>3, <1>5, KeepsSame, PathStill

\* A filter keeps the order of an array.
LEMMA KeepKeeps ==
  ASSUME NEW s \in Seq(Mbuf), NEW S, NEW a, NEW b
  PROVE  Keeps(s, Keep(s, S), a, b)
  BY KeepElems, OrdKeep DEF Keeps

LEMMA TailKeeps ==
  ASSUME NEW s \in Seq(Mbuf), s # <<>>, NEW a, NEW b
  PROVE  Keeps(s, Tail(s), a, b)
  BY OrdTail DEF Keeps

\* Another packet behind the last one.
LEMMA AppendKeeps ==
  ASSUME NEW s \in Seq(Mbuf), NEW m \in Mbuf, NEW a, NEW b, a # m, b # m
  PROVE  Keeps(s, Append(s, m), a, b)
<1>1. Elems(Append(s, m)) = Elems(s) \cup {m}
  BY AppendElems
<1>2. Ord(Append(s, m), a, b) => Ord(s, a, b)
  BY OrdAppend
<1>3. QED BY <1>1, <1>2 DEF Keeps

LEMMA OneMore ==
  ASSUME NEW s \in Seq(Mbuf), NEW m \in Mbuf
  PROVE  /\ <<m>> \in Seq(Mbuf) /\ Append(s, m) = s \o <<m>>
         /\ Elems(<<m>>) = {m} /\ \A a, b : ~ Ord(<<m>>, a, b)
<1>1. <<m>> \in Seq(Mbuf) /\ Append(s, m) = s \o <<m>>
  BY AppendIsConcat
<1>2. Len(<<m>>) = 1 /\ <<m>>[1] = m /\ 1 .. 1 = {1}
  OBVIOUS
<1>3. Elems(<<m>>) = {m}
  BY <1>2 DEF Elems, Q!Elems
<1>4. \A a, b : ~ Ord(<<m>>, a, b)
  BY <1>2 DEF Ord
<1>5. QED BY <1>1, <1>3, <1>4

\* The first packet of place n + 1 goes to the end of place n.
LEMMA PathHead ==
  ASSUME IInv, NEW p \in Port, NEW v \in Ver, NEW q \in Q!Qp, NEW n \in 1 .. 5,
         LET W == Path(p, v, q)
             X == Path(p, v, q)'
         IN  /\ W[n + 1] # <<>>
             /\ X[n] = Append(W[n], Head(W[n + 1])) /\ X[n + 1] = Tail(W[n + 1])
             /\ \A k \in 1 .. 6 : k # n /\ k # n + 1 => X[k] = W[k]
  PROVE  PathKept(p, v, q)
<1> DEFINE W == Path(p, v, q)
           X == Path(p, v, q)'
           u == W[n]
           w == <<Head(W[n + 1])>>
<1>1. n + 1 \in 1 .. 6 /\ n \in 1 .. 6
  OBVIOUS
<1>2. W[n] \in Seq(Mbuf) /\ W[n + 1] \in Seq(Mbuf)
  BY <1>1, PathApart
<1>3. /\ W[n + 1] # <<>>
      /\ X[n] = Append(W[n], Head(W[n + 1])) /\ X[n + 1] = Tail(W[n + 1])
      /\ \A k \in 1 .. 6 : k # n /\ k # n + 1 => X[k] = W[k]
  OBVIOUS
<1>4. Head(W[n + 1]) \in Mbuf /\ Head(W[n + 1]) \in Elems(W[n + 1])
  BY <1>2, <1>3, TailElems
<1>5. /\ w \in Seq(Mbuf) /\ X[n] = u \o w /\ Elems(w) = {Head(W[n + 1])}
      /\ \A a, b : ~ Ord(w, a, b)
  BY <1>2, <1>3, <1>4, OneMore
<1>6. ASSUME NEW a, NEW b
      PROVE  /\ \A k \in 1 .. 6 : k # n => Keeps(W[k], X[k], a, b)
             /\ Keeps(W[n], u, a, b) /\ Keeps(W[n + 1], w, a, b)
             /\ a \in Elems(w) /\ b \in Elems(X[n + 1]) => Ord(W[n + 1], a, b)
  <2>1. Keeps(W[n + 1], X[n + 1], a, b)
    BY <1>2, <1>3, TailKeeps
  <2>2. ASSUME NEW k \in 1 .. 6, k # n PROVE Keeps(W[k], X[k], a, b)
    BY <1>3, <2>1, <2>2, KeepsSame
  <2>3. Keeps(W[n], u, a, b)
    BY KeepsSame
  <2>4. Keeps(W[n + 1], w, a, b)
    BY <1>4, <1>5 DEF Keeps
  <2>5. a \in Elems(w) /\ b \in Elems(X[n + 1]) => Ord(W[n + 1], a, b)
    BY <1>2, <1>3, <1>5, OrdTail
  <2>6. QED BY <2>2, <2>3, <2>4, <2>5
<1>7. u \in Seq(Mbuf)
  BY <1>2
<1> HIDE DEF u, w
<1>8. QED BY <1>5, <1>6, <1>7, PathMove

\* process_pkts around the crypto path.
LEMMA CallOrder ==
  ASSUME IInv, NEW p \in Port, NEW v \in Ver, NEW q \in Q!Qp, CallInbound \/ CallOutbound
  PROVE  PathKept(p, v, q)
<1>1. UNCHANGED <<cops, out, queue, buf, tx>>
  BY DEF CallInbound, CallOutbound, Enter
<1>2. UNCHANGED ip \/ \E S : ip'[v] = Keep(ip[v], S)
  BY DEF CallInbound, CallOutbound
<1>3. ip[v] \in Seq(Mbuf)
  BY Types
<1>4. \A a, b : Keeps(ip[v], ip'[v], a, b)
  BY <1>2, <1>3, KeepsSame, KeepKeeps
<1>5. QED BY <1>1, <1>4, KeepsSame, PathStill

LEMMA ReturnOrder ==
  ASSUME IInv, NEW p \in Port, NEW v \in Ver, NEW q \in Q!Qp,
         ReturnInbound \/ ReturnOutbound
  PROVE  PathKept(p, v, q)
<1>1. ip[v] \in Seq(Mbuf) /\ out \in Seq(Mbuf)
  BY Types
<1>2. out' = <<>> /\ UNCHANGED <<cops, queue, buf, tx>>
  BY DEF ReturnInbound, ReturnOutbound, Leave
<1>3. PICK u \in Seq(Mbuf), w \in Seq(Mbuf) :
        /\ ip'[v] = u \o w
        /\ \A a, b : Keeps(ip[v], u, a, b) /\ Keeps(out, w, a, b)
  <2>1. \A S : /\ Keep(ip[v], S) \in Seq(Mbuf)
               /\ \A a, b : Keeps(ip[v], Keep(ip[v], S), a, b)
    BY <1>1, KeepSeq, KeepKeeps
  <2>2. /\ OfVersion(out, v) \in Seq(Mbuf)
        /\ \A a, b : Keeps(out, OfVersion(out, v), a, b)
    BY <1>1, KeepSeq, KeepKeeps DEF OfVersion
  <2>3. \A S : /\ Keep(OfVersion(out, v), S) \in Seq(Mbuf)
               /\ \A a, b : Keeps(out, Keep(OfVersion(out, v), S), a, b)
    <3>1. \A S : \A a, b : Keeps(OfVersion(out, v), Keep(OfVersion(out, v), S), a, b)
      BY <2>2, KeepKeeps
    <3>2. QED BY <2>2, <3>1, KeepSeq DEF Keeps
  <2>4. CASE ReturnInbound
    <3>1. PICK S, R : ip'[v] = Keep(ip[v], S) \o Keep(OfVersion(out, v), R)
      BY <2>4 DEF ReturnInbound
    <3>2. QED BY <2>1, <2>3, <3>1
  <2>5. CASE ReturnOutbound
    <3>1. ip'[v] = ip[v] \o OfVersion(out, v)
      BY <2>5 DEF ReturnOutbound
    <3>2. QED BY <1>1, <2>2, <3>1, KeepsSame
  <2>6. QED BY <2>4, <2>5
<1> DEFINE W == Path(p, v, q)
           X == Path(p, v, q)'
<1>4. /\ W[1] = tx[p] /\ W[2] = ip[v] /\ W[3] = out
      /\ W[4] = cops /\ W[5] = queue[q] /\ W[6] = buf[q]
      /\ X[1] = tx[p] /\ X[2] = u \o w /\ X[3] = <<>>
      /\ X[4] = cops /\ X[5] = queue[q] /\ X[6] = buf[q]
  <2>1. /\ X[1] = tx'[p] /\ X[2] = ip'[v] /\ X[3] = out'
        /\ X[4] = cops' /\ X[5] = queue'[q] /\ X[6] = buf'[q]
    BY PathPlaces
  <2> HIDE DEF X
  <2>2. QED BY <1>2, <1>3, <2>1, PathPlaces
<1> HIDE DEF W, X
<1>5. ASSUME NEW a, NEW b
      PROVE  /\ \A k \in 1 .. 6 : k # 2 => Keeps(W[k], X[k], a, b)
             /\ Keeps(W[2], u, a, b) /\ Keeps(W[2 + 1], w, a, b)
             /\ a \in Elems(w) /\ b \in Elems(X[2 + 1]) => Ord(W[2 + 1], a, b)
  <2>1. 1 .. 6 = {1, 2, 3, 4, 5, 6} /\ 2 + 1 = 3
    OBVIOUS
  <2>2. \A k \in 1 .. 6 : k # 2 => Keeps(W[k], X[k], a, b)
    BY <1>4, <2>1, KeepsSame, KeepsNone
  <2>3. QED BY <1>3, <1>4, <2>1, <2>2, EmptyElems
<1>6. 2 \in 1 .. 5
  OBVIOUS
<1>7. QED BY <1>4, <1>5, <1>6, PathMove DEF W, X

\* ipsec_enqueue.
LEMMA EnqueueOrder ==
  ASSUME IInv, NEW p \in Port, NEW v \in Ver, NEW q \in Q!Qp, Refuse \/ Accept
  PROVE  PathKept(p, v, q)
<1>1. /\ UNCHANGED <<tx, ip, out, cops>> /\ pkts # <<>>
  BY DEF Refuse, Accept, trafficVars, Q!EnqueueReject, Q!EnqueueBuffer, Q!EnqueueFlush
<1>2. /\ Head(pkts) \in Mbuf /\ Head(pkts) \in Elems(pkts)
  BY <1>1, Types, TailElems
<1>3. buf[q] \in Seq(Mbuf) /\ queue[q] \in Seq(Mbuf)
  BY Types
<1>4. CASE UNCHANGED <<queue[q], buf[q]>>
  BY <1>1, <1>4, KeepsSame, PathStill
<1>5. CASE buf'[q] = Append(buf[q], Head(pkts)) /\ UNCHANGED queue[q]
  <2>1. ASSUME NEW a, NEW b, On(Path(p, v, q), a), On(Path(p, v, q), b)
        PROVE  Keeps(buf[q], buf'[q], a, b)
    <3>1. a # Head(pkts) /\ b # Head(pkts)
      BY <1>2, <2>1, PathApart
    <3>2. QED BY <1>2, <1>3, <1>5, <3>1, AppendKeeps
  <2>2. QED BY <1>1, <1>5, <2>1, KeepsSame, PathStill
<1>6. ASSUME NEW ret \in Nat,
             LET burst == Append(buf[q], Head(pkts))
             IN  /\ ret <= Len(burst) /\ buf'[q] = <<>>
                 /\ queue'[q] = queue[q] \o SubSeq(burst, 1, ret)
      PROVE  PathKept(p, v, q)
  <2> DEFINE burst == Append(buf[q], Head(pkts))
             w == SubSeq(burst, 1, ret)
             W == Path(p, v, q)
             X == Path(p, v, q)'
  <2>1. burst \in Seq(Mbuf) /\ Len(burst) \in Nat
    BY <1>2, <1>3, AppendElems, ElemsOf
  <2>2. ret \in 0 .. Len(burst) /\ buf'[q] = <<>> /\ queue'[q] = queue[q] \o w
    BY <1>6, <2>1
  <2>3. w \in Seq(Mbuf)
    BY <2>1, <2>2, SplitElems
  <2>4. \A a, b : /\ a \in Elems(w) => a \in Elems(burst)
                  /\ Ord(w, a, b) => Ord(burst, a, b)
    BY <2>1, <2>2, OrdSplit
  <2>5. ASSUME NEW a, NEW b, On(W, a), On(W, b)
        PROVE  Keeps(buf[q], w, a, b)
    <3>1. a # Head(pkts) /\ b # Head(pkts)
      BY <1>2, <2>5, PathApart
    <3>2. Keeps(buf[q], burst, a, b)
      BY <1>2, <1>3, <3>1, AppendKeeps
    <3> HIDE DEF w, burst
    <3>3. QED BY <2>4, <3>2 DEF Keeps
  <2> HIDE DEF w, burst
  <2>6. /\ W[1] = tx[p] /\ W[2] = ip[v] /\ W[3] = out
        /\ W[4] = cops /\ W[5] = queue[q] /\ W[6] = buf[q]
        /\ X[1] = tx[p] /\ X[2] = ip[v] /\ X[3] = out
        /\ X[4] = cops /\ X[5] = queue[q] \o w /\ X[6] = <<>>
    <3>1. /\ X[1] = tx'[p] /\ X[2] = ip'[v] /\ X[3] = out'
          /\ X[4] = cops' /\ X[5] = queue'[q] /\ X[6] = buf'[q]
      BY PathPlaces
    <3> HIDE DEF X
    <3>2. QED BY <1>1, <2>2, <3>1, PathPlaces
  <2> HIDE DEF W, X
  <2>7. ASSUME NEW a, NEW b, On(W, a), On(W, b)
        PROVE  /\ \A k \in 1 .. 6 : k # 5 => Keeps(W[k], X[k], a, b)
               /\ Keeps(W[5], queue[q], a, b) /\ Keeps(W[5 + 1], w, a, b)
               /\ a \in Elems(w) /\ b \in Elems(X[5 + 1]) => Ord(W[5 + 1], a, b)
    <3>1. 1 .. 6 = {1, 2, 3, 4, 5, 6} /\ 5 + 1 = 6
      OBVIOUS
    <3>2. \A k \in 1 .. 6 : k # 5 => Keeps(W[k], X[k], a, b)
      BY <2>6, <3>1, KeepsSame, KeepsNone
    <3>3. b \notin Elems(X[6])
      BY <2>6, EmptyElems
    <3>4. QED BY <2>5, <2>6, <2>7, <3>1, <3>2, <3>3, KeepsSame
  <2>8. 5 \in 1 .. 5
    OBVIOUS
  <2>9. QED BY <1>3, <2>3, <2>6, <2>7, <2>8, PathMove DEF W, X
<1>7. CASE Refuse
  BY <1>4, <1>7 DEF Refuse, Q!EnqueueReject, Q!qpVars
<1>8. CASE Accept
  <2>1. PICK r : /\ r \in Q!Qp
                 /\ Q!EnqueueBuffer(r) \/ \E ret \in 0 .. MaxBurst : Q!EnqueueFlush(r, ret)
    <3>1. FoundSa # NoSa /\ LET r == <<ctx, SaQp[FoundSa]>>
                            IN  \/ Q!EnqueueBuffer(r)
                                \/ \E ret \in 0 .. MaxBurst : Q!EnqueueFlush(r, ret)
      BY <1>8 DEF Accept
    <3>2. QED BY <3>1, Found
  <2>2. CASE r # q
    <3>1. UNCHANGED <<queue[q], buf[q]>>
      BY <2>1, <2>2, Types DEF Q!EnqueueBuffer, Q!EnqueueFlush
    <3>2. QED BY <1>4, <3>1
  <2>3. CASE r = q
    <3>1. CASE Q!EnqueueBuffer(q)
      BY <1>5, <3>1, Types DEF Q!EnqueueBuffer
    <3>2. ASSUME NEW ret \in 0 .. MaxBurst, Q!EnqueueFlush(q, ret)
          PROVE  PathKept(p, v, q)
      <4>1. ret \in Nat
        BY Constants
      <4>2. LET burst == Append(buf[q], Head(pkts))
            IN  /\ ret <= Len(burst) /\ buf'[q] = <<>>
                /\ queue'[q] = queue[q] \o SubSeq(burst, 1, ret)
        BY <3>2, Types DEF Q!EnqueueFlush
      <4>3. QED BY <1>6, <4>1, <4>2
    <3>3. QED BY <2>1, <2>3, <3>1, <3>2
  <2>4. QED BY <2>2, <2>3
<1>9. QED BY <1>7, <1>8

\* ipsec_dequeue.
LEMMA DequeueOrder ==
  ASSUME IInv, NEW p \in Port, NEW v \in Ver, NEW q \in Q!Qp, Crypto
  PROVE  PathKept(p, v, q)
<1>1. UNCHANGED <<tx, ip>> /\ (Q!EnqueueDone \/ Q!Dequeue)
  BY DEF Crypto, trafficVars
<1> DEFINE W == Path(p, v, q)
           X == Path(p, v, q)'
<1>2. /\ W[1] = tx[p] /\ W[2] = ip[v] /\ W[3] = out
      /\ W[4] = cops /\ W[5] = queue[q] /\ W[6] = buf[q]
  BY PathPlaces
<1>3. /\ X[1] = tx[p] /\ X[2] = ip[v] /\ X[3] = out'
      /\ X[4] = cops' /\ X[5] = queue'[q] /\ X[6] = buf'[q]
  <2>1. /\ X[1] = tx'[p] /\ X[2] = ip'[v] /\ X[3] = out'
        /\ X[4] = cops' /\ X[5] = queue'[q] /\ X[6] = buf'[q]
    BY PathPlaces
  <2> HIDE DEF X
  <2>2. QED BY <1>1, <2>1
<1>4. 1 .. 6 = {1, 2, 3, 4, 5, 6} /\ 3 + 1 = 4 /\ 4 + 1 = 5 /\ 3 \in 1 .. 5 /\ 4 \in 1 .. 5
  OBVIOUS
<1>5. cops \in Seq(Mbuf) /\ out \in Seq(Mbuf) /\ queue[q] \in Seq(Mbuf)
  BY Types
<1>6. CASE UNCHANGED <<out, cops, queue, buf>>
  BY <1>1, <1>6, KeepsSame, PathStill
<1>7. CASE Q!PostAccept
  <2>1. /\ cops # <<>> /\ out' = Append(out, Head(cops)) /\ cops' = Tail(cops)
        /\ UNCHANGED <<queue, buf>>
    BY <1>7 DEF Q!PostAccept, Q!qpVars
  <2> HIDE DEF W, X
  <2>2. /\ W[3 + 1] # <<>> /\ X[3] = Append(W[3], Head(W[3 + 1]))
        /\ X[3 + 1] = Tail(W[3 + 1])
        /\ \A k \in 1 .. 6 : k # 3 /\ k # 3 + 1 => X[k] = W[k]
    BY <1>2, <1>3, <1>4, <2>1
  <2>3. QED BY <1>4, <2>2, PathHead DEF W, X
<1>8. CASE Q!PostReject
  <2>1. /\ cops # <<>> /\ cops' = Tail(cops) /\ UNCHANGED <<out, queue, buf>>
    BY <1>8 DEF Q!PostReject, Q!qpVars
  <2>2. \A a, b : Keeps(cops, cops', a, b)
    BY <1>5, <2>1, TailKeeps
  <2>3. QED BY <1>1, <2>1, <2>2, KeepsSame, PathStill
<1>9. ASSUME NEW r \in Q!Qp, NEW n \in 0 .. Len(queue[r]), cops = <<>>,
             UNCHANGED <<out, buf>>, cops' = SubSeq(queue[r], 1, n),
             queue' = [queue EXCEPT ![r] = SubSeq(queue[r], n + 1, Len(queue[r]))]
      PROVE  PathKept(p, v, q)
  <2> DEFINE w == SubSeq(queue[r], 1, n)
             y == SubSeq(queue[r], n + 1, Len(queue[r]))
  <2>0. queue[r] \in Seq(Mbuf)
    BY Types
  <2>1. w \in Seq(Mbuf) /\ y \in Seq(Mbuf)
    BY <2>0, SplitElems
  <2>2. \A a, b : Keeps(queue[r], w, a, b) /\ Keeps(queue[r], y, a, b)
    BY <2>0, OrdSplit DEF Keeps
  <2>3. \A a, b : a \in Elems(w) /\ b \in Elems(y) => Ord(queue[r], a, b)
    BY <2>0, OrdSplit
  <2>4. cops' = w /\ queue'[r] = y /\ \A s \in Q!Qp : s # r => queue'[s] = queue[s]
    BY <1>9, Types
  <2> HIDE DEF w, y
  <2>5. CASE r = q
    <3>1. <<>> \in Seq(Mbuf) /\ w = <<>> \o w
      BY <2>1, EmptyElems
    <3> HIDE DEF W, X
    <3>2. X[4] = <<>> \o w
      BY <1>3, <2>4, <3>1
    <3>3. ASSUME NEW a, NEW b
          PROVE  /\ \A k \in 1 .. 6 : k # 4 => Keeps(W[k], X[k], a, b)
                 /\ Keeps(W[4], <<>>, a, b) /\ Keeps(W[4 + 1], w, a, b)
                 /\ a \in Elems(w) /\ b \in Elems(X[4 + 1]) => Ord(W[4 + 1], a, b)
      <4>1. Keeps(W[5], X[5], a, b)
        BY <1>2, <1>3, <2>2, <2>4, <2>5
      <4>2. X[1] = W[1] /\ X[2] = W[2] /\ X[3] = W[3] /\ X[6] = W[6]
        BY <1>2, <1>3, <1>9
      <4>3. \A k \in 1 .. 6 : k # 4 => Keeps(W[k], X[k], a, b)
        BY <1>4, <4>1, <4>2, KeepsSame
      <4>4. Keeps(W[4], <<>>, a, b)
        BY KeepsNone
      <4>5. QED BY <1>2, <1>3, <1>4, <2>2, <2>3, <2>4, <2>5, <4>3, <4>4
    <3>4. QED BY <1>4, <2>1, <3>1, <3>2, <3>3, PathMove DEF W, X
  <2>6. CASE r # q
    <3>1. ASSUME NEW a, NEW b, On(W, a), On(W, b) PROVE Keeps(cops, cops', a, b)
      <4>1. a \notin Elems(queue[r]) /\ b \notin Elems(queue[r])
        BY <2>6, <3>1, PathApart
      <4>2. a \notin Elems(cops') /\ b \notin Elems(cops')
        BY <2>2, <2>4, <4>1 DEF Keeps
      <4>3. QED BY <4>2, OrdIn DEF Keeps
    <3>2. queue'[q] = queue[q]
      BY <2>4, <2>6
    <3>3. QED BY <1>1, <1>9, <3>1, <3>2, KeepsSame, PathStill
  <2>7. QED BY <2>5, <2>6
<1>10. CASE Q!PollQp
  <2> DEFINE r == <<ctx, last_qp[ctx]>>
             n == Q!Smaller(ready[r], MaxBurst - Len(out))
  <2>1. CASE UNCHANGED <<cops, Q!qpVars>>
    <3>1. UNCHANGED <<out, cops, queue, buf>>
      BY <1>10, <2>1 DEF Q!PollQp, Q!qpVars
    <3>2. QED BY <1>6, <3>1
  <2>2. CASE ~ UNCHANGED <<cops, Q!qpVars>>
    <3>1. /\ cops = <<>> /\ UNCHANGED <<out, buf>> /\ Len(out) < MaxBurst
          /\ cops' = SubSeq(queue[r], 1, n)
          /\ queue' = [queue EXCEPT ![r] = SubSeq(queue[r], n + 1, Len(queue[r]))]
      BY <1>10, <2>2 DEF Q!PollQp
    <3>2. r \in Q!Qp /\ ready[r] \in Nat /\ ready[r] <= Len(queue[r]) /\ Len(out) \in Nat
      <4>1. polled < NbQps[ctx] /\ polled \in Nat /\ ctx \in Ctx /\ NbQps[ctx] \in Nat
        BY <1>10, CryptoNow, Constants DEF Q!PollQp, IInv
      <4>2. last_qp[ctx] < NbQps[ctx] /\ last_qp[ctx] \in Nat
        <5>1. NbQps[ctx] # 0
          BY <4>1
        <5>2. P!Basic /\ P!MbufHeldOnce
          BY DEF IInv
        <5>3. /\ last_qp \in [Ctx -> Nat]
              /\ \A c \in Ctx : NbQps[c] # 0 => last_qp[c] < NbQps[c]
          BY <5>2, CryptoNow
        <5>4. QED BY <4>1, <5>1, <5>3
      <4>3. r \in Q!Qp
        BY <4>1, <4>2, Constants
      <4>4. QED BY <1>5, <4>3, ElemsOf, CryptoNow DEF IInv
    <3>3. n \in 0 .. Len(queue[r])
      <4>1. Len(queue[r]) \in Nat
        BY <3>2, Types, ElemsOf
      <4> HIDE DEF r
      <4>2. QED BY <3>1, <3>2, <4>1, Constants DEF Q!Smaller
    <3> HIDE DEF r, n
    <3>4. QED BY <1>9, <3>1, <3>2, <3>3
  <2>3. QED BY <2>1, <2>2
<1>11. CASE Q!EnqueueDone \/ Q!DequeueDone
  BY <1>6, <1>11 DEF Q!EnqueueDone, Q!DequeueDone, Q!qpVars
<1>12. QED BY <1>1, <1>7, <1>8, <1>10, <1>11 DEF Q!Dequeue

\* What is routed, and the transmit buffers.
LEMMA SendOrder ==
  ASSUME IInv, NEW p \in Port, NEW v \in Ver, NEW q \in Q!Qp,
         Unrouted \/ \E r \in Port, ret \in 0 .. MaxBurst : Send(r, ret)
  PROVE  PathKept(p, v, q)
<1> DEFINE h == Head(ip[Routing])
<1>1. /\ ip[Routing] # <<>> /\ ip' = [ip EXCEPT ![Routing] = Tail(ip[Routing])]
      /\ UNCHANGED <<out, cops, queue, buf>>
  BY DEF Unrouted, Send, cryptoVars
<1>2. /\ Routing \in Ver /\ h \in Mbuf /\ h \in Elems(ip[Routing])
  BY <1>1, NextRouted
<1>3. /\ \A u \in Ver : ip[u] \in Seq(Mbuf)
      /\ tx[p] \in Seq(Mbuf)
  BY Types
<1>4. /\ ip'[Routing] = Tail(ip[Routing])
      /\ \A u \in Ver : u # Routing => ip'[u] = ip[u]
  BY <1>1, <1>2, Types
<1>5. \A a, b : Keeps(ip[v], ip'[v], a, b)
  <2>1. CASE v = Routing
    BY <1>1, <1>3, <1>4, <2>1, TailKeeps
  <2>2. CASE v # Routing
    BY <1>4, <2>2, KeepsSame
  <2>3. QED BY <2>1, <2>2
<1>6. CASE tx'[p] = tx[p] \/ tx'[p] = <<>>
  <2>1. \A a, b : Keeps(tx[p], tx'[p], a, b)
    BY <1>6, KeepsSame, KeepsNone
  <2>2. QED BY <1>1, <1>5, <2>1, KeepsSame, PathStill
<1>7. CASE tx'[p] = Append(tx[p], h)
  <2>1. CASE v # Routing
    <3>1. ASSUME NEW a, NEW b, On(Path(p, v, q), a), On(Path(p, v, q), b)
          PROVE  Keeps(tx[p], tx'[p], a, b)
      <4>1. a \notin Elems(ip[Routing]) /\ b \notin Elems(ip[Routing])
        BY <1>2, <2>1, <3>1, PathApart
      <4>2. a # h /\ b # h
        BY <1>2, <4>1
      <4> HIDE DEF h
      <4>3. QED BY <1>2, <1>3, <1>7, <4>2, AppendKeeps
    <3>2. QED BY <1>1, <1>5, <3>1, KeepsSame, PathStill
  <2>2. CASE v = Routing
    <3> DEFINE W == Path(p, v, q)
               X == Path(p, v, q)'
    <3>1. /\ W[1] = tx[p] /\ W[2] = ip[v] /\ W[3] = out
          /\ W[4] = cops /\ W[5] = queue[q] /\ W[6] = buf[q]
      BY PathPlaces
    <3>2. /\ X[1] = tx'[p] /\ X[2] = ip'[v] /\ X[3] = out'
          /\ X[4] = cops' /\ X[5] = queue'[q] /\ X[6] = buf'[q]
      BY PathPlaces
    <3> HIDE DEF W, X
    <3>3. 1 .. 6 = {1, 2, 3, 4, 5, 6} /\ 1 + 1 = 2 /\ 1 \in 1 .. 5
      OBVIOUS
    <3>4. /\ W[1 + 1] # <<>> /\ X[1] = Append(W[1], Head(W[1 + 1]))
          /\ X[1 + 1] = Tail(W[1 + 1])
      BY <1>1, <1>4, <1>7, <2>2, <3>1, <3>2, <3>3
    <3>5. \A k \in 1 .. 6 : k # 1 /\ k # 1 + 1 => X[k] = W[k]
      BY <1>1, <3>1, <3>2, <3>3
    <3>6. QED BY <3>3, <3>4, <3>5, PathHead DEF W, X
  <2>3. QED BY <2>1, <2>2
<1>8. tx'[p] = tx[p] \/ tx'[p] = <<>> \/ tx'[p] = Append(tx[p], h)
  <2>1. CASE Unrouted
    BY <2>1 DEF Unrouted
  <2>2. ASSUME NEW r \in Port, NEW ret \in 0 .. MaxBurst, Send(r, ret)
        PROVE  tx'[p] = tx[p] \/ tx'[p] = <<>> \/ tx'[p] = Append(tx[p], h)
    <3>1. \/ tx' = [tx EXCEPT ![r] = Append(tx[r], h)]
          \/ tx' = [tx EXCEPT ![r] = <<>>]
      BY <2>2 DEF Send
    <3> HIDE DEF h
    <3>2. QED BY <3>1, Types
  <2>3. QED BY <2>1, <2>2
<1>9. QED BY <1>6, <1>7, <1>8

LEMMA IdleOrder ==
  ASSUME IInv, NEW p \in Port, NEW v \in Ver, NEW q \in Q!Qp,
         \/ \E r \in Q!Qp : DeviceFinish(r)
         \/ \E r \in Port, ret \in 0 .. MaxBurst : Drain(r, ret)
         \/ RouteDone \/ Transmitted \/ UNCHANGED vars
  PROVE  PathKept(p, v, q)
<1>1. UNCHANGED <<ip, out, cops, queue, buf>>
  BY DEF DeviceFinish, Q!DeviceFinish, Q!callVars, Drain, RouteDone, Transmitted, vars,
         cryptoVars, trafficVars
<1>2. tx'[p] = tx[p] \/ tx'[p] = <<>>
  <2>1. UNCHANGED tx \/ \E r \in Port : tx' = [tx EXCEPT ![r] = <<>>]
    BY DEF DeviceFinish, Drain, RouteDone, Transmitted, vars
  <2>2. QED BY <2>1, Types
<1>3. \A a, b : Keeps(tx[p], tx'[p], a, b)
  BY <1>2, KeepsSame, KeepsNone
<1>4. QED BY <1>1, <1>3, KeepsSame, PathStill

LEMMA NextOrder ==
  ASSUME IInv, [Next]_vars, NEW p \in Port, NEW v \in Ver, NEW q \in Q!Qp
  PROVE  PathKept(p, v, q)
<1>1. ASSUME NEW d \in Ctx, NEW s \in Q!Bursts,
             \E f \in [DOMAIN s -> Flow] : Receive(d, s, f)
      PROVE  PathKept(p, v, q)
  BY <1>1, ReceiveOrder
<1>2. ASSUME NEW r \in Port, NEW ret \in 0 .. MaxBurst, Send(r, ret) \/ Drain(r, ret)
      PROVE  PathKept(p, v, q)
  BY <1>2, SendOrder, IdleOrder
<1>3. ASSUME CallInbound \/ CallOutbound PROVE PathKept(p, v, q)
  BY <1>3, CallOrder
<1>4. ASSUME Refuse \/ Accept PROVE PathKept(p, v, q)
  BY <1>4, EnqueueOrder
<1>5. ASSUME Crypto PROVE PathKept(p, v, q)
  BY <1>5, DequeueOrder
<1>6. ASSUME ReturnInbound \/ ReturnOutbound PROVE PathKept(p, v, q)
  BY <1>6, ReturnOrder
<1>7. ASSUME Unrouted PROVE PathKept(p, v, q)
  BY <1>7, SendOrder
<1>8. ASSUME \/ \E r \in Q!Qp : DeviceFinish(r)
             \/ RouteDone \/ Transmitted \/ UNCHANGED vars
      PROVE  PathKept(p, v, q)
  BY <1>8, IdleOrder
<1>9. QED BY <1>1, <1>2, <1>3, <1>4, <1>5, <1>6, <1>7, <1>8, Zenon DEF Next

\* What Line keeps of a path stands in the order of the path.
LEMMA LineAhead ==
  ASSUME NEW T, NEW A, NEW B, NEW W, \A k \in 1 .. 6 : W[k] \in Seq(T),
         NEW a, NEW b,
         Ord(Keep(W[1] \o W[2], A) \o Keep(W[3] \o W[4] \o W[5] \o W[6], B), a, b)
  PROVE  Ahead(W, a, b) /\ On(W, a) /\ On(W, b)
<1> DEFINE s == W[1] \o W[2]
           t == W[3] \o W[4]
           u == t \o W[5]
           w == u \o W[6]
<1>1. /\ W[1] \in Seq(T) /\ W[2] \in Seq(T) /\ W[3] \in Seq(T)
      /\ W[4] \in Seq(T) /\ W[5] \in Seq(T) /\ W[6] \in Seq(T)
  OBVIOUS
<1>2. /\ s \in Seq(T) /\ Elems(s) = Elems(W[1]) \cup Elems(W[2])
      /\ t \in Seq(T) /\ Elems(t) = Elems(W[3]) \cup Elems(W[4])
  BY <1>1, ConcatElems
<1>3. u \in Seq(T) /\ Elems(u) = Elems(t) \cup Elems(W[5])
  <2> HIDE DEF t
  <2>1. QED BY <1>1, <1>2, ConcatElems
<1>4. w \in Seq(T) /\ Elems(w) = Elems(u) \cup Elems(W[6])
  <2> HIDE DEF u
  <2>1. QED BY <1>1, <1>3, ConcatElems
<1>5. Ord(s, a, b) => \/ Ord(W[1], a, b) \/ Ord(W[2], a, b)
                      \/ a \in Elems(W[1]) /\ b \in Elems(W[2])
  BY <1>1, OrdConcat
<1>6. Ord(t, a, b) => \/ Ord(W[3], a, b) \/ Ord(W[4], a, b)
                      \/ a \in Elems(W[3]) /\ b \in Elems(W[4])
  BY <1>1, OrdConcat
<1>7. Ord(u, a, b) => \/ Ord(t, a, b) \/ Ord(W[5], a, b)
                      \/ a \in Elems(t) /\ b \in Elems(W[5])
  <2> HIDE DEF t
  <2>1. QED BY <1>1, <1>2, OrdConcat
<1>8. Ord(w, a, b) => \/ Ord(u, a, b) \/ Ord(W[6], a, b)
                      \/ a \in Elems(u) /\ b \in Elems(W[6])
  <2> HIDE DEF u
  <2>1. QED BY <1>1, <1>3, OrdConcat
<1>9. Ord(Keep(s, A) \o Keep(w, B), a, b)
  OBVIOUS
<1> HIDE DEF s, t, u, w
<1>10. /\ Keep(s, A) \in Seq(T) /\ Elems(Keep(s, A)) \subseteq Elems(s)
       /\ Keep(w, B) \in Seq(T) /\ Elems(Keep(w, B)) \subseteq Elems(w)
  <2>1. ASSUME NEW x \in Seq(T), NEW S
        PROVE  Keep(x, S) \in Seq(T) /\ Elems(Keep(x, S)) \subseteq Elems(x)
    <3>1. Keep(x, S) \in Seq(T) /\ Elems(Keep(x, S)) = Elems(x) \cap S
      BY KeepElems
    <3>2. QED BY <3>1
  <2>2. QED BY <1>2, <1>4, <2>1
<1>11. \/ Ord(Keep(s, A), a, b) \/ Ord(Keep(w, B), a, b)
       \/ a \in Elems(Keep(s, A)) /\ b \in Elems(Keep(w, B))
  BY <1>9, <1>10, OrdConcat
<1>12. \/ Ord(s, a, b) \/ Ord(w, a, b)
       \/ a \in Elems(s) /\ b \in Elems(w)
  BY <1>2, <1>4, <1>10, <1>11, OrdKeep
<1>13. 1 .. 6 = {1, 2, 3, 4, 5, 6} /\ 1 < 2 /\ 1 < 3 /\ 1 < 4 /\ 1 < 5 /\ 1 < 6
       /\ 2 < 3 /\ 2 < 4 /\ 2 < 5 /\ 2 < 6 /\ 3 < 4 /\ 3 < 5 /\ 3 < 6
       /\ 4 < 5 /\ 4 < 6 /\ 5 < 6
  OBVIOUS
<1>14. Ahead(W, a, b)
  <2>1. CASE Ord(s, a, b)
    BY <1>5, <1>13, <2>1 DEF Ahead
  <2>2. CASE Ord(w, a, b)
    <3>1. CASE Ord(t, a, b)
      BY <1>6, <1>13, <3>1 DEF Ahead
    <3>2. CASE Ord(W[5], a, b) \/ Ord(W[6], a, b)
      BY <1>13, <3>2 DEF Ahead
    <3>3. CASE a \in Elems(t) /\ b \in Elems(W[5])
      BY <1>2, <1>13, <3>3 DEF Ahead
    <3>4. CASE a \in Elems(u) /\ b \in Elems(W[6])
      BY <1>2, <1>3, <1>13, <3>4 DEF Ahead
    <3>5. QED BY <1>7, <1>8, <2>2, <3>1, <3>2, <3>3, <3>4
  <2>3. CASE a \in Elems(s) /\ b \in Elems(w)
    BY <1>2, <1>3, <1>4, <1>13, <2>3 DEF Ahead
  <2>4. QED BY <1>12, <2>1, <2>2, <2>3
<1>15. On(W, a) /\ On(W, b)
  BY <1>14, OrdIn DEF Ahead, On
<1>16. QED BY <1>14, <1>15

LEMMA LineSeq ==
  ASSUME NEW T, NEW A, NEW B, NEW W, \A k \in 1 .. 6 : W[k] \in Seq(T)
  PROVE  Keep(W[1] \o W[2], A) \o Keep(W[3] \o W[4] \o W[5] \o W[6], B) \in Seq(T)
<1> DEFINE s == W[1] \o W[2]
           t == W[3] \o W[4] \o W[5] \o W[6]
<1>1. s \in Seq(T) /\ t \in Seq(T)
  OBVIOUS
<1> HIDE DEF s, t
<1>2. Keep(s, A) \in Seq(T) /\ Keep(t, B) \in Seq(T)
  BY <1>1, KeepElems
<1>3. Keep(s, A) \o Keep(t, B) \in Seq(T)
  BY <1>2, ConcatElems
<1>4. QED BY <1>3 DEF s, t

\* No step lets two outbound packets of an SA overtake each other between
\* ipsec_enqueue and the transmit buffer of a port: through partial bursts,
\* devices, ipsec_dequeue, the sorting by version and the routing, for any
\* SAs and ports, and any number of queue pairs.
THEOREM SaOrderKept == Spec => PerSaOrder
<1>1. IInv /\ [Next]_vars =>
        \A s \in Sa : \A p \in Port :
          s[1] = "out" => InOrder(Line(s, p), Line(s, p)')
  <2>1. SUFFICES ASSUME IInv, [Next]_vars, NEW s \in Sa, NEW p \in Port,
                        NEW i \in DOMAIN Line(s, p), NEW j \in DOMAIN Line(s, p),
                        NEW k \in DOMAIN Line(s, p)', NEW l \in DOMAIN Line(s, p)',
                        i < j, Line(s, p)[i] = Line(s, p)'[k],
                        Line(s, p)[j] = Line(s, p)'[l]
                 PROVE  k < l
    BY DEF InOrder
  <2> DEFINE v == IF SaTunnel[s] = 0 THEN 4 ELSE SaTunnel[s]
             q == <<s[1], SaQp[s]>>
             W == Path(p, v, q)
             X == Path(p, v, q)'
             L == Line(s, p)
             M == Line(s, p)'
             a == L[i]
             b == L[j]
  <2>2. v \in Ver /\ q \in Q!Qp
    <3>1. v \in Ver
      BY IpsecLcoreAssumption DEF Ver
    <3>2. s[1] \in Ctx /\ SaQp[s] \in Nat /\ SaQp[s] < NbQps[s[1]]
      BY IpsecLcoreAssumption
    <3>3. QED BY <3>1, <3>2, Constants
  <2>3. \A a1, b1 : /\ On(W, a1) /\ On(W, b1)
                    /\ Ahead(X, a1, b1)
                    => Ahead(W, a1, b1)
    BY <2>1, <2>2, NextOrder DEF PathKept
  <2>4. /\ \A n \in 1 .. 6 : W[n] \in Seq(Mbuf) /\ Q!Distinct(W[n])
        /\ \A n, m \in 1 .. 6 : n < m => Elems(W[n]) \cap Elems(W[m]) = {}
    BY <2>1, <2>2, PathApart
  <2>5. \A n \in 1 .. 6 : X[n] \in Seq(Mbuf)
    <3>1. IInv'
      BY <2>1, NextIInv
    <3>2. /\ tx' \in [Port -> Seq(Mbuf)] /\ ip' \in [Ver -> Seq(Mbuf)]
          /\ out' \in Seq(Mbuf) /\ cops' \in Seq(Mbuf)
          /\ buf' \in [Q!Qp -> Seq(Mbuf)] /\ queue' \in [Q!Qp -> Seq(Mbuf)]
      BY <3>1 DEF IInv, TypeOK, Q!TypeOK
    <3>3. /\ X[1] = tx'[p] /\ X[2] = ip'[v] /\ X[3] = out'
          /\ X[4] = cops' /\ X[5] = queue'[q] /\ X[6] = buf'[q]
      BY PathPlaces
    <3> HIDE DEF X, v, q
    <3>4. 1 .. 6 = {1, 2, 3, 4, 5, 6}
      OBVIOUS
    <3>5. QED BY <2>2, <3>2, <3>3, <3>4
  <2>6. \E A, B : L = Keep(W[1] \o W[2], A) \o Keep(W[3] \o W[4] \o W[5] \o W[6], B)
    <3> DEFINE Mine == {m \in Mbuf : sa[m] = s}
               Done == {m \in Mine : sealed[m]}
    <3>1. L = Keep(tx[p] \o ip[v], Done)
                \o Keep(out \o cops \o queue[q] \o buf[q], Mine)
      BY DEF Line
    <3>2. /\ W[1] = tx[p] /\ W[2] = ip[v] /\ W[3] = out
          /\ W[4] = cops /\ W[5] = queue[q] /\ W[6] = buf[q]
      BY PathPlaces
    <3> HIDE DEF Mine, Done, L, M, W, X, v, q
    <3>3. QED BY <3>1, <3>2
  <2>7. \E A, B : M = Keep(X[1] \o X[2], A) \o Keep(X[3] \o X[4] \o X[5] \o X[6], B)
    <3> DEFINE Mine == {m \in Mbuf : sa'[m] = s}
               Done == {m \in Mine : sealed'[m]}
    <3>1. M = Keep(tx'[p] \o ip'[v], Done)
                \o Keep(out' \o cops' \o queue'[q] \o buf'[q], Mine)
      BY DEF Line
    <3>2. /\ X[1] = tx'[p] /\ X[2] = ip'[v] /\ X[3] = out'
          /\ X[4] = cops' /\ X[5] = queue'[q] /\ X[6] = buf'[q]
      BY PathPlaces
    <3> HIDE DEF Mine, Done, L, M, W, X, v, q
    <3>3. QED BY <3>1, <3>2
  <2> HIDE DEF W, X, v, q
  <2>8. \A c, d : Ord(L, c, d) => Ahead(W, c, d) /\ On(W, c) /\ On(W, d)
    BY <2>4, <2>6, LineAhead
  <2>9. \A c, d : Ord(M, c, d) => Ahead(X, c, d)
    BY <2>5, <2>7, LineAhead
  <2>10. L \in Seq(Mbuf) /\ M \in Seq(Mbuf)
    BY <2>4, <2>5, <2>6, <2>7, LineSeq
  <2> HIDE DEF L, M
  <2>11. /\ DOMAIN L = 1 .. Len(L) /\ Len(L) \in Nat
         /\ DOMAIN M = 1 .. Len(M) /\ Len(M) \in Nat
    BY <2>10
  <2>12. Ord(L, a, b)
    BY <2>1, <2>11, Precedes DEF L
  <2>13. M[k] = a /\ M[l] = b
    BY <2>1 DEF L, M
  <2>14. Ahead(W, a, b) /\ On(W, a) /\ On(W, b) /\ ~ Ahead(W, b, a)
    BY <2>4, <2>8, <2>12, AheadOneWay
  <2>15. a # b
    BY <2>14
  <2>16. ~ Ord(M, b, a)
    BY <2>3, <2>9, <2>14
  <2>17. k # l
    BY <2>13, <2>15
  <2>18. ~ (l < k)
    <3>1. k \in 1 .. Len(M) /\ l \in 1 .. Len(M)
      BY <2>11 DEF M
    <3> HIDE DEF a, b
    <3>2. QED BY <2>13, <2>16, <3>1, Precedes
  <2>19. k \in Int /\ l \in Int
    BY <2>11 DEF M
  <2>20. QED BY <2>17, <2>18, <2>19
<1>2. QED BY SpecIInv, <1>1, PTL DEF Spec, PerSaOrder
=============================================================================
