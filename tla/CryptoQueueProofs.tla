------------------------- MODULE CryptoQueueProofs -------------------------
(***************************************************************************)
(* Proofs about CryptoQueue, for every set of mbufs, every table of queue  *)
(* pairs, every burst size and every device depth.                         *)
(***************************************************************************)
EXTENDS CryptoQueue, SequenceTheorems, TLAPS

(***************************************************************************)
(* What the sequence operations do to the elements of a sequence without   *)
(* repetitions.                                                            *)
(***************************************************************************)

\* Appending a new element.
LEMMA AppendElems ==
  ASSUME NEW S, NEW s \in Seq(S), NEW e \in S
  PROVE  /\ Append(s, e) \in Seq(S)
         /\ Len(Append(s, e)) = Len(s) + 1
         /\ Elems(Append(s, e)) = Elems(s) \cup {e}
         /\ Distinct(s) /\ e \notin Elems(s) => Distinct(Append(s, e))
<1> DEFINE t == Append(s, e)
<1>1. /\ t \in Seq(S)
      /\ Len(s) \in Nat /\ Len(t) = Len(s) + 1
      /\ \A i \in 1 .. Len(s) : t[i] = s[i]
      /\ t[Len(s) + 1] = e
  BY AppendProperties, LenProperties
<1> HIDE DEF t
<1>2. Elems(t) = Elems(s) \cup {e}
  <2>1. ASSUME NEW i \in 1 .. Len(t) PROVE t[i] \in Elems(s) \cup {e}
    BY <1>1 DEF Elems
  <2>2. ASSUME NEW i \in 1 .. Len(s) PROVE s[i] \in Elems(t)
    <3>1. i \in 1 .. Len(t) /\ t[i] = s[i]
      BY <1>1
    <3>2. QED BY <3>1 DEF Elems
  <2>3. e \in Elems(t)
    <3>1. Len(t) \in 1 .. Len(t) /\ t[Len(t)] = e
      BY <1>1
    <3>2. QED BY <3>1 DEF Elems
  <2>4. QED BY <2>1, <2>2, <2>3 DEF Elems
<1>3. ASSUME Distinct(s), e \notin Elems(s) PROVE Distinct(t)
  BY <1>1, <1>3 DEF Elems, Distinct
<1>4. QED BY <1>1, <1>2, <1>3 DEF t

\* Taking the head off.
LEMMA TailElems ==
  ASSUME NEW S, NEW s \in Seq(S), s # <<>>
  PROVE  /\ Head(s) \in S /\ Tail(s) \in Seq(S)
         /\ Len(s) \in Nat \ {0} /\ Len(Tail(s)) = Len(s) - 1
         /\ Head(s) \in Elems(s)
         /\ Distinct(s) => /\ Elems(Tail(s)) = Elems(s) \ {Head(s)}
                           /\ Distinct(Tail(s))
<1> DEFINE t == Tail(s)
           h == Head(s)
<1>1. /\ h \in S /\ t \in Seq(S)
      /\ Len(s) \in Nat \ {0} /\ Len(t) = Len(s) - 1
      /\ \A i \in 1 .. Len(t) : t[i] = s[i + 1]
      /\ h = s[1]
  BY HeadTailProperties, EmptySeq
<1> HIDE DEF t, h
<1>2. h \in Elems(s)
  BY <1>1 DEF Elems
<1>3. ASSUME Distinct(s) PROVE Elems(t) = Elems(s) \ {h}
  <2>1. ASSUME NEW i \in 1 .. Len(t) PROVE t[i] \in Elems(s) \ {h}
    <3>1. i + 1 \in 1 .. Len(s) /\ 1 \in 1 .. Len(s) /\ t[i] = s[i + 1]
      BY <1>1
    <3>2. QED BY <1>1, <1>3, <3>1 DEF Elems, Distinct
  <2>2. ASSUME NEW i \in 1 .. Len(s), s[i] # h PROVE s[i] \in Elems(t)
    <3>1. i - 1 \in 1 .. Len(t) /\ t[i - 1] = s[i]
      BY <1>1, <2>2
    <3>2. QED BY <3>1 DEF Elems
  <2>3. QED BY <2>1, <2>2 DEF Elems
<1>4. ASSUME Distinct(s) PROVE Distinct(t)
  BY <1>1, <1>4 DEF Distinct
<1>5. QED BY <1>1, <1>2, <1>3, <1>4 DEF t, h

\* Cutting in two after the first n elements.
LEMMA SplitElems ==
  ASSUME NEW S, NEW s \in Seq(S), NEW n \in 0 .. Len(s)
  PROVE  LET a == SubSeq(s, 1, n)
             b == SubSeq(s, n + 1, Len(s))
         IN  /\ a \in Seq(S) /\ b \in Seq(S)
             /\ Len(a) = n /\ Len(b) = Len(s) - n
             /\ Distinct(s) => /\ Elems(a) = Elems(s) \ Elems(b)
                               /\ Elems(b) = Elems(s) \ Elems(a)
                               /\ Distinct(a) /\ Distinct(b)
<1> DEFINE a == SubSeq(s, 1, n)
           b == SubSeq(s, n + 1, Len(s))
<1>0. Len(s) \in Nat /\ n \in Int /\ \A i \in 1 .. Len(s) : s[i] \in S
  BY LenProperties, ElementOfSeq
<1>1. /\ a \in Seq(S) /\ Len(a) = n
      /\ \A i \in 1 .. n : a[i] = s[i]
  <2>1. /\ a \in Seq(S)
        /\ Len(a) = IF 1 <= n THEN n - 1 + 1 ELSE 0
        /\ \A i \in 1 .. n - 1 + 1 : a[i] = s[1 + i - 1]
    BY <1>0, SubSeqProperties
  <2>2. QED BY <1>0, <2>1
<1>2. /\ b \in Seq(S) /\ Len(b) = Len(s) - n
      /\ \A i \in 1 .. Len(s) - n : b[i] = s[n + i]
  <2>1. /\ b \in Seq(S)
        /\ Len(b) = IF n + 1 <= Len(s) THEN Len(s) - (n + 1) + 1 ELSE 0
        /\ \A i \in 1 .. Len(s) - (n + 1) + 1 : b[i] = s[(n + 1) + i - 1]
    <3>1. n + 1 \in Int /\ Len(s) \in Int /\ \A i \in n + 1 .. Len(s) : s[i] \in S
      BY <1>0
    <3>2. QED BY <3>1, SubSeqProperties
  <2>2. QED BY <1>0, <2>1
<1> HIDE DEF a, b
<1>3. Elems(s) = Elems(a) \cup Elems(b)
  <2>1. ASSUME NEW i \in 1 .. Len(s) PROVE s[i] \in Elems(a) \cup Elems(b)
    <3>1. CASE i <= n
      <4>1. i \in 1 .. Len(a) /\ a[i] = s[i]
        BY <1>0, <1>1, <3>1
      <4>2. QED BY <4>1 DEF Elems
    <3>2. CASE i > n
      <4>1. i - n \in 1 .. Len(b) /\ b[i - n] = s[i]
        BY <1>0, <1>2, <3>2
      <4>2. QED BY <4>1 DEF Elems
    <3>3. QED BY <3>1, <3>2, <1>0
  <2>2. ASSUME NEW i \in 1 .. Len(a) PROVE a[i] \in Elems(s)
    BY <1>0, <1>1 DEF Elems
  <2>3. ASSUME NEW i \in 1 .. Len(b) PROVE b[i] \in Elems(s)
    <3>1. n + i \in 1 .. Len(s) /\ b[i] = s[n + i]
      BY <1>0, <1>2
    <3>2. QED BY <3>1 DEF Elems
  <2>4. QED BY <2>1, <2>2, <2>3 DEF Elems
<1>4. ASSUME Distinct(s)
      PROVE  Distinct(a) /\ Distinct(b) /\ Elems(a) \cap Elems(b) = {}
  <2>1. ASSUME NEW i \in 1 .. Len(a), NEW j \in 1 .. Len(b) PROVE a[i] # b[j]
    <3>1. i \in 1 .. Len(s) /\ n + j \in 1 .. Len(s) /\ i # n + j
      BY <1>0, <1>1, <1>2
    <3>2. a[i] = s[i] /\ b[j] = s[n + j]
      BY <1>0, <1>1, <1>2
    <3>3. QED BY <1>4, <3>1, <3>2 DEF Distinct
  <2>2. Distinct(a)
    BY <1>0, <1>1, <1>4 DEF Distinct
  <2>3. Distinct(b)
    <3> SUFFICES ASSUME NEW i \in 1 .. Len(b), NEW j \in 1 .. Len(b), b[i] = b[j]
                 PROVE  i = j
      BY DEF Distinct
    <3>1. n + i \in 1 .. Len(s) /\ n + j \in 1 .. Len(s)
      BY <1>0, <1>2
    <3>2. s[n + i] = s[n + j]
      BY <1>0, <1>2
    <3>3. n + i = n + j
      BY <1>4, <3>1, <3>2 DEF Distinct
    <3>4. QED BY <3>3, <1>0
  <2>4. QED BY <2>1, <2>2, <2>3 DEF Elems
<1>5. QED BY <1>1, <1>2, <1>3, <1>4 DEF a, b

\* Joining two sequences that share no element.
LEMMA ConcatElems ==
  ASSUME NEW S, NEW s \in Seq(S), NEW t \in Seq(S)
  PROVE  /\ s \o t \in Seq(S)
         /\ Len(s \o t) = Len(s) + Len(t)
         /\ Elems(s \o t) = Elems(s) \cup Elems(t)
         /\ Distinct(s) /\ Distinct(t) /\ Elems(s) \cap Elems(t) = {}
              => Distinct(s \o t)
<1> DEFINE u == s \o t
<1>1. /\ u \in Seq(S)
      /\ Len(s) \in Nat /\ Len(t) \in Nat /\ Len(u) = Len(s) + Len(t)
      /\ \A i \in 1 .. Len(s) + Len(t) :
            u[i] = IF i <= Len(s) THEN s[i] ELSE t[i - Len(s)]
  BY ConcatProperties, LenProperties
<1> HIDE DEF u
<1>2. Elems(u) = Elems(s) \cup Elems(t)
  <2>1. ASSUME NEW i \in 1 .. Len(u) PROVE u[i] \in Elems(s) \cup Elems(t)
    <3>1. CASE i <= Len(s)
      BY <1>1, <3>1 DEF Elems
    <3>2. CASE i > Len(s)
      <4>1. i - Len(s) \in 1 .. Len(t) /\ u[i] = t[i - Len(s)]
        BY <1>1, <3>2
      <4>2. QED BY <4>1 DEF Elems
    <3>3. QED BY <3>1, <3>2, <1>1
  <2>2. ASSUME NEW i \in 1 .. Len(s) PROVE s[i] \in Elems(u)
    <3>1. i \in 1 .. Len(u) /\ u[i] = s[i]
      BY <1>1
    <3>2. QED BY <3>1 DEF Elems
  <2>3. ASSUME NEW i \in 1 .. Len(t) PROVE t[i] \in Elems(u)
    <3>1. Len(s) + i \in 1 .. Len(u) /\ u[Len(s) + i] = t[i]
      BY <1>1
    <3>2. QED BY <3>1 DEF Elems
  <2>4. QED BY <2>1, <2>2, <2>3 DEF Elems
<1>3. ASSUME Distinct(s), Distinct(t), Elems(s) \cap Elems(t) = {}
      PROVE  Distinct(u)
  <2> SUFFICES ASSUME NEW i \in 1 .. Len(u), NEW j \in 1 .. Len(u), u[i] = u[j]
               PROVE  i = j
    BY DEF Distinct
  <2>1. ASSUME NEW k \in 1 .. Len(s), NEW l \in 1 .. Len(t) PROVE s[k] # t[l]
    BY <1>3 DEF Elems
  <2>2. CASE i <= Len(s) /\ j <= Len(s)
    <3>1. i \in 1 .. Len(s) /\ j \in 1 .. Len(s)
      BY <1>1, <2>2
    <3>2. u[i] = s[i] /\ u[j] = s[j]
      BY <1>1, <2>2
    <3>3. QED BY <1>3, <3>1, <3>2 DEF Distinct
  <2>3. CASE i > Len(s) /\ j > Len(s)
    <3>1. i - Len(s) \in 1 .. Len(t) /\ j - Len(s) \in 1 .. Len(t)
      BY <1>1, <2>3
    <3>2. t[i - Len(s)] = t[j - Len(s)]
      BY <1>1, <2>3
    <3>3. i - Len(s) = j - Len(s)
      BY <1>3, <3>1, <3>2 DEF Distinct
    <3>4. QED BY <3>3, <1>1
  <2>4. CASE i <= Len(s) /\ j > Len(s)
    <3>1. i \in 1 .. Len(s) /\ j - Len(s) \in 1 .. Len(t)
      BY <1>1, <2>4
    <3>2. u[i] = s[i] /\ u[j] = t[j - Len(s)]
      BY <1>1, <2>4
    <3>3. QED BY <2>1, <3>1, <3>2
  <2>5. CASE i > Len(s) /\ j <= Len(s)
    <3>1. j \in 1 .. Len(s) /\ i - Len(s) \in 1 .. Len(t)
      BY <1>1, <2>5
    <3>2. u[j] = s[j] /\ u[i] = t[i - Len(s)]
      BY <1>1, <2>5
    <3>3. QED BY <2>1, <3>1, <3>2
  <2>6. QED BY <1>1, <2>2, <2>3, <2>4, <2>5
<1>4. QED BY <1>1, <1>2, <1>3 DEF u

LEMMA EmptyElems == ASSUME NEW S PROVE <<>> \in Seq(S) /\ Len(<<>>) = 0
                                       /\ Elems(<<>>) = {} /\ Distinct(<<>>)
  BY EmptySeq DEF Elems, Distinct

-----------------------------------------------------------------------------
(***************************************************************************)
(* The base invariant: types, and what ties the loop variables, the        *)
(* counters and the arrays together.  InFlightExact and ArraysBounded are  *)
(* part of it; Shape is what they need to be inductive.                    *)
(***************************************************************************)
Shape ==
  /\ \A q \in Qp : ready[q] <= Len(queue[q])
  /\ \A c \in Ctx : NbQps[c] # 0 => last_qp[c] < NbQps[c]
  /\ pc # "enqueue" => pkts = <<>>
  /\ pc # "dequeue" => cops = <<>>
  /\ pc = "enqueue" => out = <<>>

Basic == TypeOK /\ Shape /\ InFlightExact /\ ArraysBounded

LEMMA QpPairs ==
  \A q : q \in Qp <=> \E c \in Ctx : \E i \in 0 .. NbQps[c] - 1 : q = <<c, i>>
  BY DEF Qp

LEMMA InitBasic == Init => Basic
<1> SUFFICES ASSUME Init PROVE Basic
  OBVIOUS
<1> USE CryptoQueueAssumption
<1>1. TypeOK
  BY EmptyElems DEF Init, TypeOK
<1>2. Shape
  BY EmptyElems DEF Init, Shape
<1>3. InFlightExact /\ ArraysBounded
  BY EmptyElems DEF Init, InFlightExact, ArraysBounded
<1>4. QED BY <1>1, <1>2, <1>3 DEF Basic

LEMMA NextBasic == Basic /\ [Next]_vars => Basic'
<1> SUFFICES ASSUME Basic, [Next]_vars PROVE Basic'
  OBVIOUS
<1> USE CryptoQueueAssumption
<1>0. /\ TypeOK /\ Shape /\ InFlightExact /\ ArraysBounded
      /\ \A c \in Ctx : NbQps[c] \in Nat
      /\ MaxBurst \in Nat /\ MaxBurst > 0
      /\ \A s \in Seq(Mbuf) : Len(s) \in Nat
  BY LenProperties DEF Basic
<1>1. ASSUME NEW c \in Ctx, NEW s \in Bursts, Call(c, s) PROVE Basic'
  <2>1. s \in Seq(Mbuf)
    <3>1. PICK n \in 0 .. MaxBurst : s \in [1 .. n -> pool]
      BY <1>1 DEF Bursts
    <3>2. n \in Nat /\ s \in [1 .. n -> Mbuf]
      BY <3>1, <1>0 DEF TypeOK
    <3>3. QED BY <3>2, SeqDef
  <2>2. TypeOK'
    BY <1>0, <1>1, <2>1 DEF TypeOK, Call, qpVars
  <2>3. Shape' /\ InFlightExact' /\ ArraysBounded'
    BY <1>0, <1>1 DEF Shape, InFlightExact, ArraysBounded, Call, qpVars
  <2>4. QED BY <2>2, <2>3 DEF Basic
<1>2. CASE EnqueueReject
  <2>1. pkts \in Seq(Mbuf) /\ Head(pkts) \in Mbuf /\ Tail(pkts) \in Seq(Mbuf)
    BY <1>0, <1>2, TailElems DEF TypeOK, EnqueueReject
  <2>2. TypeOK'
    BY <1>0, <1>2, <2>1 DEF TypeOK, EnqueueReject, qpVars
  <2>3. Shape' /\ InFlightExact' /\ ArraysBounded'
    BY <1>0, <1>2 DEF Shape, InFlightExact, ArraysBounded, EnqueueReject, qpVars
  <2>4. QED BY <2>2, <2>3 DEF Basic
<1>3. ASSUME NEW q \in Qp, EnqueueBuffer(q) PROVE Basic'
  <2>1. /\ Head(pkts) \in Mbuf /\ Tail(pkts) \in Seq(Mbuf)
        /\ buf[q] \in Seq(Mbuf)
    BY <1>0, <1>3, TailElems DEF TypeOK, EnqueueBuffer
  <2>2. /\ Append(buf[q], Head(pkts)) \in Seq(Mbuf)
        /\ Len(Append(buf[q], Head(pkts))) = Len(buf[q]) + 1
    BY <2>1, AppendElems
  <2>3. TypeOK'
    BY <1>0, <1>3, <2>1, <2>2 DEF TypeOK, EnqueueBuffer
  <2>4. Shape' /\ InFlightExact'
    BY <1>0, <1>3 DEF Shape, InFlightExact, EnqueueBuffer
  <2>5. ArraysBounded'
    <3>1. Len(buf[q]) < MaxBurst /\ Len(buf[q]) + 1 # MaxBurst
      BY <1>0, <1>3 DEF ArraysBounded, EnqueueBuffer
    <3>2. Len(buf'[q]) < MaxBurst
      BY <1>0, <1>3, <2>1, <2>2, <3>1 DEF TypeOK, EnqueueBuffer
    <3>3. \A r \in Qp : r # q => buf'[r] = buf[r]
      BY <1>0, <1>3 DEF TypeOK, EnqueueBuffer
    <3>4. QED BY <1>0, <1>3, <3>2, <3>3 DEF ArraysBounded, EnqueueBuffer
  <2>6. QED BY <2>3, <2>4, <2>5 DEF Basic
<1>4. ASSUME NEW q \in Qp, NEW ret \in 0 .. MaxBurst, EnqueueFlush(q, ret)
      PROVE  Basic'
  <2> DEFINE burst == Append(buf[q], Head(pkts))
             taken == SubSeq(burst, 1, ret)
             freed == SubSeq(burst, ret + 1, Len(burst))
  <2>1. /\ Head(pkts) \in Mbuf /\ Tail(pkts) \in Seq(Mbuf)
        /\ buf[q] \in Seq(Mbuf) /\ queue[q] \in Seq(Mbuf)
    BY <1>0, <1>4, TailElems DEF TypeOK, EnqueueFlush
  <2>2. burst \in Seq(Mbuf) /\ ret \in 0 .. Len(burst)
    BY <1>0, <1>4, <2>1, AppendElems DEF EnqueueFlush
  <2> HIDE DEF burst
  <2>3. taken \in Seq(Mbuf) /\ Len(taken) = ret /\ freed \in Seq(Mbuf)
    BY <2>2, SplitElems
  <2> HIDE DEF taken
  <2>4. /\ queue[q] \o taken \in Seq(Mbuf)
        /\ Len(queue[q] \o taken) = Len(queue[q]) + ret
    BY <2>1, <2>3, ConcatElems
  <2>5. Elems(freed) \subseteq Mbuf
    BY <2>3, ElementOfSeq DEF Elems
  <2>6. /\ queue' = [queue EXCEPT ![q] = queue[q] \o taken]
        /\ in_flight' = [in_flight EXCEPT ![q] = in_flight[q] + ret]
        /\ pool' = pool \cup Elems(freed)
        /\ buf' = [buf EXCEPT ![q] = <<>>]
        /\ pkts' = Tail(pkts)
        /\ pc = "enqueue"
        /\ UNCHANGED <<pc, ctx, cops, out, polled, last_qp, ready>>
    BY <1>4 DEF EnqueueFlush, burst, taken
  <2>7. \A r \in Qp : r # q => /\ buf'[r] = buf[r] /\ queue'[r] = queue[r]
                               /\ in_flight'[r] = in_flight[r]
    BY <1>0, <2>6 DEF TypeOK
  <2>8. /\ buf'[q] = <<>> /\ queue'[q] = queue[q] \o taken
        /\ in_flight'[q] = in_flight[q] + ret
    BY <1>0, <2>6 DEF TypeOK
  <2> HIDE DEF freed
  <2>9. TypeOK'
    BY <1>0, <2>1, <2>4, <2>5, <2>6, EmptyElems, SMTT(20) DEF TypeOK
  <2>10. Shape'
    <3>1. ready[q] <= Len(queue[q]) /\ Len(queue[q]) \in Nat /\ ready[q] \in Nat
      BY <1>0, <2>1 DEF Shape, TypeOK
    <3>2. ready'[q] <= Len(queue'[q])
      BY <3>1, <2>4, <2>6, <2>8
    <3>3. QED BY <1>0, <2>6, <2>7, <3>2 DEF Shape
  <2>11. InFlightExact'
    BY <1>0, <2>4, <2>7, <2>8 DEF InFlightExact
  <2>12. ArraysBounded'
    BY <1>0, <2>6, <2>7, <2>8, EmptyElems DEF ArraysBounded
  <2>13. QED BY <2>9, <2>10, <2>11, <2>12 DEF Basic
<1>5. CASE EnqueueDone
  <2>1. TypeOK'
    BY <1>0, <1>5 DEF TypeOK, EnqueueDone, qpVars
  <2>2. Shape' /\ InFlightExact' /\ ArraysBounded'
    BY <1>0, <1>5 DEF Shape, InFlightExact, ArraysBounded, EnqueueDone, qpVars
  <2>3. QED BY <2>1, <2>2 DEF Basic
<1>6. CASE PollQp
  <2> DEFINE q == <<ctx, last_qp[ctx]>>
             nb == Smaller(ready[q], MaxBurst - Len(out))
             got == SubSeq(queue[q], 1, nb)
             rest == SubSeq(queue[q], nb + 1, Len(queue[q]))
  <2>1. /\ ctx \in Ctx /\ NbQps[ctx] \in Nat /\ NbQps[ctx] # 0
        /\ last_qp[ctx] \in Nat /\ last_qp[ctx] < NbQps[ctx]
    BY <1>0, <1>6 DEF TypeOK, Shape, PollQp
  <2>2. q \in Qp
    BY <2>1, QpPairs
  <2>3. NextQp(ctx) \in Nat /\ NextQp(ctx) < NbQps[ctx]
    BY <2>1 DEF NextQp
  <2>4. /\ last_qp' = [last_qp EXCEPT ![ctx] = NextQp(ctx)]
        /\ polled' = polled + 1
        /\ cops = <<>> /\ pc = "dequeue" /\ Len(out) < MaxBurst
        /\ UNCHANGED <<pc, ctx, pool, pkts, out>>
    BY <1>6 DEF PollQp
  <2>5. \A c \in Ctx : /\ last_qp'[c] \in Nat
                       /\ NbQps[c] # 0 => last_qp'[c] < NbQps[c]
    BY <1>0, <2>3, <2>4 DEF TypeOK, Shape
  <2>6. last_qp' \in [Ctx -> Nat]
    BY <1>0, <2>3, <2>4 DEF TypeOK
  <2>7. CASE in_flight[q] = 0
    <3>0. UNCHANGED <<cops, qpVars>>
      BY <1>6, <2>7 DEF PollQp
    <3>1. TypeOK'
      BY <1>0, <2>4, <2>6, <3>0 DEF TypeOK, qpVars
    <3>2. Shape' /\ InFlightExact' /\ ArraysBounded'
      BY <1>0, <2>4, <2>5, <3>0 DEF Shape, InFlightExact, ArraysBounded, qpVars
    <3>3. QED BY <3>1, <3>2 DEF Basic
  <2>8. CASE in_flight[q] # 0
    <3>1. /\ queue[q] \in Seq(Mbuf) /\ Len(queue[q]) \in Nat /\ Len(out) \in Nat
          /\ ready[q] \in Nat /\ ready[q] <= Len(queue[q])
      BY <1>0, <2>2 DEF TypeOK, Shape
    <3>2. nb \in 0 .. Len(queue[q]) /\ nb <= ready[q] /\ Len(out) + nb <= MaxBurst
      BY <1>0, <2>4, <3>1 DEF Smaller
    <3>3. /\ cops' = got
          /\ queue' = [queue EXCEPT ![q] = rest]
          /\ ready' = [ready EXCEPT ![q] = ready[q] - nb]
          /\ in_flight' = [in_flight EXCEPT ![q] = in_flight[q] - nb]
          /\ UNCHANGED buf
      BY <1>6, <2>8 DEF PollQp
    <3> HIDE DEF nb, q
    <3>4. /\ got \in Seq(Mbuf) /\ Len(got) = nb
          /\ rest \in Seq(Mbuf) /\ Len(rest) = Len(queue[q]) - nb
      BY <3>1, <3>2, SplitElems
    <3> HIDE DEF got, rest
    <3>5. \A r \in Qp : r # q => /\ queue'[r] = queue[r] /\ ready'[r] = ready[r]
                                 /\ in_flight'[r] = in_flight[r]
      BY <1>0, <3>3 DEF TypeOK
    <3>6. /\ queue'[q] = rest /\ ready'[q] = ready[q] - nb
          /\ in_flight'[q] = in_flight[q] - nb
      BY <1>0, <2>2, <3>3 DEF TypeOK
    <3>7. ready[q] - nb \in Nat /\ in_flight[q] - nb \in Int
      BY <1>0, <2>2, <3>1, <3>2 DEF TypeOK
    <3>8. TypeOK'
      <4>1. /\ queue' \in [Qp -> Seq(Mbuf)] /\ ready' \in [Qp -> Nat]
            /\ in_flight' \in [Qp -> Int]
        BY <1>0, <3>3, <3>4, <3>7 DEF TypeOK
      <4>2. QED BY <1>0, <2>4, <2>6, <3>3, <3>4, <4>1, SMTT(20) DEF TypeOK
    <3>9. ready'[q] <= Len(queue'[q]) /\ in_flight'[q] = Len(queue'[q])
      BY <1>0, <2>2, <3>1, <3>2, <3>4, <3>6 DEF InFlightExact
    <3>10. Shape'
      BY <1>0, <2>4, <2>5, <3>5, <3>9 DEF Shape
    <3>11. InFlightExact'
      BY <1>0, <3>5, <3>9 DEF InFlightExact
    <3>12. ArraysBounded'
      BY <1>0, <2>4, <3>1, <3>2, <3>3, <3>4 DEF ArraysBounded
    <3>13. QED BY <3>8, <3>10, <3>11, <3>12 DEF Basic
  <2>9. QED BY <2>7, <2>8
<1>7. CASE PostAccept
  <2>1. /\ Head(cops) \in Mbuf /\ Tail(cops) \in Seq(Mbuf)
        /\ Len(cops) \in Nat /\ Len(Tail(cops)) = Len(cops) - 1
    BY <1>0, <1>7, TailElems DEF TypeOK, PostAccept
  <2>2. /\ Append(out, Head(cops)) \in Seq(Mbuf)
        /\ Len(Append(out, Head(cops))) = Len(out) + 1 /\ Len(out) \in Nat
    BY <1>0, <2>1, AppendElems DEF TypeOK
  <2>3. pc = "dequeue"
    BY <1>0, <1>7 DEF TypeOK, Shape, PostAccept
  <2>4. TypeOK'
    BY <1>0, <1>7, <2>1, <2>2 DEF TypeOK, PostAccept, qpVars
  <2>5. Shape' /\ InFlightExact'
    BY <1>0, <1>7, <2>3 DEF Shape, InFlightExact, PostAccept, qpVars
  <2>6. ArraysBounded'
    BY <1>0, <1>7, <2>1, <2>2 DEF ArraysBounded, PostAccept, qpVars
  <2>7. QED BY <2>4, <2>5, <2>6 DEF Basic
<1>8. CASE PostReject
  <2>1. /\ Head(cops) \in Mbuf /\ Tail(cops) \in Seq(Mbuf)
        /\ Len(cops) \in Nat /\ Len(Tail(cops)) = Len(cops) - 1
    BY <1>0, <1>8, TailElems DEF TypeOK, PostReject
  <2>2. pc = "dequeue" /\ Len(out) \in Nat
    BY <1>0, <1>8 DEF TypeOK, Shape, PostReject
  <2>3. TypeOK'
    BY <1>0, <1>8, <2>1 DEF TypeOK, PostReject, qpVars
  <2>4. Shape' /\ InFlightExact'
    BY <1>0, <1>8, <2>2 DEF Shape, InFlightExact, PostReject, qpVars
  <2>5. ArraysBounded'
    BY <1>0, <1>8, <2>1, <2>2 DEF ArraysBounded, PostReject, qpVars
  <2>6. QED BY <2>3, <2>4, <2>5 DEF Basic
<1>9. CASE DequeueDone
  <2>1. TypeOK'
    BY <1>0, <1>9 DEF TypeOK, DequeueDone, qpVars
  <2>2. Shape' /\ InFlightExact' /\ ArraysBounded'
    BY <1>0, <1>9 DEF Shape, InFlightExact, ArraysBounded, DequeueDone, qpVars
  <2>3. QED BY <2>1, <2>2 DEF Basic
<1>10. CASE Consume
  <2>1. Elems(out) \subseteq Mbuf /\ cops = <<>>
    BY <1>0, <1>10, ElementOfSeq DEF TypeOK, Elems, Shape, Consume
  <2>2. TypeOK'
    BY <1>0, <1>10, <2>1, EmptyElems DEF TypeOK, Consume, qpVars
  <2>3. Shape' /\ InFlightExact'
    BY <1>0, <1>10 DEF Shape, InFlightExact, Consume, qpVars
  <2>4. ArraysBounded'
    BY <1>0, <1>10, <2>1, EmptyElems DEF ArraysBounded, Consume, qpVars
  <2>5. QED BY <2>2, <2>3, <2>4 DEF Basic
<1>11. ASSUME NEW q \in Qp, DeviceFinish(q) PROVE Basic'
  <2>1. ready[q] \in Nat /\ queue[q] \in Seq(Mbuf) /\ Len(queue[q]) \in Nat
    BY <1>0 DEF TypeOK
  <2>2. ready[q] + 1 \in Nat /\ ready[q] + 1 <= Len(queue[q])
    BY <2>1, <1>11 DEF DeviceFinish
  <2>3. TypeOK'
    BY <1>0, <1>11, <2>2 DEF TypeOK, DeviceFinish, callVars
  <2>4. Shape'
    <3>1. ready'[q] <= Len(queue'[q])
      BY <1>0, <1>11, <2>2 DEF DeviceFinish, TypeOK
    <3>2. \A r \in Qp : r # q => ready'[r] = ready[r]
      BY <1>0, <1>11 DEF DeviceFinish, TypeOK
    <3>3. QED BY <1>0, <1>11, <3>1, <3>2 DEF Shape, DeviceFinish, callVars
  <2>5. InFlightExact' /\ ArraysBounded'
    BY <1>0, <1>11 DEF InFlightExact, ArraysBounded, DeviceFinish, callVars
  <2>6. QED BY <2>3, <2>4, <2>5 DEF Basic
<1>12. CASE UNCHANGED vars
  BY <1>0, <1>12 DEF Basic, TypeOK, Shape, InFlightExact, ArraysBounded,
                    vars, callVars, qpVars
<1>13. QED
  BY <1>1, <1>2, <1>3, <1>4, <1>5, <1>6, <1>7, <1>8, <1>9, <1>10, <1>11, <1>12
     DEF Next, Enqueue, Dequeue

LEMMA SpecBasic == Spec => []Basic
  BY InitBasic, NextBasic, PTL DEF Spec

\* Every variable keeps its type.
THEOREM TypeCorrect == Spec => []TypeOK
<1>1. Basic => TypeOK
  BY DEF Basic
<1>2. QED BY <1>1, SpecBasic, PTL

\* A queue pair is skipped by ipsec_dequeue only when its device is empty.
THEOREM InFlightIsExact == Spec => []InFlightExact
<1>1. Basic => InFlightExact
  BY DEF Basic
<1>2. QED BY <1>1, SpecBasic, PTL

\* cdev_qp.buf, cops[] and pkts[] are never written past their end.
THEOREM ArraysAreBounded == Spec => []ArraysBounded
<1>1. Basic => ArraysBounded
  BY DEF Basic
<1>2. QED BY <1>1, SpecBasic, PTL

-----------------------------------------------------------------------------
(***************************************************************************)
(* MbufHeldOnce.  Every action hands a set of mbufs from one place to      *)
(* another (EnqueueFlush does so three times), and a hand-over keeps the   *)
(* mbufs shared out.                                                       *)
(***************************************************************************)
LEMMA HandOver ==
  ASSUME NEW h, NEW k, NEW a \in Place, NEW b \in Place, a # b,
         NEW S, S \subseteq h[a],
         SharesOut(h),
         k[a] = h[a] \ S, k[b] = h[b] \cup S,
         \A p \in Place : p # a /\ p # b => k[p] = h[p]
  PROVE  SharesOut(k)
<1> SUFFICES ASSUME NEW m \in Mbuf
             PROVE  \E p \in Place : \A r \in Place : m \in k[r] <=> r = p
  BY DEF SharesOut
<1>1. PICK p \in Place : \A r \in Place : m \in h[r] <=> r = p
  BY DEF SharesOut
<1>2. CASE m \in S
  <2>1. p = a
    BY <1>1, <1>2
  <2>2. \A r \in Place : m \in k[r] <=> r = b
    BY <1>1, <1>2, <2>1
  <2>3. QED BY <2>2
<1>3. CASE m \notin S
  <2>1. \A r \in Place : m \in k[r] <=> r = p
    BY <1>1, <1>3
  <2>2. QED BY <2>1
<1>4. QED BY <1>2, <1>3

\* Two places share no mbuf.
LEMMA Apart ==
  ASSUME NEW h, SharesOut(h), NEW a \in Place, NEW b \in Place, a # b,
         h[a] \subseteq Mbuf
  PROVE  h[a] \cap h[b] = {}
  BY DEF SharesOut

\* The places by name.
LEMMA Places ==
  /\ \A n \in {"pool", "pkts", "cops", "out"} : <<n, NoQp>> \in Place
  /\ \A n \in {"buf", "queue"} : \A q \in Qp : <<n, q>> \in Place
  /\ \A p \in Place :
       \/ \E n \in {"pool", "pkts", "cops", "out"} : p = <<n, NoQp>>
       \/ \E n \in {"buf", "queue"} : \E q \in Qp : p = <<n, q>>
  BY DEF Place

LEMMA HeldNow ==
  /\ held[<<"pool", NoQp>>] = pool
  /\ held[<<"pkts", NoQp>>] = Elems(pkts)
  /\ held[<<"cops", NoQp>>] = Elems(cops)
  /\ held[<<"out", NoQp>>] = Elems(out)
  /\ \A q \in Qp : held[<<"buf", q>>] = Elems(buf[q])
  /\ \A q \in Qp : held[<<"queue", q>>] = Elems(queue[q])
  BY Places DEF held

LEMMA HeldNext ==
  /\ held'[<<"pool", NoQp>>] = pool'
  /\ held'[<<"pkts", NoQp>>] = Elems(pkts')
  /\ held'[<<"cops", NoQp>>] = Elems(cops')
  /\ held'[<<"out", NoQp>>] = Elems(out')
  /\ \A q \in Qp : held'[<<"buf", q>>] = Elems(buf'[q])
  /\ \A q \in Qp : held'[<<"queue", q>>] = Elems(queue'[q])
  BY Places DEF held

\* A place whose array did not change holds what it held.
LEMMA Unmoved ==
  /\ pool' = pool => held'[<<"pool", NoQp>>] = held[<<"pool", NoQp>>]
  /\ pkts' = pkts => held'[<<"pkts", NoQp>>] = held[<<"pkts", NoQp>>]
  /\ cops' = cops => held'[<<"cops", NoQp>>] = held[<<"cops", NoQp>>]
  /\ out' = out => held'[<<"out", NoQp>>] = held[<<"out", NoQp>>]
  /\ \A q \in Qp : buf'[q] = buf[q] => held'[<<"buf", q>>] = held[<<"buf", q>>]
  /\ \A q \in Qp :
       queue'[q] = queue[q] => held'[<<"queue", q>>] = held[<<"queue", q>>]
  BY HeldNow, HeldNext

LEMMA InitHeldOnce == Init => MbufHeldOnce
<1> SUFFICES ASSUME Init PROVE MbufHeldOnce
  OBVIOUS
<1>1. /\ held[<<"pool", NoQp>>] = Mbuf
      /\ \A p \in Place : p # <<"pool", NoQp>> => held[p] = {}
  BY HeldNow, Places, EmptyElems DEF Init
<1>2. SharesOut(held)
  BY <1>1, Places DEF SharesOut
<1>3. QED BY <1>2, EmptyElems DEF MbufHeldOnce, Init

\* A flushed burst: m leaves place a to join the burst in b, of which the ops
\* in T move on to u and those in F go back to z, so that b is empty.
Flushed(h, k, a, b, u, z, m, T, F) ==
  /\ {a, b, u, z} \subseteq Place
  /\ a # b /\ a # u /\ a # z /\ b # u /\ b # z /\ u # z
  /\ m \in h[a] /\ T \cup F = h[b] \cup {m} /\ T \cap F = {}
  /\ k[a] = h[a] \ {m} /\ k[b] = {}
  /\ k[u] = h[u] \cup T /\ k[z] = h[z] \cup F
  /\ \A p \in Place : p # a /\ p # b /\ p # u /\ p # z => k[p] = h[p]

LEMMA FlushOver ==
  ASSUME NEW h, NEW k, NEW a, NEW b, NEW u, NEW z, NEW m, NEW T, NEW F,
         Flushed(h, k, a, b, u, z, m, T, F), SharesOut(h)
  PROVE  SharesOut(k)
<1> USE DEF Flushed
<1> SUFFICES ASSUME NEW x \in Mbuf
             PROVE  \E p \in Place : \A r \in Place : x \in k[r] <=> r = p
  BY DEF SharesOut
<1>1. PICK p \in Place : \A r \in Place : x \in h[r] <=> r = p
  BY DEF SharesOut
<1>2. CASE x \in T
  <2>1. x \in h[b] \/ x = m
    BY <1>2
  <2>2. p = a \/ p = b
    BY <1>1, <2>1
  <2>3. p = a => x = m
    BY <1>1, <2>1
  <2>4. \A r \in Place : x \in k[r] <=> r = u
    BY <1>1, <1>2, <2>2, <2>3
  <2>5. QED BY <2>4
<1>3. CASE x \in F
  <2>1. x \in h[b] \/ x = m
    BY <1>3
  <2>2. p = a \/ p = b
    BY <1>1, <2>1
  <2>3. p = a => x = m
    BY <1>1, <2>1
  <2>4. \A r \in Place : x \in k[r] <=> r = z
    BY <1>1, <1>3, <2>2, <2>3
  <2>5. QED BY <2>4
<1>4. CASE x \notin T /\ x \notin F
  <2>1. x \notin h[b] /\ x # m
    BY <1>4
  <2>2. p # b
    BY <1>1, <2>1
  <2>3. \A r \in Place : x \in k[r] <=> r = p
    BY <1>1, <1>4, <2>1, <2>2
  <2>4. QED BY <2>3
<1>5. QED BY <1>2, <1>3, <1>4

LEMMA NextHeldOnce ==
  Basic /\ MbufHeldOnce /\ [Next]_vars => MbufHeldOnce'
<1> SUFFICES ASSUME Basic, MbufHeldOnce, [Next]_vars PROVE MbufHeldOnce'
  OBVIOUS
<1> DEFINE Pool == <<"pool", NoQp>>
           Pkts == <<"pkts", NoQp>>
           Cops == <<"cops", NoQp>>
           Out == <<"out", NoQp>>
           Buf(q) == <<"buf", q>>
           Queue(q) == <<"queue", q>>
<1>0. /\ TypeOK /\ Shape
      /\ SharesOut(held)
      /\ Distinct(pkts) /\ Distinct(cops) /\ Distinct(out)
      /\ \A q \in Qp : Distinct(buf[q]) /\ Distinct(queue[q])
  BY DEF Basic, MbufHeldOnce
<1>1. ASSUME NEW c \in Ctx, NEW s \in Bursts, Call(c, s) PROVE MbufHeldOnce'
  <2>1. /\ pkts = <<>> /\ Distinct(s) /\ Elems(s) \subseteq pool
        /\ pkts' = s /\ pool' = pool \ Elems(s)
        /\ UNCHANGED <<cops, out, buf, queue>>
    <3>1. PICK n \in 0 .. MaxBurst : s \in [1 .. n -> pool]
      BY <1>1 DEF Bursts
    <3>2. n \in Nat /\ s \in Seq(pool)
      BY <3>1, CryptoQueueAssumption, SeqDef
    <3>3. Elems(s) \subseteq pool
      BY <3>2, ElementOfSeq DEF Elems
    <3>4. QED BY <1>0, <1>1, <3>3 DEF Call, qpVars, Shape, Bursts
  <2>2. SharesOut(held')
    <3>1. /\ held'[Pool] = held[Pool] \ Elems(s)
          /\ held'[Pkts] = held[Pkts] \cup Elems(s)
          /\ Elems(s) \subseteq held[Pool]
      BY <2>1, HeldNow, HeldNext, EmptyElems
    <3>2. \A p \in Place : p # Pool /\ p # Pkts => held'[p] = held[p]
      BY <2>1, HeldNow, HeldNext, Places
    <3>3. Pool \in Place /\ Pkts \in Place /\ Pool # Pkts
      BY Places
    <3> HIDE DEF Pool, Pkts
    <3>4. QED BY <1>0, <3>1, <3>2, <3>3, HandOver
  <2>3. QED BY <1>0, <2>1, <2>2 DEF MbufHeldOnce
<1>2. CASE EnqueueReject
  <2>1. /\ Elems(Tail(pkts)) = Elems(pkts) \ {Head(pkts)}
        /\ Head(pkts) \in Elems(pkts) /\ Distinct(Tail(pkts))
    BY <1>0, <1>2, TailElems DEF TypeOK, EnqueueReject
  <2>2. /\ pkts' = Tail(pkts) /\ pool' = pool \cup {Head(pkts)}
        /\ UNCHANGED <<cops, out, buf, queue>>
    BY <1>2 DEF EnqueueReject, qpVars
  <2>3. SharesOut(held')
    <3>1. /\ held'[Pkts] = held[Pkts] \ {Head(pkts)}
          /\ held'[Pool] = held[Pool] \cup {Head(pkts)}
          /\ {Head(pkts)} \subseteq held[Pkts]
      BY <2>1, <2>2, HeldNow, HeldNext
    <3>2. \A p \in Place : p # Pool /\ p # Pkts => held'[p] = held[p]
      BY <2>2, HeldNow, HeldNext, Places
    <3>3. Pool \in Place /\ Pkts \in Place /\ Pool # Pkts
      BY Places
    <3> HIDE DEF Pool, Pkts
    <3>4. QED BY <1>0, <3>1, <3>2, <3>3, HandOver, ZenonT(40)
  <2>4. QED BY <1>0, <2>1, <2>2, <2>3 DEF MbufHeldOnce
<1>3. ASSUME NEW q \in Qp, EnqueueBuffer(q) PROVE MbufHeldOnce'
  <2>1. /\ Elems(Tail(pkts)) = Elems(pkts) \ {Head(pkts)}
        /\ Head(pkts) \in Elems(pkts) /\ Distinct(Tail(pkts))
        /\ Head(pkts) \in Mbuf /\ buf[q] \in Seq(Mbuf)
        /\ Elems(pkts) \subseteq Mbuf
    <3>1. Elems(pkts) \subseteq Mbuf
      BY <1>0, ElementOfSeq DEF TypeOK, Elems
    <3>2. QED BY <1>0, <1>3, <3>1, TailElems DEF TypeOK, EnqueueBuffer
  <2>2. /\ pkts' = Tail(pkts)
        /\ buf' = [buf EXCEPT ![q] = Append(buf[q], Head(pkts))]
        /\ UNCHANGED <<pool, cops, out, queue>>
    BY <1>3 DEF EnqueueBuffer
  <2>3. /\ buf'[q] = Append(buf[q], Head(pkts))
        /\ \A r \in Qp : r # q => buf'[r] = buf[r]
    BY <1>0, <2>2 DEF TypeOK
  <2>4. Head(pkts) \notin Elems(buf[q])
    <3>1. Pkts \in Place /\ Buf(q) \in Place /\ Pkts # Buf(q)
      BY Places
    <3>2. held[Pkts] \cap held[Buf(q)] = {}
      BY <1>0, <2>1, <3>1, HeldNow, Apart
    <3>3. QED BY <2>1, <3>2, HeldNow
  <2>5. /\ Elems(buf'[q]) = Elems(buf[q]) \cup {Head(pkts)}
        /\ Distinct(buf'[q])
    BY <1>0, <2>1, <2>3, <2>4, AppendElems
  <2>6. SharesOut(held')
    <3>1. /\ held'[Pkts] = held[Pkts] \ {Head(pkts)}
          /\ held'[Buf(q)] = held[Buf(q)] \cup {Head(pkts)}
          /\ {Head(pkts)} \subseteq held[Pkts]
      BY <2>1, <2>2, <2>5, HeldNow, HeldNext
    <3>2. \A p \in Place : p # Pkts /\ p # Buf(q) => held'[p] = held[p]
      <4> SUFFICES ASSUME NEW p \in Place, p # Pkts, p # Buf(q)
                   PROVE  held'[p] = held[p]
        OBVIOUS
      <4>1. CASE p \in {Pool, Pkts, Cops, Out}
        BY <2>2, <4>1, Unmoved
      <4>2. ASSUME NEW r \in Qp, p = Buf(r) PROVE held'[p] = held[p]
        BY <2>3, <4>2, Unmoved
      <4>3. ASSUME NEW r \in Qp, p = Queue(r) PROVE held'[p] = held[p]
        BY <2>2, <4>3, Unmoved
      <4>4. QED BY <4>1, <4>2, <4>3, Places
    <3>3. Buf(q) \in Place /\ Pkts \in Place /\ Pkts # Buf(q)
      BY Places
    <3> HIDE DEF Buf, Pkts
    <3>4. QED BY <1>0, <3>1, <3>2, <3>3, HandOver, ZenonT(40)
  <2>7. QED BY <1>0, <2>1, <2>2, <2>3, <2>5, <2>6 DEF MbufHeldOnce
<1>4. ASSUME NEW q \in Qp, NEW ret \in 0 .. MaxBurst, EnqueueFlush(q, ret)
      PROVE  MbufHeldOnce'
  <2> DEFINE m == Head(pkts)
             burst == Append(buf[q], m)
             taken == SubSeq(burst, 1, ret)
             freed == SubSeq(burst, ret + 1, Len(burst))
  <2>1. /\ Elems(Tail(pkts)) = Elems(pkts) \ {m}
        /\ m \in Elems(pkts) /\ Distinct(Tail(pkts))
        /\ m \in Mbuf /\ buf[q] \in Seq(Mbuf) /\ queue[q] \in Seq(Mbuf)
        /\ Elems(pkts) \subseteq Mbuf
    <3>1. Elems(pkts) \subseteq Mbuf
      BY <1>0, ElementOfSeq DEF TypeOK, Elems
    <3>2. QED BY <1>0, <1>4, <3>1, TailElems DEF TypeOK, EnqueueFlush
  <2>2. /\ pkts' = Tail(pkts)
        /\ queue' = [queue EXCEPT ![q] = queue[q] \o taken]
        /\ pool' = pool \cup Elems(freed)
        /\ buf' = [buf EXCEPT ![q] = <<>>]
        /\ ret <= Len(burst)
        /\ UNCHANGED <<cops, out>>
    BY <1>4 DEF EnqueueFlush
  <2>3. /\ buf'[q] = <<>> /\ queue'[q] = queue[q] \o taken
        /\ \A r \in Qp : r # q => buf'[r] = buf[r] /\ queue'[r] = queue[r]
    BY <1>0, <2>2 DEF TypeOK
  <2>4. /\ Pool \in Place /\ Pkts \in Place /\ Buf(q) \in Place
        /\ Queue(q) \in Place /\ Pkts # Buf(q) /\ Buf(q) # Queue(q)
        /\ Pkts # Queue(q) /\ Pool # Buf(q) /\ Pool # Queue(q) /\ Pool # Pkts
    BY Places
  <2>5. m \notin Elems(buf[q]) /\ m \notin Elems(queue[q])
    <3>1. held[Pkts] \cap held[Buf(q)] = {} /\ held[Pkts] \cap held[Queue(q)] = {}
      BY <1>0, <2>1, <2>4, HeldNow, Apart
    <3>2. QED BY <2>1, <3>1, HeldNow
  <2>6. Elems(buf[q]) \cap Elems(queue[q]) = {}
    <3>1. Elems(buf[q]) \subseteq Mbuf
      BY <2>1, ElementOfSeq DEF Elems
    <3>2. held[Buf(q)] \cap held[Queue(q)] = {}
      BY <1>0, <2>4, <3>1, HeldNow, Apart
    <3>3. QED BY <3>2, HeldNow
  <2>7. /\ burst \in Seq(Mbuf) /\ Distinct(burst)
        /\ Elems(burst) = Elems(buf[q]) \cup {m}
        /\ Len(burst) \in Nat
    BY <1>0, <2>1, <2>5, AppendElems, LenProperties
  <2> HIDE DEF m, burst
  <2>8. /\ taken \in Seq(Mbuf) /\ Distinct(taken)
        /\ Elems(taken) = Elems(burst) \ Elems(freed)
        /\ Elems(freed) = Elems(burst) \ Elems(taken)
    <3>1. ret \in 0 .. Len(burst)
      BY <2>2, <2>7
    <3>2. QED BY <2>7, <3>1, SplitElems
  <2> HIDE DEF taken, freed
  <2>9. /\ Elems(queue'[q]) = Elems(queue[q]) \cup Elems(taken)
        /\ Distinct(queue'[q])
    <3>1. Elems(queue[q]) \cap Elems(taken) = {}
      BY <2>5, <2>6, <2>7, <2>8
    <3>2. QED BY <1>0, <2>1, <2>3, <2>8, <3>1, ConcatElems
  <2>10. SharesOut(held')
    <3>1. \A p \in Place : p # Pkts /\ p # Buf(q) /\ p # Queue(q) /\ p # Pool
                              => held'[p] = held[p]
      <4> SUFFICES ASSUME NEW p \in Place,
                          p # Pkts, p # Buf(q), p # Queue(q), p # Pool
                   PROVE  held'[p] = held[p]
        OBVIOUS
      <4>1. CASE p \in {Pool, Pkts, Cops, Out}
        BY <2>2, <4>1, Unmoved
      <4>2. ASSUME NEW r \in Qp, p = Buf(r) PROVE held'[p] = held[p]
        BY <2>3, <4>2, Unmoved
      <4>3. ASSUME NEW r \in Qp, p = Queue(r) PROVE held'[p] = held[p]
        BY <2>3, <4>3, Unmoved
      <4>4. QED BY <4>1, <4>2, <4>3, Places
    <3>2. /\ m \in held[Pkts]
          /\ held'[Pkts] = held[Pkts] \ {m}
          /\ held'[Pool] = held[Pool] \cup Elems(freed)
      BY <2>1, <2>2, HeldNow, HeldNext
    <3>3. /\ held[Buf(q)] = Elems(buf[q]) /\ held'[Buf(q)] = {}
          /\ held'[Queue(q)] = held[Queue(q)] \cup Elems(taken)
      BY <2>3, <2>9, HeldNow, HeldNext, EmptyElems
    <3>4. /\ Elems(taken) \cup Elems(freed) = held[Buf(q)] \cup {m}
          /\ Elems(taken) \cap Elems(freed) = {}
      <4>1. Elems(taken) \cup Elems(freed) = Elems(burst)
        BY <2>8
      <4>2. Elems(burst) = held[Buf(q)] \cup {m}
        BY <2>7, <3>3
      <4>3. Elems(taken) \cap Elems(freed) = {}
        BY <2>8
      <4>4. QED BY <4>1, <4>2, <4>3
    <3> DEFINE B == Buf(q)
               U == Queue(q)
    <3>5. /\ Pool \in Place /\ Pkts \in Place /\ B \in Place /\ U \in Place
          /\ Pkts # B /\ B # U /\ Pkts # U /\ Pool # B /\ Pool # U /\ Pool # Pkts
      BY <2>4
    <3>6. /\ held[B] = Elems(buf[q]) /\ held'[B] = {}
          /\ held'[U] = held[U] \cup Elems(taken)
          /\ Elems(taken) \cup Elems(freed) = held[B] \cup {m}
      BY <3>3, <3>4
    <3>7. \A p \in Place : p # Pkts /\ p # B /\ p # U /\ p # Pool
                              => held'[p] = held[p]
      BY <3>1
    <3> HIDE DEF Pool, Pkts, B, U
    <3>8. Flushed(held, held', Pkts, B, U, Pool, m, Elems(taken), Elems(freed))
      BY <3>2, <3>4, <3>5, <3>6, <3>7 DEF Flushed
    <3>9. QED BY <1>0, <3>8, FlushOver
  <2>11. QED
    BY <1>0, <2>1, <2>2, <2>3, <2>9, <2>10, EmptyElems DEF MbufHeldOnce, m
<1>5. CASE EnqueueDone
  <2>1. UNCHANGED <<pool, pkts, cops, out, buf, queue>>
    BY <1>5 DEF EnqueueDone, qpVars
  <2>2. held' = held
    BY <2>1 DEF held
  <2>3. QED BY <1>0, <2>1, <2>2 DEF MbufHeldOnce
<1>6. CASE PollQp
  <2> DEFINE q == <<ctx, last_qp[ctx]>>
             nb == Smaller(ready[q], MaxBurst - Len(out))
             got == SubSeq(queue[q], 1, nb)
             rest == SubSeq(queue[q], nb + 1, Len(queue[q]))
  <2>1. q \in Qp
    <3>1. /\ ctx \in Ctx /\ NbQps[ctx] \in Nat
          /\ polled \in Nat /\ polled < NbQps[ctx] /\ last_qp[ctx] \in Nat
      BY <1>0, <1>6, CryptoQueueAssumption DEF TypeOK, PollQp
    <3>2. last_qp[ctx] < NbQps[ctx]
      BY <1>0, <3>1 DEF Shape
    <3>3. QED BY <3>1, <3>2, QpPairs
  <2>2. CASE in_flight[q] = 0
    <3>1. UNCHANGED <<pool, pkts, cops, out, buf, queue>>
      BY <1>6, <2>2 DEF PollQp, qpVars
    <3>2. held' = held
      BY <3>1 DEF held
    <3>3. QED BY <1>0, <3>1, <3>2 DEF MbufHeldOnce
  <2>3. CASE in_flight[q] # 0
    <3>1. /\ cops' = got /\ cops = <<>>
          /\ queue' = [queue EXCEPT ![q] = rest]
          /\ UNCHANGED <<pool, pkts, out, buf>>
      BY <1>6, <2>3 DEF PollQp
    <3>2. nb \in 0 .. Len(queue[q]) /\ queue[q] \in Seq(Mbuf) /\ Distinct(queue[q])
      <4>1. /\ queue[q] \in Seq(Mbuf) /\ Len(queue[q]) \in Nat
            /\ ready[q] \in Nat /\ ready[q] <= Len(queue[q])
            /\ Len(out) \in Nat /\ MaxBurst \in Nat /\ Len(out) < MaxBurst
        BY <1>0, <1>6, <2>1, LenProperties, CryptoQueueAssumption
           DEF TypeOK, Shape, PollQp
      <4>2. QED BY <1>0, <2>1, <4>1 DEF Smaller
    <3> HIDE DEF nb, q
    <3>3. /\ Distinct(got) /\ Distinct(rest)
          /\ Elems(got) = Elems(queue[q]) \ Elems(rest)
          /\ Elems(rest) = Elems(queue[q]) \ Elems(got)
      BY <3>2, SplitElems
    <3> HIDE DEF got, rest
    <3>4. /\ queue'[q] = rest
          /\ \A r \in Qp : r # q => queue'[r] = queue[r]
      BY <1>0, <2>1, <3>1 DEF TypeOK
    <3>5. SharesOut(held')
      <4>1. /\ held'[Queue(q)] = held[Queue(q)] \ Elems(got)
            /\ held'[Cops] = held[Cops] \cup Elems(got)
            /\ Elems(got) \subseteq held[Queue(q)]
        BY <2>1, <3>1, <3>3, <3>4, HeldNow, HeldNext, EmptyElems, ZenonT(40)
      <4>2. \A p \in Place : p # Queue(q) /\ p # Cops => held'[p] = held[p]
        BY <2>1, <3>1, <3>4, HeldNow, HeldNext, Places
      <4>3. Queue(q) \in Place /\ Cops \in Place /\ Cops # Queue(q)
        BY <2>1, Places
      <4> HIDE DEF Queue, Cops
      <4>4. QED BY <1>0, <4>1, <4>2, <4>3, HandOver
    <3>6. QED BY <1>0, <3>1, <3>3, <3>4, <3>5 DEF MbufHeldOnce
  <2>4. QED BY <2>2, <2>3
<1>7. CASE PostAccept
  <2>1. /\ Elems(Tail(cops)) = Elems(cops) \ {Head(cops)}
        /\ Head(cops) \in Elems(cops) /\ Distinct(Tail(cops))
        /\ Head(cops) \in Mbuf /\ out \in Seq(Mbuf)
        /\ Elems(cops) \subseteq Mbuf
    <3>1. Elems(cops) \subseteq Mbuf
      BY <1>0, ElementOfSeq DEF TypeOK, Elems
    <3>2. QED BY <1>0, <1>7, <3>1, TailElems DEF TypeOK, PostAccept
  <2>2. /\ cops' = Tail(cops) /\ out' = Append(out, Head(cops))
        /\ UNCHANGED <<pool, pkts, buf, queue>>
    BY <1>7 DEF PostAccept, qpVars
  <2>3. Cops \in Place /\ Out \in Place /\ Cops # Out
    BY Places
  <2>4. Head(cops) \notin Elems(out)
    <3>1. held[Cops] \cap held[Out] = {}
      BY <1>0, <2>1, <2>3, HeldNow, Apart
    <3>2. QED BY <2>1, <3>1, HeldNow
  <2>5. Elems(out') = Elems(out) \cup {Head(cops)} /\ Distinct(out')
    BY <1>0, <2>1, <2>2, <2>4, AppendElems
  <2>6. SharesOut(held')
    <3>1. /\ held'[Cops] = held[Cops] \ {Head(cops)}
          /\ held'[Out] = held[Out] \cup {Head(cops)}
          /\ {Head(cops)} \subseteq held[Cops]
      BY <2>1, <2>2, <2>5, HeldNow, HeldNext
    <3>2. \A p \in Place : p # Cops /\ p # Out => held'[p] = held[p]
      BY <2>2, HeldNow, HeldNext, Places
    <3> HIDE DEF Cops, Out
    <3>3. QED BY <1>0, <2>3, <3>1, <3>2, HandOver
  <2>7. QED BY <1>0, <2>1, <2>2, <2>5, <2>6 DEF MbufHeldOnce
<1>8. CASE PostReject
  <2>1. /\ Elems(Tail(cops)) = Elems(cops) \ {Head(cops)}
        /\ Head(cops) \in Elems(cops) /\ Distinct(Tail(cops))
    BY <1>0, <1>8, TailElems DEF TypeOK, PostReject
  <2>2. /\ cops' = Tail(cops) /\ pool' = pool \cup {Head(cops)}
        /\ UNCHANGED <<pkts, out, buf, queue>>
    BY <1>8 DEF PostReject, qpVars
  <2>3. SharesOut(held')
    <3>1. /\ held'[Cops] = held[Cops] \ {Head(cops)}
          /\ held'[Pool] = held[Pool] \cup {Head(cops)}
          /\ {Head(cops)} \subseteq held[Cops]
      BY <2>1, <2>2, HeldNow, HeldNext
    <3>2. \A p \in Place : p # Cops /\ p # Pool => held'[p] = held[p]
      BY <2>2, HeldNow, HeldNext, Places
    <3>3. Cops \in Place /\ Pool \in Place /\ Cops # Pool
      BY Places
    <3> HIDE DEF Cops, Pool
    <3>4. QED BY <1>0, <3>1, <3>2, <3>3, HandOver
  <2>4. QED BY <1>0, <2>1, <2>2, <2>3 DEF MbufHeldOnce
<1>9. CASE DequeueDone
  <2>1. UNCHANGED <<pool, pkts, cops, out, buf, queue>>
    BY <1>9 DEF DequeueDone, qpVars
  <2>2. held' = held
    BY <2>1 DEF held
  <2>3. QED BY <1>0, <2>1, <2>2 DEF MbufHeldOnce
<1>10. CASE Consume
  <2>1. /\ out' = <<>> /\ pool' = pool \cup Elems(out)
        /\ UNCHANGED <<pkts, cops, buf, queue>>
    BY <1>10 DEF Consume, qpVars
  <2>2. SharesOut(held')
    <3>1. /\ held'[Out] = held[Out] \ Elems(out)
          /\ held'[Pool] = held[Pool] \cup Elems(out)
          /\ Elems(out) \subseteq held[Out]
      BY <2>1, HeldNow, HeldNext, EmptyElems
    <3>2. \A p \in Place : p # Out /\ p # Pool => held'[p] = held[p]
      BY <2>1, HeldNow, HeldNext, Places
    <3>3. Out \in Place /\ Pool \in Place /\ Out # Pool
      BY Places
    <3> HIDE DEF Out, Pool
    <3>4. QED BY <1>0, <3>1, <3>2, <3>3, HandOver
  <2>3. QED BY <1>0, <2>1, <2>2, EmptyElems DEF MbufHeldOnce
<1>11. ASSUME NEW q \in Qp, DeviceFinish(q) PROVE MbufHeldOnce'
  <2>1. UNCHANGED <<pool, pkts, cops, out, buf, queue>>
    BY <1>11 DEF DeviceFinish, callVars
  <2>2. held' = held
    BY <2>1 DEF held
  <2>3. QED BY <1>0, <2>1, <2>2 DEF MbufHeldOnce
<1>12. CASE UNCHANGED vars
  <2>1. UNCHANGED <<pool, pkts, cops, out, buf, queue>>
    BY <1>12 DEF vars, callVars, qpVars
  <2>2. held' = held
    BY <2>1 DEF held
  <2>3. QED BY <1>0, <2>1, <2>2 DEF MbufHeldOnce
<1>13. QED
  BY <1>1, <1>2, <1>3, <1>4, <1>5, <1>6, <1>7, <1>8, <1>9, <1>10, <1>11, <1>12
     DEF Next, Enqueue, Dequeue

\* No mbuf is lost, freed twice or used after it was freed, on any path of
\* ipsec_enqueue, enqueue_cop and ipsec_dequeue.
THEOREM MbufIsHeldOnce == Spec => []MbufHeldOnce
  BY SpecBasic, InitHeldOnce, NextHeldOnce, PTL DEF Spec
=============================================================================
