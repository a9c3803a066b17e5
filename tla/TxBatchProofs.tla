--------------------------- MODULE TxBatchProofs ----------------------------
(***************************************************************************)
(* Proofs about TxBatch, for any ports and any MAX_PKT_BURST that is a     *)
(* multiple of four.                                                       *)
(*                                                                         *)
(* A call of port_groupx4 is shown to do what four times GROUP_PORT_STEP   *)
(* does, whatever the sixteen outcomes of its comparisons; then one        *)
(* invariant covers the packets grouped by four and those counted one by   *)
(* one: up to packet c, the counts are those of the runs of one port.      *)
(***************************************************************************)
EXTENDS TxBatch, SequenceTheorems, FiniteSetTheorems, TLAPS

(***************************************************************************)
(* The invariant.                                                          *)
(***************************************************************************)

\* A run of packets for one port starts at s.
Start(s) == s = 0 \/ dst[s - 1] # dst[s]

\* P has the length of the run at s, as far as it goes up to packet c - 1.
RunAt(P, s, c) ==
  /\ P[s] \in 1 .. c - s
  /\ \A k \in s .. s + P[s] - 1 : dst[k] = dst[s]
  /\ s + P[s] < c => dst[s + P[s]] # dst[s]

RunsUpTo(P, c) == \A s \in 0 .. c - 1 : Start(s) => RunAt(P, s, c)

\* The packets up to c - 1 are counted in P, and the last run starts at L.
Counted(P, L, c) ==
  /\ L \in 0 .. c - 1 /\ Start(L) /\ P[L] = c - L
  /\ RunsUpTo(P, c)

\* GROUP_PORT_STEP on packet c.
Stepped(P, L, c) ==
  IF dst[c - 1] = dst[c] THEN [P EXCEPT ![L] = @ + 1] ELSE [P EXCEPT ![c] = 1]
SteppedTo(L, c) == IF dst[c - 1] = dst[c] THEN L ELSE c

Packets == (Port \cup {BadPort}) \X Int

Burst ==
  /\ nb_rx \in 0 .. MaxBurst /\ dst \in [0 .. nb_rx - 1 -> Port \cup {BadPort}]
  /\ stage \in {"idle", "quad", "tail", "send"} /\ (stage # "idle" => nb_rx > 0)
  /\ pnum \in [0 .. MaxBurst -> 0 .. MaxBurst] /\ lp \in -1 .. MaxBurst
  /\ j \in 0 .. MaxBurst /\ (stage = "idle" => nb_rx = 0)

Groups ==
  /\ stage = "quad" => j % FWDSTEP = 0 /\ j \in FWDSTEP .. Whole /\ Counted(pnum, lp, j - 3)
  /\ stage = "tail" => j <= nb_rx /\ IF j = 0 THEN lp = -1 ELSE Counted(pnum, lp, j)
  /\ stage = "send" => j <= nb_rx /\ (j < nb_rx => Start(j)) /\ RunsUpTo(pnum, nb_rx)

\* The packets that the burst still waits for have a number of at least Taken.
Taken == IF stage = "send" THEN j ELSE 0

Buffers ==
  /\ tx \in [Port -> Seq(Packets)]
  /\ \A p \in Port : Len(tx[p]) < MaxBurst /\ \A m \in Elems(tx[p]) : m[2] < Taken

Known ==
  /\ left \in [DOMAIN left -> Nat]
  /\ \A m \in DOMAIN left : m \in Packets /\ (m[2] >= 0 => m[2] < nb_rx /\ m = Packet(m[2]))
  /\ \A k \in 0 .. nb_rx - 1 : Packet(k) \in DOMAIN left

Grouping == Burst /\ Groups
Order    == Buffers /\ Known /\ SentOnceInOrder

IInv == Grouping /\ Order

(***************************************************************************)
(* The groups.                                                             *)
(***************************************************************************)
LEMMA Params == MaxBurst \in Nat /\ MaxBurst >= 4
  BY TxBatchAssumption DEF FWDSTEP

LEMMA BurstSize ==
  ASSUME NEW n \in 0 .. MaxBurst
  PROVE  Cardinality(0 .. n - 1) = n
<1>1. 0 \in Int /\ n - 1 \in Int /\ n \in Nat
  BY Params
<1>2. Cardinality(0 .. n - 1) = IF 0 > n - 1 THEN 0 ELSE (n - 1) - 0 + 1
  BY <1>1, FS_Interval
<1>3. QED BY <1>1, <1>2

\* Counting packet c, either with the run of the packet before it or as a run
\* of its own, counts the packets up to c.
LEMMA StepCounts ==
  ASSUME NEW P \in [0 .. MaxBurst -> Int], NEW L, NEW c \in 1 .. MaxBurst,
         Counted(P, L, c)
  PROVE  /\ Counted(Stepped(P, L, c), SteppedTo(L, c), c + 1)
         /\ Stepped(P, L, c) \in [0 .. MaxBurst -> Int]
         /\ SteppedTo(L, c) \in 0 .. c
<1>1. /\ MaxBurst \in Nat /\ c \in Nat /\ L \in 0 .. c - 1 /\ L \in 0 .. MaxBurst
      /\ Start(L) /\ P[L] = c - L /\ P[L] \in Int
  BY Params DEF Counted
<1>2. \A s \in 0 .. c - 1 : Start(s) => RunAt(P, s, c)
  BY DEF Counted, RunsUpTo
<1>3. \A k \in L .. c - 1 : dst[k] = dst[L]
  <2>1. RunAt(P, L, c)
    BY <1>1, <1>2
  <2>2. \A k \in L .. L + P[L] - 1 : dst[k] = dst[L]
    BY <2>1 DEF RunAt
  <2>3. L + P[L] - 1 = c - 1
    BY <1>1
  <2>4. QED BY <2>2, <2>3
<1>4. \A s \in L + 1 .. c - 1 : ~ Start(s)
  BY <1>1, <1>3 DEF Start
\* A run that started earlier ended earlier.
<1>5. ASSUME NEW s \in 0 .. L - 1, Start(s)
      PROVE  RunAt(P, s, c) /\ s + P[s] < c
  <2>1. s \in 0 .. c - 1 /\ RunAt(P, s, c)
    BY <1>1, <1>2, <1>5
  <2>2. P[s] \in 1 .. c - s /\ \A k \in s .. s + P[s] - 1 : dst[k] = dst[s]
    BY <2>1 DEF RunAt
  <2>3. ASSUME s + P[s] = c PROVE FALSE
    <3>1. L \in s .. s + P[s] - 1 /\ L - 1 \in s .. s + P[s] - 1 /\ L # 0
      BY <1>1, <2>2, <2>3, SMTT(20)
    <3>2. dst[L - 1] = dst[L]
      BY <2>2, <3>1
    <3>3. QED BY <1>1, <3>1, <3>2 DEF Start
  <2>4. s + P[s] <= c /\ P[s] \in Int
    BY <1>1, <2>2
  <2>5. QED BY <1>1, <2>1, <2>3, <2>4, SMTT(20)
<1>6. CASE dst[c - 1] = dst[c]
  <2>1. PICK R : R = Stepped(P, L, c)
    OBVIOUS
  <2>2. /\ R = [P EXCEPT ![L] = P[L] + 1] /\ SteppedTo(L, c) = L
        /\ R[L] = c + 1 - L /\ \A s \in 0 .. MaxBurst : s # L => R[s] = P[s]
        /\ R \in [0 .. MaxBurst -> Int]
    BY <1>1, <1>6, <2>1 DEF Stepped, SteppedTo
  <2>3. ~ Start(c)
    BY <1>1, <1>6 DEF Start
  <2>4. ASSUME NEW s \in 0 .. c, Start(s) PROVE RunAt(R, s, c + 1)
    <3>1. CASE s = L
      <4>1. \A k \in L .. c : dst[k] = dst[L]
        BY <1>1, <1>3, <1>6
      <4>2. R[L] \in 1 .. c + 1 - L /\ L + R[L] = c + 1
        BY <1>1, <2>2
      <4>3. QED BY <1>1, <3>1, <4>1, <4>2, SMTT(20) DEF RunAt
    <3>2. CASE s < L
      <4>1. RunAt(P, s, c) /\ s + P[s] < c
        BY <1>1, <1>5, <2>4, <3>2
      <4>2. R[s] = P[s]
        BY <1>1, <2>2, <3>2
      <4>3. QED BY <1>1, <4>1, <4>2 DEF RunAt
    <3>3. CASE s > L
      BY <1>1, <1>4, <2>3, <2>4, <3>3
    <3>4. QED BY <1>1, <3>1, <3>2, <3>3
  <2>5. 0 .. c + 1 - 1 = 0 .. c /\ L \in 0 .. c
    BY <1>1
  <2>6. Counted(R, L, c + 1)
    <3>1. RunsUpTo(R, c + 1)
      BY <2>4, <2>5 DEF RunsUpTo
    <3>2. L \in 0 .. c + 1 - 1 /\ Start(L) /\ R[L] = c + 1 - L
      BY <1>1, <2>2, <2>5
    <3>3. QED BY <3>1, <3>2 DEF Counted
  <2>7. QED BY <2>1, <2>2, <2>5, <2>6
<1>7. CASE dst[c - 1] # dst[c]
  <2>1. PICK R : R = Stepped(P, L, c)
    OBVIOUS
  <2>2. /\ R = [P EXCEPT ![c] = 1] /\ SteppedTo(L, c) = c
        /\ R[c] = 1 /\ \A s \in 0 .. MaxBurst : s # c => R[s] = P[s]
        /\ R \in [0 .. MaxBurst -> Int]
    BY <1>1, <1>7, <2>1 DEF Stepped, SteppedTo
  <2>3. Start(c)
    BY <1>7 DEF Start
  <2>4. ASSUME NEW s \in 0 .. c, Start(s) PROVE RunAt(R, s, c + 1)
    <3>1. CASE s = c
      BY <1>1, <2>2, <3>1 DEF RunAt
    <3>2. CASE s = L
      <4>1. R[s] = c - L /\ s + R[s] = c
        BY <1>1, <2>2, <3>2
      <4>2. dst[c] # dst[L]
        BY <1>1, <1>3, <1>7
      <4>3. \A k \in s .. s + R[s] - 1 : dst[k] = dst[s]
        BY <1>1, <1>3, <3>2, <4>1
      <4>4. R[s] \in 1 .. c + 1 - s
        BY <1>1, <3>2, <4>1
      <4>5. QED BY <3>2, <4>1, <4>2, <4>3, <4>4 DEF RunAt
    <3>3. CASE s < L
      <4>1. RunAt(P, s, c) /\ s + P[s] < c
        BY <1>1, <1>5, <2>4, <3>3
      <4>2. R[s] = P[s]
        BY <1>1, <2>2, <3>3
      <4>3. QED BY <1>1, <4>1, <4>2 DEF RunAt
    <3>4. CASE s > L /\ s < c
      BY <1>1, <1>4, <2>4, <3>4
    <3>5. QED BY <1>1, <3>1, <3>2, <3>3, <3>4
  <2>5. 0 .. c + 1 - 1 = 0 .. c /\ c \in 0 .. c /\ c + 1 - c = 1
    BY <1>1
  <2>6. Counted(R, c, c + 1)
    <3>1. RunsUpTo(R, c + 1)
      BY <2>4, <2>5 DEF RunsUpTo
    <3>2. c \in 0 .. c + 1 - 1 /\ R[c] = c + 1 - c
      BY <2>2, <2>5
    <3>3. QED BY <2>3, <3>1, <3>2 DEF Counted
  <2>7. QED BY <2>1, <2>2, <2>5, <2>6
<1>8. QED BY <1>6, <1>7

\* Only what is written where a run starts counts.
LEMMA SameCounts ==
  ASSUME NEW P, NEW R, NEW L, NEW c \in Nat, Counted(P, L, c),
         \A s \in 0 .. c - 1 : Start(s) => R[s] = P[s]
  PROVE  Counted(R, L, c)
<1>1. L \in 0 .. c - 1 /\ Start(L) /\ R[L] = c - L
  BY DEF Counted
<1>2. ASSUME NEW s \in 0 .. c - 1, Start(s) PROVE RunAt(R, s, c)
  BY <1>2 DEF Counted, RunsUpTo, RunAt
<1>3. QED BY <1>1, <1>2 DEF Counted, RunsUpTo

Row(e0, e1, e2, e3) == gptbl[e0 + 2 * e1 + 4 * e2 + 8 * e3 + 1]

\* The table of port_groupx4: ei is 1 if packet i of the four goes where the
\* next one goes.
LEMMA Rows ==
  ASSUME NEW e0, e0 \in {0, 1}, NEW e1, e1 \in {0, 1}, NEW e2, e2 \in {0, 1},
         NEW e3, e3 \in {0, 1}, NEW row, row = Row(e0, e1, e2, e3)
  PROVE  /\ row[1] = 1 + row[6]
         /\ row[2] = IF e1 = 0 THEN 1 ELSE IF e2 = 0 THEN 2 ELSE IF e3 = 0 THEN 3 ELSE 4
         /\ row[3] = IF e2 = 0 THEN 1 ELSE IF e3 = 0 THEN 2 ELSE 3
         /\ row[4] = IF e3 = 0 THEN 1 ELSE 2
         /\ row[5] = IF e3 = 0 THEN 4 ELSE IF e2 = 0 THEN 3 ELSE IF e1 = 0 THEN 2
                     ELSE IF e0 = 0 THEN 1 ELSE 0
         /\ row[6] = IF e0 = 0 THEN 0 ELSE IF e1 = 0 THEN 1 ELSE IF e2 = 0 THEN 2
                     ELSE IF e3 = 0 THEN 3 ELSE 4
  BY DEF Row, gptbl

\* What a step writes, with R the counts after it.
Writes(P, R, M, c) ==
  /\ R \in [0 .. MaxBurst -> Int]
  /\ dst[c - 1] = dst[c] =>
       \A s \in 0 .. MaxBurst : IF s = M THEN R[s] = P[s] + 1 ELSE R[s] = P[s]
  /\ dst[c - 1] # dst[c] =>
       \A s \in 0 .. MaxBurst : IF s = c THEN R[s] = 1 ELSE R[s] = P[s]

LEMMA StepWrites ==
  ASSUME NEW P, P \in [0 .. MaxBurst -> Int], NEW M, M \in 0 .. MaxBurst,
         NEW c, c \in 1 .. MaxBurst, NEW R, R = Stepped(P, M, c)
  PROVE  Writes(P, R, M, c)
<1>1. MaxBurst \in Nat /\ c \in 0 .. MaxBurst /\ P[M] \in Int
  BY Params
<1>2. CASE dst[c - 1] = dst[c]
  <2>1. R = [P EXCEPT ![M] = P[M] + 1]
    BY <1>2 DEF Stepped
  <2>2. QED BY <1>1, <1>2, <2>1 DEF Writes
<1>3. CASE dst[c - 1] # dst[c]
  <2>1. R = [P EXCEPT ![c] = 1]
    BY <1>3 DEF Stepped
  <2>2. QED BY <1>1, <1>3, <2>1 DEF Writes
<1>4. QED BY <1>2, <1>3

LEMMA AllFour ==
  ASSUME NEW e0 \in {0, 1}, NEW e1 \in {0, 1}, NEW e2 \in {0, 1}, NEW e3 \in {0, 1}
  PROVE  e0 + 2 * e1 + 4 * e2 + 8 * e3 = 15 <=> e0 = 1 /\ e1 = 1 /\ e2 = 1 /\ e3 = 1
  OBVIOUS

FourSteps(at, v, e3, P3, L3) ==
  /\ NewLp(at, v) = IF e3 = 1 THEN L3 ELSE at + 4
  /\ e3 = 0 => Grouped(at, v)[at + 4] = 1
  /\ \A s \in 0 .. at + 3 : s <= lp \/ (s > at /\ Start(s)) =>
       Grouped(at, v)[s] = IF e3 = 1 /\ s = L3 THEN P3[s] + 1 ELSE P3[s]

\* What port_groupx4 writes for the packets after packet at, of which v has the
\* comparisons: what three steps would, and the fourth comparison added.  Where
\* no run starts, it writes what nobody reads.
LEMMA FourAtOnce ==
  ASSUME NEW at \in Nat, at + 4 <= MaxBurst, pnum \in [0 .. MaxBurst -> Int],
         lp \in 0 .. at, pnum[lp] = at + 1 - lp,
         NEW e0, e0 \in {0, 1}, NEW e1, e1 \in {0, 1},
         NEW e2, e2 \in {0, 1}, NEW e3, e3 \in {0, 1},
         dst[at] = dst[at + 1] <=> e0 = 1,
         dst[at + 1] = dst[at + 2] <=> e1 = 1,
         dst[at + 2] = dst[at + 3] <=> e2 = 1,
         NEW v, v = e0 + 2 * e1 + 4 * e2 + 8 * e3,
         NEW P1, P1 = Stepped(pnum, lp, at + 1), NEW L1, L1 = SteppedTo(lp, at + 1),
         NEW P2, P2 = Stepped(P1, L1, at + 2),   NEW L2, L2 = SteppedTo(L1, at + 2),
         NEW P3, P3 = Stepped(P2, L2, at + 3),   NEW L3, L3 = SteppedTo(L2, at + 3)
  PROVE  FourSteps(at, v, e3, P3, L3)
<1>1. PICK row : row = Row(e0, e1, e2, e3)
  OBVIOUS
<1>2. /\ row[1] = 1 + row[6]
      /\ row[2] = IF e1 = 0 THEN 1 ELSE IF e2 = 0 THEN 2 ELSE IF e3 = 0 THEN 3 ELSE 4
      /\ row[3] = IF e2 = 0 THEN 1 ELSE IF e3 = 0 THEN 2 ELSE 3
      /\ row[4] = IF e3 = 0 THEN 1 ELSE 2
      /\ row[5] = IF e3 = 0 THEN 4 ELSE IF e2 = 0 THEN 3 ELSE IF e1 = 0 THEN 2
                  ELSE IF e0 = 0 THEN 1 ELSE 0
      /\ row[6] = IF e0 = 0 THEN 0 ELSE IF e1 = 0 THEN 1 ELSE IF e2 = 0 THEN 2
                  ELSE IF e3 = 0 THEN 3 ELSE 4
  BY <1>1, Rows, SMTT(20)
<1>3. row = gptbl[v + 1]
  BY <1>1 DEF Row
<1>4. v = 15 <=> e0 = 1 /\ e1 = 1 /\ e2 = 1 /\ e3 = 1
  BY AllFour
<1>5. /\ L1 = IF e0 = 1 THEN lp ELSE at + 1
      /\ L2 = IF e1 = 1 THEN L1 ELSE at + 2
      /\ L3 = IF e2 = 1 THEN L2 ELSE at + 3
  <2>1. at + 1 - 1 = at /\ at + 2 - 1 = at + 1 /\ at + 3 - 1 = at + 2
    OBVIOUS
  <2>2. QED BY <2>1 DEF SteppedTo
<1>6. /\ MaxBurst \in Nat /\ lp \in 0 .. MaxBurst
      /\ L1 \in 0 .. MaxBurst /\ L2 \in 0 .. MaxBurst /\ L3 \in 0 .. MaxBurst
      /\ at + 1 \in 1 .. MaxBurst /\ at + 2 \in 1 .. MaxBurst /\ at + 3 \in 1 .. MaxBurst
      /\ at + 4 \in 0 .. MaxBurst
      /\ at + 1 - 1 = at /\ at + 2 - 1 = at + 1 /\ at + 3 - 1 = at + 2
  <2>1. /\ MaxBurst \in Nat /\ lp \in 0 .. MaxBurst
        /\ at + 1 \in 1 .. MaxBurst /\ at + 2 \in 1 .. MaxBurst /\ at + 3 \in 1 .. MaxBurst
        /\ at + 4 \in 0 .. MaxBurst
        /\ at + 1 - 1 = at /\ at + 2 - 1 = at + 1 /\ at + 3 - 1 = at + 2
    BY Params
  <2>2. L1 \in 0 .. MaxBurst
    BY <1>5, <2>1, SMTT(20)
  <2>3. L2 \in 0 .. MaxBurst
    BY <1>5, <2>1, <2>2, SMTT(20)
  <2>4. L3 \in 0 .. MaxBurst
    BY <1>5, <2>1, <2>3, SMTT(20)
  <2>5. QED BY <2>1, <2>2, <2>3, <2>4
<1>7. /\ P1 \in [0 .. MaxBurst -> Int]
      /\ \A s \in 0 .. MaxBurst : P1[s] =
           IF e0 = 1 THEN IF s = lp THEN pnum[s] + 1 ELSE pnum[s]
                     ELSE IF s = at + 1 THEN 1 ELSE pnum[s]
  <2>1. pnum \in [0 .. MaxBurst -> Int]
    OBVIOUS
  <2>2. Writes(pnum, P1, lp, at + 1)
    BY <1>6, <2>1, StepWrites
  <2>3. dst[at + 1 - 1] = dst[at + 1] <=> e0 = 1
    BY <1>6
  <2>4. QED BY <2>2, <2>3 DEF Writes
<1>8. /\ P2 \in [0 .. MaxBurst -> Int]
      /\ \A s \in 0 .. MaxBurst : P2[s] =
           IF e1 = 1 THEN IF s = L1 THEN P1[s] + 1 ELSE P1[s]
                     ELSE IF s = at + 2 THEN 1 ELSE P1[s]
  <2>1. P1 \in [0 .. MaxBurst -> Int]
    BY <1>7
  <2>2. Writes(P1, P2, L1, at + 2)
    BY <1>6, <2>1, StepWrites
  <2>3. dst[at + 2 - 1] = dst[at + 2] <=> e1 = 1
    BY <1>6
  <2>4. QED BY <2>2, <2>3 DEF Writes
<1>9. /\ P3 \in [0 .. MaxBurst -> Int]
      /\ \A s \in 0 .. MaxBurst : P3[s] =
           IF e2 = 1 THEN IF s = L2 THEN P2[s] + 1 ELSE P2[s]
                     ELSE IF s = at + 3 THEN 1 ELSE P2[s]
  <2>1. P2 \in [0 .. MaxBurst -> Int]
    BY <1>8
  <2>2. Writes(P2, P3, L2, at + 3)
    BY <1>6, <2>1, StepWrites
  <2>3. dst[at + 3 - 1] = dst[at + 3] <=> e2 = 1
    BY <1>6
  <2>4. QED BY <2>2, <2>3 DEF Writes
<1>10. ASSUME NEW s \in 0 .. at + 4
       PROVE  Grouped(at, v)[s] =
                IF v # 15 /\ s \in at .. at + 3 THEN row[s - at + 1]
                ELSE IF v # 15 /\ s = at + 4 THEN 1
                ELSE IF s = lp THEN pnum[s] + row[6] ELSE pnum[s]
  <2>1. s \in DOMAIN pnum
    BY <1>6
  <2>2. Grouped(at, v) =
          [k \in DOMAIN pnum |->
             IF v # 15 /\ k \in at .. at + 3 THEN row[k - at + 1]
             ELSE IF v # 15 /\ k = at + 4 THEN 1
             ELSE IF k = lp THEN pnum[k] + row[6] ELSE pnum[k]]
    BY <1>3 DEF Grouped
  <2>3. QED BY <2>1, <2>2
<1>11. NewLp(at, v) = IF e3 = 1 THEN L3 ELSE at + 4
  BY <1>2, <1>3, <1>4, <1>5, <1>6 DEF NewLp
<1>12. ASSUME e3 = 0 PROVE Grouped(at, v)[at + 4] = 1
  <2>1. v # 15 /\ at + 4 \in 0 .. at + 4 /\ at + 4 \notin at .. at + 3
    BY <1>4, <1>12
  <2>2. QED BY <1>10, <2>1
<1>13. ASSUME NEW s \in 0 .. at + 3, s <= lp \/ (s > at /\ Start(s))
       PROVE  Grouped(at, v)[s] = IF e3 = 1 /\ s = L3 THEN P3[s] + 1 ELSE P3[s]
  <2>1. s \in 0 .. MaxBurst /\ s \in Nat /\ s \in 0 .. at + 4
    BY <1>6
  <2>2. pnum[s] \in Int /\ (s = lp => pnum[s] = at + 1 - lp)
    BY <2>1
  <2>3. PICK g, p0, p1, p2, p3 :
          /\ g = Grouped(at, v)[s] /\ p0 = pnum[s] /\ p1 = P1[s] /\ p2 = P2[s] /\ p3 = P3[s]
    OBVIOUS
  <2>4. /\ p0 \in Int /\ p1 \in Int /\ p2 \in Int /\ p3 \in Int
        /\ p1 = IF e0 = 1 THEN IF s = lp THEN p0 + 1 ELSE p0 ELSE IF s = at + 1 THEN 1 ELSE p0
        /\ p2 = IF e1 = 1 THEN IF s = L1 THEN p1 + 1 ELSE p1 ELSE IF s = at + 2 THEN 1 ELSE p1
        /\ p3 = IF e2 = 1 THEN IF s = L2 THEN p2 + 1 ELSE p2 ELSE IF s = at + 3 THEN 1 ELSE p2
    BY <1>7, <1>8, <1>9, <2>1, <2>2, <2>3
  <2>5. g = IF v # 15 /\ s \in at .. at + 3 THEN row[s - at + 1]
            ELSE IF v # 15 /\ s = at + 4 THEN 1
            ELSE IF s = lp THEN p0 + row[6] ELSE p0
    BY <1>10, <2>1, <2>3
  <2>6. PICK r : r = IF e3 = 1 /\ s = L3 THEN p3 + 1 ELSE p3
    OBVIOUS
  <2>7. CASE s < lp
    <3>1. s # L1 /\ s # L2 /\ s # L3 /\ s < at
      BY <1>5, <2>1, <2>7
    <3>2. r = p0
      BY <2>1, <2>4, <2>6, <2>7, <3>1
    <3>3. g = p0
      <4>1. s \notin at .. at + 3 /\ s # at + 4 /\ s # lp
        BY <2>1, <2>7, <3>1
      <4>2. QED BY <2>5, <4>1
    <3>4. QED BY <2>3, <2>6, <3>2, <3>3
  <2>8. CASE s = lp
    <3>1. /\ L1 = s <=> e0 = 1
          /\ L2 = s <=> e0 = 1 /\ e1 = 1
          /\ L3 = s <=> e0 = 1 /\ e1 = 1 /\ e2 = 1
          /\ s <= at
      BY <1>5, <2>1, <2>8
    <3>2. r = p0 + row[6]
      BY <1>2, <2>1, <2>4, <2>6, <2>8, <3>1
    <3>3. g = p0 + row[6]
      <4>1. CASE s = at
        <5>1. s - at + 1 = 1 /\ s \in at .. at + 3 /\ p0 = 1
          BY <2>2, <2>3, <2>8, <4>1
        <5>2. row[6] \in Int
          BY <1>2
        <5>3. CASE v # 15
          BY <1>2, <2>5, <5>1, <5>2, <5>3
        <5>4. CASE v = 15
          BY <2>5, <2>8, <5>4
        <5>5. QED BY <5>3, <5>4
      <4>2. CASE s # at
        <5>1. s \notin at .. at + 3 /\ s # at + 4
          BY <2>1, <3>1, <4>2
        <5>2. QED BY <2>5, <2>8, <5>1
      <4>3. QED BY <4>1, <4>2
    <3>4. QED BY <2>3, <2>6, <3>2, <3>3
  <2>9. CASE s = at + 1 /\ e0 = 0
    <3>1. /\ s # lp /\ L1 = s /\ (L2 = s <=> e1 = 1) /\ (L3 = s <=> e1 = 1 /\ e2 = 1)
          /\ v # 15
      BY <1>4, <1>5, <2>1, <2>9
    <3>2. r = row[2]
      BY <1>2, <2>1, <2>4, <2>6, <2>9, <3>1
    <3>3. s - at + 1 = 2 /\ s \in at .. at + 3
      BY <2>9
    <3>4. QED BY <2>3, <2>5, <2>6, <3>1, <3>2, <3>3
  <2>10. CASE s = at + 2 /\ e1 = 0
    <3>1. s # lp /\ s # L1 /\ L2 = s /\ (L3 = s <=> e2 = 1) /\ v # 15
      BY <1>4, <1>5, <2>1, <2>10
    <3>2. r = row[3]
      BY <1>2, <2>1, <2>4, <2>6, <2>10, <3>1
    <3>3. s - at + 1 = 3 /\ s \in at .. at + 3
      BY <2>10
    <3>4. QED BY <2>3, <2>5, <2>6, <3>1, <3>2, <3>3
  <2>11. CASE s = at + 3 /\ e2 = 0
    <3>1. s # lp /\ s # L1 /\ s # L2 /\ L3 = s /\ v # 15
      BY <1>4, <1>5, <2>1, <2>11
    <3>2. r = row[4]
      BY <1>2, <2>1, <2>4, <2>6, <2>11, <3>1
    <3>3. s - at + 1 = 4 /\ s \in at .. at + 3
      BY <2>11
    <3>4. QED BY <2>3, <2>5, <2>6, <3>1, <3>2, <3>3
  <2>12. s < lp \/ s = lp \/ s = at + 1 \/ s = at + 2 \/ s = at + 3
    BY <1>13, <2>1
  <2>13. /\ s = at + 1 => e0 = 0
         /\ s = at + 2 => e1 = 0
         /\ s = at + 3 => e2 = 0
    <3>1. s > at => s # 0 /\ Start(s)
      BY <1>13, <2>1
    <3>2. s > at => dst[s - 1] # dst[s]
      BY <3>1 DEF Start
    <3>3. s = at + 1 => dst[at] # dst[at + 1]
      BY <1>6, <3>2
    <3>4. s = at + 2 => dst[at + 1] # dst[at + 2]
      BY <1>6, <3>2
    <3>5. s = at + 3 => dst[at + 2] # dst[at + 3]
      BY <1>6, <3>2
    <3>6. QED BY <3>3, <3>4, <3>5
  <2>14. QED BY <2>7, <2>8, <2>9, <2>10, <2>11, <2>12, <2>13
<1>14. QED BY <1>11, <1>12, <1>13 DEF FourSteps

\* A call of port_groupx4 that is not the last: the counts up to packet at
\* become those up to packet at + 4.
LEMMA QuadCounts ==
  ASSUME NEW at \in Nat, at + 4 <= MaxBurst, pnum \in [0 .. MaxBurst -> Int],
         Counted(pnum, lp, at + 1),
         NEW e0, e0 \in {0, 1}, NEW e1, e1 \in {0, 1},
         NEW e2, e2 \in {0, 1}, NEW e3, e3 \in {0, 1},
         dst[at] = dst[at + 1] <=> e0 = 1,
         dst[at + 1] = dst[at + 2] <=> e1 = 1,
         dst[at + 2] = dst[at + 3] <=> e2 = 1,
         NEW v, v = e0 + 2 * e1 + 4 * e2 + 8 * e3
  PROVE  /\ (dst[at + 3] = dst[at + 4] <=> e3 = 1) =>
              Counted(Grouped(at, v), NewLp(at, v), at + 5)
         /\ e3 = 1 =>
              Counted([Grouped(at, v) EXCEPT ![NewLp(at, v)] = @ - 1], NewLp(at, v), at + 4)
<1>1. PICK P1, L1 : P1 = Stepped(pnum, lp, at + 1) /\ L1 = SteppedTo(lp, at + 1)
  OBVIOUS
<1>2. PICK P2, L2 : P2 = Stepped(P1, L1, at + 2) /\ L2 = SteppedTo(L1, at + 2)
  OBVIOUS
<1>3. PICK P3, L3 : P3 = Stepped(P2, L2, at + 3) /\ L3 = SteppedTo(L2, at + 3)
  OBVIOUS
<1>4. PICK P4, L4 : P4 = Stepped(P3, L3, at + 4) /\ L4 = SteppedTo(L3, at + 4)
  OBVIOUS
<1>5. /\ MaxBurst \in Nat
      /\ at + 1 \in 1 .. MaxBurst /\ at + 2 \in 1 .. MaxBurst
      /\ at + 3 \in 1 .. MaxBurst /\ at + 4 \in 1 .. MaxBurst
      /\ at + 1 + 1 = at + 2 /\ at + 2 + 1 = at + 3 /\ at + 3 + 1 = at + 4
      /\ at + 4 + 1 = at + 5 /\ at + 4 - 1 = at + 3
      /\ at + 1 - 1 = at /\ 0 .. at + 4 - 1 = 0 .. at + 3
  BY Params
<1>6. Counted(P1, L1, at + 2) /\ P1 \in [0 .. MaxBurst -> Int]
  <2>1. /\ Counted(Stepped(pnum, lp, at + 1), SteppedTo(lp, at + 1), at + 1 + 1)
        /\ Stepped(pnum, lp, at + 1) \in [0 .. MaxBurst -> Int]
    BY <1>5, StepCounts
  <2>2. QED BY <1>1, <1>5, <2>1
<1>7. Counted(P2, L2, at + 3) /\ P2 \in [0 .. MaxBurst -> Int]
  <2>1. /\ Counted(Stepped(P1, L1, at + 2), SteppedTo(L1, at + 2), at + 2 + 1)
        /\ Stepped(P1, L1, at + 2) \in [0 .. MaxBurst -> Int]
    BY <1>5, <1>6, StepCounts
  <2>2. QED BY <1>2, <1>5, <2>1
<1>8. Counted(P3, L3, at + 4) /\ P3 \in [0 .. MaxBurst -> Int]
  <2>1. /\ Counted(Stepped(P2, L2, at + 3), SteppedTo(L2, at + 3), at + 3 + 1)
        /\ Stepped(P2, L2, at + 3) \in [0 .. MaxBurst -> Int]
    BY <1>5, <1>7, StepCounts
  <2>2. QED BY <1>3, <1>5, <2>1
<1>9. lp \in 0 .. at /\ pnum[lp] = at + 1 - lp
  BY <1>5 DEF Counted
<1>10. /\ NewLp(at, v) = IF e3 = 1 THEN L3 ELSE at + 4
       /\ e3 = 0 => Grouped(at, v)[at + 4] = 1
       /\ \A s \in 0 .. at + 3 : s <= lp \/ (s > at /\ Start(s)) =>
            Grouped(at, v)[s] = IF e3 = 1 /\ s = L3 THEN P3[s] + 1 ELSE P3[s]
  <2>1. FourSteps(at, v, e3, P3, L3)
    BY <1>1, <1>2, <1>3, <1>9, FourAtOnce
  <2>2. QED BY <2>1 DEF FourSteps
\* Between lp and packet at, no run starts.
<1>11. \A s \in lp + 1 .. at : ~ Start(s)
  <2>1. RunAt(pnum, lp, at + 1)
    BY <1>5, <1>9 DEF Counted, RunsUpTo
  <2>2. \A k \in lp .. lp + pnum[lp] - 1 : dst[k] = dst[lp]
    BY <2>1 DEF RunAt
  <2>3. lp + pnum[lp] - 1 = at
    BY <1>9
  <2>4. \A k \in lp .. at : dst[k] = dst[lp]
    BY <2>2, <2>3
  <2>5. QED BY <1>9, <2>4 DEF Start
<1>12. ASSUME NEW s \in 0 .. at + 3, Start(s)
       PROVE  Grouped(at, v)[s] = IF e3 = 1 /\ s = L3 THEN P3[s] + 1 ELSE P3[s]
  BY <1>9, <1>10, <1>11, <1>12
<1>13. ASSUME dst[at + 3] = dst[at + 4] <=> e3 = 1
       PROVE  Counted(Grouped(at, v), NewLp(at, v), at + 5)
  <2>1. Counted(P4, L4, at + 5)
    <3>1. Counted(Stepped(P3, L3, at + 4), SteppedTo(L3, at + 4), at + 4 + 1)
      BY <1>5, <1>8, StepCounts
    <3>2. QED BY <1>4, <1>5, <3>1
  <2>2. L4 = NewLp(at, v)
    BY <1>4, <1>5, <1>10, <1>13 DEF SteppedTo
  <2>3. L3 \in 0 .. MaxBurst
    BY <1>5, <1>8 DEF Counted
  <2>4. Writes(P3, P4, L3, at + 4)
    BY <1>4, <1>5, <1>8, <2>3, StepWrites
  <2>5. /\ e3 = 1 => \A s \in 0 .. MaxBurst : IF s = L3 THEN P4[s] = P3[s] + 1 ELSE P4[s] = P3[s]
        /\ e3 = 0 => \A s \in 0 .. MaxBurst : IF s = at + 4 THEN P4[s] = 1 ELSE P4[s] = P3[s]
    <3>1. dst[at + 4 - 1] = dst[at + 4] <=> e3 = 1
      BY <1>5, <1>13
    <3>2. QED BY <2>4, <3>1 DEF Writes
  <2>6. ASSUME NEW s \in 0 .. at + 4, Start(s)
        PROVE  Grouped(at, v)[s] = P4[s]
    <3>1. CASE s = at + 4
      <4>1. e3 = 0
        BY <1>5, <1>13, <2>6, <3>1 DEF Start
      <4>2. QED BY <1>5, <1>10, <2>5, <3>1, <4>1
    <3>2. CASE s # at + 4
      <4>1. s \in 0 .. at + 3 /\ s \in 0 .. MaxBurst
        BY <1>5, <3>2
      <4>2. Grouped(at, v)[s] = IF e3 = 1 /\ s = L3 THEN P3[s] + 1 ELSE P3[s]
        BY <1>12, <2>6, <4>1
      <4>3. QED BY <2>5, <3>2, <4>1, <4>2
    <3>3. QED BY <3>1, <3>2
  <2>7. at + 5 \in Nat /\ 0 .. at + 5 - 1 = 0 .. at + 4
    OBVIOUS
  <2>8. Counted(Grouped(at, v), L4, at + 5)
    BY <2>1, <2>6, <2>7, SameCounts
  <2>9. QED BY <2>2, <2>8
<1>14. ASSUME e3 = 1
       PROVE  Counted([Grouped(at, v) EXCEPT ![NewLp(at, v)] = @ - 1], NewLp(at, v), at + 4)
  <2>1. PICK G : G = Grouped(at, v)
    OBVIOUS
  <2>2. NewLp(at, v) = L3 /\ L3 \in 0 .. at + 3 /\ Start(L3)
    BY <1>5, <1>8, <1>10, <1>14 DEF Counted
  <2>3. PICK R : R = [G EXCEPT ![L3] = G[L3] - 1]
    OBVIOUS
  <2>4. DOMAIN G = 0 .. MaxBurst
    BY <2>1 DEF Grouped
  <2>5. ASSUME NEW s \in 0 .. at + 3, Start(s) PROVE R[s] = P3[s]
    <3>1. G[s] = IF s = L3 THEN P3[s] + 1 ELSE P3[s]
      BY <1>12, <1>14, <2>1, <2>5
    <3>2. P3[s] \in Int /\ s \in DOMAIN G
      BY <1>5, <1>8, <2>4, SMTT(20)
    <3>3. QED BY <2>3, <3>1, <3>2
  <2>6. at + 4 \in Nat /\ 0 .. at + 4 - 1 = 0 .. at + 3
    OBVIOUS
  <2>7. Counted(R, L3, at + 4)
    <3>1. Counted(P3, L3, at + 4)
      BY <1>8
    <3>2. QED BY <2>5, <2>6, <3>1, SameCounts
  <2>8. QED BY <2>1, <2>2, <2>3, <2>7
<1>15. QED BY <1>13, <1>14

\* The counts stay in range: only the last packet of all is counted twice, until
\* lp[0]-- takes it off.
LEMMA GroupedRange ==
  ASSUME NEW at \in Nat, at + 4 <= MaxBurst, pnum \in [0 .. MaxBurst -> 0 .. MaxBurst],
         lp \in 0 .. at, pnum[lp] = at + 1 - lp,
         NEW v, v \in 0 .. 15
  PROVE  /\ DOMAIN Grouped(at, v) = 0 .. MaxBurst
         /\ \A k \in 0 .. MaxBurst : k # lp => Grouped(at, v)[k] \in 0 .. MaxBurst
         /\ Grouped(at, v)[lp] \in 0 .. at + 5 - lp
         /\ NewLp(at, v) \in 0 .. at + 4
         /\ NewLp(at, v) = lp \/ Grouped(at, v)[lp] \in 0 .. at + 4 - lp
<1>1. PICK row : row = gptbl[v + 1]
  OBVIOUS
<1>2. /\ row[1] \in 0 .. 5 /\ row[2] \in 0 .. 4 /\ row[3] \in 0 .. 4 /\ row[4] \in 0 .. 4
      /\ row[5] \in 0 .. 4 /\ row[6] \in 0 .. 4
      /\ row[1] = 1 + row[6] /\ (v # 15 => row[6] \in 0 .. 3)
  BY <1>1, SMTT(20) DEF gptbl
<1>3. MaxBurst \in Nat /\ MaxBurst >= 4 /\ lp \in 0 .. MaxBurst
  BY Params
<1>4. Grouped(at, v) =
        [k \in 0 .. MaxBurst |->
           IF v # 15 /\ k \in at .. at + 3 THEN row[k - at + 1]
           ELSE IF v # 15 /\ k = at + 4 THEN 1
           ELSE IF k = lp THEN pnum[k] + row[6] ELSE pnum[k]]
  BY <1>1 DEF Grouped
<1>5. \A k \in 0 .. MaxBurst : Grouped(at, v)[k] =
           IF v # 15 /\ k \in at .. at + 3 THEN row[k - at + 1]
           ELSE IF v # 15 /\ k = at + 4 THEN 1
           ELSE IF k = lp THEN pnum[k] + row[6] ELSE pnum[k]
  BY <1>4
<1>6. ASSUME NEW k, k \in at .. at + 3, v # 15 PROVE row[k - at + 1] \in 0 .. 4
  <2>1. k = at \/ k = at + 1 \/ k = at + 2 \/ k = at + 3
    BY <1>6
  <2>2. k - at + 1 = 1 \/ k - at + 1 = 2 \/ k - at + 1 = 3 \/ k - at + 1 = 4
    BY <2>1
  <2>3. row[1] \in 0 .. 4
    BY <1>2, <1>6
  <2>4. QED BY <1>2, <2>2, <2>3
<1>7. ASSUME NEW k \in 0 .. MaxBurst, k # lp PROVE Grouped(at, v)[k] \in 0 .. MaxBurst
  <2>1. pnum[k] \in 0 .. MaxBurst
    OBVIOUS
  <2>2. CASE v # 15 /\ k \in at .. at + 3
    <3>1. Grouped(at, v)[k] = row[k - at + 1]
      BY <1>5, <2>2
    <3>2. row[k - at + 1] \in 0 .. 4
      BY <1>6, <2>2
    <3>3. \A x : x \in 0 .. 4 => x \in 0 .. MaxBurst
      BY <1>3
    <3>4. QED BY <3>1, <3>2, <3>3, Zenon
  <2>3. CASE ~ (v # 15 /\ k \in at .. at + 3)
    <3>1. Grouped(at, v)[k] = 1 \/ Grouped(at, v)[k] = pnum[k]
      BY <1>5, <1>7, <2>3
    <3>2. 1 \in 0 .. MaxBurst
      BY <1>3
    <3>3. QED BY <2>1, <3>1, <3>2, Zenon
  <2>4. QED BY <2>2, <2>3
<1>8. Grouped(at, v)[lp] = at + 1 - lp + row[6]
  <2>1. Grouped(at, v)[lp] =
           IF v # 15 /\ lp \in at .. at + 3 THEN row[lp - at + 1]
           ELSE IF v # 15 /\ lp = at + 4 THEN 1 ELSE at + 1 - lp + row[6]
    BY <1>3, <1>5
  <2>2. CASE v # 15 /\ lp = at
    BY <1>2, <2>1, <2>2
  <2>3. CASE v = 15 \/ lp # at
    <3>1. ~ (v # 15 /\ lp \in at .. at + 3) /\ ~ (v # 15 /\ lp = at + 4)
      BY <2>3
    <3>2. QED BY <2>1, <3>1
  <2>4. QED BY <2>2, <2>3
<1>9. row[6] \in 0 .. 4 /\ (v # 15 => row[6] \in 0 .. 3)
  BY <1>2
<1>10. Grouped(at, v)[lp] \in 0 .. at + 5 - lp /\ (v # 15 => Grouped(at, v)[lp] \in 0 .. at + 4 - lp)
  BY <1>8, <1>9
<1>11. NewLp(at, v) \in 0 .. at + 4 /\ (v = 15 => NewLp(at, v) = lp)
  BY <1>1, <1>2 DEF NewLp
<1>12. DOMAIN Grouped(at, v) = 0 .. MaxBurst
  BY <1>4
<1>13. QED BY <1>7, <1>10, <1>11, <1>12

LEMMA GroupingInit == Init => Grouping
<1>1. ASSUME Init PROVE Grouping
  <2>1. nb_rx = 0
    BY <1>1, FS_EmptySet DEF Init, nb_rx, Idle
  <2>2. 0 .. 0 - 1 = {}
    OBVIOUS
  <2>3. dst \in [0 .. 0 - 1 -> Port \cup {BadPort}]
    BY <1>1, <2>2 DEF Init, Idle
  <2>4. Burst
    BY <1>1, <2>1, <2>3, Params DEF Burst, Init
  <2>5. Groups
    BY <1>1 DEF Groups, Init
  <2>6. QED BY <2>4, <2>5 DEF Grouping
<1>2. QED BY <1>1

LEMMA ReceiveGroups ==
  ASSUME Grouping, NEW n \in 1 .. MaxBurst, NEW d \in [0 .. n - 1 -> Port \cup {BadPort}],
         Receive(n, d)
  PROVE  Grouping'
<1>1. MaxBurst \in Nat /\ MaxBurst >= 4 /\ n \in Nat /\ n <= MaxBurst /\ n > 0
  BY Params
<1>2. dst' = d /\ DOMAIN d = 0 .. n - 1
  BY DEF Receive
<1>3. nb_rx' = n
  <2>1. n \in 0 .. MaxBurst
    BY <1>1
  <2>2. Cardinality(0 .. n - 1) = n
    BY <2>1, BurstSize
  <2>3. QED BY <1>2, <2>2 DEF nb_rx
<1>4. CASE n >= FWDSTEP
  <2>1. /\ stage' = "quad" /\ j' = 4 /\ lp' = 0
        /\ pnum' = [k \in 0 .. MaxBurst |-> IF k = 0 THEN 1 ELSE 0]
    BY <1>1, <1>4 DEF Receive, FWDSTEP
  <2>2. pnum' \in [0 .. MaxBurst -> 0 .. MaxBurst] /\ pnum'[0] = 1
    BY <1>1, <2>1
  <2>3. Burst'
    BY <1>1, <1>2, <1>3, <2>1, <2>2 DEF Burst
  <2>4. Whole' = n - (n % 4) /\ n - (n % 4) >= 4
    BY <1>1, <1>3, <1>4 DEF Whole, FWDSTEP
  <2>5. ASSUME NEW s \in 0 .. 0 PROVE pnum'[s] = 1 /\ s = 0
    BY <2>2
  <2>6. 0 .. 1 - 1 = 0 .. 0 /\ 0 \in 0 .. 0 /\ 4 - 3 = 1 /\ 1 - 0 = 1
    OBVIOUS
  <2>7. RunsUpTo(pnum, 1)'
    BY <2>5, <2>6 DEF RunsUpTo, RunAt
  <2>8. Counted(pnum, lp, 1)'
    BY <2>1, <2>2, <2>6, <2>7 DEF Counted, Start
  <2>9. Counted(pnum, lp, j - 3)'
    BY <2>1, <2>6, <2>8
  <2>10. (j % FWDSTEP = 0 /\ j \in FWDSTEP .. Whole)'
    BY <1>1, <2>1, <2>4 DEF FWDSTEP
  <2>11. Groups'
    BY <2>1, <2>9, <2>10 DEF Groups
  <2>12. QED BY <2>3, <2>11 DEF Grouping
<1>5. CASE n < FWDSTEP
  <2>1. /\ stage' = "tail" /\ j' = 0 /\ lp' = -1
        /\ pnum' = [k \in 0 .. MaxBurst |-> 0]
    BY <1>1, <1>5 DEF Receive, FWDSTEP
  <2>2. pnum' \in [0 .. MaxBurst -> 0 .. MaxBurst]
    BY <1>1, <2>1
  <2>3. Burst'
    BY <1>1, <1>2, <1>3, <2>1, <2>2 DEF Burst
  <2>4. Groups'
    BY <1>1, <1>3, <2>1 DEF Groups
  <2>5. QED BY <2>3, <2>4 DEF Grouping
<1>6. QED BY <1>1, <1>4, <1>5 DEF FWDSTEP

\* The four comparisons of a call and the number they make.
LEMMA Masks ==
  ASSUME NEW at \in Nat, NEW last \in BOOLEAN
  PROVE  \E e0, e1, e2, e3 \in {0, 1} :
           /\ dst[at] = dst[at + 1] <=> e0 = 1
           /\ dst[at + 1] = dst[at + 2] <=> e1 = 1
           /\ dst[at + 2] = dst[at + 3] <=> e2 = 1
           /\ last => e3 = 1
           /\ ~ last => (dst[at + 3] = dst[at + 4] <=> e3 = 1)
           /\ Mask(at, last) = e0 + 2 * e1 + 4 * e2 + 8 * e3
<1>1. PICK e0 \in {0, 1} : e0 = IF dst[at] = dst[at + 1] THEN 1 ELSE 0
  OBVIOUS
<1>2. PICK e1 \in {0, 1} : e1 = IF dst[at + 1] = dst[at + 2] THEN 1 ELSE 0
  OBVIOUS
<1>3. PICK e2 \in {0, 1} : e2 = IF dst[at + 2] = dst[at + 3] THEN 1 ELSE 0
  OBVIOUS
<1>4. PICK e3 \in {0, 1} : e3 = IF last \/ dst[at + 3] = dst[at + 4] THEN 1 ELSE 0
  OBVIOUS
<1>5. at + 0 = at /\ at + 0 + 1 = at + 1 /\ at + 1 + 1 = at + 2 /\ at + 2 + 1 = at + 3
      /\ at + 3 + 1 = at + 4
  OBVIOUS
<1>6. Mask(at, last) = e0 + 2 * e1 + 4 * e2 + 8 * e3
  BY <1>1, <1>2, <1>3, <1>4, <1>5 DEF Mask
<1>7. QED BY <1>1, <1>2, <1>3, <1>4, <1>6

LEMMA SameBurst ==
  ASSUME dst' = dst, NEW c
  PROVE  /\ Counted(pnum', lp', c) => Counted(pnum, lp, c)'
         /\ RunsUpTo(pnum', c) => RunsUpTo(pnum, c)'
<1>1. RunsUpTo(pnum', c) => RunsUpTo(pnum, c)'
  BY DEF RunsUpTo, RunAt, Start
<1>2. Counted(pnum', lp', c) => Counted(pnum, lp, c)'
  BY <1>1 DEF Counted, Start
<1>3. QED BY <1>1, <1>2

\* What is known of a call of port_groupx4.
LEMMA CallBounds ==
  ASSUME Grouping, stage = "quad", NEW at, at = j - 4
  PROVE  /\ at \in Nat /\ at + 4 = j /\ j <= Whole /\ Whole <= nb_rx /\ Whole \in Nat /\ at + 4 <= MaxBurst
         /\ j # Whole => j + 4 <= Whole /\ at + 5 <= MaxBurst
         /\ Counted(pnum, lp, at + 1) /\ lp \in 0 .. at /\ pnum[lp] = at + 1 - lp
         /\ pnum \in [0 .. MaxBurst -> 0 .. MaxBurst] /\ pnum \in [0 .. MaxBurst -> Int]
<1>1. /\ MaxBurst \in Nat /\ nb_rx \in 0 .. MaxBurst /\ j \in Nat
      /\ pnum \in [0 .. MaxBurst -> 0 .. MaxBurst]
      /\ j % 4 = 0 /\ j >= 4 /\ j <= Whole /\ Whole = nb_rx - (nb_rx % 4)
      /\ Counted(pnum, lp, j - 3)
  BY Params, SMTT(20) DEF Grouping, Burst, Groups, Whole, FWDSTEP
<1>2. at \in Nat /\ at + 4 = j /\ at + 1 = j - 3
  BY <1>1
<1>3. Whole \in Nat /\ Whole % 4 = 0 /\ Whole <= nb_rx
  BY <1>1
<1>4. j # Whole => j + 4 <= Whole
  BY <1>1, <1>3
<1>5. Counted(pnum, lp, at + 1)
  BY <1>1, <1>2
<1>6. lp \in 0 .. at /\ pnum[lp] = at + 1 - lp
  BY <1>2, <1>5 DEF Counted
<1>7. pnum \in [0 .. MaxBurst -> Int]
  BY <1>1
<1>8. QED BY <1>1, <1>2, <1>3, <1>4, <1>5, <1>6, <1>7, SMTT(20)

LEMMA QuadGroups ==
  ASSUME Grouping, GroupQuad
  PROVE  Grouping'
<1>1. PICK at : at = j - 4
  OBVIOUS
<1>2. stage = "quad" /\ j # Whole
  BY DEF GroupQuad
<1>3. /\ at \in Nat /\ at + 4 = j /\ j <= Whole /\ Whole <= nb_rx /\ Whole \in Nat /\ at + 4 <= MaxBurst
      /\ j + 4 <= Whole /\ at + 5 <= MaxBurst
      /\ Counted(pnum, lp, at + 1) /\ lp \in 0 .. at /\ pnum[lp] = at + 1 - lp
      /\ pnum \in [0 .. MaxBurst -> 0 .. MaxBurst] /\ pnum \in [0 .. MaxBurst -> Int]
  BY <1>1, <1>2, CallBounds
<1>4. PICK e0, e1, e2, e3 \in {0, 1} :
           /\ dst[at] = dst[at + 1] <=> e0 = 1
           /\ dst[at + 1] = dst[at + 2] <=> e1 = 1
           /\ dst[at + 2] = dst[at + 3] <=> e2 = 1
           /\ dst[at + 3] = dst[at + 4] <=> e3 = 1
           /\ Mask(at, FALSE) = e0 + 2 * e1 + 4 * e2 + 8 * e3
  <2>1. PICK b \in BOOLEAN : b = FALSE
    OBVIOUS
  <2>2. \E e0, e1, e2, e3 \in {0, 1} :
           /\ dst[at] = dst[at + 1] <=> e0 = 1
           /\ dst[at + 1] = dst[at + 2] <=> e1 = 1
           /\ dst[at + 2] = dst[at + 3] <=> e2 = 1
           /\ b => e3 = 1
           /\ ~ b => (dst[at + 3] = dst[at + 4] <=> e3 = 1)
           /\ Mask(at, b) = e0 + 2 * e1 + 4 * e2 + 8 * e3
    BY <1>3, Masks, SMTT(20)
  <2>3. QED BY <2>1, <2>2
<1>5. PICK v : v = e0 + 2 * e1 + 4 * e2 + 8 * e3
  OBVIOUS
<1>6. /\ stage' = stage /\ dst' = dst /\ j' = j + 4
      /\ pnum' = Grouped(at, v) /\ lp' = NewLp(at, v)
  BY <1>1, <1>4, <1>5 DEF GroupQuad, FWDSTEP
<1>7. v \in 0 .. 15
  BY <1>4, <1>5
<1>8. Counted(Grouped(at, v), NewLp(at, v), at + 5)
  BY <1>3, <1>4, <1>5, QuadCounts
<1>9. /\ DOMAIN Grouped(at, v) = 0 .. MaxBurst
      /\ \A k \in 0 .. MaxBurst : k # lp => Grouped(at, v)[k] \in 0 .. MaxBurst
      /\ Grouped(at, v)[lp] \in 0 .. at + 5 - lp
      /\ NewLp(at, v) \in 0 .. at + 4
  BY <1>3, <1>7, GroupedRange
<1>10. pnum' \in [0 .. MaxBurst -> 0 .. MaxBurst] /\ lp' \in 0 .. MaxBurst
  <2>1. MaxBurst \in Nat /\ 0 .. at + 5 - lp \subseteq 0 .. MaxBurst
        /\ 0 .. at + 4 \subseteq 0 .. MaxBurst
    <3>1. at \in Nat /\ at + 5 <= MaxBurst /\ lp \in 0 .. at
      BY <1>3
    <3>2. QED BY <3>1, Params
  <2>2. \A k \in 0 .. MaxBurst : Grouped(at, v)[k] \in 0 .. MaxBurst
    BY <1>9, <2>1
  <2>3. Grouped(at, v) = [k \in 0 .. MaxBurst |-> Grouped(at, v)[k]]
    BY <1>9 DEF Grouped
  <2>4. Grouped(at, v) \in [0 .. MaxBurst -> 0 .. MaxBurst]
    BY <2>2, <2>3
  <2>5. NewLp(at, v) \in 0 .. MaxBurst
    BY <1>9, <2>1
  <2>6. QED BY <1>6, <2>4, <2>5
<1>11. nb_rx' = nb_rx /\ Whole' = Whole
  BY <1>6 DEF nb_rx, Whole
<1>12. Burst'
  <2>1. j' \in 0 .. MaxBurst /\ lp' \in -1 .. MaxBurst
    BY <1>3, <1>6, <1>10, Params DEF Grouping, Burst
  <2>2. QED BY <1>6, <1>10, <1>11, <2>1 DEF Grouping, Burst
<1>13. Groups'
  <2>1. Counted(pnum, lp, at + 5)'
    BY <1>6, <1>8, SameBurst
  <2>2. j' - 3 = at + 5
    BY <1>3, <1>6
  <2>3. (j % FWDSTEP = 0 /\ j \in FWDSTEP .. Whole)'
    BY <1>2, <1>3, <1>6, <1>11 DEF Grouping, Groups, Burst, Whole, FWDSTEP
  <2>4. QED BY <1>2, <1>6, <2>1, <2>2, <2>3 DEF Groups
<1>14. QED BY <1>12, <1>13 DEF Grouping

LEMMA LastGroups ==
  ASSUME Grouping, GroupLast
  PROVE  Grouping'
<1>1. PICK at : at = j - 4
  OBVIOUS
<1>2. stage = "quad" /\ j = Whole
  BY DEF GroupLast
<1>3. /\ at \in Nat /\ at + 4 = j /\ j <= Whole /\ Whole <= nb_rx /\ Whole \in Nat /\ at + 4 <= MaxBurst
      /\ Counted(pnum, lp, at + 1) /\ lp \in 0 .. at /\ pnum[lp] = at + 1 - lp
      /\ pnum \in [0 .. MaxBurst -> 0 .. MaxBurst] /\ pnum \in [0 .. MaxBurst -> Int]
  BY <1>1, <1>2, CallBounds
<1>4. PICK e0, e1, e2, e3 \in {0, 1} :
           /\ dst[at] = dst[at + 1] <=> e0 = 1
           /\ dst[at + 1] = dst[at + 2] <=> e1 = 1
           /\ dst[at + 2] = dst[at + 3] <=> e2 = 1
           /\ e3 = 1
           /\ Mask(at, TRUE) = e0 + 2 * e1 + 4 * e2 + 8 * e3
  <2>1. TRUE \in BOOLEAN
    OBVIOUS
  <2>2. QED BY <1>3, <2>1, Masks, ZenonT(40)
<1>5. PICK v : v = e0 + 2 * e1 + 4 * e2 + 8 * e3
  OBVIOUS
<1>6. PICK G, L : G = Grouped(at, v) /\ L = NewLp(at, v)
  OBVIOUS
<1>7. /\ stage' = "tail" /\ dst' = dst /\ j' = j
      /\ pnum' = [G EXCEPT ![L] = @ - 1] /\ lp' = L
  BY <1>1, <1>4, <1>5, <1>6 DEF GroupLast, FWDSTEP
<1>8. v \in 0 .. 15
  BY <1>4, <1>5
<1>9. Counted(pnum', lp', at + 4)
  <2>1. Counted([Grouped(at, v) EXCEPT ![NewLp(at, v)] = @ - 1], NewLp(at, v), at + 4)
    BY <1>3, <1>4, <1>5, QuadCounts
  <2>2. QED BY <1>6, <1>7, <2>1
<1>10. /\ DOMAIN G = 0 .. MaxBurst
       /\ \A k \in 0 .. MaxBurst : k # lp => G[k] \in 0 .. MaxBurst
       /\ L = lp \/ G[lp] \in 0 .. at + 4 - lp
       /\ L \in 0 .. at + 4
  <2>1. /\ DOMAIN Grouped(at, v) = 0 .. MaxBurst
        /\ \A k \in 0 .. MaxBurst : k # lp => Grouped(at, v)[k] \in 0 .. MaxBurst
        /\ NewLp(at, v) = lp \/ Grouped(at, v)[lp] \in 0 .. at + 4 - lp
        /\ NewLp(at, v) \in 0 .. at + 4
    BY <1>3, <1>8, GroupedRange
  <2>2. QED BY <1>6, <2>1
<1>11. pnum' \in [0 .. MaxBurst -> 0 .. MaxBurst] /\ lp' \in 0 .. MaxBurst
  <2>1. MaxBurst \in Nat /\ 0 .. at + 4 - lp \subseteq 0 .. MaxBurst
        /\ 0 .. at + 4 \subseteq 0 .. MaxBurst
    <3>1. at \in Nat /\ at + 4 <= MaxBurst /\ lp \in 0 .. at
      BY <1>3
    <3>2. QED BY <3>1, Params
  <2>2. pnum'[L] = at + 4 - L /\ L \in 0 .. at + 3
    BY <1>3, <1>7, <1>9 DEF Counted
  <2>3. \A k \in 0 .. MaxBurst : k # L => pnum'[k] \in 0 .. MaxBurst
    BY <1>7, <1>10, <2>1
  <2>4. pnum'[L] \in 0 .. MaxBurst /\ L \in 0 .. MaxBurst
    BY <1>3, <2>1, <2>2
  <2>5. pnum' = [k \in 0 .. MaxBurst |-> pnum'[k]]
    BY <1>7, <1>10
  <2>6. QED BY <1>7, <2>3, <2>4, <2>5
<1>12. nb_rx' = nb_rx
  BY <1>7 DEF nb_rx
<1>13. Burst'
  <2>1. lp' \in -1 .. MaxBurst
    BY <1>11, Params
  <2>2. nb_rx > 0
    BY <1>2 DEF Grouping, Burst
  <2>3. QED BY <1>7, <1>11, <1>12, <2>1, <2>2 DEF Grouping, Burst
<1>14. Groups'
  <2>1. Counted(pnum, lp, at + 4)'
    BY <1>7, <1>9, SameBurst
  <2>2. j' = at + 4 /\ j' # 0 /\ j' <= nb_rx'
    BY <1>3, <1>7, <1>12 DEF Grouping, Burst, Whole
  <2>3. QED BY <1>7, <2>1, <2>2 DEF Groups
<1>15. QED BY <1>13, <1>14 DEF Grouping

LEMMA StepGroups ==
  ASSUME Grouping, GroupStep
  PROVE  Grouping'
<1>1. /\ stage = "tail" /\ stage' = "tail" /\ dst' = dst /\ j' = j + 1
      /\ MaxBurst \in Nat /\ MaxBurst >= 4 /\ nb_rx \in 0 .. MaxBurst /\ nb_rx' = nb_rx
      /\ j \in 0 .. MaxBurst - 1 /\ j + 1 <= nb_rx
      /\ pnum \in [0 .. MaxBurst -> 0 .. MaxBurst]
      /\ IF j = 0 THEN lp = -1 ELSE Counted(pnum, lp, j)
  <2>1. stage = "tail" /\ stage' = stage /\ dst' = dst /\ j' = j + 1 /\ j < nb_rx
    BY DEF GroupStep
  <2>2. nb_rx' = nb_rx
    BY <2>1 DEF nb_rx
  <2>3. /\ nb_rx \in 0 .. MaxBurst /\ j \in 0 .. MaxBurst
        /\ pnum \in [0 .. MaxBurst -> 0 .. MaxBurst]
        /\ IF j = 0 THEN lp = -1 ELSE Counted(pnum, lp, j)
    BY <2>1 DEF Grouping, Burst, Groups
  <2>4. /\ MaxBurst \in Nat /\ MaxBurst >= 4
        /\ j \in 0 .. MaxBurst - 1 /\ j + 1 <= nb_rx
    <3>1. nb_rx \in 0 .. MaxBurst /\ j \in 0 .. MaxBurst /\ j < nb_rx
      BY <2>1, <2>3
    <3>2. QED BY <3>1, Params
  <2>5. QED BY <2>1, <2>2, <2>3, <2>4
<1>2. /\ pnum' \in [0 .. MaxBurst -> 0 .. MaxBurst] /\ lp' \in 0 .. MaxBurst
      /\ Counted(pnum', lp', j + 1)
  <2>1. CASE j = 0
    <3>1. pnum' = [pnum EXCEPT ![0] = 1] /\ lp' = 0
      BY <2>1 DEF GroupStep
    <3>2. pnum'[0] = 1 /\ pnum' \in [0 .. MaxBurst -> 0 .. MaxBurst] /\ 0 \in 0 .. MaxBurst
      BY <1>1, <3>1
    <3>3. ASSUME NEW s \in 0 .. 0 PROVE pnum'[s] = 1 /\ s = 0
      BY <3>2
    <3>4. 0 .. 1 - 1 = 0 .. 0 /\ 0 \in 0 .. 0 /\ 0 + 1 = 1 /\ 1 - 0 = 1
      OBVIOUS
    <3>5. RunsUpTo(pnum', 1)
      BY <3>3, <3>4 DEF RunsUpTo, RunAt
    <3>6. Counted(pnum', 0, 1)
      BY <3>2, <3>4, <3>5 DEF Counted, Start
    <3>7. QED BY <2>1, <3>1, <3>2, <3>4, <3>6
  <2>2. CASE j # 0
    <3>1. pnum' = Stepped(pnum, lp, j) /\ lp' = SteppedTo(lp, j)
      BY <2>2 DEF GroupStep, Stepped, SteppedTo
    <3>2. Counted(pnum, lp, j) /\ lp \in 0 .. j - 1 /\ pnum[lp] = j - lp
      BY <1>1, <2>2 DEF Counted
    <3>3. j \in 1 .. MaxBurst /\ pnum \in [0 .. MaxBurst -> Int]
      BY <1>1, <2>2
    <3>4. /\ Counted(Stepped(pnum, lp, j), SteppedTo(lp, j), j + 1)
          /\ SteppedTo(lp, j) \in 0 .. j
      BY <3>2, <3>3, StepCounts
    <3>5. pnum[lp] + 1 \in 0 .. MaxBurst /\ 1 \in 0 .. MaxBurst
      BY <1>1, <3>2
    <3>6. pnum' = [pnum EXCEPT ![lp] = pnum[lp] + 1] \/ pnum' = [pnum EXCEPT ![j] = 1]
      BY <3>1 DEF Stepped
    <3>7. pnum' \in [0 .. MaxBurst -> 0 .. MaxBurst]
      BY <1>1, <3>5, <3>6
    <3>8. lp' \in 0 .. MaxBurst
      BY <1>1, <3>1, <3>4
    <3>9. QED BY <3>1, <3>4, <3>7, <3>8
  <2>3. QED BY <2>1, <2>2
<1>3. Burst'
  <2>1. j' \in 0 .. MaxBurst /\ lp' \in -1 .. MaxBurst /\ nb_rx' > 0
    BY <1>1, <1>2
  <2>2. QED BY <1>1, <1>2, <2>1 DEF Grouping, Burst
<1>4. Groups'
  <2>1. Counted(pnum, lp, j)'
    <3>1. PICK c : c = j + 1
      OBVIOUS
    <3>2. Counted(pnum, lp, c)'
      BY <1>1, <1>2, <3>1, SameBurst
    <3>3. c = j' /\ c' = c
      BY <1>1, <3>1
    <3>4. QED BY <3>2, <3>3
  <2>2. j' # 0 /\ j' <= nb_rx'
    BY <1>1
  <2>3. QED BY <1>1, <2>1, <2>2 DEF Groups
<1>5. QED BY <1>3, <1>4 DEF Grouping

LEMMA StartGroups ==
  ASSUME Grouping, StartSending
  PROVE  Grouping'
<1>1. /\ stage = "tail" /\ stage' = "send" /\ dst' = dst /\ j' = 0 /\ j = nb_rx
      /\ pnum' = pnum /\ lp' = lp /\ nb_rx' = nb_rx /\ nb_rx > 0 /\ nb_rx \in 0 .. MaxBurst
      /\ Counted(pnum, lp, j)
  BY Params DEF StartSending, Grouping, Burst, Groups, nb_rx
<1>2. RunsUpTo(pnum, nb_rx)
  BY <1>1 DEF Counted
<1>3. RunsUpTo(pnum, nb_rx)'
  <2>1. PICK c : c = nb_rx
    OBVIOUS
  <2>2. RunsUpTo(pnum, c)'
    BY <1>1, <1>2, <2>1, SameBurst
  <2>3. c = nb_rx'
    BY <1>1, <2>1
  <2>4. QED BY <2>2, <2>3
<1>4. j' \in 0 .. MaxBurst /\ j' <= nb_rx'
  BY <1>1, Params
<1>5. Start(j)'
  BY <1>1 DEF Start
<1>6. Burst' /\ Groups'
  BY <1>1, <1>3, <1>4, <1>5 DEF Grouping, Burst, Groups
<1>7. QED BY <1>6 DEF Grouping

\* The group that is sent next.
LEMMA GroupAt ==
  ASSUME Grouping, stage = "send", j < nb_rx
  PROVE  /\ j \in Nat /\ nb_rx \in 1 .. MaxBurst /\ Start(j)
         /\ pnum[j] \in 1 .. nb_rx - j
         /\ \A k \in j .. j + pnum[j] - 1 : dst[k] = dst[j]
         /\ j + pnum[j] < nb_rx => dst[j + pnum[j]] # dst[j] /\ Start(j + pnum[j])
<1>1. j \in 0 .. nb_rx - 1 /\ Start(j) /\ RunsUpTo(pnum, nb_rx) /\ nb_rx \in 1 .. MaxBurst
  BY Params DEF Grouping, Burst, Groups
<1>2. RunAt(pnum, j, nb_rx)
  BY <1>1 DEF RunsUpTo
<1>3. /\ pnum[j] \in 1 .. nb_rx - j
      /\ \A k \in j .. j + pnum[j] - 1 : dst[k] = dst[j]
      /\ j + pnum[j] < nb_rx => dst[j + pnum[j]] # dst[j]
  BY <1>2 DEF RunAt
<1>4. j + pnum[j] - 1 \in j .. j + pnum[j] - 1
  BY <1>1, <1>3
<1>5. dst[j + pnum[j] - 1] = dst[j]
  BY <1>3, <1>4
<1>6. j + pnum[j] < nb_rx => Start(j + pnum[j])
  <2>1. PICK e : e = j + pnum[j]
    OBVIOUS
  <2>2. e < nb_rx => dst[e] # dst[j]
    BY <1>3, <2>1
  <2>3. dst[e - 1] = dst[j]
    <3>1. j \in Int /\ pnum[j] \in Int
      BY <1>1, <1>3
    <3>2. e - 1 = j + pnum[j] - 1
      BY <2>1, <3>1
    <3>3. QED BY <1>5, <3>2, Zenon
  <2>4. QED BY <2>1, <2>2, <2>3 DEF Start
<1>7. QED BY <1>1, <1>3, <1>6

LEMMA NextGroups ==
  ASSUME Grouping, stage = "send", j < nb_rx, NextGroup
  PROVE  Grouping'
<1>1. /\ stage' = "send" /\ dst' = dst /\ pnum' = pnum /\ lp' = lp /\ nb_rx' = nb_rx
      /\ j' = j + pnum[j]
  BY DEF NextGroup, nb_rx
<1>2. /\ j \in Nat /\ nb_rx \in 1 .. MaxBurst /\ pnum[j] \in 1 .. nb_rx - j
      /\ j + pnum[j] < nb_rx => Start(j + pnum[j])
  BY GroupAt
<1>3. j' \in 0 .. MaxBurst /\ j' <= nb_rx
  BY <1>1, <1>2, Params
<1>4. (j < nb_rx => Start(j))'
  <2>1. j' < nb_rx' => Start(j')
    BY <1>1, <1>2
  <2>2. QED BY <1>1, <2>1 DEF Start
<1>5. RunsUpTo(pnum, nb_rx)'
  <2>1. PICK c : c = nb_rx
    OBVIOUS
  <2>2. RunsUpTo(pnum, c)'
    BY <1>1, <2>1, SameBurst DEF Grouping, Groups
  <2>3. c = nb_rx'
    BY <1>1, <2>1
  <2>4. QED BY <2>2, <2>3
<1>6. Burst'
  BY <1>1, <1>2, <1>3 DEF Grouping, Burst
<1>7. Groups'
  BY <1>1, <1>3, <1>4, <1>5 DEF Groups
<1>8. QED BY <1>6, <1>7 DEF Grouping

LEMMA SentGroups ==
  ASSUME Sent
  PROVE  Grouping'
<1>1. /\ stage' = "idle" /\ dst' = Idle /\ j' = 0 /\ lp' = -1
      /\ pnum' = [k \in 0 .. MaxBurst |-> 0]
  BY DEF Sent
<1>2. nb_rx' = 0
  BY <1>1, FS_EmptySet DEF nb_rx, Idle
<1>3. 0 .. 0 - 1 = {}
  OBVIOUS
<1>4. dst' \in [0 .. 0 - 1 -> Port \cup {BadPort}]
  BY <1>1, <1>3 DEF Idle
<1>5. Burst'
  BY <1>1, <1>2, <1>4, Params DEF Burst
<1>6. Groups'
  BY <1>1 DEF Groups
<1>7. QED BY <1>5, <1>6 DEF Grouping

LEMMA GroupingNext == Grouping /\ [Next]_vars => Grouping'
<1>1. SUFFICES ASSUME Grouping, [Next]_vars PROVE Grouping'
  OBVIOUS
<1>2. CASE \E n \in 1 .. MaxBurst : \E d \in [0 .. n - 1 -> Port \cup {BadPort}] : Receive(n, d)
  BY <1>1, <1>2, ReceiveGroups
<1>3. CASE GroupQuad
  BY <1>1, <1>3, QuadGroups
<1>4. CASE GroupLast
  BY <1>1, <1>4, LastGroups
<1>5. CASE GroupStep
  BY <1>1, <1>5, StepGroups
<1>6. CASE StartSending
  BY <1>1, <1>6, StartGroups
<1>7. CASE \E ret \in 0 .. MaxBurst : SendGroup(ret)
  BY <1>1, <1>7, NextGroups DEF SendGroup
<1>8. CASE FreeGroup
  BY <1>1, <1>8, NextGroups DEF FreeGroup
<1>9. CASE Sent
  BY <1>9, SentGroups
<1>10. ASSUME UNCHANGED <<stage, dst, pnum, lp, j>> PROVE Grouping'
  BY <1>1, <1>10 DEF Grouping, Burst, Groups, nb_rx, Whole, Counted, RunsUpTo, RunAt, Start
<1>11. CASE \E ret \in 0 .. MaxBurst : \E p \in Port : Drain(p, ret)
  BY <1>10, <1>11 DEF Drain
<1>12. CASE UNCHANGED vars
  BY <1>10, <1>12 DEF vars
<1>13. QED
  BY <1>1, <1>2, <1>3, <1>4, <1>5, <1>6, <1>7, <1>8, <1>9, <1>11, <1>12 DEF Next

\* Whatever the ports of a burst and whatever its length, the groups that
\* send_packets_multi sends are the runs of packets with one port (GroupsAreRuns).
THEOREM GroupsFound == Spec => []GroupsAreRuns
<1>1. Grouping => GroupsAreRuns
  <2>1. ASSUME Grouping, stage = "send", j < nb_rx PROVE GroupsAreRuns
    BY <2>1, GroupAt DEF GroupsAreRuns, Start
  <2>2. QED BY <2>1 DEF GroupsAreRuns
<1>2. QED BY <1>1, GroupingInit, GroupingNext, PTL DEF Spec

(***************************************************************************)
(* What is sent.                                                           *)
(***************************************************************************)

\* What the NIC does not take is freed: either way the packets leave.
LEMMA TransmitAll ==
  ASSUME NEW s \in Seq(Packets), NEW ret \in Nat, Transmit(s, ret)
  PROVE  Leave(s)
<1>1. ret \in 0 .. Len(s) /\ Len(s) \in Nat
  BY LenProperties DEF Transmit
<1>2. 1 \in 1 .. Len(s) + 1 /\ ret \in 1 - 1 .. Len(s) /\ Len(s) \in ret .. Len(s)
  BY <1>1
<1>3. SubSeq(s, 1, ret) \o SubSeq(s, ret + 1, Len(s)) = SubSeq(s, 1, Len(s))
  BY <1>2, ConcatAdjacentSubSeq
<1>4. SubSeq(s, 1, Len(s)) = s
  BY SubSeqFull
<1>5. QED BY <1>3, <1>4 DEF Transmit

\* Packets that differ leave once each.
LEMMA LeaveOnce ==
  ASSUME NEW s, Leave(s), left \in [DOMAIN left -> Nat],
         \A a, b \in DOMAIN s : s[a] = s[b] => a = b
  PROVE  /\ DOMAIN left' = DOMAIN left
         /\ \A m \in DOMAIN left :
              left'[m] = IF m \in Elems(s) THEN left[m] + 1 ELSE left[m]
<1>1. left' = [m \in DOMAIN left |->
                 left[m] + Cardinality({k \in DOMAIN s : s[k] = m})]
  BY DEF Leave
<1>2. ASSUME NEW m \in DOMAIN left
      PROVE  left'[m] = IF m \in Elems(s) THEN left[m] + 1 ELSE left[m]
  <2>1. left'[m] = left[m] + Cardinality({k \in DOMAIN s : s[k] = m})
    BY <1>1
  <2>2. CASE m \in Elems(s)
    <3>1. PICK k \in DOMAIN s : s[k] = m
      BY <2>2 DEF Elems
    <3>2. {i \in DOMAIN s : s[i] = m} = {k}
      BY <3>1
    <3>3. Cardinality({k}) = 1
      BY FS_Singleton
    <3>4. QED BY <2>1, <2>2, <3>2, <3>3
  <2>3. CASE m \notin Elems(s)
    <3>1. {i \in DOMAIN s : s[i] = m} = {}
      BY <2>3 DEF Elems
    <3>2. Cardinality({}) = 0
      BY FS_EmptySet
    <3>3. left[m] \in Nat
      OBVIOUS
    <3>4. left'[m] = left[m] + 0
      BY <2>1, <3>1, <3>2
    <3>5. QED BY <2>3, <3>3, <3>4
  <2>4. QED BY <2>2, <2>3
<1>3. QED BY <1>1, <1>2

\* Packets move from the buffers and the burst to where they are now (B1, U1),
\* or leave (gone), and none overtakes another one for its port.
MovesTo(gone, B1, U1) ==
  /\ gone \subseteq Buffered \cup Untaken /\ B1 \subseteq Buffered \cup Untaken
  /\ U1 \subseteq Untaken /\ Buffered \cup Untaken \subseteq gone \cup B1 \cup U1
  /\ \A m \in gone, n \in B1 \cup U1 : m # n /\ (m[1] = n[1] => m[2] < n[2])
  /\ \A m \in B1, n \in U1 : m[1] = n[1] => m[2] < n[2]

Lost(gone) ==
  /\ DOMAIN left' = DOMAIN left
  /\ \A m \in DOMAIN left : left'[m] = IF m \in gone THEN left[m] + 1 ELSE left[m]

Lines == \A p \in Port : \A a, b \in DOMAIN tx[p] :
           tx[p][a][1] = p /\ (a < b => tx[p][a][2] < tx[p][b][2])

LEMMA Moves ==
  ASSUME SentOnceInOrder, Known,
         NEW gone, NEW B1, NEW U1, B1 = Buffered', U1 = Untaken',
         Lost(gone), MovesTo(gone, B1, U1), Lines'
  PROVE  SentOnceInOrder'
<1>1. /\ gone \subseteq Buffered \cup Untaken /\ B1 \subseteq Buffered \cup Untaken
      /\ U1 \subseteq Untaken /\ Buffered \cup Untaken \subseteq gone \cup B1 \cup U1
      /\ DOMAIN left' = DOMAIN left
  BY DEF MovesTo, Lost
<1>2. \A m \in gone, n \in B1 \cup U1 : m # n /\ (m[1] = n[1] => m[2] < n[2])
  BY DEF MovesTo
<1>3. \A m \in B1, n \in U1 : m[1] = n[1] => m[2] < n[2]
  BY DEF MovesTo
<1>4. \A m \in DOMAIN left : left'[m] = IF m \in gone THEN left[m] + 1 ELSE left[m]
  BY DEF Lost
<1>5. PICK B, U, D : B = Buffered /\ U = Untaken /\ D = DOMAIN left
  OBVIOUS
<1>6. B \subseteq D /\ U \subseteq D
  BY <1>5 DEF SentOnceInOrder, Untaken
<1>7. \A m \in D : left[m] = IF m \in B \cup U THEN 0 ELSE 1
  BY <1>5 DEF SentOnceInOrder
<1>8. \A m, n \in D : m[1] = n[1] /\ left[m] = 1 /\ left[n] = 0 => m[2] < n[2]
  BY <1>5 DEF SentOnceInOrder
<1>9. B1 \subseteq D /\ U1 \subseteq D /\ gone \subseteq D
  BY <1>5, <1>6, <1>1
<1>10. ASSUME NEW m \in D PROVE left'[m] = IF m \in B1 \cup U1 THEN 0 ELSE 1
  <2>1. left[m] = IF m \in B \cup U THEN 0 ELSE 1
    BY <1>7
  <2>2. left'[m] = IF m \in gone THEN left[m] + 1 ELSE left[m]
    BY <1>5, <1>4
  <2>3. m \in gone => m \in B \cup U /\ m \notin B1 \cup U1
    BY <1>5, <1>1, <1>2
  <2>4. m \notin gone => (m \in B \cup U <=> m \in B1 \cup U1)
    BY <1>5, <1>1
  <2>5. CASE m \in gone
    BY <2>1, <2>2, <2>3, <2>5
  <2>6. CASE m \notin gone
    BY <2>1, <2>2, <2>4, <2>6
  <2>7. QED BY <2>5, <2>6
<1>11. ASSUME NEW m \in D, NEW n \in D, m[1] = n[1], left'[m] = 1, left'[n] = 0
      PROVE  m[2] < n[2]
  <2>1. m \notin B1 \cup U1 /\ n \in B1 \cup U1
    BY <1>10, <1>11
  <2>2. CASE m \in gone
    BY <1>2, <1>11, <2>1, <2>2
  <2>3. CASE m \notin gone
    <3>1. m \notin B \cup U /\ n \in B \cup U
      BY <1>5, <1>1, <2>1, <2>3
    <3>2. left[m] = 1 /\ left[n] = 0
      BY <1>7, <3>1
    <3>3. QED BY <1>8, <1>11, <3>2
  <2>4. QED BY <2>2, <2>3
<1>12. /\ Buffered' \subseteq DOMAIN left'
      /\ \A m \in Buffered', n \in Untaken' : m[1] = n[1] => m[2] < n[2]
  BY <1>5, <1>9, <1>1, <1>3
<1>13. /\ \A m \in DOMAIN left' : left'[m] = IF m \in Buffered' \cup Untaken' THEN 0 ELSE 1
      /\ \A m, n \in DOMAIN left' : m[1] = n[1] /\ left'[m] = 1 /\ left'[n] = 0 => m[2] < n[2]
  BY <1>5, <1>10, <1>11, <1>1
<1>14. QED BY <1>12, <1>13 DEF SentOnceInOrder, Lines

LEMMA LeaveNone ==
  ASSUME left' = left, left \in [DOMAIN left -> Nat]
  PROVE  Leave(<<>>)
<1>1. ASSUME NEW m \in DOMAIN left
      PROVE  left[m] + Cardinality({k \in DOMAIN <<>> : <<>>[k] = m}) = left[m]
  <2>1. {k \in DOMAIN <<>> : <<>>[k] = m} = {}
    OBVIOUS
  <2>2. Cardinality({}) = 0
    BY FS_EmptySet
  <2>3. left[m] \in Nat
    OBVIOUS
  <2>4. left[m] + 0 = left[m]
    BY <2>3
  <2>5. QED BY <2>1, <2>2, <2>4
<1>2. left = [m \in DOMAIN left |-> left[m]]
  OBVIOUS
<1>3. QED BY <1>1, <1>2 DEF Leave

\* A row of packets for p in the order they came.
Line(s, p) ==
  /\ s \in Seq(Packets)
  /\ \A a, b \in 1 .. Len(s) : s[a][1] = p /\ (a < b => s[a][2] < s[b][2])

\* The first x packets of s leave, T, and the others wait for port p, R.
Splits(s, p, x, T, R) ==
  /\ x \in 0 .. Len(s)
  /\ T \in Seq(Packets) /\ Len(T) = x /\ \A k \in 1 .. x : T[k] = s[k]
  /\ R \in Seq(Packets) /\ Len(R) = Len(s) - x /\ \A k \in 1 .. Len(s) - x : R[k] = s[x + k]
  /\ Leave(T) /\ tx' = [tx EXCEPT ![p] = R]

\* When the line s is what waited for port p and what the burst now gives, none
\* is lost, none sent twice and none overtaken.
LEMMA Shift ==
  ASSUME SentOnceInOrder, Known, tx \in [Port -> Seq(Packets)],
         NEW p \in Port, NEW s, Line(s, p),
         NEW x, NEW T, NEW R, Splits(s, p, x, T, R),
         NEW U1, U1 = Untaken', U1 \subseteq Untaken,
         Elems(s) = Elems(tx[p]) \cup (Untaken \ U1),
         \A m \in Elems(s), n \in U1 : m[1] = n[1] => m[2] < n[2]
  PROVE  /\ SentOnceInOrder'
         /\ DOMAIN left' = DOMAIN left /\ left' \in [DOMAIN left -> Nat]
<1>1. /\ x \in 0 .. Len(s)
      /\ T \in Seq(Packets) /\ Len(T) = x /\ \A k \in 1 .. x : T[k] = s[k]
      /\ R \in Seq(Packets) /\ Len(R) = Len(s) - x
      /\ \A k \in 1 .. Len(s) - x : R[k] = s[x + k]
      /\ Leave(T) /\ tx' = [tx EXCEPT ![p] = R]
  BY DEF Splits
<1>2. /\ Len(s) \in Nat /\ x \in Nat /\ x <= Len(s)
      /\ DOMAIN s = 1 .. Len(s) /\ DOMAIN T = 1 .. x /\ DOMAIN R = 1 .. Len(s) - x
  BY <1>1, LenProperties DEF Line
<1>3. \A a \in 1 .. Len(s) : s[a] \in Packets /\ s[a][1] = p /\ s[a][2] \in Int
  BY ElementOfSeq DEF Line, Packets
<1>4. \A a, b \in 1 .. Len(s) : a < b => s[a][2] < s[b][2]
  BY DEF Line
<1>5. \A k \in 1 .. x : k \in 1 .. Len(s)
  BY <1>2
<1>6. \A k \in 1 .. Len(s) - x : x + k \in 1 .. Len(s) /\ x + k > x
  BY <1>2
<1>7. \A a, b \in DOMAIN T : T[a] = T[b] => a = b
  <2>1. SUFFICES ASSUME NEW a \in 1 .. x, NEW b \in 1 .. x, s[a] = s[b] PROVE a = b
    BY <1>1, <1>2
  <2>2. a \in 1 .. Len(s) /\ b \in 1 .. Len(s) /\ a \in Int /\ b \in Int
    BY <1>2
  <2>3. s[a][2] = s[b][2] /\ s[a][2] \in Int
    BY <1>3, <2>1, <2>2
  <2>4. ~ (s[a][2] < s[b][2]) /\ ~ (s[b][2] < s[a][2])
    BY <2>3
  <2>5. ~ (a < b) /\ ~ (b < a)
    BY <1>4, <2>2, <2>4
  <2>6. QED BY <2>2, <2>5
<1>8. left \in [DOMAIN left -> Nat]
  BY DEF Known
<1>9. /\ DOMAIN left' = DOMAIN left
      /\ \A m \in DOMAIN left : left'[m] = IF m \in Elems(T) THEN left[m] + 1 ELSE left[m]
  BY <1>1, <1>7, <1>8, LeaveOnce
<1>10. left' \in [DOMAIN left -> Nat]
  <2>1. \A m \in DOMAIN left : left'[m] \in Nat
    BY <1>8, <1>9
  <2>2. left' = [m \in DOMAIN left |-> left'[m]]
    BY <1>1, <1>9 DEF Leave
  <2>3. QED BY <2>1, <2>2
<1>11. ASSUME NEW m, m \in Elems(s) PROVE m \in Elems(T) \/ m \in Elems(R)
  <2>1. PICK a \in 1 .. Len(s) : s[a] = m
    BY <1>2, <1>11 DEF Elems
  <2>2. CASE a <= x
    <3>1. a \in DOMAIN T /\ T[a] = m
      BY <1>1, <1>2, <2>1, <2>2
    <3>2. QED BY <3>1 DEF Elems
  <2>3. CASE a > x
    <3>1. a - x \in 1 .. Len(s) - x /\ x + (a - x) = a
      BY <1>2, <2>3
    <3>2. a - x \in DOMAIN R /\ R[a - x] = m
      BY <1>1, <1>2, <2>1, <3>1
    <3>3. QED BY <3>2 DEF Elems
  <2>4. QED BY <1>2, <2>2, <2>3
<1>12. ASSUME NEW m, m \in Elems(T)
       PROVE  \E a \in 1 .. Len(s) : a <= x /\ s[a] = m
  <2>1. PICK a \in 1 .. x : T[a] = m
    BY <1>2, <1>12 DEF Elems
  <2>2. QED BY <1>1, <1>2, <2>1
<1>13. ASSUME NEW m, m \in Elems(R)
       PROVE  \E a \in 1 .. Len(s) : a > x /\ s[a] = m
  <2>1. PICK a \in 1 .. Len(s) - x : R[a] = m
    BY <1>2, <1>13 DEF Elems
  <2>2. QED BY <1>1, <1>6, <2>1
<1>14. ASSUME NEW m, m \in Elems(T) \/ m \in Elems(R)
       PROVE  m \in Elems(s) /\ m[1] = p /\ m[2] \in Int
  <2>1. PICK a \in 1 .. Len(s) : s[a] = m
    BY <1>12, <1>13, <1>14
  <2>2. QED BY <1>2, <1>3, <2>1 DEF Elems
<1>15. ASSUME NEW m, m \in Elems(T), NEW n, n \in Elems(R) PROVE m[2] < n[2] /\ m # n
  <2>1. PICK a \in 1 .. Len(s) : a <= x /\ s[a] = m
    BY <1>12, <1>15
  <2>2. PICK b \in 1 .. Len(s) : b > x /\ s[b] = n
    BY <1>13, <1>15
  <2>3. a < b
    BY <1>2, <2>1, <2>2
  <2>4. m[2] < n[2] /\ m[2] \in Int
    BY <1>3, <1>4, <2>1, <2>2, <2>3
  <2>5. m = n => ~ (m[2] < n[2])
    BY <2>4
  <2>6. QED BY <2>4, <2>5
<1>16. /\ \A q \in Port : q # p => tx'[q] = tx[q]
       /\ tx'[p] = R
  BY <1>1
<1>17. PICK B1 : B1 = Buffered'
  OBVIOUS
<1>18. \A m : m \in B1 <=> \E q \in Port : m \in Elems(tx'[q])
  BY <1>17 DEF Buffered, Elems
<1>19. ASSUME NEW m
       PROVE  /\ m \in B1 <=> m \in Elems(R) \/ \E q \in Port : q # p /\ m \in Elems(tx[q])
              /\ m \in Buffered <=> m \in Elems(tx[p]) \/ \E q \in Port : q # p /\ m \in Elems(tx[q])
  <2>1. m \in Buffered <=> \E q \in Port : m \in Elems(tx[q])
    BY DEF Buffered
  <2>2. QED BY <1>16, <1>18, <2>1
<1>20. \A q \in Port : \A m \in Elems(tx[q]) : m[1] = q
  BY DEF Elems, SentOnceInOrder
<1>21. Elems(T) \subseteq Buffered \cup Untaken /\ B1 \subseteq Buffered \cup Untaken
  BY <1>14, <1>19
<1>22. Buffered \cup Untaken \subseteq Elems(T) \cup B1 \cup U1
  BY <1>11, <1>19
<1>23. ASSUME NEW m, m \in Elems(T), NEW n, n \in B1 \cup U1
       PROVE  m # n /\ (m[1] = n[1] => m[2] < n[2])
  <2>1. m \in Elems(s) /\ m[1] = p /\ m[2] \in Int
    BY <1>14, <1>23
  <2>2. CASE n \in Elems(R)
    BY <1>15, <1>23, <2>2
  <2>3. ASSUME NEW q \in Port, q # p, n \in Elems(tx[q]) PROVE n[1] # p
    BY <1>20, <2>3
  <2>4. CASE n \in U1
    <3>1. m[1] = n[1] => m[2] < n[2]
      BY <2>1, <2>4
    <3>2. m = n => FALSE
      BY <2>1, <3>1
    <3>3. QED BY <3>1, <3>2
  <2>5. CASE \E q \in Port : q # p /\ n \in Elems(tx[q])
    BY <2>1, <2>3, <2>5
  <2>6. QED BY <1>19, <1>23, <2>2, <2>4, <2>5
<1>24. ASSUME NEW m, m \in B1, NEW n, n \in U1, m[1] = n[1] PROVE m[2] < n[2]
  <2>1. CASE m \in Elems(R)
    BY <1>14, <1>24, <2>1
  <2>2. CASE m \in Buffered
    BY <1>24, <2>2 DEF SentOnceInOrder
  <2>3. QED BY <1>19, <1>24, <2>1, <2>2
<1>25. ASSUME NEW q \in Port, NEW a \in DOMAIN tx'[q], NEW b \in DOMAIN tx'[q]
       PROVE  tx'[q][a][1] = q /\ (a < b => tx'[q][a][2] < tx'[q][b][2])
  <2>1. CASE q = p
    <3>1. a \in 1 .. Len(s) - x /\ b \in 1 .. Len(s) - x /\ a \in Int /\ b \in Int
      BY <1>2, <1>16, <1>25, <2>1
    <3>2. R[a] = s[x + a] /\ R[b] = s[x + b]
      BY <1>1, <3>1
    <3>3. x + a \in 1 .. Len(s) /\ x + b \in 1 .. Len(s) /\ (a < b => x + a < x + b)
      BY <1>2, <3>1
    <3>4. s[x + a][1] = p /\ (x + a < x + b => s[x + a][2] < s[x + b][2])
      BY <1>3, <1>4, <3>3
    <3>5. QED BY <1>16, <2>1, <3>2, <3>3, <3>4
  <2>2. CASE q # p
    BY <1>16, <1>25, <2>2 DEF SentOnceInOrder
  <2>3. QED BY <2>1, <2>2
<1>26. SentOnceInOrder'
  <2>1. MovesTo(Elems(T), B1, U1)
    BY <1>21, <1>22, <1>23, <1>24 DEF MovesTo
  <2>2. Lost(Elems(T))
    BY <1>9 DEF Lost
  <2>3. Lines'
    BY <1>25 DEF Lines
  <2>4. QED BY <1>17, <2>1, <2>2, <2>3, Moves
<1>27. QED BY <1>9, <1>10, <1>26

\* The packets of the group that is next.
LEMMA GroupPackets ==
  ASSUME Grouping, stage = "send", j < nb_rx
  PROVE  /\ pnum[j] \in 1 .. MaxBurst /\ j \in Nat
         /\ dst[j] \in Port \cup {BadPort}
         /\ Group \in Seq(Packets) /\ Len(Group) = pnum[j]
         /\ \A k \in 1 .. pnum[j] : Group[k] = <<dst[j], j + k - 1>>
<1>1. /\ j \in Nat /\ nb_rx \in 1 .. MaxBurst /\ pnum[j] \in 1 .. nb_rx - j
      /\ \A k \in j .. j + pnum[j] - 1 : dst[k] = dst[j]
  BY GroupAt
<1>2. pnum[j] \in 1 .. MaxBurst /\ j \in 0 .. nb_rx - 1
  BY <1>1, Params
<1>3. dst[j] \in Port \cup {BadPort}
  BY <1>2 DEF Grouping, Burst
<1>4. ASSUME NEW k \in 1 .. pnum[j]
      PROVE  Packet(j + k - 1) = <<dst[j], j + k - 1>> /\ <<dst[j], j + k - 1>> \in Packets
  <2>1. j + k - 1 \in j .. j + pnum[j] - 1 /\ j + k - 1 \in Int
    BY <1>1
  <2>2. dst[j + k - 1] = dst[j]
    BY <1>1, <2>1
  <2>3. QED BY <1>3, <2>1, <2>2 DEF Packet, Packets
<1>5. PICK num, first, to : num = pnum[j] /\ first = j /\ to = dst[j]
  OBVIOUS
<1>6. Group = [k \in 1 .. num |-> <<to, first + k - 1>>]
  BY <1>4, <1>5 DEF Group
<1>7. num \in Nat /\ \A k \in 1 .. num : <<to, first + k - 1>> \in Packets
  BY <1>2, <1>4, <1>5
<1>8. [k \in 1 .. num |-> <<to, first + k - 1>>] \in Seq(Packets)
  BY <1>7
<1>9. Len(Group) = num
  BY <1>6, <1>7
<1>10. \A k \in 1 .. num : Group[k] = <<to, first + k - 1>>
  BY <1>6
<1>11. QED BY <1>1, <1>2, <1>3, <1>5, <1>6, <1>8, <1>9, <1>10

\* The group takes what comes first of the packets that are still to come.
LEMMA GroupTakes ==
  ASSUME Grouping, Known, stage = "send", j < nb_rx,
         stage' = "send", j' = j + pnum[j], DOMAIN left' = DOMAIN left
  PROVE  /\ Untaken' \subseteq Untaken /\ Elems(Group) = Untaken \ Untaken'
         /\ \A m \in Elems(Group) : m[1] = dst[j] /\ m[2] \in Int /\ j <= m[2] /\ m[2] < j'
         /\ \A n \in Untaken' : n[2] \in Int /\ j' <= n[2]
<1>1. /\ pnum[j] \in 1 .. MaxBurst /\ j \in Nat /\ j' \in Nat /\ j < j'
      /\ Group \in Seq(Packets) /\ Len(Group) = pnum[j]
      /\ \A k \in 1 .. pnum[j] : Group[k] = <<dst[j], j + k - 1>>
  BY GroupPackets
<1>2. DOMAIN Group = 1 .. pnum[j]
  BY DEF Group
<1>3. /\ nb_rx \in Nat /\ pnum[j] \in 1 .. nb_rx - j
      /\ \A k \in j .. j + pnum[j] - 1 : dst[k] = dst[j]
  BY GroupAt
<1>4. \A m \in DOMAIN left : m \in Packets /\ (m[2] >= 0 => m[2] < nb_rx /\ m = Packet(m[2]))
  BY DEF Known
<1>5. \A k \in 0 .. nb_rx - 1 : Packet(k) \in DOMAIN left
  BY DEF Known
<1>6. /\ \A m : m \in Untaken <=> m \in DOMAIN left /\ m[2] >= 0 /\ m[2] >= j
      /\ \A m : m \in Untaken' <=> m \in DOMAIN left /\ m[2] >= 0 /\ m[2] >= j'
  BY DEF Untaken
<1>7. \A m \in DOMAIN left : m[2] \in Int
  BY <1>4 DEF Packets
<1>8. ASSUME NEW m, m \in Elems(Group)
      PROVE  /\ m[1] = dst[j] /\ m[2] \in Int /\ j <= m[2] /\ m[2] < j'
             /\ m \in DOMAIN left
  <2>1. PICK k \in 1 .. pnum[j] : m = Group[k]
    BY <1>2, <1>8 DEF Elems
  <2>2. PICK i : i = j + k - 1
    OBVIOUS
  <2>3. i \in j .. j + pnum[j] - 1 /\ i \in 0 .. nb_rx - 1 /\ i < j' /\ i \in Int
    BY <1>1, <1>3, <2>2
  <2>4. m = <<dst[j], i>> /\ dst[i] = dst[j]
    BY <1>1, <1>3, <2>1, <2>2, <2>3
  <2>5. m \in DOMAIN left
    BY <1>5, <2>3, <2>4 DEF Packet
  <2>6. QED BY <2>3, <2>4, <2>5
<1>9. ASSUME NEW m, m \in Untaken, m \notin Untaken' PROVE m \in Elems(Group)
  <2>1. m \in DOMAIN left /\ m[2] \in Int /\ m[2] >= j /\ m[2] < j' /\ m = Packet(m[2])
    BY <1>1, <1>4, <1>6, <1>7, <1>9
  <2>2. PICK i : i = m[2]
    OBVIOUS
  <2>3. i \in j .. j + pnum[j] - 1 /\ i - j + 1 \in 1 .. pnum[j]
    BY <1>1, <2>1, <2>2, SMTT(20)
  <2>4. m = <<dst[j], i>>
    BY <1>3, <2>1, <2>2, <2>3 DEF Packet
  <2>5. Group[i - j + 1] = <<dst[j], j + (i - j + 1) - 1>> /\ j + (i - j + 1) - 1 = i
    <3>1. PICK k : k = i - j + 1
      OBVIOUS
    <3>2. k \in 1 .. pnum[j] /\ j + k - 1 = i
      BY <1>1, <2>1, <2>2, <2>3, <3>1
    <3>3. Group[k] = <<dst[j], j + k - 1>>
      BY <1>1, <3>2
    <3>4. QED BY <3>1, <3>2, <3>3
  <2>6. QED BY <1>2, <2>3, <2>4, <2>5 DEF Elems
<1>10. Untaken' \subseteq Untaken
  BY <1>1, <1>6, <1>7
<1>11. \A m \in Elems(Group) : m \in Untaken /\ m \notin Untaken'
  BY <1>1, <1>6, <1>8
<1>12. \A n \in Untaken' : n[2] \in Int /\ j' <= n[2]
  BY <1>1, <1>6, <1>7
<1>13. QED BY <1>8, <1>9, <1>10, <1>11, <1>12

Waits(p) == tx[p] \o Group

LEMMA WaitsInLine ==
  ASSUME Grouping, Buffers, Lines, stage = "send", j < nb_rx, NEW p \in Port, p = dst[j]
  PROVE  /\ Line(Waits(p), p) /\ Len(Waits(p)) = Len(tx[p]) + pnum[j]
         /\ Elems(Waits(p)) = Elems(tx[p]) \cup Elems(Group)
<1>1. /\ pnum[j] \in 1 .. MaxBurst /\ j \in Nat
      /\ Group \in Seq(Packets) /\ Len(Group) = pnum[j]
      /\ \A k \in 1 .. pnum[j] : Group[k] = <<dst[j], j + k - 1>>
  BY GroupPackets
<1>2. PICK t, g, s, l, num :
        t = tx[p] /\ g = Group /\ s = Waits(p) /\ l = Len(tx[p]) /\ num = pnum[j]
  OBVIOUS
<1>3. /\ t \in Seq(Packets) /\ l = Len(t) /\ l \in Nat /\ DOMAIN t = 1 .. l
      /\ g \in Seq(Packets) /\ num = Len(g) /\ num \in Nat /\ DOMAIN g = 1 .. num
  BY <1>1, <1>2, LenProperties DEF Buffers
<1>4. /\ s \in Seq(Packets) /\ Len(s) = l + num /\ DOMAIN s = 1 .. l + num
      /\ \A i \in 1 .. l + num : s[i] = IF i <= l THEN t[i] ELSE g[i - l]
  <2>1. s = t \o g
    BY <1>2 DEF Waits
  <2>2. QED BY <1>3, <2>1, ConcatProperties, LenProperties
<1>5. \A i \in 1 .. l : t[i][1] = p /\ t[i][2] \in Int /\ t[i][2] < j
  <2>1. \A m \in Elems(tx[p]) : m[2] < j
    BY DEF Buffers, Taken
  <2>2. \A i \in DOMAIN t : t[i] \in Elems(tx[p]) /\ t[i] \in Packets
    BY <1>2, <1>3, ElementOfSeq DEF Elems
  <2>3. \A i \in DOMAIN t : t[i][1] = p
    BY <1>2 DEF Lines
  <2>4. QED BY <1>3, <2>1, <2>2, <2>3 DEF Packets
<1>6. \A i \in 1 .. num : g[i] = <<p, j + i - 1>>
  BY <1>1, <1>2
<1>7. ASSUME NEW a \in 1 .. l + num, NEW b \in 1 .. l + num
      PROVE  s[a][1] = p /\ (a < b => s[a][2] < s[b][2])
  <2>1. CASE a <= l /\ b <= l
    <3>1. a \in DOMAIN t /\ b \in DOMAIN t /\ s[a] = t[a] /\ s[b] = t[b]
      BY <1>3, <1>4, <2>1
    <3>2. QED BY <1>2, <3>1 DEF Lines
  <2>2. CASE a <= l /\ b > l
    <3>1. a \in 1 .. l /\ b - l \in 1 .. num
      BY <1>3, <2>2
    <3>2. s[a] = t[a] /\ s[b] = g[b - l]
      BY <1>3, <1>4, <2>2
    <3>3. s[b] = <<p, j + (b - l) - 1>>
      BY <1>6, <3>1, <3>2
    <3>4. s[b][2] \in Int /\ s[b][2] >= j
      BY <1>1, <1>3, <3>1, <3>3
    <3>5. s[a][1] = p /\ s[a][2] \in Int /\ s[a][2] < j
      BY <1>5, <3>1, <3>2
    <3>6. QED BY <1>1, <3>4, <3>5
  <2>3. CASE a > l
    <3>1. a - l \in 1 .. num /\ s[a] = g[a - l]
      BY <1>3, <1>4, <2>3
    <3>2. s[a] = <<p, j + (a - l) - 1>>
      BY <1>6, <3>1
    <3>3. ASSUME a < b PROVE s[a][2] < s[b][2]
      <4>1. b - l \in 1 .. num /\ s[b] = g[b - l]
        BY <1>3, <1>4, <2>3, <3>3
      <4>2. s[b] = <<p, j + (b - l) - 1>>
        BY <1>6, <4>1
      <4>3. s[a][2] = j + (a - l) - 1 /\ s[b][2] = j + (b - l) - 1
        BY <3>2, <4>2
      <4>4. j + (a - l) - 1 < j + (b - l) - 1
        BY <1>1, <1>3, <3>3
      <4>5. QED BY <4>3, <4>4
    <3>4. s[a][1] = p
      BY <3>2
    <3>5. QED BY <3>3, <3>4
  <2>4. QED BY <1>3, <2>1, <2>2, <2>3
<1>8. Line(s, p)
  BY <1>4, <1>7 DEF Line
<1>9. ASSUME NEW m PROVE m \in Elems(s) <=> m \in Elems(t) \/ m \in Elems(g)
  <2>1. ASSUME m \in Elems(s) PROVE m \in Elems(t) \/ m \in Elems(g)
    <3>1. PICK i \in 1 .. l + num : m = s[i]
      BY <1>4, <2>1 DEF Elems
    <3>2. CASE i <= l
      <4>1. i \in DOMAIN t /\ m = t[i]
        BY <1>3, <1>4, <3>1, <3>2
      <4>2. QED BY <4>1 DEF Elems
    <3>3. CASE i > l
      <4>1. i - l \in DOMAIN g /\ m = g[i - l]
        BY <1>3, <1>4, <3>1, <3>3
      <4>2. QED BY <4>1 DEF Elems
    <3>4. QED BY <1>3, <3>2, <3>3
  <2>2. ASSUME m \in Elems(t) PROVE m \in Elems(s)
    <3>1. PICK i \in 1 .. l : m = t[i]
      BY <1>3, <2>2 DEF Elems
    <3>2. i \in DOMAIN s /\ m = s[i]
      BY <1>3, <1>4, <3>1
    <3>3. QED BY <3>2 DEF Elems
  <2>3. ASSUME m \in Elems(g) PROVE m \in Elems(s)
    <3>1. PICK i \in 1 .. num : m = g[i]
      BY <1>3, <2>3 DEF Elems
    <3>2. i + l \in 1 .. l + num /\ ~ (i + l <= l) /\ (i + l) - l = i
      BY <1>3, <3>1
    <3>3. i + l \in DOMAIN s /\ m = s[i + l]
      BY <1>4, <3>1, <3>2
    <3>4. QED BY <3>3 DEF Elems
  <2>4. QED BY <2>1, <2>2, <2>3
<1>10. Elems(s) = Elems(t) \cup Elems(g)
  BY <1>9
<1>11. QED BY <1>2, <1>4, <1>8, <1>10

\* Straight to the NIC, through the full buffer or into the buffer: in all of
\* them the first packets of the line leave, and what is left fits.
LEMMA SendSplits ==
  ASSUME Grouping, Buffers, left \in [DOMAIN left -> Nat], stage = "send", j < nb_rx,
         NEW p \in Port, p = dst[j], NEW ret \in Nat, SendPackets(p, ret)
  PROVE  \E x, T, R : Splits(Waits(p), p, x, T, R) /\ Len(R) < MaxBurst
<1>1. pnum[j] \in 1 .. MaxBurst /\ Group \in Seq(Packets) /\ Len(Group) = pnum[j]
  BY GroupPackets
<1>2. PICK t, g, s, l, num, n :
        /\ t = tx[p] /\ g = Group /\ s = Waits(p) /\ l = Len(tx[p]) /\ num = Len(Group)
        /\ n = IF l + num > MaxBurst THEN MaxBurst - l ELSE num
  OBVIOUS
<1>3. /\ t \in Seq(Packets) /\ l = Len(t) /\ l \in Nat /\ DOMAIN t = 1 .. l /\ l < MaxBurst
      /\ g \in Seq(Packets) /\ num = Len(g) /\ num \in Nat /\ DOMAIN g = 1 .. num
      /\ num <= MaxBurst /\ MaxBurst \in Nat /\ MaxBurst >= 4 /\ num > 0
  BY <1>1, <1>2, LenProperties, Params DEF Buffers
<1>4. n \in 1 .. num /\ n \in Int /\ num - n < MaxBurst
  BY <1>2, <1>3
<1>5. /\ s \in Seq(Packets) /\ Len(s) = l + num /\ DOMAIN s = 1 .. l + num
      /\ \A i \in 1 .. l + num : s[i] = IF i <= l THEN t[i] ELSE g[i - l]
  <2>1. s = t \o g
    BY <1>2 DEF Waits
  <2>2. QED BY <1>3, <2>1, ConcatProperties, LenProperties
<1>6. PICK a, b, full : a = SubSeq(g, 1, n) /\ b = SubSeq(g, n + 1, num) /\ full = t \o a
  OBVIOUS
<1>7. \A i \in 1 .. num : g[i] \in Packets
  BY <1>3, ElementOfSeq
<1>8. a \in Seq(Packets) /\ Len(a) = n /\ \A i \in 1 .. n : a[i] = g[i]
  <2>1. \A i \in 1 .. n : g[i] \in Packets
    BY <1>3, <1>4, <1>7
  <2>2. 1 \in Int /\ n \in Int
    BY <1>4
  <2>3. /\ SubSeq(g, 1, n) \in Seq(Packets)
        /\ Len(SubSeq(g, 1, n)) = IF 1 <= n THEN n - 1 + 1 ELSE 0
        /\ \A i \in 1 .. n - 1 + 1 : SubSeq(g, 1, n)[i] = g[1 + i - 1]
    BY <2>1, <2>2, SubSeqProperties
  <2>4. n - 1 + 1 = n /\ 1 <= n /\ \A i \in 1 .. n : 1 + i - 1 = i
    BY <1>4
  <2>5. QED BY <1>6, <2>3, <2>4
<1>9. b \in Seq(Packets) /\ Len(b) = num - n /\ \A i \in 1 .. num - n : b[i] = g[n + i]
  <2>1. \A i \in n + 1 .. num : g[i] \in Packets
    BY <1>3, <1>4, <1>7
  <2>2. n + 1 \in Int /\ num \in Int
    BY <1>3, <1>4
  <2>3. /\ SubSeq(g, n + 1, num) \in Seq(Packets)
        /\ Len(SubSeq(g, n + 1, num)) = IF n + 1 <= num THEN num - (n + 1) + 1 ELSE 0
        /\ \A i \in 1 .. num - (n + 1) + 1 : SubSeq(g, n + 1, num)[i] = g[n + 1 + i - 1]
    BY <2>1, <2>2, SubSeqProperties
  <2>4. num - (n + 1) + 1 = num - n /\ (~ (n + 1 <= num) => num - n = 0)
        /\ \A i \in 1 .. num - n : n + 1 + i - 1 = n + i
    BY <1>3, <1>4
  <2>5. QED BY <1>6, <2>3, <2>4
<1>10. /\ full \in Seq(Packets) /\ Len(full) = l + n
       /\ \A i \in 1 .. l + n : full[i] = s[i]
  <2>1. /\ full \in Seq(Packets) /\ Len(full) = l + n
        /\ \A i \in 1 .. l + n : full[i] = IF i <= l THEN t[i] ELSE a[i - l]
    <3>1. /\ t \o a \in Seq(Packets) /\ Len(t \o a) = Len(t) + Len(a)
          /\ \A i \in 1 .. Len(t) + Len(a) :
               (t \o a)[i] = IF i <= Len(t) THEN t[i] ELSE a[i - Len(t)]
      BY <1>3, <1>8, ConcatProperties
    <3>2. full = t \o a /\ Len(t) = l /\ Len(a) = n
      BY <1>3, <1>6, <1>8
    <3>3. QED BY <3>1, <3>2
  <2>2. ASSUME NEW i \in 1 .. l + n PROVE full[i] = s[i]
    <3>1. i \in 1 .. l + num /\ (~ (i <= l) => i - l \in 1 .. n)
      BY <1>3, <1>4
    <3>2. QED BY <1>5, <1>8, <2>1, <3>1
  <2>3. QED BY <2>1, <2>2
<1>11. ASSUME NEW i \in 1 .. num - n PROVE b[i] = s[l + n + i]
  <2>1. PICK k : k = l + n + i
    OBVIOUS
  <2>2. k \in 1 .. l + num /\ ~ (k <= l) /\ k - l = n + i
    BY <1>3, <1>4, <2>1, SMTT(20)
  <2>3. s[k] = g[k - l]
    BY <1>5, <2>2
  <2>4. QED BY <1>9, <2>1, <2>2, <2>3
<1>12. tx \in [Port -> Seq(Packets)]
  BY DEF Buffers
<1>13. <<>> \in Seq(Packets) /\ Len(<<>>) = 0
  BY EmptySeq
<1>14. \/ l = 0 /\ Transmit(g, ret) /\ tx' = tx
       \/ Transmit(full, ret) /\ tx' = [tx EXCEPT ![p] = b]
       \/ l + n < MaxBurst /\ tx' = [tx EXCEPT ![p] = full] /\ left' = left
  BY <1>2, <1>6 DEF SendPackets
<1>15. CASE l = 0 /\ Transmit(g, ret) /\ tx' = tx
  <2>1. Leave(g)
    BY <1>3, <1>15, TransmitAll
  <2>2. t = <<>>
    BY <1>3, <1>15, EmptySeq
  <2>3. tx' = [tx EXCEPT ![p] = <<>>]
    BY <1>2, <1>12, <1>15, <2>2
  <2>4. \A k \in 1 .. num : g[k] = s[k]
    BY <1>3, <1>5, <1>15
  <2>5. num \in 0 .. Len(s) /\ Len(s) - num = 0
    BY <1>3, <1>5, <1>15
  <2>6. Splits(s, p, num, g, <<>>)
    BY <1>3, <1>13, <2>1, <2>3, <2>4, <2>5 DEF Splits
  <2>7. Len(<<>>) < MaxBurst
    BY <1>3, <1>13
  <2>8. QED BY <1>2, <2>6, <2>7
<1>16. CASE Transmit(full, ret) /\ tx' = [tx EXCEPT ![p] = b]
  <2>1. Leave(full)
    BY <1>10, <1>16, TransmitAll
  <2>2. l + n \in 0 .. Len(s) /\ Len(s) - (l + n) = num - n /\ Len(s) = l + num
    BY <1>3, <1>4, <1>5
  <2>3. \A k \in 1 .. Len(s) - (l + n) : b[k] = s[l + n + k]
    BY <1>11, <2>2
  <2>4. Splits(s, p, l + n, full, b)
    BY <1>9, <1>10, <1>16, <2>1, <2>2, <2>3 DEF Splits
  <2>5. Len(b) < MaxBurst
    BY <1>4, <1>9
  <2>6. QED BY <1>2, <2>4, <2>5
<1>17. CASE l + n < MaxBurst /\ tx' = [tx EXCEPT ![p] = full] /\ left' = left
  <2>1. n = num
    BY <1>2, <1>3, <1>17
  <2>2. Leave(<<>>)
    BY <1>17, LeaveNone
  <2>3. 0 \in 0 .. Len(s) /\ Len(s) - 0 = l + n /\ Len(full) = Len(s) - 0
    BY <1>3, <1>5, <1>10, <2>1
  <2>4. \A k \in 1 .. Len(s) - 0 : full[k] = s[0 + k]
    BY <1>3, <1>4, <1>10, <2>3
  <2>5. Splits(s, p, 0, <<>>, full)
    BY <1>10, <1>13, <1>17, <2>2, <2>3, <2>4 DEF Splits
  <2>6. QED BY <1>2, <1>10, <1>17, <2>5
<1>18. QED BY <1>14, <1>15, <1>16, <1>17

LEMMA OrderInit == Init => Order
<1>1. SUFFICES ASSUME Init PROVE Order
  OBVIOUS
<1>2. /\ tx = [p \in Port |-> <<>>] /\ DOMAIN left = {} /\ left = [m \in {} |-> 0]
      /\ stage = "idle" /\ dst = Idle
  BY <1>1 DEF Init
<1>3. \A p \in Port : tx[p] = <<>> /\ Elems(tx[p]) = {} /\ DOMAIN tx[p] = {}
  BY <1>2 DEF Elems
<1>4. Buffers
  <2>1. <<>> \in Seq(Packets) /\ Len(<<>>) = 0
    BY EmptySeq
  <2>2. tx \in [Port -> Seq(Packets)]
    BY <1>2, <2>1
  <2>3. 0 < MaxBurst
    BY Params
  <2>4. QED BY <1>3, <2>1, <2>2, <2>3 DEF Buffers
<1>5. nb_rx = 0
  BY <1>2, FS_EmptySet DEF nb_rx, Idle
<1>6. Known
  <2>1. 0 .. 0 - 1 = {}
    OBVIOUS
  <2>2. left \in [DOMAIN left -> Nat]
    BY <1>2
  <2>3. QED BY <1>2, <1>5, <2>1, <2>2 DEF Known
<1>7. SentOnceInOrder
  <2>1. Buffered = {}
    BY <1>3 DEF Buffered
  <2>2. \A p \in Port : \A a, b \in DOMAIN tx[p] :
          tx[p][a][1] = p /\ (a < b => tx[p][a][2] < tx[p][b][2])
    BY <1>3
  <2>3. QED BY <1>2, <2>1, <2>2 DEF SentOnceInOrder
<1>8. QED BY <1>4, <1>6, <1>7 DEF Order

\* Grouping the packets changes nothing in what is sent.
LEMMA SameOrder ==
  ASSUME Order, UNCHANGED <<dst, tx, left>>, Taken' = Taken,
         stage' = "send" \/ stage # "send"
  PROVE  Order'
<1>1. nb_rx' = nb_rx /\ DOMAIN left' = DOMAIN left /\ Buffered' = Buffered
  BY DEF nb_rx, Buffered
<1>2. \A m : m \in Untaken' <=> m \in Untaken
  <2>1. ASSUME NEW m PROVE m \in Untaken <=> m \in DOMAIN left /\ m[2] >= 0 /\ m[2] >= Taken
    BY DEF Untaken, Taken
  <2>2. ASSUME NEW m PROVE m \in Untaken' <=> m \in DOMAIN left /\ m[2] >= 0 /\ m[2] >= Taken'
    BY DEF Untaken, Taken
  <2>3. QED BY <2>1, <2>2
<1>3. Untaken' = Untaken
  BY <1>2 DEF Untaken
<1>4. SentOnceInOrder'
  <2>1. PICK B, U : B = Buffered /\ U = Untaken
    OBVIOUS
  <2>2. B = Buffered' /\ U = Untaken'
    BY <1>1, <1>3, <2>1
  <2>3. QED BY <2>1, <2>2 DEF Order, SentOnceInOrder
<1>5. Buffers'
  BY DEF Order, Buffers, Elems
<1>6. Known'
  BY <1>1 DEF Order, Known, Packet
<1>7. QED BY <1>4, <1>5, <1>6 DEF Order

LEMMA SplitElems ==
  ASSUME NEW s, NEW p, NEW x, NEW T, NEW R, Line(s, p), Splits(s, p, x, T, R)
  PROVE  \A m \in Elems(R) : m \in Elems(s)
<1>1. /\ x \in 0 .. Len(s) /\ Len(s) \in Nat /\ DOMAIN s = 1 .. Len(s)
      /\ R \in Seq(Packets) /\ Len(R) = Len(s) - x /\ \A k \in 1 .. Len(s) - x : R[k] = s[x + k]
  BY LenProperties DEF Line, Splits
<1>2. DOMAIN R = 1 .. Len(s) - x
  BY <1>1, LenProperties
<1>3. ASSUME NEW m, m \in Elems(R) PROVE m \in Elems(s)
  <2>1. PICK k \in 1 .. Len(s) - x : m = R[k]
    BY <1>2, <1>3 DEF Elems
  <2>2. x + k \in DOMAIN s /\ m = s[x + k]
    BY <1>1, <2>1
  <2>3. QED BY <2>2 DEF Elems
<1>4. QED BY <1>3

LEMMA BufferedPackets ==
  ASSUME Buffers, Lines, NEW p \in Port
  PROVE  /\ tx[p] \in Seq(Packets) /\ Line(tx[p], p)
         /\ \A m \in Elems(tx[p]) : m[1] = p /\ m[2] \in Int /\ m[2] < Taken
<1>1. tx[p] \in Seq(Packets)
  BY DEF Buffers
<1>2. DOMAIN tx[p] = 1 .. Len(tx[p])
  BY <1>1, LenProperties
<1>3. \A a \in DOMAIN tx[p] : tx[p][a] \in Packets
  BY <1>1, <1>2, ElementOfSeq
<1>4. Line(tx[p], p)
  BY <1>1, <1>2 DEF Line, Lines
<1>5. \A m \in Elems(tx[p]) : m[1] = p /\ m[2] \in Int /\ m[2] < Taken
  BY <1>3 DEF Elems, Packets, Buffers, Lines
<1>6. QED BY <1>1, <1>4, <1>5

LEMMA SendOrder ==
  ASSUME Grouping, Order, NEW ret \in 0 .. MaxBurst, SendGroup(ret)
  PROVE  Order'
<1>1. /\ stage = "send" /\ stage' = "send" /\ j < nb_rx /\ dst[j] # BadPort
      /\ j' = j + pnum[j] /\ dst' = dst /\ SendPackets(dst[j], ret)
  BY DEF SendGroup, NextGroup
<1>2. Buffers /\ Known /\ SentOnceInOrder /\ Lines /\ left \in [DOMAIN left -> Nat]
      /\ tx \in [Port -> Seq(Packets)]
  BY DEF Order, SentOnceInOrder, Lines, Known, Buffers
<1>3. PICK p : p = dst[j]
  OBVIOUS
<1>4. p \in Port /\ pnum[j] \in 1 .. MaxBurst /\ j \in Nat /\ j' \in Nat /\ j < j'
  <2>1. pnum[j] \in 1 .. MaxBurst /\ j \in Nat /\ dst[j] \in Port \cup {BadPort}
    BY <1>1, GroupPackets
  <2>2. QED BY <1>1, <1>3, <2>1
<1>5. PICK x, T, R : Splits(Waits(p), p, x, T, R) /\ Len(R) < MaxBurst
  <2>1. ret \in Nat
    BY Params
  <2>2. QED BY <1>1, <1>2, <1>3, <1>4, <2>1, SendSplits
<1>6. PICK s : s = Waits(p)
  OBVIOUS
<1>7. Line(s, p) /\ Elems(s) = Elems(tx[p]) \cup Elems(Group)
  BY <1>1, <1>2, <1>3, <1>4, <1>6, WaitsInLine
<1>8. Splits(s, p, x, T, R) /\ tx' = [tx EXCEPT ![p] = R] /\ R \in Seq(Packets)
      /\ DOMAIN left' = DOMAIN left
  BY <1>5, <1>6 DEF Splits, Leave
<1>9. /\ Untaken' \subseteq Untaken /\ Elems(Group) = Untaken \ Untaken'
      /\ \A m \in Elems(Group) : m[1] = dst[j] /\ m[2] \in Int /\ j <= m[2] /\ m[2] < j'
      /\ \A n \in Untaken' : n[2] \in Int /\ j' <= n[2]
  BY <1>1, <1>2, <1>8, GroupTakes
<1>10. \A q \in Port : \A m \in Elems(tx[q]) : m[2] \in Int /\ m[2] < j
  BY <1>1, <1>2, BufferedPackets DEF Taken
<1>11. \A m \in Elems(s) : m[2] \in Int /\ m[2] < j'
  <2>1. \A m \in Elems(tx[p]) : m[2] \in Int /\ m[2] < j'
    BY <1>4, <1>10
  <2>2. QED BY <1>7, <1>9, <2>1
<1>12. PICK U1 : U1 = Untaken'
  OBVIOUS
<1>13. /\ SentOnceInOrder'
       /\ DOMAIN left' = DOMAIN left /\ left' \in [DOMAIN left -> Nat]
  <2>1. U1 \subseteq Untaken /\ Elems(s) = Elems(tx[p]) \cup (Untaken \ U1)
    BY <1>7, <1>9, <1>12
  <2>2. \A m \in Elems(s), n \in U1 : m[1] = n[1] => m[2] < n[2]
    BY <1>4, <1>9, <1>11, <1>12
  <2>3. QED BY <1>2, <1>4, <1>7, <1>8, <1>12, <2>1, <2>2, Shift
<1>14. Buffers'
  <2>1. tx' \in [Port -> Seq(Packets)]
    BY <1>2, <1>8
  <2>2. ASSUME NEW q \in Port
        PROVE  Len(tx'[q]) < MaxBurst /\ \A m \in Elems(tx'[q]) : m[2] < j'
    <3>1. CASE q = p
      <4>1. tx'[q] = R
        BY <1>2, <1>8, <3>1
      <4>2. \A m \in Elems(R) : m[2] < j'
        BY <1>7, <1>8, <1>11, SplitElems
      <4>3. QED BY <1>5, <4>1, <4>2
    <3>2. CASE q # p
      <4>1. tx'[q] = tx[q]
        BY <1>2, <1>8, <3>2
      <4>2. \A m \in Elems(tx[q]) : m[2] < j'
        BY <1>4, <1>10
      <4>3. Len(tx[q]) < MaxBurst
        BY <1>2 DEF Buffers
      <4>4. QED BY <4>1, <4>2, <4>3
    <3>3. QED BY <3>1, <3>2
  <2>3. Taken' = j'
    BY <1>1 DEF Taken
  <2>4. QED BY <2>1, <2>2, <2>3 DEF Buffers, Elems
<1>15. Known'
  <2>1. nb_rx' = nb_rx
    BY <1>1 DEF nb_rx
  <2>2. left' \in [DOMAIN left' -> Nat]
    BY <1>13
  <2>3. QED BY <1>1, <1>2, <1>13, <2>1, <2>2 DEF Known, Packet
<1>16. QED BY <1>13, <1>14, <1>15 DEF Order

LEMMA FreeOrder ==
  ASSUME Grouping, Order, FreeGroup
  PROVE  Order'
<1>1. /\ stage = "send" /\ stage' = "send" /\ j < nb_rx /\ dst[j] = BadPort
      /\ j' = j + pnum[j] /\ dst' = dst /\ tx' = tx /\ Leave(Group)
  BY DEF FreeGroup, NextGroup
<1>2. Buffers /\ Known /\ SentOnceInOrder /\ Lines /\ left \in [DOMAIN left -> Nat]
  BY DEF Order, SentOnceInOrder, Lines, Known
<1>3. /\ pnum[j] \in 1 .. MaxBurst /\ j \in Nat /\ j' \in Nat /\ j < j'
      /\ \A k \in 1 .. pnum[j] : Group[k] = <<dst[j], j + k - 1>>
  BY <1>1, GroupPackets
<1>4. \A a, b \in DOMAIN Group : Group[a] = Group[b] => a = b
  <2>1. SUFFICES ASSUME NEW a \in 1 .. pnum[j], NEW b \in 1 .. pnum[j], Group[a] = Group[b]
                 PROVE a = b
    BY DEF Group
  <2>2. j + a - 1 = j + b - 1
    BY <1>3, <2>1
  <2>3. a \in Int /\ b \in Int
    BY <1>3
  <2>4. QED BY <1>3, <2>2, <2>3
<1>5. Lost(Elems(Group))
  BY <1>1, <1>2, <1>4, LeaveOnce DEF Lost
<1>6. DOMAIN left' = DOMAIN left
  BY <1>5 DEF Lost
<1>7. /\ Untaken' \subseteq Untaken /\ Elems(Group) = Untaken \ Untaken'
      /\ \A m \in Elems(Group) : m[1] = dst[j] /\ m[2] \in Int /\ j <= m[2] /\ m[2] < j'
      /\ \A n \in Untaken' : n[2] \in Int /\ j' <= n[2]
  BY <1>1, <1>2, <1>6, GroupTakes
<1>8. PICK B1, U1, gone : B1 = Buffered' /\ U1 = Untaken' /\ gone = Elems(Group)
  OBVIOUS
<1>9. B1 = Buffered
  BY <1>1, <1>8 DEF Buffered
<1>10. \A m \in B1 : m[1] \in Port /\ m[2] \in Int /\ m[2] < j
  <2>1. \A q \in Port : \A m \in Elems(tx[q]) : m[1] = q /\ m[2] \in Int /\ m[2] < j
    BY <1>1, <1>2, BufferedPackets DEF Taken
  <2>2. QED BY <1>9, <2>1 DEF Buffered
<1>11. ASSUME NEW m, m \in gone, NEW n, n \in B1 \cup U1
       PROVE  m # n /\ (m[1] = n[1] => m[2] < n[2])
  <2>1. m[1] = BadPort /\ m[2] \in Int /\ m[2] < j'
    BY <1>1, <1>7, <1>8, <1>11
  <2>2. CASE n \in B1
    BY <1>10, <2>1, <2>2, TxBatchAssumption
  <2>3. CASE n \in U1
    <3>1. n[2] \in Int /\ j' <= n[2]
      BY <1>7, <1>8, <2>3
    <3>2. m[2] < n[2]
      BY <1>3, <2>1, <3>1
    <3>3. m[2] # n[2]
      BY <2>1, <3>1, <3>2
    <3>4. QED BY <3>2, <3>3
  <2>4. QED BY <1>11, <2>2, <2>3
<1>12. ASSUME NEW m, m \in B1, NEW n, n \in U1 PROVE m[2] < n[2]
  <2>1. m[2] \in Int /\ m[2] < j /\ n[2] \in Int /\ j' <= n[2]
    BY <1>7, <1>8, <1>10, <1>12
  <2>2. QED BY <1>3, <2>1
<1>13. MovesTo(gone, B1, U1)
  BY <1>7, <1>8, <1>9, <1>11, <1>12 DEF MovesTo
<1>14. SentOnceInOrder'
  <2>1. Lines'
    BY <1>1, <1>2 DEF Lines
  <2>2. Lost(gone)
    BY <1>5, <1>8
  <2>3. QED BY <1>2, <1>8, <1>13, <2>1, <2>2, Moves
<1>15. Buffers'
  <2>1. ASSUME NEW q \in Port, NEW m \in Elems(tx[q]) PROVE m[2] < j'
    <3>1. m[2] \in Int /\ m[2] < j
      BY <1>1, <1>2, BufferedPackets DEF Taken
    <3>2. QED BY <1>3, <3>1
  <2>2. Taken' = j'
    BY <1>1 DEF Taken
  <2>3. QED BY <1>1, <1>2, <2>1, <2>2 DEF Buffers, Elems
<1>16. Known'
  <2>1. nb_rx' = nb_rx
    BY <1>1 DEF nb_rx
  <2>2. \A m \in DOMAIN left : left'[m] \in Nat
    BY <1>2, <1>5 DEF Lost
  <2>3. left' = [m \in DOMAIN left |-> left'[m]]
    BY <1>1 DEF Leave
  <2>4. left' \in [DOMAIN left' -> Nat]
    BY <1>6, <2>2, <2>3
  <2>5. QED BY <1>1, <1>2, <1>6, <2>1, <2>4 DEF Known, Packet
<1>17. QED BY <1>14, <1>15, <1>16 DEF Order

LEMMA DrainOrder ==
  ASSUME Grouping, Order, NEW ret \in 0 .. MaxBurst, NEW p \in Port, Drain(p, ret)
  PROVE  Order'
<1>1. /\ stage = "idle" /\ stage' = "idle" /\ dst' = dst
      /\ Transmit(tx[p], ret) /\ tx' = [tx EXCEPT ![p] = <<>>]
  BY DEF Drain
<1>2. Buffers /\ Known /\ SentOnceInOrder /\ Lines /\ left \in [DOMAIN left -> Nat]
      /\ tx \in [Port -> Seq(Packets)]
  BY DEF Order, SentOnceInOrder, Lines, Known, Buffers
<1>3. nb_rx = 0 /\ nb_rx' = nb_rx
  BY <1>1 DEF Grouping, Burst, nb_rx
<1>4. PICK s, x : s = tx[p] /\ x = Len(tx[p])
  OBVIOUS
<1>5. Line(s, p) /\ s \in Seq(Packets) /\ x = Len(s) /\ x \in Nat
  BY <1>2, <1>4, BufferedPackets, LenProperties
<1>6. <<>> \in Seq(Packets) /\ Len(<<>>) = 0
  BY EmptySeq
<1>7. Splits(s, p, x, s, <<>>)
  <2>1. Leave(s)
    <3>1. ret \in Nat
      BY Params
    <3>2. QED BY <1>1, <1>4, <1>5, <3>1, TransmitAll
  <2>2. x \in 0 .. Len(s) /\ Len(s) - x = 0
    BY <1>5
  <2>3. QED BY <1>1, <1>5, <1>6, <2>1, <2>2 DEF Splits
<1>8. DOMAIN left' = DOMAIN left
  BY <1>7 DEF Splits, Leave
<1>9. PICK U1 : U1 = Untaken'
  OBVIOUS
<1>10. Untaken = {} /\ U1 = {}
  <2>1. \A m \in DOMAIN left : ~ (m[2] >= 0)
    <3>1. \A m \in DOMAIN left : m \in Packets /\ (m[2] >= 0 => m[2] < 0)
      BY <1>2, <1>3 DEF Known
    <3>2. \A m \in DOMAIN left : m[2] \in Int
      BY <3>1 DEF Packets
    <3>3. QED BY <3>1, <3>2
  <2>2. QED BY <1>8, <1>9, <2>1 DEF Untaken
<1>11. Elems(s) = Elems(tx[p]) \cup (Untaken \ U1)
  BY <1>4, <1>10
<1>12. /\ SentOnceInOrder'
       /\ DOMAIN left' = DOMAIN left /\ left' \in [DOMAIN left -> Nat]
  BY <1>2, <1>5, <1>7, <1>9, <1>10, <1>11, Shift
<1>13. Buffers'
  <2>1. tx' \in [Port -> Seq(Packets)]
    BY <1>1, <1>2, <1>6
  <2>2. ASSUME NEW q \in Port
        PROVE  Len(tx'[q]) < MaxBurst /\ \A m \in Elems(tx'[q]) : m[2] < 0
    <3>1. CASE q = p
      <4>1. tx'[q] = <<>> /\ Elems(<<>>) = {}
        BY <1>1, <1>2, <3>1 DEF Elems
      <4>2. QED BY <1>6, <4>1, Params
    <3>2. CASE q # p
      BY <1>1, <1>2, <3>2 DEF Buffers, Taken
    <3>3. QED BY <3>1, <3>2
  <2>3. Taken' = 0
    BY <1>1 DEF Taken
  <2>4. QED BY <2>1, <2>2, <2>3 DEF Buffers, Elems
<1>14. Known'
  BY <1>1, <1>2, <1>3, <1>12 DEF Known, Packet
<1>15. QED BY <1>12, <1>13, <1>14 DEF Order

LEMMA SentOrder ==
  ASSUME Grouping, Order, Sent
  PROVE  Order'
<1>1. /\ stage' = "idle" /\ dst' = Idle /\ tx' = Aged
      /\ left' = [m \in UNION {Elems(Aged[p]) : p \in Port} |-> 0]
  BY DEF Sent
<1>2. Buffers
  BY DEF Order
<1>3. ASSUME NEW p \in Port
      PROVE  /\ tx'[p] \in Seq(Packets) /\ Len(tx'[p]) < MaxBurst
             /\ \A a \in DOMAIN tx'[p] : tx'[p][a] \in Packets /\ tx'[p][a][1] = p /\ tx'[p][a][2] < 0
             /\ \A a, b \in DOMAIN tx'[p] : a < b => tx'[p][a][2] < tx'[p][b][2]
  <2>1. tx[p] \in Seq(Packets) /\ Len(tx[p]) < MaxBurst
    BY <1>2 DEF Buffers
  <2>2. PICK l : l = Len(tx[p])
    OBVIOUS
  <2>3. l \in Nat /\ DOMAIN tx[p] = 1 .. l
    BY <2>1, <2>2, LenProperties
  <2>4. tx'[p] = [k \in 1 .. l |-> <<p, k - l - 1>>]
    BY <1>1, <2>2, <2>3 DEF Aged
  <2>5. \A k \in 1 .. l : <<p, k - l - 1>> \in Packets /\ k - l - 1 < 0
    BY <2>3 DEF Packets
  <2>6. tx'[p] \in Seq(Packets)
    BY <2>3, <2>4, <2>5
  <2>7. Len(tx'[p]) = l /\ DOMAIN tx'[p] = 1 .. l
    BY <2>3, <2>4
  <2>8. \A k \in 1 .. l : tx'[p][k] = <<p, k - l - 1>>
    BY <2>4
  <2>9. ASSUME NEW a \in 1 .. l, NEW b \in 1 .. l, a < b
        PROVE  tx'[p][a][2] < tx'[p][b][2]
    <3>1. tx'[p][a][2] = a - l - 1 /\ tx'[p][b][2] = b - l - 1
      BY <2>8
    <3>2. a - l - 1 < b - l - 1
      BY <2>3, <2>9
    <3>3. QED BY <3>1, <3>2
  <2>10. QED BY <2>1, <2>2, <2>5, <2>6, <2>7, <2>8, <2>9, SMTT(20)
<1>4. PICK B : B = Buffered'
  OBVIOUS
<1>5. B = UNION {Elems(Aged[p]) : p \in Port}
  BY <1>1, <1>4 DEF Buffered, Elems
<1>6. left' = [m \in B |-> 0]
  BY <1>1, <1>5
<1>7. DOMAIN left' = B /\ left' \in [DOMAIN left' -> Nat] /\ \A m \in B : left'[m] = 0
  BY <1>6
<1>8. \A m \in B : m \in Packets /\ m[2] \in Int /\ m[2] < 0
  <2>1. ASSUME NEW m \in B PROVE \E p \in Port : \E a \in DOMAIN tx'[p] : m = tx'[p][a]
    BY <1>4 DEF Buffered, Elems
  <2>2. \A m \in B : m \in Packets /\ m[2] < 0
    BY <1>3, <2>1
  <2>3. QED BY <2>2 DEF Packets
<1>9. nb_rx' = 0 /\ Taken' = 0
  BY <1>1, FS_EmptySet DEF nb_rx, Idle, Taken
<1>10. Buffers'
  <2>1. tx' = [p \in Port |-> Aged[p]]
    BY <1>1 DEF Aged
  <2>2. tx' = [p \in Port |-> tx'[p]]
    BY <2>1
  <2>3. tx' \in [Port -> Seq(Packets)]
    BY <1>3, <2>2
  <2>4. QED BY <1>3, <1>9, <2>3 DEF Buffers, Elems
<1>11. Known'
  <2>1. 0 .. 0 - 1 = {}
    OBVIOUS
  <2>2. \A m \in DOMAIN left' : m \in Packets /\ ~ (m[2] >= 0)
    BY <1>7, <1>8
  <2>3. QED BY <1>7, <1>9, <2>1, <2>2 DEF Known
<1>12. Untaken' = {}
  <2>1. \A m \in DOMAIN left' : ~ (m[2] >= 0)
    BY <1>7, <1>8
  <2>2. QED BY <2>1 DEF Untaken
<1>13. SentOnceInOrder'
  <2>1. /\ \A p \in Port : \A a, b \in DOMAIN tx'[p] :
             tx'[p][a][1] = p /\ (a < b => tx'[p][a][2] < tx'[p][b][2])
        /\ Buffered' \subseteq DOMAIN left'
        /\ \A m \in Buffered', n \in Untaken' : m[1] = n[1] => m[2] < n[2]
    BY <1>3, <1>4, <1>7, <1>12
  <2>2. /\ \A m \in DOMAIN left' : left'[m] = IF m \in Buffered' \cup Untaken' THEN 0 ELSE 1
        /\ \A m \in DOMAIN left' : left'[m] # 1
    BY <1>4, <1>7
  <2>3. QED BY <2>1, <2>2 DEF SentOnceInOrder
<1>14. QED BY <1>10, <1>11, <1>13 DEF Order

LEMMA ReceiveOrder ==
  ASSUME Grouping, Order,
         NEW n \in 1 .. MaxBurst, NEW d \in [0 .. n - 1 -> Port \cup {BadPort}], Receive(n, d)
  PROVE  Order'
<1>1. /\ stage = "idle" /\ stage' # "send" /\ dst' = d /\ tx' = tx
      /\ left' = [m \in {<<d[k], k>> : k \in DOMAIN d} \cup Buffered |-> 0]
  BY DEF Receive
<1>2. Buffers /\ Known /\ SentOnceInOrder /\ Lines /\ Taken = 0
  BY <1>1 DEF Order, SentOnceInOrder, Lines, Taken
<1>3. n \in Nat /\ n \in 0 .. MaxBurst /\ DOMAIN d = 0 .. n - 1
  BY Params
<1>4. nb_rx' = n /\ Taken' = 0
  BY <1>1, <1>3, BurstSize DEF nb_rx, Taken
<1>5. PICK B, D : B = Buffered /\ D = {<<d[k], k>> : k \in 0 .. n - 1}
  OBVIOUS
<1>6. \A m \in B : m \in Packets /\ m[2] \in Int /\ m[2] < 0
  <2>1. ASSUME NEW p \in Port, NEW m \in Elems(tx[p])
        PROVE  m \in Packets /\ m[2] \in Int /\ m[2] < 0
    <3>1. tx[p] \in Seq(Packets) /\ m[2] \in Int /\ m[2] < 0
      BY <1>2, BufferedPackets
    <3>2. m \in Packets
      BY <3>1, ElementOfSeq, LenProperties DEF Elems
    <3>3. QED BY <3>1, <3>2
  <2>2. QED BY <1>5, <2>1 DEF Buffered
<1>7. ASSUME NEW m \in D
      PROVE  m \in Packets /\ m[2] \in 0 .. n - 1 /\ m = <<d[m[2]], m[2]>>
  <2>1. PICK k \in 0 .. n - 1 : m = <<d[k], k>>
    BY <1>5
  <2>2. d[k] \in Port \cup {BadPort} /\ k \in Int
    BY <1>3
  <2>3. m[2] = k
    BY <2>1
  <2>4. QED BY <2>1, <2>2, <2>3 DEF Packets
<1>8. left' = [m \in D \cup B |-> 0]
  BY <1>1, <1>3, <1>5
<1>9. DOMAIN left' = D \cup B /\ left' \in [DOMAIN left' -> Nat]
      /\ \A m \in D \cup B : left'[m] = 0
  BY <1>8
<1>10. Buffered' = B
  BY <1>1, <1>5 DEF Buffered
<1>11. PICK U1 : U1 = Untaken'
  OBVIOUS
<1>12. U1 = D
  <2>1. \A m : m \in U1 <=> m \in D \cup B /\ m[2] >= 0
    BY <1>1, <1>9, <1>11 DEF Untaken
  <2>2. \A m \in D : m[2] >= 0
    BY <1>3, <1>7
  <2>3. \A m \in B : ~ (m[2] >= 0)
    BY <1>6
  <2>4. QED BY <2>1, <2>2, <2>3
<1>13. Buffers'
  BY <1>1, <1>2, <1>4 DEF Buffers, Elems
<1>14. Known'
  <2>1. ASSUME NEW m \in DOMAIN left'
        PROVE  m \in Packets /\ (m[2] >= 0 => m[2] < n /\ m = <<d[m[2]], m[2]>>)
    <3>1. CASE m \in D
      BY <1>3, <1>7, <3>1
    <3>2. CASE m \in B
      BY <1>6, <3>2
    <3>3. QED BY <1>9, <3>1, <3>2
  <2>2. ASSUME NEW k \in 0 .. n - 1 PROVE <<d[k], k>> \in DOMAIN left'
    BY <1>5, <1>9
  <2>3. QED BY <1>1, <1>4, <1>9, <2>1, <2>2 DEF Known, Packet
<1>15. SentOnceInOrder'
  <2>1. \A m \in B, u \in U1 : m[2] < u[2]
    <3>1. \A u \in U1 : u[2] \in Int /\ u[2] >= 0
      BY <1>3, <1>7, <1>12
    <3>2. QED BY <1>6, <3>1
  <2>2. \A p \in Port : \A a, b \in DOMAIN tx'[p] :
             tx'[p][a][1] = p /\ (a < b => tx'[p][a][2] < tx'[p][b][2])
    BY <1>1, <1>2 DEF Lines
  <2>3. /\ Buffered' \subseteq DOMAIN left'
        /\ \A m \in Buffered', u \in Untaken' : m[1] = u[1] => m[2] < u[2]
    BY <1>9, <1>10, <1>11, <2>1
  <2>4. /\ \A m \in DOMAIN left' : left'[m] = IF m \in Buffered' \cup Untaken' THEN 0 ELSE 1
        /\ \A m \in DOMAIN left' : left'[m] # 1
    BY <1>9, <1>10, <1>11, <1>12
  <2>5. QED BY <2>2, <2>3, <2>4 DEF SentOnceInOrder
<1>16. QED BY <1>13, <1>14, <1>15 DEF Order

LEMMA OrderNext == Grouping /\ Order /\ [Next]_vars => Order'
<1>1. SUFFICES ASSUME Grouping, Order, [Next]_vars PROVE Order'
  OBVIOUS
<1>2. CASE \E n \in 1 .. MaxBurst : \E d \in [0 .. n - 1 -> Port \cup {BadPort}] : Receive(n, d)
  BY <1>1, <1>2, ReceiveOrder
<1>3. CASE GroupQuad
  BY <1>1, <1>3, SameOrder DEF GroupQuad, Taken
<1>4. CASE GroupLast
  BY <1>1, <1>4, SameOrder DEF GroupLast, Taken
<1>5. CASE GroupStep
  BY <1>1, <1>5, SameOrder DEF GroupStep, Taken
<1>6. CASE StartSending
  BY <1>1, <1>6, SameOrder DEF StartSending, Taken
<1>7. CASE \E ret \in 0 .. MaxBurst : SendGroup(ret)
  BY <1>1, <1>7, SendOrder
<1>8. CASE \E ret \in 0 .. MaxBurst : \E p \in Port : Drain(p, ret)
  BY <1>1, <1>8, DrainOrder
<1>9. CASE FreeGroup
  BY <1>1, <1>9, FreeOrder
<1>10. CASE Sent
  BY <1>1, <1>10, SentOrder
<1>11. CASE UNCHANGED vars
  BY <1>1, <1>11, SameOrder DEF vars, Taken
<1>12. QED
  BY <1>1, <1>2, <1>3, <1>4, <1>5, <1>6, <1>7, <1>8, <1>9, <1>10, <1>11 DEF Next

LEMMA Inductive == Spec => []IInv
<1>1. Init => IInv
  BY GroupingInit, OrderInit DEF IInv
<1>2. IInv /\ [Next]_vars => IInv'
  BY GroupingNext, OrderNext DEF IInv
<1>3. QED BY <1>1, <1>2, PTL DEF Spec

\* The state of the burst and of the buffers keeps its types, and no buffer is
\* left full (TypeOK).
THEOREM TypeCorrect == Spec => []TypeOK
<1>1. IInv => TypeOK
  <2>1. SUFFICES ASSUME IInv PROVE TypeOK
    OBVIOUS
  <2>2. Burst /\ Buffers /\ Known
    BY <2>1 DEF IInv, Grouping, Order
  <2>3. \A k \in DOMAIN dst : k \in 0 .. MaxBurst - 1 /\ dst[k] \in Port \cup {BadPort}
    BY <2>2, Params DEF Burst
  <2>4. \A p \in Port : Len(tx[p]) < MaxBurst
    BY <2>2 DEF Buffers
  <2>5. \A m \in DOMAIN left : left[m] \in Nat
    BY <2>2 DEF Known
  <2>6. QED BY <2>2, <2>3, <2>4, <2>5 DEF Burst, TypeOK
<1>2. QED BY <1>1, Inductive, PTL

\* Every packet leaves by its own port once and in the order it came, through
\* whatever buffers, and whatever the NIC takes (SentOnceInOrder).
THEOREM SentOnce == Spec => []SentOnceInOrder
<1>1. IInv => SentOnceInOrder
  BY DEF IInv, Order
<1>2. QED BY <1>1, Inductive, PTL
=============================================================================
