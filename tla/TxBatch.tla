------------------------------ MODULE TxBatch ------------------------------
(***************************************************************************)
(* How an lcore of the NAT sends a burst once every packet has its port:   *)
(* send_packets_multi and send_packetsx4 of nat_eval/l3fwd_sse.h, with the *)
(* main loop around them.  Packets in a row with the same port are grouped *)
(* four at a time through the table of port_groupx4, the last ones one by  *)
(* one, and the groups are sent or wait in a buffer per port.              *)
(*                                                                         *)
(* A packet is <<port, i>>: where it has to go and its place in the burst, *)
(* below 0 for the packets of earlier bursts that wait in a buffer.        *)
(***************************************************************************)
EXTENDS Integers, Sequences, FiniteSets

CONSTANTS
  Port,      \* the enabled ports
  BadPort,   \* BAD_PORT: set by rfc1812_process, the packet is freed
  MaxBurst   \* MAX_PKT_BURST

FWDSTEP    == 4
MaxTxBurst == MaxBurst \div 2   \* MAX_TX_BURST

ASSUME TxBatchAssumption ==
  /\ BadPort \notin Port
  /\ MaxBurst \in Nat \ {0} /\ MaxBurst % FWDSTEP = 0

VARIABLES
  stage,    \* "idle" in the main loop, "quad", "tail" or "send"
  dst,      \* dst_port[0..nb_rx-1]
  pnum,     \* pnum[], 0 where nothing was written in this call
  lp,       \* the index in pnum that lp points to, -1 for pnum + MaxBurst
  j,        \* the loop variable
  tx,       \* tx_mbufs[port].m_table[0..len-1]
  left      \* how often each packet was sent or freed

vars == <<stage, dst, pnum, lp, j, tx, left>>

nb_rx     == Cardinality(DOMAIN dst)
Packet(k) == <<dst[k], k>>
Elems(s)  == {s[k] : k \in DOMAIN s}

\* The packets in the buffers.
Buffered == UNION {Elems(tx[p]) : p \in Port}

Idle == [k \in {} |-> BadPort]

Init ==
  /\ stage = "idle" /\ dst = Idle /\ j = 0 /\ lp = -1
  /\ pnum = [k \in 0 .. MaxBurst |-> 0]
  /\ tx = [p \in Port |-> <<>>]
  /\ left = [m \in {} |-> 0]

\* The packets in the buffers, as those of earlier bursts.
Aged == [p \in Port |-> [k \in DOMAIN tx[p] |-> <<p, k - Len(tx[p]) - 1>>]]

\* A burst is received and classified; with fewer than four packets there is
\* nothing to group by four.
Receive(n, d) ==
  /\ stage = "idle"
  /\ dst' = d
  /\ left' = [m \in {<<d[k], k>> : k \in DOMAIN d} \cup Buffered |-> 0]
  /\ UNCHANGED tx
  /\ \/ /\ n >= FWDSTEP
        /\ stage' = "quad" /\ j' = FWDSTEP /\ lp' = 0
        /\ pnum' = [k \in 0 .. MaxBurst |-> IF k = 0 THEN 1 ELSE 0]
     \/ /\ n < FWDSTEP
        /\ stage' = "tail" /\ j' = 0 /\ lp' = -1
        /\ pnum' = [k \in 0 .. MaxBurst |-> 0]

\* gptbl: four values for pnum[], the index of the new last group, and what
\* is added to the old one, for each outcome of the four comparisons.
gptbl == <<
  <<1,1,1,1, 4,0>>, <<2,1,1,1, 4,1>>, <<1,2,1,1, 4,0>>, <<3,2,1,1, 4,2>>,
  <<1,1,2,1, 4,0>>, <<2,1,2,1, 4,1>>, <<1,3,2,1, 4,0>>, <<4,3,2,1, 4,3>>,
  <<1,1,1,2, 3,0>>, <<2,1,1,2, 3,1>>, <<1,2,1,2, 3,0>>, <<3,2,1,2, 3,2>>,
  <<1,1,3,2, 2,0>>, <<2,1,3,2, 2,1>>, <<1,4,3,2, 1,0>>, <<5,4,3,2, 0,4>> >>

\* The comparison of dp1 with dp2: bit k is set if packet at + k goes where
\* the next one goes.  In the last call packet j-1 is compared with itself.
Mask(at, last) ==
  LET Bit(k, w) == IF (last /\ k = 3) \/ dst[at + k] = dst[at + k + 1]
                     THEN w ELSE 0
  IN  Bit(0, 1) + Bit(1, 2) + Bit(2, 4) + Bit(3, 8)

\* port_groupx4 on the packets from at on: the new lp, and the new pnum.
NewLp(at, v) == IF v = 15 THEN lp ELSE at + gptbl[v + 1][5]

Grouped(at, v) ==
  LET row == gptbl[v + 1]
  IN  [k \in DOMAIN pnum |->
         IF v # 15 /\ k \in at .. at + 3 THEN row[k - at + 1]
         ELSE IF v # 15 /\ k = at + 4 THEN 1
         ELSE IF k = lp THEN pnum[k] + row[6] ELSE pnum[k]]

\* The number of packets grouped by four.
Whole == nb_rx - (nb_rx % FWDSTEP)

\* An iteration of the loop over j.
GroupQuad ==
  LET at == j - FWDSTEP
      v  == Mask(at, FALSE)
  IN  /\ stage = "quad" /\ j # Whole
      /\ pnum' = Grouped(at, v) /\ lp' = NewLp(at, v)
      /\ j' = j + FWDSTEP
      /\ UNCHANGED <<stage, dst, tx, left>>

\* Wrong on purpose: the packet counted twice is not taken off again.
GroupLastKept ==
  LET at == j - FWDSTEP
      v  == Mask(at, TRUE)
  IN  /\ stage = "quad" /\ j = Whole
      /\ stage' = "tail"
      /\ lp' = NewLp(at, v)
      /\ pnum' = Grouped(at, v)
      /\ UNCHANGED <<dst, j, tx, left>>

\* The call after the loop, and "lp[0]--".
GroupLast ==
  LET at == j - FWDSTEP
      v  == Mask(at, TRUE)
  IN  /\ stage = "quad" /\ j = Whole
      /\ stage' = "tail"
      /\ lp' = NewLp(at, v)
      /\ pnum' = [Grouped(at, v) EXCEPT ![NewLp(at, v)] = @ - 1]
      /\ UNCHANGED <<dst, j, tx, left>>

\* GROUP_PORT_STEP on packet j.  dlp is the port of packet j - 1, or a port
\* that is never used.
GroupStep ==
  LET same == j # 0 /\ dst[j - 1] = dst[j]
  IN  /\ stage = "tail" /\ j < nb_rx
      /\ pnum' = IF same THEN [pnum EXCEPT ![lp] = @ + 1]
                         ELSE [pnum EXCEPT ![j] = 1]
      /\ lp' = IF same THEN lp ELSE j
      /\ j' = j + 1
      /\ UNCHANGED <<stage, dst, tx, left>>

StartSending ==
  /\ stage = "tail" /\ j = nb_rx
  /\ stage' = "send" /\ j' = 0
  /\ UNCHANGED <<dst, pnum, lp, tx, left>>

\* The packets of s each leave the program once more.
Leave(s) ==
  left' = [m \in DOMAIN left |->
             left[m] + Cardinality({k \in DOMAIN s : s[k] = m})]

\* rte_eth_tx_burst takes the first ret packets, the rest is freed.
Transmit(s, ret) ==
  /\ ret <= Len(s)
  /\ Leave(SubSeq(s, 1, ret) \o SubSeq(s, ret + 1, Len(s)))

\* The packets of the group at j.
Group == [k \in 1 .. pnum[j] |-> Packet(j + k - 1)]

\* Wrong on purpose: what does not fit in the buffer is forgotten.
SendPacketsCut(p, ret) ==
  LET len  == Len(tx[p])
      num  == Len(Group)
      n    == IF len + num > MaxBurst THEN MaxBurst - len ELSE num
      full == tx[p] \o SubSeq(Group, 1, n)
  IN  /\ tx' = [tx EXCEPT ![p] = IF Len(full) = MaxBurst THEN <<>> ELSE full]
      /\ IF Len(full) = MaxBurst THEN Transmit(full, ret)
                                 ELSE ret = 0 /\ UNCHANGED left

\* Wrong on purpose: a buffer that the group fills exactly is not sent yet.
SendPacketsFull(p, ret) ==
  LET len  == Len(tx[p])
      num  == Len(Group)
      n    == IF len + num > MaxBurst THEN MaxBurst - len ELSE num
      full == tx[p] \o SubSeq(Group, 1, n)
  IN  \/ /\ num >= MaxTxBurst /\ len = 0
         /\ Transmit(Group, ret)
         /\ UNCHANGED tx
      \/ /\ num < MaxTxBurst \/ len > 0
         /\ len + num > MaxBurst
         /\ Transmit(full, ret)
         /\ tx' = [tx EXCEPT ![p] = SubSeq(Group, n + 1, num)]
      \/ /\ num < MaxTxBurst \/ len > 0
         /\ len + num <= MaxBurst /\ ret = 0
         /\ tx' = [tx EXCEPT ![p] = full]
         /\ UNCHANGED left

\* send_packetsx4 on port p: straight to the NIC when the buffer is empty and
\* the group long, else through the buffer, which is sent when it is full.
SendPackets(p, ret) ==
  LET len  == Len(tx[p])
      num  == Len(Group)
      n    == IF len + num > MaxBurst THEN MaxBurst - len ELSE num
      full == tx[p] \o SubSeq(Group, 1, n)
  IN  \/ /\ num >= MaxTxBurst /\ len = 0
         /\ Transmit(Group, ret)
         /\ UNCHANGED tx
      \/ /\ num < MaxTxBurst \/ len > 0
         /\ len + n = MaxBurst
         /\ Transmit(full, ret)
         /\ tx' = [tx EXCEPT ![p] = SubSeq(Group, n + 1, num)]
      \/ /\ num < MaxTxBurst \/ len > 0
         /\ len + n < MaxBurst /\ ret = 0
         /\ tx' = [tx EXCEPT ![p] = full]
         /\ UNCHANGED left

\* An iteration of the last loop.
NextGroup ==
  /\ j' = j + pnum[j]
  /\ UNCHANGED <<stage, dst, pnum, lp>>

SendGroup(ret) ==
  /\ stage = "send" /\ j < nb_rx /\ dst[j] # BadPort
  /\ SendPackets(dst[j], ret)
  /\ NextGroup

FreeGroup ==
  /\ stage = "send" /\ j < nb_rx /\ dst[j] = BadPort
  /\ Leave(Group)
  /\ NextGroup
  /\ UNCHANGED tx

\* Back in the main loop, without the local variables.
Sent ==
  /\ stage = "send" /\ j >= nb_rx
  /\ stage' = "idle" /\ dst' = Idle /\ j' = 0 /\ lp' = -1
  /\ pnum' = [k \in 0 .. MaxBurst |-> 0]
  /\ tx' = Aged
  /\ left' = [m \in UNION {Elems(Aged[p]) : p \in Port} |-> 0]

\* An iteration of the drain loop, when the timer has run out: send_burst on
\* what waits for port p.
Drain(p, ret) ==
  /\ stage = "idle" /\ tx[p] # <<>>
  /\ Transmit(tx[p], ret)
  /\ tx' = [tx EXCEPT ![p] = <<>>]
  /\ UNCHANGED <<stage, dst, pnum, lp, j>>

Next ==
  \/ \E n \in 1 .. MaxBurst : \E d \in [0 .. n - 1 -> Port \cup {BadPort}] :
       Receive(n, d)
  \/ GroupQuad \/ GroupLast \/ GroupStep \/ StartSending
  \/ \E ret \in 0 .. MaxBurst :
       SendGroup(ret) \/ \E p \in Port : Drain(p, ret)
  \/ FreeGroup \/ Sent

Spec == Init /\ [][Next]_vars

-----------------------------------------------------------------------------

TypeOK ==
  /\ stage \in {"idle", "quad", "tail", "send"}
  /\ \A k \in DOMAIN dst : k \in 0 .. MaxBurst - 1 /\ dst[k] \in Port \cup {BadPort}
  /\ pnum \in [0 .. MaxBurst -> 0 .. MaxBurst]
  /\ lp \in -1 .. MaxBurst /\ j \in 0 .. MaxBurst
  /\ \A p \in Port : Len(tx[p]) < MaxBurst
  /\ \A m \in DOMAIN left : left[m] \in Nat

\* Whatever the ports of a burst, the groups are its maximal runs of packets
\* with one port: the table, the pointer lp that survives from one call to the
\* next, the correction of the last group and the packets counted one by one
\* agree, and no count is read that was not written.
GroupsAreRuns ==
  stage = "send" /\ j < nb_rx =>
    /\ j > 0 => dst[j - 1] # dst[j]
    /\ pnum[j] \in 1 .. nb_rx - j
    /\ \A k \in j .. j + pnum[j] - 1 : dst[k] = dst[j]
    /\ j + pnum[j] < nb_rx => dst[j + pnum[j]] # dst[j]

\* The packets of the burst in hand that no group has taken.
Untaken == {m \in DOMAIN left : m[2] >= 0 /\ (stage = "send" => m[2] >= j)}

\* Every packet is sent to its own port (or freed, if it has none) once and in
\* the order it came: a buffer has packets of its port in their order, and none
\* that is still to come; what is in no buffer and not to come has left once,
\* and came before all that is still here for the same port.  Also when a group
\* fills the buffer in its middle, and whatever the NIC takes.
SentOnceInOrder ==
  /\ \A p \in Port : \A a, b \in DOMAIN tx[p] :
       tx[p][a][1] = p /\ (a < b => tx[p][a][2] < tx[p][b][2])
  /\ Buffered \subseteq DOMAIN left
  /\ \A m \in Buffered, n \in Untaken : m[1] = n[1] => m[2] < n[2]
  /\ \A m \in DOMAIN left : left[m] = IF m \in Buffered \cup Untaken THEN 0 ELSE 1
  /\ \A m, n \in DOMAIN left : m[1] = n[1] /\ left[m] = 1 /\ left[n] = 0 => m[2] < n[2]
=============================================================================
