----------------------------- MODULE IpsecLcore -----------------------------
(***************************************************************************)
(* One lcore of the IPsec gateway: main_loop and process_pkts of           *)
(* ipsec_eval/ipsec-secgw.c around the crypto path of CryptoQueue.  A      *)
(* burst from a port is sorted by prepare_traffic, filtered by the         *)
(* security policy, sent through ipsec_inbound or ipsec_outbound, routed   *)
(* and collected in a transmit buffer per port.                            *)
(*                                                                         *)
(* A packet is reduced to its flow: where it came from, its IP version,    *)
(* the SA its SPI and addresses select if it is ESP, and what the policy   *)
(* of its direction says of its (inner) headers.  The loops over local     *)
(* arrays are one step each; only the devices run beside the lcore.        *)
(***************************************************************************)
EXTENDS Integers, Sequences, FiniteSets

CONSTANTS
  Mbuf, NbQps, MaxBurst, QueueDepth,   \* as in CryptoQueue
  Port,       \* the ports routes lead to
  Flow,       \* the flows that arrive, see FlowType
  Sa,         \* the configured SAs: <<ctx, index>>
  SaQp,       \* ipsec_sa.cdev_id_qp of each SA
  SaTunnel,   \* outer IP version of each SA, 0 in transport mode
  HasSp       \* HasSp[ctx][v]: is there an SP for this direction and version?

Ctx == {"in", "out"}     \* from unprotected ports, from protected ports
Ver == {4, 6}

\* What an SP says: 0 when no rule matches, an SA index for PROTECT.
Bypass  == -1
Discard == -2

\* esp is the index of the SA that single_inbound_lookup finds, 0 if the
\* packet is not ESP; an index with no SA stands for a lookup that fails.
FlowType == [dir : Ctx, v : Ver, esp : Nat, sp : Nat \cup {Bypass, Discard}]

ASSUME IpsecLcoreAssumption ==
  /\ NbQps \in [Ctx -> Nat] /\ MaxBurst \in Nat \ {0} /\ QueueDepth \in Nat
  /\ Flow \subseteq FlowType
  /\ Sa \subseteq Ctx \X (Nat \ {0})
  /\ SaQp \in [Sa -> Nat] /\ \A s \in Sa : SaQp[s] < NbQps[s[1]]
  /\ SaTunnel \in [Sa -> {0} \cup Ver]
  /\ HasSp \in [Ctx -> [Ver -> BOOLEAN]]

NoFlow == [dir |-> "in", v |-> 4, esp |-> 0, sp |-> 0]
NoSa   == <<"in", 0>>

VARIABLES
  pc, ctx, pool, pkts, cops, out, polled, last_qp,   \* as in CryptoQueue
  buf, in_flight, queue, ready,
  side,     \* the kind of port the burst in hand came from
  stage,    \* where process_pkts is: "idle", "sorted", "crypto" or "route"
  ipsec,    \* traffic.ipsec.pkts
  ip,       \* traffic.ip4.pkts and traffic.ip6.pkts, as ip[4] and ip[6]
  tx,       \* tx_mbufs[port].m_table
  wire,     \* the NIC: mbufs accepted by rte_eth_tx_burst
  flow,     \* the contents of each mbuf in use
  sealed,   \* is the payload of the mbuf ciphertext?
  sa        \* priv->sa, which outlives the packet

cryptoVars  == <<pc, ctx, pkts, cops, out, polled, last_qp,
                 buf, in_flight, queue, ready>>
trafficVars == <<side, stage, ipsec, ip>>
vars == <<cryptoVars, pool, trafficVars, tx, wire, flow, sealed, sa>>

Q == INSTANCE CryptoQueue

Elems(s) == Q!Elems(s)

\* The loops that sort an array: what is left of s, in its order, when only
\* the mbufs in S stay.  (SelectSeq, in a form that can be proved about.)
Keep(s, S) ==
  LET kept[n \in 0 .. Len(s)] ==
        IF n = 0 THEN <<>>
        ELSE IF s[n] \in S THEN Append(kept[n - 1], s[n]) ELSE kept[n - 1]
  IN  kept[Len(s)]

\* Wrong on purpose: SAs are counted from 0.
OfNext(c, i) == <<c, i + 1>>

\* The SA with index i, or none.
Of(c, i) == IF <<c, i>> \in Sa THEN <<c, i>> ELSE NoSa

\* The contents of an mbuf are forgotten once it is back in the pool.
Contents(f, e) ==
  /\ flow' = [m \in Mbuf |-> IF m \in pool' THEN NoFlow ELSE f[m]]
  /\ sealed' = [m \in Mbuf |-> m \notin pool' /\ e[m]]
SameContents == Contents(flow, sealed)

\* The IP version of the header in front of the packet now.
Version(m) ==
  IF flow[m].dir = "out" /\ sealed[m] /\ SaTunnel[sa[m]] # 0
    THEN SaTunnel[sa[m]] ELSE flow[m].v

\* Wrong on purpose: from the last packet down.
OfVersionDown(s, v) ==
  Keep([k \in DOMAIN s |-> s[Len(s) + 1 - k]], {m \in Mbuf : Version(m) = v})

OfVersion(s, v) == Keep(s, {m \in Mbuf : Version(m) = v})

-----------------------------------------------------------------------------

Init ==
  /\ Q!Init /\ ctx = "in"
  /\ side = "in" /\ stage = "idle"
  /\ ipsec = <<>> /\ ip = [v \in Ver |-> <<>>]
  /\ tx = [p \in Port |-> <<>>]
  /\ wire = {}
  /\ flow = [m \in Mbuf |-> NoFlow]
  /\ sealed = [m \in Mbuf |-> FALSE]
  /\ sa = [m \in Mbuf |-> NoSa]

\* main_loop gets the burst s of packets f from a port of direction d, and
\* prepare_traffic sorts it.  (Other ethertypes are freed here at once.)
Receive(d, s, f) ==
  LET arrived == [m \in Mbuf |-> IF m \in Elems(s)
                    THEN f[CHOOSE i \in DOMAIN s : s[i] = m] ELSE flow[m]]
      IsEsp == {m \in Mbuf : arrived[m].esp # 0}
      Is(v) == {m \in Mbuf : arrived[m].esp = 0 /\ arrived[m].v = v}
  IN  /\ stage = "idle" /\ s # <<>>
      /\ \A i \in DOMAIN f : f[i].dir = d
      /\ stage' = "sorted" /\ side' = d
      /\ pool' = pool \ Elems(s)
      /\ ipsec' = Keep(s, IsEsp)
      /\ ip' = [v \in Ver |-> Keep(s, Is(v))]
      /\ Contents(arrived, [m \in Mbuf |->
           IF m \in Elems(s) THEN arrived[m].esp # 0 ELSE sealed[m]])
      /\ UNCHANGED <<cryptoVars, tx, wire, sa>>

\* ipsec_enqueue is entered with the packets of s.
Enter(s) ==
  /\ stage' = "crypto"
  /\ pc' = "enqueue" /\ ctx' = side
  /\ pkts' = s
  /\ ipsec' = <<>>
  /\ UNCHANGED <<cops, out, polled, last_qp, buf, in_flight, queue, ready,
                 side, tx, wire, sa>>

\* process_pkts_inbound up to ipsec_inbound.
CallInbound ==
  /\ stage = "sorted" /\ side = "in"
  /\ Enter(ipsec)
  /\ UNCHANGED <<pool, ip, flow, sealed>>

\* outbound_sp on the packets of one version: what is freed, what is sent
\* through the crypto path, and what is left in clear.
Filtered(m)  == HasSp["out"][flow[m].v]
Refused(m)   == Filtered(m) /\ flow[m].sp \in {0, Discard}
Protected(m) == Filtered(m) /\ flow[m].sp > 0
Cleared(m)   == ~ Refused(m) /\ ~ Protected(m)

\* process_pkts_outbound up to ipsec_outbound.
CallOutbound ==
  /\ stage = "sorted" /\ side = "out"
  /\ ip' = [v \in Ver |-> Keep(ip[v], {m \in Mbuf : Cleared(m)})]
  /\ pool' = pool \cup Elems(ipsec)
                  \cup {m \in Elems(ip[4] \o ip[6]) : Refused(m)}
  /\ Enter(Keep(ip[4] \o ip[6], {m \in Mbuf : Protected(m)}))
  /\ SameContents

\* The SA ipsec_enqueue finds for its next packet.
FoundSa ==
  LET f == flow[Head(pkts)]
  IN  IF ctx = "in" THEN Of("in", f.esp) ELSE Of("out", f.sp)

\* ipsec_enqueue frees the packet.  priv->sa is set unless there is no SA
\* at all; an outbound index always has a table entry, here NoSa if unused.
Refuse ==
  /\ Q!EnqueueReject
  /\ sa' = IF ctx = "in" /\ FoundSa = NoSa THEN sa
           ELSE [sa EXCEPT ![Head(pkts)] = FoundSa]
  /\ SameContents
  /\ UNCHANGED <<trafficVars, tx, wire>>

\* The packet is prepared for its SA's queue pair.
Accept ==
  LET q == <<ctx, SaQp[FoundSa]>>
  IN  /\ pc = "enqueue" /\ pkts # <<>>
      /\ FoundSa # NoSa
      /\ \/ Q!EnqueueBuffer(q)
         \/ \E ret \in 0 .. MaxBurst : Q!EnqueueFlush(q, ret)
      /\ sa' = [sa EXCEPT ![Head(pkts)] = FoundSa]
      /\ SameContents
      /\ UNCHANGED <<trafficVars, tx, wire>>

\* The steps of ipsec_enqueue and ipsec_dequeue that touch no contents.
Crypto ==
  /\ Q!EnqueueDone \/ Q!Dequeue
  /\ SameContents
  /\ UNCHANGED <<trafficVars, tx, wire, sa>>

\* The device encrypts or decrypts the next op of q in place.
DeviceFinish(q) ==
  /\ Q!DeviceFinish(q)
  /\ sealed' = [sealed EXCEPT ![queue[q][ready[q] + 1]] = ~ @]
  /\ UNCHANGED <<trafficVars, tx, wire, flow, sa>>

\* Wrong on purpose: without the test "i < lim".
PassesAny(m, decrypted) ==
  \/ ~ HasSp["in"][Version(m)]
  \/ flow[m].sp = Bypass
  \/ flow[m].sp > 0 /\ sa[m] = <<"in", flow[m].sp>>

\* inbound_sp_sa on packet m, received in clear or just decrypted.
Passes(m, decrypted) ==
  \/ ~ HasSp["in"][Version(m)]
  \/ flow[m].sp = Bypass
  \/ decrypted /\ flow[m].sp > 0 /\ sa[m] = <<"in", flow[m].sp>>

\* Wrong on purpose: what came back stays in the array of the next call.
LeaveKept ==
  /\ stage = "crypto" /\ pc = "caller"
  /\ stage' = "route"
  /\ UNCHANGED <<pc, ctx, pkts, cops, out, polled, last_qp,
                 buf, in_flight, queue, ready, side, ipsec, tx, wire, sa>>

\* The packets out of the crypto path have left its arrays.
Leave ==
  /\ stage = "crypto" /\ pc = "caller"
  /\ stage' = "route"
  /\ out' = <<>>
  /\ UNCHANGED <<pc, ctx, pkts, cops, polled, last_qp,
                 buf, in_flight, queue, ready, side, ipsec, tx, wire, sa>>

\* The rest of process_pkts_inbound after ipsec_inbound.
ReturnInbound ==
  LET kept(v) == Keep(ip[v], {m \in Mbuf : Passes(m, FALSE)})
                   \o Keep(OfVersion(out, v), {m \in Mbuf : Passes(m, TRUE)})
  IN  /\ ctx = "in" /\ Leave
      /\ ip' = [v \in Ver |-> kept(v)]
      /\ pool' = pool \cup (Elems(ip[4] \o ip[6] \o out)
                               \ Elems(kept(4) \o kept(6)))
      /\ SameContents

\* The rest of process_pkts_outbound after ipsec_outbound.
ReturnOutbound ==
  /\ ctx = "out" /\ Leave
  /\ ip' = [v \in Ver |-> ip[v] \o OfVersion(out, v)]
  /\ UNCHANGED <<pool, flow, sealed>>

\* Wrong on purpose: the index is incremented before the first is freed.
SendBurstSkip(s, ret) ==
  /\ wire' = wire \cup Elems(SubSeq(s, 1, ret))
  /\ pool' = pool \cup Elems(SubSeq(s, ret + 2, Len(s)))

\* send_burst: the NIC takes the first ret packets of s, the rest is freed.
SendBurst(s, ret) ==
  /\ wire' = wire \cup Elems(SubSeq(s, 1, ret))
  /\ pool' = pool \cup Elems(SubSeq(s, ret + 1, Len(s)))

\* The version route4_pkts and then route6_pkts are at.
Routing == IF ip[4] # <<>> THEN 4 ELSE 6

\* A packet with no route is freed.
Unrouted ==
  /\ stage = "route" /\ ip[Routing] # <<>>
  /\ ip' = [ip EXCEPT ![Routing] = Tail(@)]
  /\ pool' = pool \cup {Head(ip[Routing])}
  /\ SameContents
  /\ UNCHANGED <<cryptoVars, side, stage, ipsec, tx, wire, sa>>

\* Wrong on purpose: one packet too late.
FullLate(s) == Len(s) = MaxBurst + 1

Full(s) == Len(s) = MaxBurst

\* send_single_packet on port p.
Send(p, ret) ==
  LET burst == Append(tx[p], Head(ip[Routing]))
  IN  /\ stage = "route" /\ ip[Routing] # <<>>
      /\ ip' = [ip EXCEPT ![Routing] = Tail(@)]
      /\ \/ /\ ~ Full(burst) /\ ret = 0
            /\ tx' = [tx EXCEPT ![p] = burst]
            /\ UNCHANGED <<pool, wire>>
         \/ /\ Full(burst) /\ ret <= Len(burst)
            /\ tx' = [tx EXCEPT ![p] = <<>>]
            /\ SendBurst(burst, ret)
      /\ SameContents
      /\ UNCHANGED <<cryptoVars, side, stage, ipsec, sa>>

RouteDone ==
  /\ stage = "route" /\ ip[4] = <<>> /\ ip[6] = <<>>
  /\ stage' = "idle"
  /\ UNCHANGED <<cryptoVars, pool, side, ipsec, ip, tx, wire,
                 flow, sealed, sa>>

\* drain_buffers on a port with packets left, when the timer has run out.
Drain(p, ret) ==
  /\ stage = "idle" /\ tx[p] # <<>>
  /\ ret <= Len(tx[p])
  /\ SendBurst(tx[p], ret)
  /\ tx' = [tx EXCEPT ![p] = <<>>]
  /\ SameContents
  /\ UNCHANGED <<cryptoVars, trafficVars, sa>>

\* The NIC has transmitted what it holds.
Transmitted ==
  /\ wire # {}
  /\ pool' = pool \cup wire
  /\ wire' = {}
  /\ SameContents
  /\ UNCHANGED <<cryptoVars, trafficVars, tx, sa>>

Next ==
  \/ \E d \in Ctx, s \in Q!Bursts : \E f \in [DOMAIN s -> Flow] : Receive(d, s, f)
  \/ CallInbound \/ CallOutbound
  \/ Refuse \/ Accept \/ Crypto
  \/ \E q \in Q!Qp : DeviceFinish(q)
  \/ ReturnInbound \/ ReturnOutbound
  \/ Unrouted
  \/ \E p \in Port, ret \in 0 .. MaxBurst : Send(p, ret) \/ Drain(p, ret)
  \/ RouteDone
  \/ Transmitted

Spec == Init /\ [][Next]_vars

-----------------------------------------------------------------------------

TypeOK ==
  /\ Q!TypeOK
  /\ side \in Ctx
  /\ stage \in {"idle", "sorted", "crypto", "route"}
  /\ ipsec \in Seq(Mbuf) /\ ip \in [Ver -> Seq(Mbuf)]
  /\ tx \in [Port -> Seq(Mbuf)]
  /\ wire \subseteq Mbuf
  /\ flow \in [Mbuf -> Flow \cup {NoFlow}]
  /\ sealed \in [Mbuf -> BOOLEAN]
  /\ sa \in [Mbuf -> Sa \cup {NoSa}]

\* Nothing leaves the gateway but what the policy of its direction lets out,
\* in the form it asks for: however long a packet spent in a partial burst or
\* in a device, and whatever was received in between, a PROTECT packet is
\* sent encrypted by the SA its rule names, a decrypted one was protected by
\* the SA its rule names, and what travels in clear is allowed to.
Allowed(m) ==
  LET f == flow[m]
  IN  \/ ~ HasSp[f.dir][f.v] /\ (f.dir = "out" => f.esp = 0) /\ ~ sealed[m]
      \/ f.sp = Bypass /\ ~ sealed[m]
      \/ f.dir = "in" /\ f.esp # 0 /\ f.esp = f.sp /\ ~ sealed[m]
      \/ f.dir = "out" /\ f.sp > 0 /\ sa[m] = <<"out", f.sp>> /\ sealed[m]

SentAsAllowed == \A p \in Port : \A m \in Elems(tx[p]) : Allowed(m)

\* The mbufs the crypto path holds.
Crypted ==
  (UNION {Elems(s) : s \in {pkts, cops, out}})
    \cup (UNION {Elems(buf[q]) \cup Elems(queue[q]) : q \in Q!Qp})

\* Every mbuf outside the crypto path is in exactly one place, once: in the
\* pool, with the NIC, in an array of struct ipsec_traffic or in a transmit
\* buffer.  No filter, loop or partial acceptance frees a packet twice,
\* loses one, or keeps one it freed.
MbufHeldOnce ==
  LET places == {<<"pool", pool>>, <<"wire", wire>>, <<"crypto", Crypted>>,
                 <<"ipsec", Elems(ipsec)>>, <<"ip4", Elems(ip[4])>>,
                 <<"ip6", Elems(ip[6])>>} \cup {<<p, Elems(tx[p])>> : p \in Port}
  IN  /\ \A m \in Mbuf : Cardinality({x \in places : m \in x[2]}) = 1
      /\ \A s \in {ipsec, ip[4], ip[6]} \cup {tx[p] : p \in Port} : Q!Distinct(s)

\* The arrays of struct traffic_type hold a received burst and a dequeued one
\* and are never overrun, though what is dequeued belongs to earlier bursts;
\* a transmit buffer always has room for one more packet.
TrafficBounded ==
  /\ \A v \in Ver : Len(ip[v]) <= 2 * MaxBurst
  /\ Len(ipsec) <= MaxBurst /\ Len(pkts) <= MaxBurst
  /\ \A p \in Port : Len(tx[p]) < MaxBurst

\* The packets of one SA on their way to port p, oldest first.
Line(s, p) ==
  LET v == IF SaTunnel[s] = 0 THEN 4 ELSE SaTunnel[s]
      q == <<s[1], SaQp[s]>>
      Mine == {m \in Mbuf : sa[m] = s}
      Done == {m \in Mine : sealed[m]}
  IN  Keep(tx[p] \o ip[v], Done) \o Keep(out \o cops \o queue[q] \o buf[q], Mine)

\* No step lets two outbound packets of a tunnel SA overtake each other, from
\* the moment esp_outbound numbered them to the transmit buffer: the ESP
\* sequence numbers reach each port in the order they were given.
InOrder(s, t) ==
  \A i, j \in DOMAIN s : \A k, l \in DOMAIN t :
    i < j /\ s[i] = t[k] /\ s[j] = t[l] => k < l

PerSaOrder ==
  [][\A s \in Sa : \A p \in Port :
       s[1] = "out" => InOrder(Line(s, p), Line(s, p)')]_vars

\* The lcore drives the crypto path as CryptoQueue describes its caller: the
\* mbufs outside the crypto path are the pool of that module.
Caller == INSTANCE CryptoQueue WITH pool <- Mbuf \ Crypted
CryptoPathUsed == Caller!Spec
=============================================================================
