----------------------------- MODULE IpsecNoSp ------------------------------
(***************************************************************************)
(* The lcore of IpsecLcore under the option --single-sa, which replaces    *)
(* the security policy: process_pkts calls process_pkts_inbound_nosp and   *)
(* process_pkts_outbound_nosp of ipsec_eval/ipsec-secgw.c.                 *)
(***************************************************************************)
EXTENDS IpsecLcore

CONSTANT SingleIdx   \* single_sa_idx

\* Up to ipsec_inbound: what came in clear is freed.
CallInboundNoSp ==
  /\ stage = "sorted" /\ side = "in"
  /\ ip' = [v \in Ver |-> <<>>]
  /\ pool' = pool \cup Elems(ip[4] \o ip[6])
  /\ Enter(ipsec)
  /\ SameContents

\* Up to ipsec_outbound, which is given ip4 only.  It works on the array
\* ip4.pkts itself: the old entries stay there, below ip4.num.
CallOutboundNoSp ==
  /\ stage = "sorted" /\ side = "out"
  /\ pool' = pool \cup Elems(ipsec)
  /\ Contents([m \in Mbuf |-> IF m \in Elems(ip[4] \o ip[6])
                 THEN [flow[m] EXCEPT !.sp = SingleIdx] ELSE flow[m]], sealed)
  /\ Enter(ip[4])
  /\ UNCHANGED ip

ReturnInboundNoSp ==
  /\ ctx = "in" /\ Leave
  /\ ip' = [v \in Ver |-> OfVersion(out, v)]
  /\ UNCHANGED <<pool, flow, sealed>>

\* The version that decides which count is set is read through an entry of
\* ipsec.pkts that this call never wrote, so either branch can be taken.  (In
\* the second, entries of ip6.pkts that were never written are left out.)
ReturnOutboundNoSp ==
  LET n == Len(out)
  IN  /\ ctx = "out" /\ Leave
      /\ \/ ip' = [ip EXCEPT ![4] = out]
         \/ ip' = [ip EXCEPT ![4] = out \o SubSeq(@, n + 1, Len(@)),
                             ![6] = SubSeq(@, 1, Q!Smaller(n, Len(@)))]
      /\ UNCHANGED <<pool, flow, sealed>>

NextNoSp ==
  \/ \E d \in Ctx, s \in Q!Bursts : \E f \in [DOMAIN s -> Flow] : Receive(d, s, f)
  \/ CallInboundNoSp \/ CallOutboundNoSp
  \/ Refuse \/ Accept \/ Crypto
  \/ \E q \in Q!Qp : DeviceFinish(q)
  \/ ReturnInboundNoSp \/ ReturnOutboundNoSp
  \/ Unrouted
  \/ \E p \in Port, ret \in 0 .. MaxBurst : Send(p, ret) \/ Drain(p, ret)
  \/ RouteDone
  \/ Transmitted

SpecNoSp == Init /\ [][NextNoSp]_vars

\* What is received from a protected port is sent encrypted by the one SA of
\* the option, whichever its IP version ("They all sue the same SA (ip4 or
\* ip6 tunnel)").
SingleSaUsed ==
  \A p \in Port : \A m \in Elems(tx[p]) :
    flow[m].dir = "out" => sealed[m] /\ sa[m] = <<"out", SingleIdx>>
=============================================================================
