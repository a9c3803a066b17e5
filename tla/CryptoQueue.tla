---------------------------- MODULE CryptoQueue ----------------------------
(***************************************************************************)
(* The asynchronous crypto path of one lcore of ipsec_eval/ipsec.c:        *)
(* ipsec_inbound and ipsec_outbound hand the packets of a burst to the     *)
(* queue pairs of a context (ipsec_enqueue, enqueue_cop) and then collect  *)
(* whatever the devices have finished by then (ipsec_dequeue).  The lcore  *)
(* is sequential; the devices run beside it.                               *)
(*                                                                         *)
(* An mbuf is a member of Mbuf; what it carries does not matter here.      *)
(* The C arrays with a length (pkts[], cops[], cdev_qp.buf) are sequences. *)
(***************************************************************************)
EXTENDS Integers, Sequences, FiniteSets

CONSTANTS
  Mbuf,        \* the mbufs of the pool
  Ctx,         \* the ipsec_ctx of the lcore: inbound and outbound
  NbQps,       \* ipsec_ctx.nb_qps: queue pairs of each context
  MaxBurst,    \* MAX_PKT_BURST, 32 in the code
  QueueDepth   \* CDEV_QUEUE_DESC: ops a device queue pair can hold

ASSUME CryptoQueueAssumption ==
  /\ NbQps \in [Ctx -> Nat]
  /\ MaxBurst \in Nat \ {0}
  /\ QueueDepth \in Nat

\* ipsec_ctx.tbl[]: the cdev_qp entries of every context.
Qp == UNION {{c} \X (0 .. NbQps[c] - 1) : c \in Ctx}

VARIABLES
  pc,         \* where the lcore is: "caller", "enqueue" or "dequeue"
  ctx,        \* the ipsec_ctx of the call in progress
  pool,       \* the free mbufs
  pkts,       \* pkts[i..nb_pkts-1]: what ipsec_enqueue still has to take
  cops,       \* cops[j..nb_cops-1]: dequeued, not yet post-processed
  out,        \* pkts[0..nb_pkts-1] as ipsec_dequeue refills it
  polled,     \* i: queue pairs ipsec_dequeue has looked at
  last_qp,    \* ipsec_ctx.last_qp: where the next poll starts
  buf,        \* cdev_qp.buf[0..len-1]: ops waiting for a full burst
  in_flight,  \* cdev_qp.in_flight
  queue,      \* the device: ops accepted and not yet handed back
  ready       \* the device: how many ops at the head of queue are finished

callVars == <<pc, ctx, pkts, cops, out, polled, last_qp>>
qpVars   == <<buf, in_flight, queue, ready>>
vars     == <<callVars, pool, qpVars>>

Elems(s)     == {s[i] : i \in 1 .. Len(s)}
Distinct(s)  == \A i, j \in 1 .. Len(s) : s[i] = s[j] => i = j
Smaller(a, b) == IF a < b THEN a ELSE b

-----------------------------------------------------------------------------

Init ==
  /\ pc = "caller"
  /\ ctx \in Ctx
  /\ pool = Mbuf
  /\ pkts = <<>> /\ cops = <<>> /\ out = <<>>
  /\ polled = 0
  /\ last_qp = [c \in Ctx |-> 0]
  /\ buf = [q \in Qp |-> <<>>]
  /\ in_flight = [q \in Qp |-> 0]
  /\ queue = [q \in Qp |-> <<>>]
  /\ ready = [q \in Qp |-> 0]

\* ipsec_inbound or ipsec_outbound is called on context c with a burst s of
\* freshly received mbufs (possibly none: process_pkts calls it anyway).
Bursts == {s \in UNION {[1 .. n -> pool] : n \in 0 .. MaxBurst} : Distinct(s)}

Call(c, s) ==
  /\ pc = "caller" /\ out = <<>>
  /\ pc' = "enqueue"
  /\ ctx' = c
  /\ pkts' = s
  /\ pool' = pool \ Elems(s)
  /\ UNCHANGED <<cops, out, polled, last_qp, qpVars>>

\* ipsec_enqueue frees the packet: its SA lookup gave NULL, create_session
\* failed, or the ESP transform refused it.
EnqueueReject ==
  /\ pc = "enqueue" /\ pkts # <<>>
  /\ pool' = pool \cup {Head(pkts)}
  /\ pkts' = Tail(pkts)
  /\ UNCHANGED <<pc, ctx, cops, out, polled, last_qp, qpVars>>

\* Wrong on purpose: the buffer is compared with the burst before the op is
\* added, so it can fill up.
EnqueueBufferLate(q) ==
  /\ pc = "enqueue" /\ pkts # <<>>
  /\ q[1] = ctx
  /\ Len(buf[q]) # MaxBurst
  /\ buf' = [buf EXCEPT ![q] = Append(@, Head(pkts))]
  /\ pkts' = Tail(pkts)
  /\ UNCHANGED <<pc, ctx, pool, cops, out, polled, last_qp,
                 in_flight, queue, ready>>

\* enqueue_cop on queue pair q while the burst is not yet full.
EnqueueBuffer(q) ==
  /\ pc = "enqueue" /\ pkts # <<>>
  /\ q[1] = ctx
  /\ Len(buf[q]) + 1 # MaxBurst
  /\ buf' = [buf EXCEPT ![q] = Append(@, Head(pkts))]
  /\ pkts' = Tail(pkts)
  /\ UNCHANGED <<pc, ctx, pool, cops, out, polled, last_qp,
                 in_flight, queue, ready>>

\* Wrong on purpose: in_flight grows by the burst, not by what the device took.
EnqueueFlushAll(q, ret) ==
  LET burst == Append(buf[q], Head(pkts))
  IN  /\ pc = "enqueue" /\ pkts # <<>>
      /\ q[1] = ctx
      /\ Len(burst) = MaxBurst
      /\ ret <= Len(burst) /\ Len(queue[q]) + ret <= QueueDepth
      /\ queue' = [queue EXCEPT ![q] = @ \o SubSeq(burst, 1, ret)]
      /\ in_flight' = [in_flight EXCEPT ![q] = @ + Len(burst)]
      /\ pool' = pool \cup Elems(SubSeq(burst, ret + 1, Len(burst)))
      /\ buf' = [buf EXCEPT ![q] = <<>>]
      /\ pkts' = Tail(pkts)
      /\ UNCHANGED <<pc, ctx, cops, out, polled, last_qp, ready>>

\* enqueue_cop on queue pair q with the op that fills the burst: the device
\* accepts the first ret ops, the others are freed, the buffer is emptied.
EnqueueFlush(q, ret) ==
  LET burst == Append(buf[q], Head(pkts))
  IN  /\ pc = "enqueue" /\ pkts # <<>>
      /\ q[1] = ctx
      /\ Len(burst) = MaxBurst
      /\ ret <= Len(burst) /\ Len(queue[q]) + ret <= QueueDepth
      /\ queue' = [queue EXCEPT ![q] = @ \o SubSeq(burst, 1, ret)]
      /\ in_flight' = [in_flight EXCEPT ![q] = @ + ret]
      /\ pool' = pool \cup Elems(SubSeq(burst, ret + 1, Len(burst)))
      /\ buf' = [buf EXCEPT ![q] = <<>>]
      /\ pkts' = Tail(pkts)
      /\ UNCHANGED <<pc, ctx, cops, out, polled, last_qp, ready>>

EnqueueDone ==
  /\ pc = "enqueue" /\ pkts = <<>>
  /\ pc' = "dequeue"
  /\ polled' = 0
  /\ UNCHANGED <<ctx, pool, pkts, cops, out, last_qp, qpVars>>

\* Wrong on purpose: last_qp counts down without a wrap; it always starts over.
NextQpDown(c)  == last_qp[c] - 1
NextQpFirst(c) == 0

\* last_qp++ with its wrap.
NextQp(c) ==
  IF last_qp[c] + 1 = NbQps[c] THEN 0 ELSE last_qp[c] + 1

\* One iteration of ipsec_dequeue's loop: it polls the queue pair last_qp
\* points at, unless nothing is in flight there.
PollQp ==
  LET q  == <<ctx, last_qp[ctx]>>
      nb == Smaller(ready[q], MaxBurst - Len(out))
  IN  /\ pc = "dequeue" /\ cops = <<>>
      /\ polled < NbQps[ctx] /\ Len(out) < MaxBurst
      /\ polled' = polled + 1
      /\ last_qp' = [last_qp EXCEPT ![ctx] = NextQp(ctx)]
      /\ \/ /\ in_flight[q] = 0
            /\ UNCHANGED <<cops, qpVars>>
         \/ /\ in_flight[q] # 0
            /\ cops' = SubSeq(queue[q], 1, nb)
            /\ queue' = [queue EXCEPT ![q] = SubSeq(@, nb + 1, Len(@))]
            /\ ready' = [ready EXCEPT ![q] = @ - nb]
            /\ in_flight' = [in_flight EXCEPT ![q] = @ - nb]
            /\ UNCHANGED buf
      /\ UNCHANGED <<pc, ctx, pool, pkts, out>>

\* The post transform accepts the next dequeued packet, or it is freed.
PostAccept ==
  /\ cops # <<>>
  /\ out' = Append(out, Head(cops))
  /\ cops' = Tail(cops)
  /\ UNCHANGED <<pc, ctx, pool, pkts, polled, last_qp, qpVars>>

\* Wrong on purpose: no "continue" after the packet is freed.
PostRejectKept ==
  /\ cops # <<>>
  /\ pool' = pool \cup {Head(cops)}
  /\ out' = Append(out, Head(cops))
  /\ cops' = Tail(cops)
  /\ UNCHANGED <<pc, ctx, pkts, polled, last_qp, qpVars>>

PostReject ==
  /\ cops # <<>>
  /\ pool' = pool \cup {Head(cops)}
  /\ cops' = Tail(cops)
  /\ UNCHANGED <<pc, ctx, pkts, out, polled, last_qp, qpVars>>

DequeueDone ==
  /\ pc = "dequeue" /\ cops = <<>>
  /\ polled = NbQps[ctx] \/ Len(out) >= MaxBurst
  /\ pc' = "caller"
  /\ UNCHANGED <<ctx, pool, pkts, cops, out, polled, last_qp, qpVars>>

\* The caller drops or transmits what it got back.
Consume ==
  /\ pc = "caller" /\ out # <<>>
  /\ pool' = pool \cup Elems(out)
  /\ out' = <<>>
  /\ UNCHANGED <<pc, ctx, pkts, cops, polled, last_qp, qpVars>>

\* The device finishes the next op of q (ops of a queue pair stay in order).
DeviceFinish(q) ==
  /\ ready[q] < Len(queue[q])
  /\ ready' = [ready EXCEPT ![q] = @ + 1]
  /\ UNCHANGED <<callVars, pool, buf, in_flight, queue>>

Enqueue ==
  \/ EnqueueReject
  \/ \E q \in Qp : EnqueueBuffer(q)
  \/ \E q \in Qp, ret \in 0 .. MaxBurst : EnqueueFlush(q, ret)
  \/ EnqueueDone

Dequeue == PollQp \/ PostAccept \/ PostReject \/ DequeueDone

Next ==
  \/ \E c \in Ctx, s \in Bursts : Call(c, s)
  \/ Enqueue
  \/ Dequeue
  \/ Consume
  \/ \E q \in Qp : DeviceFinish(q)

Spec == Init /\ [][Next]_vars

\* The lcore keeps running, the devices keep working, and every context keeps
\* being called: main_loop only reaches ipsec_dequeue when packets arrive, so
\* this last part is an assumption on the traffic.
Fairness ==
  /\ WF_vars(Enqueue) /\ WF_vars(Dequeue) /\ WF_vars(Consume)
  /\ \A c \in Ctx : SF_vars(\E s \in Bursts : Call(c, s))
  /\ \A q \in Qp : WF_vars(DeviceFinish(q))

FairSpec == Spec /\ Fairness

-----------------------------------------------------------------------------

TypeOK ==
  /\ pc \in {"caller", "enqueue", "dequeue"}
  /\ ctx \in Ctx
  /\ pool \subseteq Mbuf
  /\ pkts \in Seq(Mbuf) /\ cops \in Seq(Mbuf) /\ out \in Seq(Mbuf)
  /\ polled \in Nat
  /\ last_qp \in [Ctx -> Nat]
  /\ buf \in [Qp -> Seq(Mbuf)]
  /\ in_flight \in [Qp -> Int]
  /\ queue \in [Qp -> Seq(Mbuf)]
  /\ ready \in [Qp -> Nat]

(***************************************************************************)
(* Who holds which mbuf.  A place is an array of the code, a device queue  *)
(* or the pool; NoQp fills the second component of the first four.         *)
(***************************************************************************)
NoQp == <<"none", 0>>

Place ==
  ({"pool", "pkts", "cops", "out"} \X {NoQp}) \cup ({"buf", "queue"} \X Qp)

held ==
  [p \in Place |->
     CASE p[1] = "pool"  -> pool
       [] p[1] = "pkts"  -> Elems(pkts)
       [] p[1] = "cops"  -> Elems(cops)
       [] p[1] = "out"   -> Elems(out)
       [] p[1] = "buf"   -> Elems(buf[p[2]])
       [] p[1] = "queue" -> Elems(queue[p[2]])]

\* h shares out the mbufs: each is in exactly one place.
SharesOut(h) ==
  \A m \in Mbuf : \E p \in Place : \A r \in Place : m \in h[r] <=> r = p

\* Every mbuf is at all times in exactly one place, once: the error paths of
\* ipsec_enqueue, enqueue_cop and ipsec_dequeue free each packet they give up
\* exactly once, and neither lose one nor keep a pointer to a freed one.
MbufHeldOnce ==
  /\ SharesOut(held)
  /\ Distinct(pkts) /\ Distinct(cops) /\ Distinct(out)
  /\ \A q \in Qp : Distinct(buf[q]) /\ Distinct(queue[q])

\* in_flight, which decides whether a queue pair is polled at all, counts
\* exactly the ops the device holds, however many of a burst it accepted.
InFlightExact == \A q \in Qp : in_flight[q] = Len(queue[q])

\* The fixed arrays are never overrun: a partial burst always leaves room for
\* one more op, and ipsec_dequeue returns no more than max_pkts.
ArraysBounded ==
  /\ \A q \in Qp : Len(buf[q]) < MaxBurst
  /\ Len(out) + Len(cops) <= MaxBurst

\* The round robin over last_qp starves no queue pair: as long as calls keep
\* coming, what a device accepted is handed back, even when another queue
\* pair fills every burst.
QueuesDrained ==
  \A q \in Qp : \A m \in Mbuf :
    m \in Elems(queue[q]) ~> m \notin Elems(queue[q])
=============================================================================
