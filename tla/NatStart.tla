------------------------------ MODULE NatStart ------------------------------
(***************************************************************************)
(* The NAT from its command line to its end: main.c of nat_eval, with the  *)
(* table of NatTable loaded on the way, em_main_loop on every lcore, which *)
(* translates packets as in NatPacket and hands them to the batches of     *)
(* TxBatch, and the end of the process after a signal.                     *)
(*                                                                         *)
(* An option that takes a value has ok, which says whether the value has   *)
(* the form asked for.  A mask of ports is the set of its bits.            *)
(***************************************************************************)
EXTENDS NatPacket, FiniteSetsExt

CONSTANTS
  Arguments,       \* [opt, ok, val]
  Invocations,     \* [args, files]: sequences of arguments, and sets of prefixes
  Default,         \* lcore_params_array_default
  Lcores, SocketOf,
  NbPorts,         \* rte_eth_dev_count()
  MaskBits,        \* the bits of a port mask
  MaxQueue,        \* MAX_RX_QUEUE_PER_PORT
  MaxTxQueue,      \* MAX_TX_QUEUE_PER_PORT
  MaxRxPerLcore,   \* MAX_RX_QUEUE_PER_LCORE
  NbSockets,       \* NB_SOCKETS
  HashEntries,     \* L3FWD_HASH_ENTRIES
  RxDesc, TxDesc, Burst, Cache, MinMbuf,   \* the terms of NB_MBUF
  Packets,         \* [v, l4, ext, saddr, sport, daddr, dport]; l4 is the kind of
                   \* its payload: "port" for TCP and UDP, "bits" for ICMP, IGMP,
                   \* fragments and the like, "none" for SCTP and the unknown
  MaxForwarded(_)  \* packets forwarded with a file: a bound on the exploration

Params == [port : Nat, queue : Nat, lcore : Nat]

ASSUME StartAssumption ==
  /\ \A a \in Arguments : a.ok => /\ a.opt = "p" => a.val \subseteq 0 .. MaskBits - 1
                                  /\ a.opt = "config" => a.val \in Seq(Params)
  /\ \A c \in Invocations : c.args \in Seq(Arguments) /\ c.files \subseteq Candidates
  /\ Default \in Seq(Params)
  /\ Packets \subseteq [v : {4, 6}, l4 : {"port", "bits", "none"}, ext : BOOLEAN,
                         saddr : 0 .. Octet * Size8 - 1, daddr : Nat,
                         sport : 0 .. Ports - 1, dport : 0 .. Ports - 1]
  /\ NbPorts <= MaskBits
  /\ Lcores \subseteq Nat /\ IsFiniteSet(Lcores) /\ Lcores # {}
  /\ SocketOf \in [Lcores -> Nat]
  /\ {NbPorts, MaskBits, MaxQueue, MaxTxQueue, MaxRxPerLcore, NbSockets, HashEntries} \subseteq Nat
  /\ {RxDesc, TxDesc, Burst, Cache, MinMbuf} \subseteq Nat
  /\ \A c \in Invocations : MaxForwarded(c.files) \in Nat

VARIABLES
  pc,         \* where main is
  args, files,
  opts,       \* the options that were taken
  todo,       \* ports still to be set up
  mem_todo,   \* lcores that init_mem still has to do
  pool,       \* for each socket, the mbufs of its pool
  nat_tbl,    \* the sockets that have a table
  nb_rxq,     \* for each port, its receive queues
  tx_id,      \* for each <<lcore, port>>, tx_queue_id
  rx_setup,   \* for each <<port, queue>>, the socket of its pool
  started,    \* ports
  loops,      \* lcores in their main loop
  force_quit,
  hung,       \* lcores that are in idx_to_ip for ever
  out         \* packets given to send_packets_multi: [lcore, from, port, was, is]

tabVars   == <<vars, rk>>
devVars   == <<nb_rxq, tx_id, rx_setup, started>>
memVars   == <<pool, nat_tbl, mem_todo>>
loopVars  == <<loops, hung, out>>
startVars == <<args, files, opts, todo>>
allVars   == <<pc, startVars, memVars, devVars, loopVars, force_quit, tabVars>>

None == [k \in {} |-> 0]
With(f, k, v) == [x \in DOMAIN f \union {k} |-> IF x = k THEN v ELSE f[x]]

InitNat ==
  /\ Init /\ rk = None
  /\ pc = "args"
  /\ \E c \in Invocations : args = c.args /\ files = c.files
  /\ opts = [p |-> {}, flags |-> {}, config |-> Default, jumbo |-> 0, entries |-> 4]
  /\ todo = {} /\ mem_todo = {} /\ nat_tbl = {} /\ started = {} /\ loops = {} /\ hung = {} /\ out = {}
  /\ pool = None /\ nb_rxq = None /\ tx_id = None /\ rx_setup = None
  /\ force_quit = FALSE

Exit ==
  /\ pc' = "stopped"
  /\ UNCHANGED <<startVars, memVars, devVars, loopVars, force_quit, tabVars>>

-----------------------------------------------------------------------------
(* parse_args *)

Option(opt) == pc = "args" /\ args # <<>> /\ Head(args).opt = opt

Take(n, new) ==
  /\ opts' = new /\ args' = SubSeq(args, n + 1, Len(args))
  /\ UNCHANGED <<pc, files, todo, memVars, devVars, loopVars, force_quit, tabVars>>

\* What is no number, and 0 as well, is -1: every port.
parse_portmask(arg) == IF arg.ok /\ arg.val # {} THEN arg.val ELSE 0 .. MaskBits - 1

ArgPorts == Option("p") /\ Take(1, [opts EXCEPT !.p = parse_portmask(Head(args))])

\* -P, -E, -L, --no-numa, --ipv6, --parse-ptype, and a good --eth-dest.
ArgFlag ==
  \E f \in {"P", "E", "L", "no-numa", "ipv6", "parse-ptype", "eth-dest"} :
    /\ Option(f) /\ Head(args).ok
    /\ Take(1, [opts EXCEPT !.flags = @ \union {f}])

ArgConfig == Option("config") /\ Head(args).ok /\ Take(1, [opts EXCEPT !.config = Head(args).val])

Entries(arg) == arg.ok /\ arg.val \in 1 .. HashEntries
ArgEntries == Option("hash-entry-num") /\ Entries(Head(args)) /\ Take(1, [opts EXCEPT !.entries = Head(args).val])

\* --enable-jumbo asks getopt_long for --max-pkt-len, which takes the next
\* option off the command line whatever it is.
JumboNext == Option("enable-jumbo") /\ Len(args) > 1
PktLen(arg) == arg.opt = "max-pkt-len" => arg.ok

ArgJumbo ==
  /\ Option("enable-jumbo") /\ (JumboNext => PktLen(args[2]))
  /\ Take(IF JumboNext THEN 2 ELSE 1,
          [opts EXCEPT !.flags = @ \union {"enable-jumbo"},
                       !.jumbo = IF JumboNext /\ args[2].opt = "max-pkt-len"
                                 THEN args[2].val ELSE @])

ArgRefused ==
  /\ \/ (Option("config") \/ Option("eth-dest")) /\ ~ Head(args).ok
     \/ Option("hash-entry-num") /\ ~ Entries(Head(args))
     \/ JumboNext /\ ~ PktLen(args[2])
     \/ Option("max-pkt-len") \/ Option("?")
  /\ Exit

-----------------------------------------------------------------------------
(* The checks *)

\* The triples of an lcore, by their places in the array.
ListOf(l) == {n \in DOMAIN opts.config : opts.config[n].lcore = l}
Triples   == {opts.config[n] : n \in DOMAIN opts.config}

\* check_lcore_params, init_lcore_rx_queues and check_port_config.
ParamsOK ==
  /\ ~ {"E", "L"} \subseteq opts.flags
  /\ \A c \in Triples : c.queue < MaxQueue /\ c.lcore \in Lcores
  /\ \A l \in Lcores : Cardinality(ListOf(l)) <= MaxRxPerLcore
  /\ \A c \in Triples : (c.port % MaskBits) \in opts.p /\ c.port < NbPorts

EnabledPorts == {p \in 0 .. NbPorts - 1 : p \in opts.p}

\* -L: the options of exact match are reset.
Checked ==
  /\ pc = "args" /\ args = <<>> /\ ParamsOK
  /\ pc' = "ports" /\ todo' = EnabledPorts
  /\ opts' = IF "L" \in opts.flags
             THEN [opts EXCEPT !.flags = @ \ {"ipv6"}, !.entries = 4] ELSE opts
  /\ UNCHANGED <<args, files, memVars, devVars, loopVars, force_quit, tabVars>>

CheckFailed == pc = "args" /\ args = <<>> /\ ~ ParamsOK /\ Exit

\* Exact match only if it was asked for; only setup_hash makes a NAT table.
ExactMatch == "E" \in opts.flags
Socket(l)  == IF "no-numa" \in opts.flags THEN 0 ELSE SocketOf[l]

-----------------------------------------------------------------------------
(* One port after the other, and the memory with the first of them *)

Lowest(S) == Min(S)
Port == Lowest(todo)
QueuesOf(port) == {n \in DOMAIN opts.config : opts.config[n].port = port}

\* Wrong on purpose: the queues need not be in sequence.
InSequenceAny(port) == TRUE

\* get_port_n_rx_queues: 0, 1, 2 and so on, in this order.
InSequence(port) ==
  \A n \in QueuesOf(port) : opts.config[n].queue = Cardinality({k \in QueuesOf(port) : k < n})

\* Wrong on purpose: the ports are not counted.
NB_MBUF_One(nb_rx) ==
  Max({nb_rx * RxDesc + Cardinality(Lcores) * Burst + Cardinality(Lcores) * TxDesc
         + Cardinality(Lcores) * Cache, MinMbuf})

\* For the number of queues of the port that is being set up.
NB_MBUF(nb_rx) ==
  LET tx == Min({Cardinality(Lcores), MaxTxQueue}) IN
  Max({NbPorts * nb_rx * RxDesc + NbPorts * Cardinality(Lcores) * Burst
         + NbPorts * tx * TxDesc + Cardinality(Lcores) * Cache, MinMbuf})

\* The device takes the numbers of queues.
ConfigurePort ==
  /\ pc = "ports" /\ todo # {}
  /\ InSequence(Port)
  /\ nb_rxq' = With(nb_rxq, Port, Cardinality(QueuesOf(Port)))
  /\ mem_todo' = Lcores /\ pc' = "mem"
  /\ UNCHANGED <<startVars, pool, nat_tbl, tx_id, rx_setup, started, loopVars, force_quit, tabVars>>

\* The queues are not in sequence, or the device refuses them.
PortFails == pc = "ports" /\ todo # {} /\ Exit

Lcore == Lowest(mem_todo)

SkipSocket ==
  /\ pc = "mem" /\ mem_todo # {} /\ Socket(Lcore) \in DOMAIN pool
  /\ mem_todo' = mem_todo \ {Lcore}
  /\ UNCHANGED <<pc, startVars, pool, nat_tbl, devVars, loopVars, force_quit, tabVars>>

\* The pool is made once, with the queues of the port of the moment; then
\* setup_hash or setup_lpm follows.
MakePool ==
  /\ pc = "mem" /\ mem_todo # {}
  /\ Socket(Lcore) \notin DOMAIN pool /\ Socket(Lcore) < NbSockets
  /\ pool' = With(pool, Socket(Lcore), NB_MBUF(nb_rxq[Port]))
  /\ IF ExactMatch THEN pc' = "nat" /\ UNCHANGED mem_todo
     ELSE mem_todo' = mem_todo \ {Lcore} /\ UNCHANGED pc
  /\ UNCHANGED <<startVars, nat_tbl, devVars, loopVars, force_quit, tabVars>>

\* The socket is out of range, the pool or a hash table cannot be made.
MemFails == pc = "mem" /\ mem_todo # {} /\ Socket(Lcore) \notin DOMAIN pool /\ Exit

\* setup_nat_table returns without a table when an allocation fails.
NatAllocFails ==
  /\ pc = "nat" /\ (loaded \/ read = NoLine)
  /\ pc' = "mem" /\ mem_todo' = mem_todo \ {Lcore}
  /\ UNCHANGED <<startVars, pool, nat_tbl, devVars, loopVars, force_quit, tabVars>>

\* The file cannot be opened.
NoFile == pc = "nat" /\ read = NoLine /\ Exit

\* A file has a line that is taken (nat.c:206 stores before t without one).
NatLoad ==
  /\ pc = "nat" /\ files # {}
  /\ (\E p \in files : LoadLine(p)) \/ (\E r \in Others : SkipLine(r)) \/ EndOfFile
  /\ UNCHANGED <<pc, startVars, memVars, devVars, loopVars, force_quit, rk>>

\* The table is there, and init_key follows; the tables and the keys of other
\* sockets are the same, as they come from the same file and array.
NatReady ==
  /\ pc = "nat" /\ loaded
  /\ rk' \in IF nat_tbl = {} THEN Ciphers ELSE {rk}
  /\ nat_tbl' = nat_tbl \union {Socket(Lcore)}
  /\ pc' = "mem" /\ mem_todo' = mem_todo \ {Lcore}
  /\ UNCHANGED <<startVars, pool, devVars, loopVars, force_quit, vars>>

TxQueue(l) == Cardinality({k \in Lcores : k < l})

TxQueues ==
  /\ pc = "mem" /\ mem_todo = {} /\ Cardinality(Lcores) <= MaxTxQueue
  /\ tx_id' = [lp \in DOMAIN tx_id \union (Lcores \X {Port}) |->
                 IF lp[2] = Port THEN TxQueue(lp[1]) ELSE tx_id[lp]]
  /\ todo' = todo \ {Port} /\ pc' = "ports"
  /\ UNCHANGED <<args, files, opts, memVars, nb_rxq, rx_setup, started, loopVars, force_quit, tabVars>>

RxQueues ==
  /\ pc = "ports" /\ todo = {}
  /\ rx_setup' = [pq \in {<<c.port, c.queue>> : c \in Triples} |->
                    LET last == CHOOSE c \in Triples :
                          /\ <<c.port, c.queue>> = pq
                          /\ \A d \in Triples : <<d.port, d.queue>> = pq => d.lcore <= c.lcore
                    IN  Socket(last.lcore)]
  /\ pc' = "start"
  /\ UNCHANGED <<startVars, memVars, nb_rxq, tx_id, started, loopVars, force_quit, tabVars>>

\* rte_eth_dev_start, and then prepare_ptype_parser: the device, or the parser
\* of --parse-ptype, tells the types of packets.
StartPorts ==
  /\ pc = "start"
  /\ started' = EnabledPorts /\ pc' = "launch"
  /\ UNCHANGED <<startVars, memVars, nb_rxq, tx_id, rx_setup, loopVars, force_quit, tabVars>>

\* A call to a device fails, or the device cannot tell the types.
DeviceFails == pc \in {"start", "launch"} /\ Exit

\* rte_eal_mp_remote_launch, on all lcores.
launch ==
  /\ pc = "launch" /\ pc' = "wait"
  /\ loops' = {l \in Lcores : ListOf(l) # {}}
  /\ UNCHANGED <<startVars, memVars, devVars, hung, out, force_quit, tabVars>>

-----------------------------------------------------------------------------
(* em_main_loop; lpm_main_loop, which translates nothing, only ends *)

\* Wrong on purpose: a packet with options is looked up as it is.
PtypeExt(p) == IF p.v = 4 /\ p.ext THEN "ipv6" ELSE IF p.v = 4 /\ p.l4 # "none" THEN "ipv4" ELSE "other"

\* The branch em_get_dst_port takes for a packet.  It looks for any bit of the
\* types of TCP and UDP, which those of ICMP, IGMP and fragments share; they come
\* from the device.  em_parse_ptype knows TCP and UDP only, and its branch for
\* IPv6 is never taken.  Packets with options have types of their own.
Ptype(p) ==
  IF \/ p.ext \/ p.l4 = "none"
     \/ "parse-ptype" \in opts.flags /\ (p.v = 6 \/ p.l4 = "bits") THEN "other"
  ELSE IF p.v = 4 THEN "ipv4" ELSE "ipv6"

Translated(p) == IF Ptype(p) = "ipv4" THEN process_outgoing_pkt(p) ELSE p

\* The port found in the hash table is looked up in the mask.
NextHop(p, portid, hop) ==
  IF Ptype(p) = "other" \/ hop \notin opts.p THEN portid ELSE hop

CanForward(l) ==
  /\ pc = "wait" /\ ExactMatch /\ l \in loops \ hung /\ ~ force_quit
  /\ Cardinality(out) < MaxForwarded(files)

Null(l, p) == Ptype(p) = "ipv4" /\ Socket(l) \notin nat_tbl

\* hop is what the lookup returns: any port of the route array.
em_get_dst_port(l, c, p, hop) ==
  /\ CanForward(l) /\ c \in Triples /\ c.lcore = l
  /\ ~ Null(l, p) /\ Translated(p).saddr # Endless
  /\ out' = out \union {[lcore |-> l, from |-> c.port, port |-> NextHop(p, c.port, hop),
                         was |-> p, is |-> Translated(p)]}
  /\ UNCHANGED <<pc, startVars, memVars, devVars, loops, hung, force_quit, tabVars>>

\* idx_to_ip does not return for an index the table has no prefix for.
Hang(l, p) ==
  /\ CanForward(l) /\ ~ Null(l, p) /\ Translated(p).saddr = Endless
  /\ hung' = hung \union {l}
  /\ UNCHANGED <<pc, startVars, memVars, devVars, loops, out, force_quit, tabVars>>

\* The table is a null pointer.
Crash(l, p) == CanForward(l) /\ Null(l, p) /\ Exit

\* Wrong on purpose: an lcore looks at force_quit only when it has sent packets.
LeaveBusy(l) ==
  /\ pc = "wait" /\ l \in loops \ hung /\ force_quit /\ \E o \in out : o.lcore = l
  /\ loops' = loops \ {l}
  /\ UNCHANGED <<pc, startVars, memVars, devVars, hung, out, force_quit, tabVars>>

\* What is still in tx_mbufs is neither sent nor freed.
Leave(l) ==
  /\ pc = "wait" /\ l \in loops \ hung /\ force_quit
  /\ loops' = loops \ {l}
  /\ UNCHANGED <<pc, startVars, memVars, devVars, hung, out, force_quit, tabVars>>

\* SIGINT or SIGTERM at any time.
signal_handler ==
  /\ pc # "stopped" /\ ~ force_quit /\ force_quit' = TRUE
  /\ UNCHANGED <<pc, startVars, memVars, devVars, loopVars, tabVars>>

\* main waits for every lcore before it stops the ports.
StopPorts ==
  /\ pc = "wait" /\ loops = {}
  /\ started' = {} /\ pc' = "stopped"
  /\ UNCHANGED <<startVars, memVars, nb_rxq, tx_id, rx_setup, loopVars, force_quit, tabVars>>

Main ==
  \/ ArgPorts \/ ArgFlag \/ ArgConfig \/ ArgEntries \/ ArgJumbo \/ ArgRefused
  \/ Checked \/ CheckFailed \/ ConfigurePort \/ PortFails
  \/ SkipSocket \/ MakePool \/ MemFails \/ NatAllocFails \/ NoFile \/ NatLoad \/ NatReady
  \/ TxQueues \/ RxQueues \/ StartPorts \/ DeviceFails \/ launch \/ StopPorts

Loop(l) ==
  \E p \in Packets :
    \/ \E c \in Triples, hop \in 0 .. NbPorts : em_get_dst_port(l, c, p, hop)
    \/ Hang(l, p) \/ Crash(l, p)

NextNat == Main \/ (\E l \in Lcores : Loop(l) \/ Leave(l)) \/ signal_handler

\* main runs on, and so does every lcore's loop.
SpecNat == InitNat /\ [][NextNat]_allVars /\ WF_allVars(Main) /\ \A l \in Lcores : WF_allVars(Leave(l))
-----------------------------------------------------------------------------

\* The variables range over what the code's types allow, and idx_tbl is not
\* overrun by any index that NUM_ADDR allows.
TypeOKNat ==
  /\ TypeOK /\ StoresInside
  /\ pc \in {"args", "ports", "mem", "nat", "start", "launch", "wait", "stopped"}
  /\ opts.p \subseteq 0 .. MaskBits - 1
  /\ todo \union started \subseteq 0 .. NbPorts - 1
  /\ mem_todo \union loops \union hung \subseteq Lcores
  /\ DOMAIN pool \union nat_tbl \subseteq 0 .. NbSockets - 1
  /\ \A s \in DOMAIN pool : pool[s] \in Nat
  /\ DOMAIN nb_rxq \subseteq 0 .. NbPorts - 1
  /\ \A o \in out : o.is.saddr \in 0 .. Octet * Size8 /\ o.is.sport \in 0 .. Ports - 1

\* When the lcores forward, every queue they poll is a queue of a started port
\* with a pool of the lcore's socket, polled by no other lcore; every receive
\* queue of a started port is polled; no two lcores share a transmit queue
\* (TxBatch takes no lock); and if the mask names no port that is absent, no
\* packet is handed to a port that has not been started.
QueuesReady ==
  pc = "wait" =>
    /\ \A c \in Triples :
         /\ c.port \in started /\ c.queue < nb_rxq[c.port]
         /\ rx_setup[<<c.port, c.queue>>] = Socket(c.lcore)
         /\ Socket(c.lcore) \in DOMAIN pool
    /\ \A m, n \in DOMAIN opts.config :
         opts.config[m].port = opts.config[n].port
           /\ opts.config[m].queue = opts.config[n].queue => m = n
    /\ \A port \in started : \A q \in 0 .. nb_rxq[port] - 1 :
         \E c \in Triples :
           c.port = port /\ c.queue = q /\ (c.lcore \in loops \/ force_quit)
    /\ \A k, l \in Lcores, port \in started :
         tx_id[<<k, port>>] = tx_id[<<l, port>>] => k = l
    /\ opts.p \subseteq 0 .. NbPorts - 1 => \A o \in out : o.port \in started

Rings(s) == {pq \in DOMAIN rx_setup : rx_setup[pq] = s}

\* What NB_MBUF promises: the pool of a socket has the mbufs that its receive
\* rings, the transmit rings and batches of all lcores and their caches can
\* hold at once.  It is computed with the queues of the first port, so this
\* holds when no other port has more.
PoolCovers ==
  (pc = "wait" /\ started # {} /\ \A port \in started : nb_rxq[port] <= nb_rxq[Lowest(started)]) =>
    \A s \in DOMAIN pool :
      pool[s] >= Cardinality(Rings(s)) * RxDesc + Cardinality(Lcores) * Cache
                   + Cardinality(started) * Cardinality(Lcores) * (Burst + TxDesc)

\* The table has an address for every value of a host part, which has NUM_ADDR
\* bits, and idx_tbl is laid out for it.
TableFits == MAX_IDX = Hosts /\ Simple

\* With no state per flow, two packets to one destination that leave with one
\* public address and port came from one port and host part inside: no two flows
\* are mixed up outside.
FlowsApart ==
  TableFits =>
    \A o, q \in out :
      /\ Ptype(o.was) = "ipv4" /\ Ptype(q.was) = "ipv4"
      /\ \A field \in {"saddr", "sport", "daddr", "dport"} : o.is[field] = q.is[field]
      => HostOf(o.was.saddr) = HostOf(q.was.saddr) /\ o.was.sport = q.was.sport

\* An IPv4 packet that leaves by another port than it came from carries an
\* address of the table: an inside address is never shown outside.
NoLeak ==
  TableFits => \A o \in out :
    o.was.v = 4 /\ o.port # o.from => o.is.saddr \in Addresses

\* After a signal the process ends, unless an lcore is lost in idx_to_ip.
QuitEnds == force_quit ~> (pc = "stopped" \/ hung # {})
=============================================================================
