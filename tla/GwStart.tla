------------------------------ MODULE GwStart -------------------------------
(***************************************************************************)
(* The start of ipsec_eval: main with parse_args, which calls              *)
(* parse_cfg_file of GwConfig, the checks of the parameters, the tables    *)
(* and the pool of each socket, the queues of the ports, and the launch of *)
(* main_loop on every lcore.                                               *)
(*                                                                         *)
(* The options are taken in the order of the command line, as they have    *)
(* effect in that order; ok says whether the value has the form asked for. *)
(* A mask of ports is the set of its bits.                                 *)
(***************************************************************************)
EXTENDS GwConfig

CONSTANTS
  Invocations,       \* [args, file]: sequences of [opt, ok, val], and of statements
  Lcores,            \* the enabled lcores
  SocketOf,          \* rte_lcore_to_socket_id
  NbPorts,           \* rte_eth_dev_count()
  MaskBits,          \* the bits of a port mask (32)
  Byte,              \* the values of a uint8_t (256)
  MaxRxQueues, MaxTxQueues,  \* what a port has
  MaxRxPerLcore,     \* MAX_RX_QUEUE_PER_LCORE
  MaxLcoreParams     \* MAX_LCORE_PARAMS

\* The options that occur, and the triples of --config: three numbers of a byte.
Arguments == UNION {{c.args[n] : n \in DOMAIN c.args} : c \in Invocations}
Triple    == [port : 0 .. Byte - 1, queue : 0 .. Byte - 1, lcore : 0 .. Byte - 1]

\* A port has a bit in the mask: there are at most RTE_MAX_ETHPORTS.
ASSUME StartAssumption ==
  /\ Lcores \subseteq Nat /\ IsFiniteSet(Lcores) /\ Lcores # {}
  /\ DOMAIN SocketOf = Lcores
  /\ {NbPorts, MaxRxQueues, MaxTxQueues, MaxRxPerLcore, MaxLcoreParams} \subseteq Nat
  /\ MaskBits \in Nat \ {0} /\ Byte \in Nat \ {0} /\ NbPorts <= MaskBits
  /\ \A c \in Invocations : c.args \in Seq(Arguments) /\ c.file \in Seq(Tables \union {"other"})
  /\ \A a \in Arguments : a.opt = "config" /\ a.ok => a.val \in Seq(Triple)

Ports == 0 .. NbPorts - 1

VARIABLES
  args,      \* the options not yet parsed
  opts,      \* enabled_port_mask, unprotected_port_mask and the other options
  todo,      \* what the current loop has to do: triples, lcores or ports
  rx_list,   \* rx_queue_list of each lcore_conf
  pool,      \* the sockets that have an mbuf_pool, and with it their tables
  nb_queues, \* how each port was configured: [rx, tx]
  rx_setup,  \* <<port, queue>> :> the socket whose pool the queue was given
  tx_id,     \* tx_queue_id: <<lcore, port>> :> queue, 0 at first
  started,   \* the ports that were started
  loops      \* the lcores in main_loop

startVars == <<args, opts, todo, rx_list, pool, nb_queues, rx_setup, tx_id, started, loops>>
Dev == <<nb_queues, rx_setup, tx_id, started>>

InitStart ==
  /\ InitConfig /\ pc = "args"
  /\ \E c \in Invocations : args = c.args /\ file = c.file
  /\ opts = [p |-> {}, u |-> {}, f |-> FALSE, config |-> <<>>, given |-> FALSE, single_sa |-> {}]
  /\ todo = {} /\ pool = {} /\ started = {} /\ loops = {}
  /\ rx_list = [l \in Lcores |-> <<>>]
  /\ nb_queues = [port \in Ports |-> [rx |-> 0, tx |-> 0]]
  /\ rx_setup = NoItems /\ tx_id = [lp \in Lcores \X Ports |-> 0]

Goto(next) == pc' = next /\ UNCHANGED <<file, chars, line, status, ti, items, rules, Tabs>>

\* rte_exit
Exit == Goto("stopped") /\ UNCHANGED startVars

-----------------------------------------------------------------------------
(* parse_args *)

Option(opt) == pc = "args" /\ args # <<>> /\ Head(args).opt = opt

Taken(new, next) ==
  /\ opts' = new /\ args' = Tail(args) /\ Goto(next)
  /\ UNCHANGED <<todo, rx_list, pool, Dev, loops>>

\* A mask that is no number is -1: every port.
parse_portmask(arg) == IF arg.ok THEN arg.val ELSE 0 .. MaskBits - 1

ArgPorts ==
  /\ Option("p") /\ parse_portmask(Head(args)) # {}
  /\ Taken([opts EXCEPT !.p = parse_portmask(Head(args))], "args")

ArgUnprotected ==
  /\ Option("u") /\ parse_portmask(Head(args)) # {}
  /\ Taken([opts EXCEPT !.u = parse_portmask(Head(args))], "args")

ArgPromiscuous == Option("P") /\ Taken(opts, "args")   \* on already

ArgFile == Option("f") /\ ~ opts.f /\ Taken([opts EXCEPT !.f = TRUE], "file")
FileRead == pc = "read" /\ Goto("args") /\ UNCHANGED startVars

\* parse_config: the triples that are there; none at all is no error.
ArgConfig ==
  /\ Option("config") /\ Head(args).ok /\ Len(Head(args).val) <= MaxLcoreParams
  /\ Taken([opts EXCEPT !.config = Head(args).val, !.given = TRUE], "args")

ArgSingleSa ==
  /\ Option("single-sa") /\ Head(args).ok
  /\ Taken([opts EXCEPT !.single_sa = Head(args).val], "args")

ArgRefused ==
  /\ \/ (Option("p") \/ Option("u")) /\ parse_portmask(Head(args)) = {}
     \/ Option("f") /\ opts.f
     \/ Option("config") /\ (~ Head(args).ok \/ Len(Head(args).val) > MaxLcoreParams)
     \/ Option("single-sa") /\ ~ Head(args).ok
     \/ Option("?")
  /\ Exit

\* The file is mandatory.
ArgsDone ==
  /\ pc = "args" /\ args = <<>> /\ opts.f
  /\ Goto("check") /\ UNCHANGED startVars

NoFile == pc = "args" /\ args = <<>> /\ ~ opts.f /\ Exit

-----------------------------------------------------------------------------
(* The checks of main *)

\* check_params, on one triple.
ParamOK(t) == t.lcore \in Lcores /\ (t.port % MaskBits) \in opts.p /\ t.port < NbPorts

ParamsOK ==
  /\ opts.u \subseteq opts.p
  /\ opts.given
  /\ \A n \in DOMAIN opts.config : ParamOK(opts.config[n])

Checked ==
  /\ pc = "check" /\ ParamsOK
  /\ todo' = DOMAIN opts.config
  /\ Goto("rx_queues")
  /\ UNCHANGED <<args, opts, rx_list, pool, Dev, loops>>

CheckFailed == pc = "check" /\ ~ ParamsOK /\ Exit

First(S) == CHOOSE n \in S : \A m \in S : n <= m
Triplet  == opts.config[First(todo)]

\* An iteration of the loop over lcore_params.
init_lcore_rx_queues ==
  /\ pc = "rx_queues" /\ todo # {}
  /\ Len(rx_list[Triplet.lcore]) < MaxRxPerLcore
  /\ rx_list' = [rx_list EXCEPT ![Triplet.lcore] = Append(@, Triplet)]
  /\ todo' = todo \ {First(todo)}
  /\ Goto("rx_queues")
  /\ UNCHANGED <<args, opts, pool, Dev, loops>>

TooManyQueues ==
  /\ pc = "rx_queues" /\ todo # {}
  /\ Len(rx_list[Triplet.lcore]) >= MaxRxPerLcore
  /\ Exit

RxQueuesDone ==
  /\ pc = "rx_queues" /\ todo = {}
  /\ todo' = Lcores
  /\ Goto("contexts")
  /\ UNCHANGED <<args, opts, rx_list, pool, Dev, loops>>

-----------------------------------------------------------------------------
(* The tables and the pool of each socket *)

\* Wrong on purpose: the tables and the pool are made once for all sockets.
HasPoolAny(socket) == pool # {}

HasPool(socket) == socket \in pool

\* The lcore's socket has a pool already.
SkipContext ==
  /\ pc = "contexts" /\ todo # {} /\ HasPool(SocketOf[First(todo)])
  /\ todo' = todo \ {First(todo)}
  /\ Goto("contexts")
  /\ UNCHANGED <<args, opts, rx_list, pool, Dev, loops>>

\* The tables are those of GwConfig, and the same for every socket.
MakeContext ==
  /\ pc = "contexts" /\ todo # {} /\ ~ HasPool(SocketOf[First(todo)])
  /\ Goto("sa_init") /\ UNCHANGED startVars

pool_init ==
  /\ pc = "tables"
  /\ pool' = pool \union {SocketOf[First(todo)]}
  /\ todo' = todo \ {First(todo)}
  /\ Goto("contexts")
  /\ UNCHANGED <<args, opts, rx_list, Dev, loops>>

EnabledPorts == Ports \cap opts.p

ContextsDone ==
  /\ pc = "contexts" /\ todo = {}
  /\ todo' = EnabledPorts
  /\ Goto("ports")
  /\ UNCHANGED <<args, opts, rx_list, pool, Dev, loops>>

-----------------------------------------------------------------------------
(* port_init *)

\* The highest queue of a port, plus one; the queues below it need not occur.
get_port_nb_rx_queues(port) ==
  LET of == {opts.config[n].queue : n \in {k \in DOMAIN opts.config : opts.config[k].port = port}}
  IN  IF of = {} THEN 0 ELSE (Max(of) + 1) % Byte

\* Wrong on purpose: the queue has the lcore's place on its own socket.
TxQueueSocket(l) == Cardinality({k \in Lcores : k < l /\ SocketOf[k] = SocketOf[l]})

TxQueue(l) == Cardinality({k \in Lcores : k < l})

PoolOf(l) == SocketOf[l]

\* The receive queues that lcore l has on the port, with their pool.
RxOf(l, port) ==
  {<<port, rx_list[l][n].queue>> : n \in {k \in DOMAIN rx_list[l] : rx_list[l][k].port = port}}

\* The lcores set up their queues in order: of two that name the same queue,
\* the last one gives it its pool.
RxSetup(port) ==
  [q \in UNION {RxOf(l, port) : l \in Lcores} |-> PoolOf(Max({l \in Lcores : q \in RxOf(l, port)}))]

\* The device refuses more queues than it has, and to set up a queue it was
\* not configured with.
Fits(port) ==
  /\ get_port_nb_rx_queues(port) <= MaxRxQueues /\ Cardinality(Lcores) <= MaxTxQueues
  /\ \A q \in DOMAIN RxSetup(port) : q[2] < get_port_nb_rx_queues(port)

port_init ==
  /\ pc = "ports" /\ todo # {}
  /\ LET port == First(todo) IN
     /\ Fits(port)
     /\ nb_queues' = [nb_queues EXCEPT ![port] = [rx |-> get_port_nb_rx_queues(port),
                                                  tx |-> Cardinality(Lcores)]]
     /\ tx_id' = [lp \in DOMAIN tx_id |-> IF lp[2] = port THEN TxQueue(lp[1]) ELSE tx_id[lp]]
     /\ rx_setup' = [q \in DOMAIN rx_setup \union DOMAIN RxSetup(port) |->
                       IF q \in DOMAIN RxSetup(port) THEN RxSetup(port)[q] ELSE rx_setup[q]]
     /\ todo' = todo \ {port}
  /\ Goto("ports")
  /\ UNCHANGED <<args, opts, rx_list, pool, started, loops>>

PortFails == pc = "ports" /\ todo # {} /\ ~ Fits(First(todo)) /\ Exit

\* cryptodevs_init (CdevInit), then rte_eth_dev_start for every enabled port,
\* each of which may fail.
StartPorts ==
  /\ pc = "ports" /\ todo = {}
  /\ started' = EnabledPorts
  /\ Goto("launch")
  /\ UNCHANGED <<args, opts, todo, rx_list, pool, nb_queues, rx_setup, tx_id, loops>>

StartFails == pc = "ports" /\ todo = {} /\ Exit

\* main_loop takes the tables of its socket; an lcore without queues returns.
launch ==
  /\ pc = "launch"
  /\ loops' = {l \in Lcores : rx_list[l] # <<>>}
  /\ Goto("running")
  /\ UNCHANGED <<args, opts, todo, rx_list, pool, Dev>>

NextStart ==
  \/ (parse_cfg_file \/ InitTables) /\ UNCHANGED startVars
  \/ ArgPorts \/ ArgUnprotected \/ ArgPromiscuous \/ ArgFile \/ FileRead
  \/ ArgConfig \/ ArgSingleSa \/ ArgRefused \/ ArgsDone \/ NoFile
  \/ Checked \/ CheckFailed \/ init_lcore_rx_queues \/ TooManyQueues \/ RxQueuesDone
  \/ SkipContext \/ MakeContext \/ pool_init \/ ContextsDone
  \/ port_init \/ PortFails \/ StartPorts \/ StartFails \/ launch

SpecStart == InitStart /\ [][NextStart]_<<vars, startVars>>

-----------------------------------------------------------------------------
(* Properties *)

Listed(l) == {<<rx_list[l][n].port, rx_list[l][n].queue>> : n \in DOMAIN rx_list[l]}

\* What an lcore polls is there: the port is present, enabled and started, the
\* queue is one of those the port was configured with, it was set up, and its
\* mbufs come from the pool of the lcore's own socket - whatever the order of
\* the options, and unless another lcore lists the same queue, which nothing
\* refuses.
PolledReady ==
  \A l \in loops : \A q \in Listed(l) :
    /\ q[1] \in started /\ q[1] < NbPorts
    /\ q[2] < nb_queues[q[1]].rx /\ q \in DOMAIN rx_setup
    /\ SocketOf[l] \in pool
    /\ (\A k \in Lcores \ {l} : q \notin Listed(k)) => rx_setup[q] = SocketOf[l]

\* Every lcore has a transmit queue of its own on every started port, whatever
\* socket it is on: send_burst takes no lock.
TxPrivate ==
  \A port \in started, k, l \in loops :
    /\ tx_id[<<l, port>>] < nb_queues[port].tx
    /\ k # l => tx_id[<<k, port>>] # tx_id[<<l, port>>]
=============================================================================
