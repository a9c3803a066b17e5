--------------------------- MODULE GwStartProofs ----------------------------
(***************************************************************************)
(* Proofs about GwStart and GwConfig, for any command lines and files, any *)
(* lcores on any sockets, any number of ports and any limits of the arrays *)
(* and of the devices.                                                     *)
(*                                                                         *)
(* First the start: the parser of the file and the tables it fills are     *)
(* seen as steps that move pc and leave the variables of the start alone   *)
(* (ConfigSteps).  Then the file: what is known of a statement while it is *)
(* parsed, of the rules, and of the tables made of them (FileInv).         *)
(***************************************************************************)
EXTENDS GwStart, SequenceTheorems, FiniteSetTheorems, WellFoundedInduction, TLAPS

Reading  == {"file", "parse", "items", "parsed"}
Building == {"sa_init", "sp4_init", "sp6_init", "rt_init", "tables"}
Before   == {"args", "read", "check"} \cup Reading
After    == {"rx_queues", "contexts", "ports", "launch", "running"} \cup Building

\* The queues of port p are configured and set up.
PortReady(p) ==
  /\ nb_queues[p] = [rx |-> get_port_nb_rx_queues(p), tx |-> Cardinality(Lcores)]
  /\ \A l \in Lcores : tx_id[<<l, p>>] = TxQueue(l)
  /\ \A q \in DOMAIN RxSetup(p) : /\ q \in DOMAIN rx_setup /\ rx_setup[q] = RxSetup(p)[q]
                                  /\ q[2] < get_port_nb_rx_queues(p)

Types ==
  /\ pc \in Before \cup After \cup {"stopped"}
  /\ args \in Seq(Arguments)
  /\ opts = [p |-> opts.p, u |-> opts.u, f |-> opts.f, config |-> opts.config,
             given |-> opts.given, single_sa |-> opts.single_sa]
  /\ opts.config \in Seq(Triple)
  /\ rx_list \in [Lcores -> Seq(Triple)]
  /\ nb_queues = [p \in Ports |-> nb_queues[p]]
  /\ tx_id = [lp \in Lcores \X Ports |-> tx_id[lp]]
  /\ loops \subseteq Lcores

\* What was checked of the triples holds of the lists made from them.
Checks ==
  /\ pc \in Before => rx_list = [l \in Lcores |-> <<>>]
  /\ pc \in After => \A n \in DOMAIN opts.config : ParamOK(opts.config[n])
  /\ \A l \in Lcores : \A n \in DOMAIN rx_list[l] : ParamOK(rx_list[l][n])
  /\ loops # {} => pc = "running"

\* The three loops: what todo has no longer is done.
Loops ==
  /\ pc = "rx_queues" => todo \subseteq DOMAIN opts.config
  /\ pc \in {"contexts"} \cup Building =>
       todo \subseteq Lcores /\ \A l \in Lcores \ todo : SocketOf[l] \in pool
  /\ pc \in Building => todo # {}
  /\ pc \in {"ports", "launch", "running"} => \A l \in Lcores : SocketOf[l] \in pool
  /\ pc = "ports" => todo \subseteq EnabledPorts /\ \A p \in EnabledPorts \ todo : PortReady(p)
  /\ pc \in {"launch", "running"} => started = EnabledPorts /\ \A p \in started : PortReady(p)

IInv == Types /\ Checks /\ Loops

(***************************************************************************)
(* Numbers and sets.                                                       *)
(***************************************************************************)
LEMMA LeastOf ==
  ASSUME NEW T, T \subseteq Nat, T # {}
  PROVE  \E k \in T : \A j \in T : k <= j
<1> DEFINE R == OpToRel(<, Nat)
<1>1. IsWellFoundedOn(R, Nat)
  BY NatLessThanWellFounded
<1>2. \A x, y \in Nat : <<x, y>> \in R <=> x < y
  BY DEF OpToRel
<1> HIDE DEF R
<1>3. PICK k \in T : \A j \in T : ~ (<<j, k>> \in R)
  BY <1>1, WFMin
<1>4. ASSUME NEW j \in T PROVE k <= j
  <2>1. j \in Nat /\ k \in Nat /\ ~ (<<j, k>> \in R)
    BY <1>3
  <2>2. ~ (j < k)
    BY <1>2, <2>1
  <2>3. QED BY <2>1, <2>2
<1>5. QED BY <1>4

LEMMA FirstIs ==
  ASSUME NEW T, T \subseteq Nat, T # {}
  PROVE  First(T) \in T
  BY LeastOf DEF First

LEMMA MaxOfOne ==
  ASSUME NEW k \in Nat
  PROVE  Max({k}) = k
  BY DEF Max

\* The transmit queue of an lcore is one of those a port has, and no other
\* lcore has it.
LEMMA TxQueueOwn ==
  ASSUME NEW k \in Lcores, NEW l \in Lcores
  PROVE  /\ TxQueue(l) \in Nat /\ TxQueue(l) < Cardinality(Lcores)
         /\ k # l => TxQueue(k) # TxQueue(l)
<1> DEFINE Below(n) == {m \in Lcores : m < n}
<1>1. /\ IsFiniteSet(Lcores) /\ Lcores \subseteq Nat
      /\ \A n : TxQueue(n) = Cardinality(Below(n))
  BY StartAssumption DEF TxQueue
<1>2. ASSUME NEW T, T \subseteq Lcores, NEW n \in Lcores, n \notin Below(n),
             Below(n) \subseteq T, n \in T
      PROVE  /\ Cardinality(Below(n)) \in Nat /\ Cardinality(T) \in Nat
             /\ Cardinality(Below(n)) < Cardinality(T)
  <2>1. IsFiniteSet(T) /\ IsFiniteSet(Below(n))
    <3>1. Below(n) \subseteq Lcores
      OBVIOUS
    <3> HIDE DEF Below
    <3>2. QED BY <1>1, <1>2, <3>1, FS_Subset
  <2>2. Below(n) # T
    BY <1>2
  <2>3. Cardinality(T) \in Nat /\ Cardinality(Below(n)) \in Nat
    BY <2>1, FS_CardinalityType
  <2>4. Cardinality(Below(n)) <= Cardinality(T)
    BY <1>2, <2>1, FS_Subset
  <2>5. Cardinality(Below(n)) # Cardinality(T)
    BY <1>2, <2>1, <2>2, FS_Subset
  <2>6. QED BY <2>3, <2>4, <2>5
<1>3. /\ Cardinality(Below(l)) \in Nat /\ Cardinality(Below(l)) < Cardinality(Lcores)
  BY <1>1, <1>2
<1>4. ASSUME NEW i \in Lcores, NEW n \in Lcores, i < n
      PROVE  Cardinality(Below(i)) # Cardinality(Below(n))
  <2>1. /\ Below(n) \subseteq Lcores /\ i \notin Below(i)
        /\ Below(i) \subseteq Below(n) /\ i \in Below(n)
    <3>1. i \in Nat /\ n \in Nat /\ \A m \in Lcores : m \in Nat
      BY <1>1
    <3>2. \A m \in Lcores : m < i => m < n
      BY <1>4, <3>1
    <3>3. ~ (i < i)
      BY <3>1
    <3>4. QED BY <1>4, <3>2, <3>3
  <2>2. /\ Cardinality(Below(i)) \in Nat /\ Cardinality(Below(n)) \in Nat
        /\ Cardinality(Below(i)) < Cardinality(Below(n))
    BY <1>2, <2>1
  <2>3. QED BY <2>2
<1>5. k # l => k < l \/ l < k
  BY <1>1
<1>6. k # l => Cardinality(Below(k)) # Cardinality(Below(l))
  BY <1>4, <1>5
<1>7. QED BY <1>1, <1>3, <1>6

(***************************************************************************)
(* The steps of GwConfig.                                                  *)
(***************************************************************************)
LEMMA ConfigSteps ==
  ASSUME parse_cfg_file \/ InitTables
  PROVE  \/ pc \in Reading /\ pc' \in Reading \cup {"read", "stopped"}
         \/ pc \in Building /\ pc' \in Building \cup {"stopped"}
<1> DEFINE Read == pc \in Reading /\ pc' \in Reading \cup {"read", "stopped"}
<1>1. ASSUME NEW n, NEW k, NEW v, Item(n, k, v) PROVE Read
  BY <1>1 DEF Item, Reading
<1>2. ASSUME NEW n, NEW first, Open(n, first) PROVE Read
  BY <1>2 DEF Open, Reading
<1>3. ASSUME Close PROVE Read
  BY <1>3 DEF Close, Reading
<1>4. ASSUME pc \in Reading, Stop \/ Refuse PROVE Read
  BY <1>4 DEF Stop, Refuse, Reading
<1>5. ASSUME parse_sa_tokens PROVE Read
  <2>1. ASSUME NEW n, SaOpen(n) PROVE Read
    BY <2>1, <1>2 DEF SaOpen
  <2>2. ASSUME NEW mode, SaMode(mode) PROVE Read
    BY <2>2, <1>1 DEF SaMode
  <2>3. ASSUME NEW name, SaCipher(name) PROVE Read
    BY <2>3, <1>1 DEF SaCipher
  <2>4. ASSUME NEW name, SaAuth(name) PROVE Read
    BY <2>4, <1>1 DEF SaAuth
  <2>5. ASSUME SaUnknownAlgo PROVE Read
    BY <2>5, <1>4 DEF SaUnknownAlgo, Reading
  <2>6. ASSUME NEW k, SaEarlyAddr(k) PROVE Read
    BY <2>6, <1>1 DEF SaEarlyAddr
  <2>7. ASSUME NEW k, NEW w, SaAddr(k, w) PROVE Read
    BY <2>7, <1>1 DEF SaAddr
  <2>8. ASSUME SaClose PROVE Read
    BY <2>8, <1>3 DEF SaClose
  <2> HIDE DEF Read
  <2>9. QED BY <1>5, <2>1, <2>2, <2>3, <2>4, <2>5, <2>6, <2>7, <2>8 DEF parse_sa_tokens, Read
<1>6. ASSUME SpPolicy \/ SpEsp \/ SpClose PROVE Read
  <2>1. ASSUME NEW k, NEW n, NEW v, Policy(k, n, v) PROVE Read
    BY <2>1, <1>1 DEF Policy
  <2>2. ASSUME SpPolicy PROVE Read
    BY <2>1, <2>2 DEF SpPolicy
  <2>3. ASSUME SpEsp PROVE Read
    BY <2>3, <1>1 DEF SpEsp
  <2>4. ASSUME SpClose PROVE Read
    BY <2>4, <1>3 DEF SpClose
  <2>5. QED BY <1>6, <2>2, <2>3, <2>4
<1>7. ASSUME NEW n, SpPri(n) PROVE Read
  BY <1>7, <1>1 DEF SpPri
<1>8. ASSUME NEW k, NEW w, SpPorts(k, w) PROVE Read
  BY <1>8, <1>1 DEF SpPorts
<1>9. ASSUME NEW w, SpProto(w) PROVE Read
  BY <1>9, <1>8 DEF SpProto
<1>10. ASSUME parse_sp4_tokens PROVE Read
  <2>1. ASSUME NEW k, NEW w, Sp4Addr(k, w) PROVE Read
    BY <2>1, <1>1 DEF Sp4Addr
  <2> HIDE DEF Read
  <2>2. QED BY <1>2, <1>6, <1>7, <1>8, <1>9, <1>10, <2>1 DEF parse_sp4_tokens, Read
<1>11. ASSUME parse_sp6_tokens PROVE Read
  <2>1. ASSUME NEW k, NEW w, Sp6Addr(k, w) PROVE Read
    BY <2>1, <1>1 DEF Sp6Addr
  <2> HIDE DEF Read
  <2>2. QED BY <1>2, <1>6, <1>7, <1>8, <1>9, <1>11, <2>1 DEF parse_sp6_tokens, Read
<1>12. ASSUME parse_rt_tokens PROVE Read
  <2>1. ASSUME NEW w, Rt4Dst(w) \/ Rt6Dst(w) PROVE Read
    BY <2>1, <1>1 DEF Rt4Dst, Rt6Dst
  <2>2. ASSUME NEW n, RtPort(n) PROVE Read
    BY <2>2, <1>1 DEF RtPort
  <2>3. ASSUME RtUnknown \/ RtOpen PROVE Read
    BY <2>3, <1>2 DEF RtUnknown, RtOpen, Reading
  <2> HIDE DEF Read
  <2>4. QED BY <1>3, <1>12, <2>1, <2>2, <2>3 DEF parse_rt_tokens, Read
<1>13. ASSUME NEW n, ReadContinued(n) PROVE Read
  BY <1>13 DEF ReadContinued, Reading
<1>14. ASSUME NEW n, NEW more, ReadLast(n, more) PROVE Read
  BY <1>14 DEF ReadLast, Reading
<1>15. ASSUME ReadRefused \/ Unrecognized \/ TooManyRules \/ TooManyWords \/ RefuseLine
              \/ NextLine \/ LineRefused \/ EndOfFile
       PROVE  Read
  BY <1>4, <1>15 DEF ReadRefused, Unrecognized, TooManyRules, TooManyWords, RefuseLine,
                     NextLine, LineRefused, EndOfFile, Reading
<1>16. CASE InitTables
  BY <1>16 DEF InitTables, sa_init, sp4_init, sp6_init, rt_init, rt_init_fails, Stop, Building
<1> HIDE DEF Read
<1>17. CASE parse_cfg_file
  <2>1. Read
    BY <1>5, <1>10, <1>11, <1>12, <1>13, <1>14, <1>15, <1>17 DEF parse_cfg_file, Read
  <2>2. QED BY <2>1 DEF Read
<1>18. QED BY <1>16, <1>17

(***************************************************************************)
(* The steps of main.                                                      *)
(***************************************************************************)
LEMMA ReadyStays ==
  ASSUME NEW p, PortReady(p), UNCHANGED <<opts, rx_list, nb_queues, rx_setup, tx_id>>
  PROVE  PortReady(p)'
<1>1. get_port_nb_rx_queues(p)' = get_port_nb_rx_queues(p)
  BY DEF get_port_nb_rx_queues
<1>2. RxSetup(p)' = RxSetup(p)
  BY DEF RxSetup, RxOf, PoolOf
<1>3. QED BY <1>1, <1>2 DEF PortReady, TxQueue

\* A step that changes pc alone.
Quiet == UNCHANGED startVars

LEMMA QuietKeeps ==
  ASSUME IInv, Quiet,
         \/ pc' = pc
         \/ pc # "running" /\ pc' = "stopped"
         \/ pc \in Before /\ pc' \in Before
         \/ pc \in {"contexts"} \cup Building /\ pc' \in Building /\ todo # {}
  PROVE  IInv'
<1>1. UNCHANGED <<args, opts, todo, rx_list, pool, nb_queues, rx_setup, tx_id, started, loops>>
  BY DEF Quiet, startVars
<1>2. /\ pc' \in Before \cup After \cup {"stopped"}
      /\ pc' \in Before => pc \in Before
      /\ pc' \in After => pc \in After
      /\ pc' = "rx_queues" => pc = "rx_queues"
      /\ pc' \in {"contexts"} \cup Building => pc \in {"contexts"} \cup Building
      /\ pc' \in Building => todo # {}
      /\ pc' = "ports" => pc = "ports"
      /\ pc' \in {"launch", "running"} => pc = pc'
      /\ pc = "running" => pc' = "running"
  <2>1. pc \in Before \cup After \cup {"stopped"} /\ (pc \in Building => todo # {})
    BY DEF IInv, Types, Loops
  <2>2. CASE pc' = pc
    BY <2>1, <2>2
  <2>3. CASE pc # "running" /\ pc' = "stopped"
    BY <2>3 DEF Before, After, Building, Reading
  <2>4. CASE pc \in Before /\ pc' \in Before
    BY <2>4 DEF Before, After, Building, Reading
  <2>5. CASE pc \in {"contexts"} \cup Building /\ pc' \in Building /\ todo # {}
    BY <2>5 DEF Before, After, Building, Reading
  <2>6. QED BY <2>2, <2>3, <2>4, <2>5
<1>3. Types'
  BY <1>1, <1>2 DEF IInv, Types
<1>4. Checks'
  <2>1. (pc \in After => \A n \in DOMAIN opts.config : ParamOK(opts.config[n])) /\ Checks
    BY DEF IInv, Checks
  <2>2. \A t : ParamOK(t) => ParamOK(t)'
    BY <1>1 DEF ParamOK
  <2>3. QED BY <1>1, <1>2, <2>1, <2>2 DEF Checks
<1>5. Loops'
  <2>1. Loops
    BY DEF IInv
  <2>2. \A p : PortReady(p) => PortReady(p)'
    BY <1>1, ReadyStays
  <2>3. EnabledPorts' = EnabledPorts
    BY <1>1 DEF EnabledPorts
  <2>4. pc' \in {"ports", "launch", "running"} => pc \in {"ports", "launch", "running"}
    BY <1>2
  <2>5. QED BY <1>1, <1>2, <2>1, <2>2, <2>3, <2>4 DEF Loops
<1>6. QED BY <1>3, <1>4, <1>5 DEF IInv

LEMMA QuietSteps ==
  ASSUME IInv,
         \/ (parse_cfg_file \/ InitTables) /\ UNCHANGED startVars
         \/ FileRead \/ ArgRefused \/ ArgsDone \/ NoFile \/ CheckFailed
         \/ TooManyQueues \/ MakeContext \/ PortFails \/ StartFails
         \/ UNCHANGED <<vars, startVars>>
  PROVE  IInv'
<1>1. pc \in Building => todo # {}
  BY DEF IInv, Loops
<1>2. CASE (parse_cfg_file \/ InitTables) /\ UNCHANGED startVars
  <2>1. Quiet
    BY <1>2 DEF Quiet
  <2>2. \/ pc # "running" /\ pc' = "stopped"
        \/ pc \in Before /\ pc' \in Before
        \/ pc \in {"contexts"} \cup Building /\ pc' \in Building /\ todo # {}
    BY <1>1, <1>2, ConfigSteps DEF Before, Building, Reading
  <2>3. QED BY <2>1, <2>2, QuietKeeps
<1>3. CASE FileRead \/ ArgsDone
  <2>1. Quiet /\ pc \in Before /\ pc' \in Before
    BY <1>3 DEF FileRead, ArgsDone, Goto, Quiet, Before
  <2>2. QED BY <2>1, QuietKeeps
<1>4. CASE ArgRefused \/ NoFile \/ CheckFailed \/ TooManyQueues \/ PortFails \/ StartFails
  <2>1. Quiet /\ pc # "running" /\ pc' = "stopped"
    BY <1>4 DEF ArgRefused, Option, NoFile, CheckFailed, TooManyQueues, PortFails,
                StartFails, Exit, Goto, Quiet
  <2>2. QED BY <2>1, QuietKeeps
<1>5. CASE MakeContext
  <2>1. Quiet /\ pc \in {"contexts"} \cup Building /\ pc' \in Building /\ todo # {}
    BY <1>5 DEF MakeContext, Goto, Quiet, Building
  <2>2. QED BY <2>1, QuietKeeps
<1>6. CASE UNCHANGED <<vars, startVars>>
  <2>1. Quiet /\ pc' = pc
    BY <1>6 DEF Quiet, vars
  <2>2. QED BY <2>1, QuietKeeps
<1>7. QED BY <1>2, <1>3, <1>4, <1>5, <1>6

\* parse_args takes one option.
LEMMA ArgSteps ==
  ASSUME IInv, ArgPorts \/ ArgUnprotected \/ ArgPromiscuous \/ ArgFile \/ ArgConfig \/ ArgSingleSa
  PROVE  IInv'
<1>1. /\ pc = "args" /\ pc' \in Before /\ args # <<>> /\ args' = Tail(args)
      /\ UNCHANGED <<todo, rx_list, pool, nb_queues, rx_setup, tx_id, started, loops>>
  BY DEF ArgPorts, ArgUnprotected, ArgPromiscuous, ArgFile, ArgConfig, ArgSingleSa,
         Option, Taken, Goto, Dev, Before, Reading
<1>2. /\ pc \in Before /\ pc' \notin After /\ pc' # "running"
      /\ pc' \notin {"contexts"} \cup Building /\ pc' # "rx_queues" /\ pc' # "ports"
      /\ pc' \notin {"ports", "launch", "running"} /\ pc' \notin {"launch", "running"}
      /\ pc # "running" /\ pc' \notin Building
  BY <1>1 DEF Before, After, Building, Reading
<1>3. Types /\ Checks
  BY DEF IInv
<1>4. args' \in Seq(Arguments) /\ Head(args) \in Arguments
  BY <1>1, <1>3, HeadTailProperties DEF Types
<1>5. /\ opts' = [p |-> opts'.p, u |-> opts'.u, f |-> opts'.f, config |-> opts'.config,
                  given |-> opts'.given, single_sa |-> opts'.single_sa]
      /\ opts'.config = opts.config \/ (ArgConfig /\ opts'.config = Head(args).val)
  <2> DEFINE O(o) == o = [p |-> o.p, u |-> o.u, f |-> o.f, config |-> o.config,
                          given |-> o.given, single_sa |-> o.single_sa]
  <2>1. O(opts)
    BY <1>3 DEF Types
  <2>2. ASSUME ArgPorts PROVE O(opts') /\ opts'.config = opts.config
    BY <2>1, <2>2 DEF ArgPorts, Taken
  <2>3. ASSUME ArgUnprotected PROVE O(opts') /\ opts'.config = opts.config
    BY <2>1, <2>3 DEF ArgUnprotected, Taken
  <2>4. ASSUME ArgPromiscuous PROVE O(opts') /\ opts'.config = opts.config
    BY <2>1, <2>4 DEF ArgPromiscuous, Taken
  <2>5. ASSUME ArgFile PROVE O(opts') /\ opts'.config = opts.config
    BY <2>1, <2>5 DEF ArgFile, Taken
  <2>6. ASSUME ArgSingleSa PROVE O(opts') /\ opts'.config = opts.config
    BY <2>1, <2>6 DEF ArgSingleSa, Taken
  <2>7. ASSUME ArgConfig PROVE O(opts') /\ opts'.config = Head(args).val
    BY <2>1, <2>7 DEF ArgConfig, Taken
  <2>8. QED BY <2>2, <2>3, <2>4, <2>5, <2>6, <2>7
<1>6. opts'.config \in Seq(Triple)
  <2>1. opts.config \in Seq(Triple)
    BY <1>3 DEF Types
  <2>2. ASSUME ArgConfig PROVE Head(args).val \in Seq(Triple)
    BY <1>4, <2>2, StartAssumption DEF ArgConfig, Option
  <2>3. QED BY <1>5, <2>1, <2>2
<1>7. Types'
  BY <1>1, <1>3, <1>4, <1>5, <1>6 DEF Types
<1>8. Checks'
  <2>1. rx_list = [l \in Lcores |-> <<>>]
    BY <1>2, <1>3 DEF Checks
  <2>2. \A l \in Lcores : DOMAIN rx_list[l] = {}
    BY <2>1
  <2>3. QED BY <1>1, <1>2, <1>3, <2>1, <2>2 DEF Checks
<1>9. Loops'
  BY <1>1, <1>2 DEF Loops
<1>10. QED BY <1>7, <1>8, <1>9 DEF IInv

\* Where the phases of the start stand to one another.
LEMMA Phases ==
  /\ "rx_queues" \in After /\ "contexts" \in After /\ "ports" \in After
  /\ "launch" \in After /\ "running" \in After /\ Building \subseteq After
  /\ \A x \in After : x \notin Before /\ x # "stopped"
  /\ \A x \in Building : x \notin {"rx_queues", "contexts", "ports", "launch", "running"}
  BY DEF After, Before, Building, Reading

LEMMA CheckedKeeps ==
  ASSUME IInv, Checked
  PROVE  IInv'
<1>1. /\ pc = "check" /\ pc' = "rx_queues" /\ todo' = DOMAIN opts.config
      /\ \A n \in DOMAIN opts.config : ParamOK(opts.config[n])
      /\ UNCHANGED <<args, opts, rx_list, pool, nb_queues, rx_setup, tx_id, started, loops>>
  BY DEF Checked, ParamsOK, Goto, Dev
<1>2. pc \in Before
  BY <1>1 DEF Before
<1>3. Types /\ Checks
  BY DEF IInv
<1>4. \A t : ParamOK(t) => ParamOK(t)'
  BY <1>1 DEF ParamOK
<1>5. Types'
  BY <1>1, <1>3, Phases DEF Types
<1>6. Checks'
  BY <1>1, <1>2, <1>3, <1>4, Phases DEF Checks
<1>7. Loops'
  BY <1>1, Phases DEF Loops
<1>8. QED BY <1>5, <1>6, <1>7 DEF IInv

LEMMA RxQueueKeeps ==
  ASSUME IInv, init_lcore_rx_queues
  PROVE  IInv'
<1>1. /\ pc = "rx_queues" /\ pc' = "rx_queues" /\ todo # {}
      /\ rx_list' = [rx_list EXCEPT ![Triplet.lcore] = Append(@, Triplet)]
      /\ todo' \subseteq todo
      /\ UNCHANGED <<args, opts, pool, nb_queues, rx_setup, tx_id, started, loops>>
  BY DEF init_lcore_rx_queues, Goto, Dev
<1>2. Types /\ Checks /\ Loops
  BY DEF IInv
<1>3. /\ pc \in After /\ todo \subseteq DOMAIN opts.config
      /\ \A n \in DOMAIN opts.config : ParamOK(opts.config[n])
  BY <1>1, <1>2, Phases DEF Checks, Loops
<1>4. First(todo) \in DOMAIN opts.config
  <2>1. DOMAIN opts.config \subseteq Nat
    <3>1. Len(opts.config) \in Nat /\ DOMAIN opts.config = 1 .. Len(opts.config)
      BY <1>2, LenProperties DEF Types
    <3>2. QED BY <3>1
  <2>2. todo \subseteq Nat
    BY <1>3, <2>1
  <2>3. QED BY <1>1, <1>3, <2>2, FirstIs
<1>5. Triplet \in Triple /\ ParamOK(Triplet)
  <2>1. opts.config[First(todo)] \in Triple
    BY <1>2, <1>4, ElementOfSeq, LenProperties DEF Types
  <2>2. QED BY <1>3, <1>4, <2>1 DEF Triplet
<1>6. PICK l \in Lcores : l = Triplet.lcore
  BY <1>5 DEF ParamOK
<1>7. PICK t \in Triple : t = Triplet /\ ParamOK(t)
  BY <1>5
<1>8. /\ rx_list \in [Lcores -> Seq(Triple)]
      /\ rx_list' = [rx_list EXCEPT ![l] = Append(rx_list[l], t)]
  BY <1>1, <1>2, <1>6, <1>7 DEF Types
<1>9. /\ Append(rx_list[l], t) \in Seq(Triple)
      /\ \A n \in DOMAIN Append(rx_list[l], t) :
           Append(rx_list[l], t)[n] = t \/ (/\ n \in DOMAIN rx_list[l]
                                            /\ Append(rx_list[l], t)[n] = rx_list[l][n])
  <2>1. rx_list[l] \in Seq(Triple)
    BY <1>8
  <2>2. /\ Len(rx_list[l]) \in Nat /\ DOMAIN rx_list[l] = 1 .. Len(rx_list[l])
        /\ DOMAIN Append(rx_list[l], t) = 1 .. Len(rx_list[l]) + 1
    BY <2>1, LenProperties, AppendProperties
  <2>3. QED BY <2>1, <2>2, AppendProperties
<1>10. Types'
  <2>1. rx_list' \in [Lcores -> Seq(Triple)]
    BY <1>8, <1>9
  <2>2. QED BY <1>1, <1>2, <2>1 DEF Types
<1>11. Checks'
  <2>1. ASSUME NEW k \in Lcores, NEW n \in DOMAIN rx_list'[k]
        PROVE  ParamOK(rx_list'[k][n])
    <3>1. CASE k = l
      <4>1. rx_list'[k] = Append(rx_list[l], t)
        BY <1>8, <3>1
      <4>2. rx_list'[k][n] = t \/ (n \in DOMAIN rx_list[l] /\ rx_list'[k][n] = rx_list[l][n])
        BY <1>9, <2>1, <4>1
      <4>3. QED BY <1>2, <1>7, <4>2 DEF Checks
    <3>2. CASE k # l
      <4>1. rx_list'[k] = rx_list[k]
        BY <1>8, <3>2
      <4>2. QED BY <1>2, <2>1, <4>1 DEF Checks
    <3>3. QED BY <3>1, <3>2
  <2>2. (\A n \in DOMAIN opts.config : ParamOK(opts.config[n]))'
    BY <1>1, <1>3 DEF ParamOK
  <2>3. (\A k \in Lcores : \A n \in DOMAIN rx_list[k] : ParamOK(rx_list[k][n]))'
    BY <1>1, <2>1 DEF ParamOK
  <2>4. QED BY <1>1, <1>2, <2>2, <2>3, Phases DEF Checks
<1>12. Loops'
  BY <1>1, <1>3, Phases DEF Loops
<1>13. QED BY <1>10, <1>11, <1>12 DEF IInv

\* What a step from one loop to the next, or within one, leaves alone.
LEMMA LoopStep ==
  ASSUME IInv, UNCHANGED <<args, opts, rx_list, nb_queues, rx_setup, tx_id, loops>>,
         pc \in After, pc' \in After \ Building, pc # "running"
  PROVE  /\ Types' /\ Checks'
         /\ \A p : PortReady(p) => PortReady(p)'
         /\ EnabledPorts' = EnabledPorts
<1>1. Types /\ Checks
  BY DEF IInv
<1>2. Types'
  BY <1>1 DEF Types
<1>3. \A t : ParamOK(t) => ParamOK(t)'
  BY DEF ParamOK
<1>4. Checks'
  BY <1>1, <1>3, Phases DEF Checks
<1>5. QED BY <1>2, <1>4, ReadyStays DEF EnabledPorts

LEMMA LoopSteps ==
  ASSUME IInv, RxQueuesDone \/ SkipContext \/ pool_init \/ ContextsDone \/ StartPorts
  PROVE  IInv'
<1>1. /\ UNCHANGED <<args, opts, rx_list, nb_queues, rx_setup, tx_id, loops>>
      /\ pc \in After /\ pc' \in After \ Building /\ pc # "running"
  BY Phases DEF RxQueuesDone, SkipContext, pool_init, ContextsDone, StartPorts, Goto, Dev, Building
<1>2. /\ Types' /\ Checks'
      /\ \A p : PortReady(p) => PortReady(p)'
      /\ EnabledPorts' = EnabledPorts
  BY <1>1, LoopStep
<1>3. Loops
  BY DEF IInv
<1>4. ASSUME RxQueuesDone PROVE Loops'
  <2>1. pc' = "contexts" /\ todo' = Lcores
    BY <1>4 DEF RxQueuesDone, Goto
  <2>2. QED BY <2>1, Phases DEF Loops
<1>5. ASSUME SkipContext \/ pool_init PROVE Loops'
  <2>1. /\ pc \in {"contexts"} \cup Building /\ pc' = "contexts" /\ todo # {}
        /\ todo' = todo \ {First(todo)}
    BY <1>3, <1>5 DEF SkipContext, pool_init, Goto, Building, Loops
  <2>2. todo \subseteq Lcores /\ \A l \in Lcores \ todo : SocketOf[l] \in pool
    BY <1>3, <2>1 DEF Loops
  <2>3. pool \subseteq pool' /\ SocketOf[First(todo)] \in pool'
    BY <1>5 DEF SkipContext, pool_init, HasPool
  <2>4. \A l \in Lcores \ todo' : SocketOf[l] \in pool'
    BY <2>1, <2>2, <2>3
  <2>5. QED BY <2>1, <2>2, <2>4, Phases DEF Loops
<1>6. ASSUME ContextsDone PROVE Loops'
  <2>1. pc = "contexts" /\ todo = {} /\ pc' = "ports" /\ todo' = EnabledPorts /\ pool' = pool
    BY <1>6 DEF ContextsDone, Goto
  <2>2. \A l \in Lcores : SocketOf[l] \in pool
    BY <1>3, <2>1 DEF Loops
  <2>3. QED BY <1>2, <2>1, <2>2, Phases DEF Loops
<1>7. ASSUME StartPorts PROVE Loops'
  <2>1. /\ pc = "ports" /\ todo = {} /\ pc' = "launch" /\ started' = EnabledPorts
        /\ pool' = pool
    BY <1>7 DEF StartPorts, Goto
  <2>2. /\ \A l \in Lcores : SocketOf[l] \in pool
        /\ \A p \in EnabledPorts : PortReady(p)
    BY <1>3, <2>1 DEF Loops
  <2>3. QED BY <1>2, <2>1, <2>2, Phases DEF Loops
<1>8. QED BY <1>1, <1>2, <1>4, <1>5, <1>6, <1>7 DEF IInv

LEMMA LaunchKeeps ==
  ASSUME IInv, launch
  PROVE  IInv'
<1>1. /\ pc = "launch" /\ pc' = "running" /\ loops' \subseteq Lcores
      /\ UNCHANGED <<args, opts, todo, rx_list, pool, nb_queues, rx_setup, tx_id, started>>
  BY DEF launch, Goto, Dev
<1>2. Types /\ Checks /\ Loops
  BY DEF IInv
<1>3. Types'
  BY <1>1, <1>2, Phases DEF Types
<1>4. \A t : ParamOK(t) => ParamOK(t)'
  BY <1>1 DEF ParamOK
<1>5. Checks'
  BY <1>1, <1>2, <1>4, Phases DEF Checks
<1>6. /\ \A p : PortReady(p) => PortReady(p)'
      /\ EnabledPorts' = EnabledPorts
  BY <1>1, ReadyStays DEF EnabledPorts
<1>7. Loops'
  BY <1>1, <1>2, <1>6, Phases DEF Loops
<1>8. QED BY <1>3, <1>5, <1>7 DEF IInv

\* The port becomes ready; the others, whose queues are others, stay so.
LEMMA PortInitKeeps ==
  ASSUME IInv, port_init
  PROVE  IInv'
<1>1. PICK port : /\ port = First(todo)
                  /\ \A q \in DOMAIN RxSetup(port) : q[2] < get_port_nb_rx_queues(port)
                  /\ nb_queues' = [nb_queues EXCEPT ![port] = [rx |-> get_port_nb_rx_queues(port),
                                                               tx |-> Cardinality(Lcores)]]
                  /\ tx_id' = [lp \in DOMAIN tx_id |->
                                IF lp[2] = port THEN TxQueue(lp[1]) ELSE tx_id[lp]]
                  /\ rx_setup' = [q \in DOMAIN rx_setup \union DOMAIN RxSetup(port) |->
                                   IF q \in DOMAIN RxSetup(port) THEN RxSetup(port)[q]
                                                                 ELSE rx_setup[q]]
                  /\ todo' = todo \ {port}
  BY DEF port_init, Fits
<1>2. /\ pc = "ports" /\ pc' = "ports" /\ todo # {}
      /\ UNCHANGED <<args, opts, rx_list, pool, started, loops>>
  BY DEF port_init, Goto
<1>3. Types /\ Checks /\ Loops
  BY DEF IInv
<1>4. todo \subseteq EnabledPorts /\ port \in todo /\ port \in Ports
  <2>1. todo \subseteq EnabledPorts
    BY <1>2, <1>3 DEF Loops
  <2>2. Ports \subseteq Nat
    BY StartAssumption DEF Ports
  <2>3. todo \subseteq Nat
    BY <2>1, <2>2 DEF EnabledPorts
  <2>4. port \in todo
    BY <1>1, <1>2, <2>3, FirstIs
  <2>5. QED BY <2>1, <2>4 DEF EnabledPorts
<1>5. /\ \A p : get_port_nb_rx_queues(p)' = get_port_nb_rx_queues(p)
      /\ \A p : RxSetup(p)' = RxSetup(p)
      /\ EnabledPorts' = EnabledPorts
      /\ \A t : ParamOK(t) => ParamOK(t)'
  <2>1. \A p : get_port_nb_rx_queues(p)' = get_port_nb_rx_queues(p)
    BY <1>2 DEF get_port_nb_rx_queues
  <2>2. \A p : RxSetup(p)' = RxSetup(p)
    BY <1>2 DEF RxSetup, RxOf, PoolOf
  <2>3. QED BY <1>2, <2>1, <2>2 DEF EnabledPorts, ParamOK
<1>6. \A p : \A q \in DOMAIN RxSetup(p) : q[1] = p
  BY DEF RxSetup, RxOf
<1>7. Types'
  <2>1. nb_queues' = [p \in Ports |-> nb_queues'[p]]
    BY <1>1, <1>3 DEF Types
  <2>2. tx_id' = [lp \in Lcores \X Ports |-> tx_id'[lp]]
    <3>1. DOMAIN tx_id = Lcores \X Ports
      BY <1>3 DEF Types
    <3>2. QED BY <1>1, <3>1
  <2>3. QED BY <1>2, <1>3, <2>1, <2>2 DEF Types
<1>8. Checks'
  BY <1>2, <1>3, <1>5 DEF Checks
<1>9. PortReady(port)'
  <2>1. nb_queues'[port] = [rx |-> get_port_nb_rx_queues(port), tx |-> Cardinality(Lcores)]
    BY <1>1, <1>3, <1>4 DEF Types
  <2>2. \A l \in Lcores : tx_id'[<<l, port>>] = TxQueue(l)
    <3>1. ASSUME NEW l \in Lcores PROVE <<l, port>> \in DOMAIN tx_id
      BY <1>3, <1>4 DEF Types
    <3>2. QED BY <1>1, <3>1
  <2>3. \A q \in DOMAIN RxSetup(port) : /\ q \in DOMAIN rx_setup' /\ rx_setup'[q] = RxSetup(port)[q]
                                        /\ q[2] < get_port_nb_rx_queues(port)
    BY <1>1
  <2>4. QED BY <1>5, <2>1, <2>2, <2>3 DEF PortReady, TxQueue
<1>10. ASSUME NEW p \in Ports, p # port, PortReady(p) PROVE PortReady(p)'
  <2>1. nb_queues'[p] = nb_queues[p]
    BY <1>1, <1>3, <1>10 DEF Types
  <2>2. \A l \in Lcores : tx_id'[<<l, p>>] = tx_id[<<l, p>>]
    <3>1. ASSUME NEW l \in Lcores PROVE <<l, p>> \in DOMAIN tx_id /\ <<l, p>>[2] = p
      BY <1>3 DEF Types
    <3>2. QED BY <1>1, <1>10, <3>1
  <2>3. ASSUME NEW q \in DOMAIN RxSetup(p)
        PROVE  q \in DOMAIN rx_setup' /\ rx_setup'[q] = rx_setup[q]
    <3>1. q \notin DOMAIN RxSetup(port)
      BY <1>6, <1>10, <2>3
    <3>2. q \in DOMAIN rx_setup
      BY <1>10, <2>3 DEF PortReady
    <3>3. QED BY <1>1, <3>1, <3>2
  <2>4. QED BY <1>5, <1>10, <2>1, <2>2, <2>3 DEF PortReady, TxQueue
<1>11. Loops'
  <2>1. \A p \in EnabledPorts \ todo : PortReady(p)
    BY <1>2, <1>3 DEF Loops
  <2>2. EnabledPorts \subseteq Ports
    BY DEF EnabledPorts
  <2>3. \A p \in EnabledPorts \ todo' : PortReady(p)'
    BY <1>1, <1>9, <1>10, <2>1, <2>2
  <2>4. \A l \in Lcores : SocketOf[l] \in pool
    BY <1>2, <1>3 DEF Loops
  <2>5. todo' \subseteq EnabledPorts
    BY <1>1, <1>4
  <2>6. QED BY <1>2, <1>5, <2>3, <2>4, <2>5, Phases DEF Loops
<1>12. QED BY <1>7, <1>8, <1>11 DEF IInv

(***************************************************************************)
(* The theorems.                                                           *)
(***************************************************************************)
LEMMA InitIInv == InitStart => IInv
<1> SUFFICES ASSUME InitStart PROVE IInv
  OBVIOUS
<1>1. /\ pc = "args" /\ loops = {}
      /\ rx_list = [l \in Lcores |-> <<>>]
      /\ nb_queues = [port \in Ports |-> [rx |-> 0, tx |-> 0]]
      /\ tx_id = [lp \in Lcores \X Ports |-> 0]
      /\ opts = [p |-> {}, u |-> {}, f |-> FALSE, config |-> <<>>, given |-> FALSE,
                 single_sa |-> {}]
      /\ \E c \in Invocations : args = c.args
  BY DEF InitStart
<1>2. pc \in Before /\ pc \notin After /\ pc \notin {"contexts"} \cup Building
      /\ pc \notin Building
  BY <1>1 DEF Before, After, Building, Reading
<1>3. <<>> \in Seq(Triple) /\ DOMAIN <<>> = {}
  BY EmptySeq
<1>4. args \in Seq(Arguments)
  BY <1>1, StartAssumption
<1>5. Types
  BY <1>1, <1>2, <1>3, <1>4 DEF Types
<1>6. Checks
  <2>1. \A l \in Lcores : DOMAIN rx_list[l] = {}
    BY <1>1, <1>3
  <2>2. QED BY <1>1, <1>2, <2>1 DEF Checks
<1>7. Loops
  BY <1>1, <1>2 DEF Loops
<1>8. QED BY <1>5, <1>6, <1>7 DEF IInv

LEMMA NextIInv == IInv /\ [NextStart]_<<vars, startVars>> => IInv'
<1> SUFFICES ASSUME IInv, [NextStart]_<<vars, startVars>> PROVE IInv'
  OBVIOUS
<1>1. CASE \/ (parse_cfg_file \/ InitTables) /\ UNCHANGED startVars
           \/ FileRead \/ ArgRefused \/ ArgsDone \/ NoFile \/ CheckFailed
           \/ TooManyQueues \/ MakeContext \/ PortFails \/ StartFails
           \/ UNCHANGED <<vars, startVars>>
  BY <1>1, QuietSteps
<1>2. CASE ArgPorts \/ ArgUnprotected \/ ArgPromiscuous \/ ArgFile \/ ArgConfig \/ ArgSingleSa
  BY <1>2, ArgSteps
<1>3. CASE Checked
  BY <1>3, CheckedKeeps
<1>4. CASE init_lcore_rx_queues
  BY <1>4, RxQueueKeeps
<1>5. CASE RxQueuesDone \/ SkipContext \/ pool_init \/ ContextsDone \/ StartPorts
  BY <1>5, LoopSteps
<1>6. CASE port_init
  BY <1>6, PortInitKeeps
<1>7. CASE launch
  BY <1>7, LaunchKeeps
<1>8. QED BY <1>1, <1>2, <1>3, <1>4, <1>5, <1>6, <1>7, Zenon DEF NextStart

LEMMA SpecIInv == SpecStart => []IInv
  BY InitIInv, NextIInv, PTL DEF SpecStart

\* Whatever the lcores and their sockets: every lcore has a transmit queue of
\* its own on every started port, and the port was configured with it.
THEOREM TransmitQueuesPrivate == SpecStart => []TxPrivate
<1>1. ASSUME IInv PROVE TxPrivate
  <2>1. ASSUME NEW port \in started, NEW k \in loops, NEW l \in loops
        PROVE  /\ tx_id[<<l, port>>] < nb_queues[port].tx
               /\ k # l => tx_id[<<k, port>>] # tx_id[<<l, port>>]
    <3>1. k \in Lcores /\ l \in Lcores /\ pc = "running"
      BY <1>1, <2>1 DEF IInv, Types, Checks
    <3>2. PortReady(port)
      BY <1>1, <2>1, <3>1 DEF IInv, Loops
    <3>3. /\ tx_id[<<k, port>>] = TxQueue(k) /\ tx_id[<<l, port>>] = TxQueue(l)
          /\ nb_queues[port].tx = Cardinality(Lcores)
      BY <3>1, <3>2 DEF PortReady
    <3>4. QED BY <3>1, <3>3, TxQueueOwn
  <2>2. QED BY <2>1 DEF TxPrivate
<1>2. QED BY SpecIInv, <1>1, PTL

\* Whatever the order of the options, and for any number of sockets: what an
\* lcore polls is a queue of a port that was started, one the port was
\* configured with and that was set up, and its mbufs come from the pool of the
\* lcore's own socket unless another lcore lists the same queue.
THEOREM PolledQueuesReady == SpecStart => []PolledReady
<1>1. ASSUME IInv PROVE PolledReady
  <2>1. ASSUME NEW l \in loops, NEW q \in Listed(l)
        PROVE  /\ q[1] \in started /\ q[1] < NbPorts
               /\ q[2] < nb_queues[q[1]].rx /\ q \in DOMAIN rx_setup
               /\ SocketOf[l] \in pool
               /\ (\A k \in Lcores \ {l} : q \notin Listed(k)) => rx_setup[q] = SocketOf[l]
    <3>1. l \in Lcores /\ pc = "running" /\ rx_list \in [Lcores -> Seq(Triple)]
      BY <1>1, <2>1 DEF IInv, Types, Checks
    <3>2. /\ started = EnabledPorts /\ SocketOf[l] \in pool
          /\ \A p \in started : PortReady(p)
      BY <1>1, <3>1 DEF IInv, Loops
    <3>3. PICK n \in DOMAIN rx_list[l] : q = <<rx_list[l][n].port, rx_list[l][n].queue>>
      BY <2>1 DEF Listed
    <3>4. rx_list[l][n] \in Triple /\ ParamOK(rx_list[l][n])
      <4>1. rx_list[l] \in Seq(Triple)
        BY <3>1
      <4>2. rx_list[l][n] \in Triple
        BY <3>3, <4>1, ElementOfSeq, LenProperties
      <4>3. QED BY <1>1, <3>1, <3>3, <4>2 DEF IInv, Checks
    <3>5. PICK p : p = rx_list[l][n].port
      OBVIOUS
    <3>6. p \in started /\ p \in Nat /\ p < NbPorts
      <4>1. p \in 0 .. Byte - 1 /\ (p % MaskBits) \in opts.p /\ p < NbPorts
        BY <3>4, <3>5 DEF ParamOK, Triple
      <4>2. p \in Nat /\ MaskBits \in Nat /\ NbPorts \in Nat /\ p < MaskBits
        BY <4>1, StartAssumption
      <4>3. p % MaskBits = p
        BY <4>2
      <4>4. QED BY <3>2, <4>1, <4>2, <4>3 DEF EnabledPorts, Ports
    <3>7. \A k \in Lcores : RxOf(k, p) \subseteq Listed(k)
      BY DEF RxOf, Listed
    <3>8. q \in RxOf(l, p) /\ q[1] = p
      BY <3>3, <3>5 DEF RxOf
    <3>9. q \in DOMAIN RxSetup(p)
      BY <3>1, <3>8 DEF RxSetup
    <3>10. /\ q \in DOMAIN rx_setup /\ rx_setup[q] = RxSetup(p)[q]
           /\ q[2] < nb_queues[p].rx
      <4>1. PortReady(p)
        BY <3>2, <3>6
      <4>2. nb_queues[p].rx = get_port_nb_rx_queues(p)
        BY <4>1 DEF PortReady
      <4>3. QED BY <3>9, <4>1, <4>2 DEF PortReady
    <3>11. ASSUME \A k \in Lcores \ {l} : q \notin Listed(k)
           PROVE  RxSetup(p)[q] = SocketOf[l]
      <4>1. {k \in Lcores : q \in RxOf(k, p)} = {l}
        BY <3>1, <3>7, <3>8, <3>11
      <4>2. RxSetup(p)[q] = PoolOf(Max({l}))
        BY <3>9, <4>1 DEF RxSetup
      <4>3. l \in Nat
        BY <3>1, StartAssumption
      <4>4. QED BY <4>2, <4>3, MaxOfOne DEF PoolOf
    <3>12. QED BY <3>2, <3>6, <3>8, <3>10, <3>11
  <2>2. QED BY <2>1 DEF PolledReady
<1>2. QED BY SpecIInv, <1>1, PTL

-----------------------------------------------------------------------------
(***************************************************************************)
(* The file: what is known of its statements, part by part.                *)
(***************************************************************************)

SaTables == {"sa_in", "sa_out"}
SpTables == {"sp4_in", "sp4_out", "sp6_in", "sp6_out"}
RtTables == {"rt4", "rt6"}

\* The words of a statement "sa" with the items D, if it has no other.
Words(D) ==
  2 + (IF "mode" \in D THEN 2 ELSE 0)
    + (IF "cipher" \in D THEN 4 ELSE 0) + (IF "auth" \in D THEN 4 ELSE 0)
    + (IF "src" \in D THEN 2 ELSE 0) + (IF "dst" \in D THEN 2 ELSE 0)

\* src or dst of an SA: skipped, or of the version of its mode.
SaAddress(r, k) ==
  \/ r[k].got = Invalid /\ r[k].says = Invalid
  \/ /\ "mode" \in DOMAIN r /\ r["mode"].got # "transport"
     /\ \E w \in SaText(r["mode"].got) :
          /\ SaParsed(r["mode"].got, w) # Invalid
          /\ r[k] = [got |-> SaParsed(r["mode"].got, w), says |-> w.means]

SaItems(r) ==
  /\ "spi" \in DOMAIN r /\ \E n \in Spi : r["spi"] = Plain(n)
  /\ "mode" \in DOMAIN r =>
       \E m \in {"ipv4-tunnel", "ipv6-tunnel", "transport"} : r["mode"] = Plain(m)
  /\ \A k \in {"src", "dst"} : k \in DOMAIN r => SaAddress(r, k)

SpItems(r) ==
  "policy" \in DOMAIN r =>
    \/ \E n \in Spi : r["policy"] = [got |-> PROTECT(n), says |-> <<"protect", n>>]
    \/ r["policy"] = [got |-> BYPASS, says |-> <<"bypass">>]
    \/ r["policy"] = [got |-> DISCARD, says |-> <<"discard">>]

\* The address of a word of the table's version, as it is kept.
RtText(t) == IF t = "rt4" THEN Text4 ELSE Text6
RtParsed(t, w) == IF t = "rt4" THEN parse_ipv4_addr(w.text) ELSE parse_ipv6_addr(w.text)
RtKept(t, addr) == IF t = "rt4" THEN rte_bswap32(s_addr(addr)) ELSE addr

RtItems(t, r) ==
  /\ "dst" \in DOMAIN r =>
       \E w \in RtText(t) :
         /\ RtParsed(t, w).addr # Invalid
         /\ r["dst"] = [got |-> [addr |-> RtKept(t, RtParsed(t, w).addr),
                                 depth |-> RtParsed(t, w).depth % 256],
                        says |-> Says(w)]
  /\ "port" \in DOMAIN r => \E n \in Port : r["port"] = [got |-> n % 256, says |-> n]

\* What the items of a statement for table t are so far.
Holds(t, r) ==
  /\ t \in SaTables => SaItems(r)
  /\ t \in SpTables => SpItems(r)
  /\ t \in RtTables => RtItems(t, r)

\* A rule has, besides, what is mandatory.
Complete(t, r) ==
  /\ Holds(t, r)
  /\ t \in SaTables => {"cipher", "auth", "mode"} \subseteq DOMAIN r
  /\ t \in SpTables => "policy" \in DOMAIN r

Sizes ==
  /\ file \in Seq(Tables \cup {"other"}) /\ line.table \in Tables \cup {"other"}
  /\ chars \in 0 .. MaxChars /\ ti \in 0 .. MaxTokens /\ status \in {0, -1}
  /\ rules = [t \in Tables |-> rules[t]]
  /\ \A t \in Tables : (\E S : rules[t] \in Seq(S)) /\ Len(rules[t]) <= MaxRules[t]

Statement ==
  /\ pc = "items" =>
       /\ line.table \in Tables /\ Len(rules[line.table]) < MaxRules[line.table]
       /\ line.more => IsSa(line.table)
       /\ IsSa(line.table) => ti <= Words(DOMAIN items)
       /\ Holds(line.table, items)
  /\ pc = "parsed" => (line.more => status = -1)

Filed == \A t \in Tables : \A n \in 1 .. Len(rules[t]) : Complete(t, rules[t][n])

\* The tables of a socket are made of all the rules, once all are there.
Built ==
  /\ DOMAIN sad = SaTables /\ acl = [t \in SpTables |-> acl[t]] /\ DOMAIN lpm = RtTables
  /\ \A t \in SaTables : sad[t] = Null \/ (rules[t] # <<>> /\ sad[t] = sa_add_rules(rules[t]))
  /\ \A t \in SpTables : acl[t] = <<>> \/ acl[t] = rules[t]
  /\ pc \in Before =>
       (\A t \in SaTables : sad[t] = Null) /\ (\A t \in SpTables : acl[t] = <<>>)
  /\ pc \in Building \ {"sa_init"} =>
       \A t \in SaTables : rules[t] # <<>> => sad[t] = sa_add_rules(rules[t])
  /\ pc = "tables" =>
       \A t \in RtTables :
         lpm[t] = Routes(t) /\ \A n \in 1 .. Len(rules[t]) : Addable(t, rules[t][n])

FileInv == Sizes /\ Statement /\ Filed /\ Built

-----------------------------------------------------------------------------
LEMMA TableKinds ==
  /\ Tables = SaTables \cup SpTables \cup RtTables
  /\ \A t : IsSa(t) <=> t \in SaTables
  /\ \A t : IsSp4(t) \/ IsSp6(t) <=> t \in SpTables
  /\ \A t : t \in SaTables => t \notin SpTables /\ t \notin RtTables
  /\ \A t : t \in SpTables => t \notin RtTables
  BY DEF Tables, SaTables, SpTables, RtTables, IsSa, IsSp4, IsSp6

LEMMA WithIs ==
  ASSUME NEW f, NEW k, NEW v
  PROVE  /\ DOMAIN With(f, k, v) = DOMAIN f \cup {k}
         /\ With(f, k, v)[k] = v
         /\ \A x \in DOMAIN f : x # k => With(f, k, v)[x] = f[x]
  BY DEF With

LEMMA NoItemsIs == DOMAIN NoItems = {}
  BY DEF NoItems

\* The sequence of the rules and one more.
LEMMA RuleAppended ==
  ASSUME NEW S, NEW s \in Seq(S), NEW e
  PROVE  /\ \E T : Append(s, e) \in Seq(T)
         /\ Len(s) \in Nat /\ Len(Append(s, e)) = Len(s) + 1
         /\ Append(s, e)[Len(s) + 1] = e
         /\ \A n \in 1 .. Len(s) : Append(s, e)[n] = s[n]
<1> DEFINE T == S \cup {e}
<1>1. s \in Seq(T)
  <2>1. Len(s) \in Nat /\ s \in [1 .. Len(s) -> S]
    BY LenProperties
  <2>2. s \in [1 .. Len(s) -> T]
    BY <2>1
  <2>3. QED BY <2>1, <2>2, SeqDef
<1>2. e \in T
  OBVIOUS
<1> HIDE DEF T
<1>3. Append(s, e) \in Seq(T) /\ Len(s) \in Nat /\ Len(Append(s, e)) = Len(s) + 1
  BY <1>1, <1>2, AppendProperties
<1>4. /\ Append(s, e)[Len(s) + 1] = e
      /\ \A n \in 1 .. Len(s) : Append(s, e)[n] = s[n]
  BY <1>1, <1>2, AppendProperties
<1>5. QED BY <1>3, <1>4

\* While the file is read, nothing is made of the rules.
LEMMA ReadingKeeps ==
  ASSUME FileInv, pc \in Reading, pc' \in Reading \cup {"read", "stopped"},
         UNCHANGED <<rules, sad, acl, lpm>>
  PROVE  Filed' /\ Built'
<1>1. pc \in Before /\ pc' \notin Building /\ pc' # "tables"
  BY DEF Reading, Before, Building
<1>2. QED BY <1>1 DEF FileInv, Filed, Built

LEMMA ItemKeeps ==
  ASSUME FileInv, NEW n \in Nat, NEW k, NEW v, Item(n, k, v),
         IsSa(line.table) => ti + n <= Words(DOMAIN items \cup {k}),
         Holds(line.table, With(items, k, v))
  PROVE  FileInv'
<1>1. /\ pc = "items" /\ pc' = pc /\ ti' = ti + n /\ ti + n <= MaxTokens
      /\ items' = With(items, k, v)
      /\ UNCHANGED <<file, chars, line, status, rules, sad, acl, lpm>>
  BY DEF Item, Tabs
<1>2. Sizes'
  BY <1>1, ConfigAssumption DEF FileInv, Sizes
<1>3. DOMAIN items' = DOMAIN items \cup {k}
  BY <1>1, WithIs
<1>4. Statement'
  BY <1>1, <1>3 DEF FileInv, Statement
<1>5. Filed' /\ Built'
  BY <1>1, ReadingKeeps DEF Reading
<1>6. QED BY <1>2, <1>4, <1>5 DEF FileInv

LEMMA OpenKeeps ==
  ASSUME FileInv, NEW n \in {1, 2}, NEW first, Open(n, first), line.table \in Tables,
         line.more => IsSa(line.table), Holds(line.table, first)
  PROVE  FileInv'
<1>1. /\ pc = "parse" /\ pc' = "items" /\ ti' = n /\ items' = first /\ status' = 0 /\ Room
      /\ UNCHANGED <<file, chars, line, rules, sad, acl, lpm>>
  BY DEF Open, Tabs
<1>2. Sizes'
  BY <1>1, ConfigAssumption DEF FileInv, Sizes
<1>3. Len(rules[line.table]) < MaxRules[line.table]
  <2>1. PICK S : rules[line.table] \in Seq(S)
    BY DEF FileInv, Sizes
  <2>2. Len(rules[line.table]) \in Nat
    BY <2>1, LenProperties
  <2>3. MaxRules[line.table] \in Nat
    BY ConfigAssumption
  <2>4. QED BY <1>1, <2>2, <2>3 DEF Room
<1>4. 2 <= Words(DOMAIN first)
  BY DEF Words
<1>5. Statement'
  <2>1. n <= Words(DOMAIN first)
    BY <1>4 DEF Words
  <2>2. QED BY <1>1, <1>3, <2>1 DEF Statement
<1>6. Filed' /\ Built'
  BY <1>1, ReadingKeeps DEF Reading
<1>7. QED BY <1>2, <1>5, <1>6 DEF FileInv

LEMMA CloseKeeps ==
  ASSUME FileInv, Close, Complete(line.table, items)
  PROVE  FileInv'
<1>1. /\ pc = "items" /\ pc' = "parsed" /\ ti' = 0 /\ (line.more => ti = MaxTokens)
      /\ rules' = [rules EXCEPT ![line.table] = Append(@, items)]
      /\ UNCHANGED <<file, chars, line, status, sad, acl, lpm>>
  BY DEF Close, Tabs
<1>2. /\ line.table \in Tables /\ Len(rules[line.table]) < MaxRules[line.table]
      /\ line.more => IsSa(line.table)
      /\ IsSa(line.table) => ti <= Words(DOMAIN items)
  BY <1>1 DEF FileInv, Statement
<1>3. ~ line.more
  <2>1. Words(DOMAIN items) <= 16 /\ Words(DOMAIN items) \in Nat
    BY DEF Words
  <2>2. ti \in Nat /\ MaxTokens \in Nat /\ MaxTokens > 16
    BY ConfigAssumption DEF FileInv, Sizes
  <2>3. QED BY <1>1, <1>2, <2>1, <2>2
<1> DEFINE t == line.table
<1>4. PICK S : rules[t] \in Seq(S)
  BY <1>2 DEF FileInv, Sizes
<1>5. /\ rules = [u \in Tables |-> rules[u]] /\ t \in Tables
      /\ rules' = [rules EXCEPT ![t] = Append(rules[t], items)]
  BY <1>1, <1>2 DEF FileInv, Sizes
<1> HIDE DEF t
<1>6. /\ rules' = [u \in Tables |-> rules'[u]] /\ rules'[t] = Append(rules[t], items)
      /\ \A u \in Tables : u # t => rules'[u] = rules[u]
  BY <1>5
<1>7. /\ \E T : rules'[t] \in Seq(T)
      /\ Len(rules[t]) \in Nat /\ Len(rules'[t]) = Len(rules[t]) + 1
      /\ rules'[t][Len(rules[t]) + 1] = items
      /\ \A n \in 1 .. Len(rules[t]) : rules'[t][n] = rules[t][n]
  <2> DEFINE s == rules[t]
  <2>1. s \in Seq(S) /\ rules'[t] = Append(s, items)
    BY <1>4, <1>6
  <2> HIDE DEF s
  <2>2. /\ \E T : Append(s, items) \in Seq(T)
        /\ Len(s) \in Nat /\ Len(Append(s, items)) = Len(s) + 1
        /\ Append(s, items)[Len(s) + 1] = items
        /\ \A n \in 1 .. Len(s) : Append(s, items)[n] = s[n]
    BY <2>1, RuleAppended
  <2>3. QED BY <2>1, <2>2 DEF s
<1>8. Len(rules'[t]) <= MaxRules[t]
  <2>1. MaxRules[t] \in Nat
    BY <1>5, ConfigAssumption
  <2>2. QED BY <1>2, <1>7, <2>1 DEF t
<1>9. Sizes'
  <2>1. \A u \in Tables : (\E T : rules'[u] \in Seq(T)) /\ Len(rules'[u]) <= MaxRules[u]
    BY <1>6, <1>7, <1>8 DEF FileInv, Sizes
  <2>2. 0 \in 0 .. MaxTokens
    BY ConfigAssumption
  <2>3. QED BY <1>1, <1>6, <2>1, <2>2 DEF FileInv, Sizes
<1>10. Statement'
  BY <1>1, <1>3 DEF Statement
<1>11. Filed'
  <2>1. ASSUME NEW u \in Tables, NEW n \in 1 .. Len(rules'[u]) PROVE Complete(u, rules'[u][n])
    <3>1. CASE u # t
      BY <1>6, <2>1, <3>1 DEF FileInv, Filed
    <3>2. CASE u = t /\ n \in 1 .. Len(rules[t])
      BY <1>7, <2>1, <3>2 DEF FileInv, Filed
    <3>3. CASE u = t /\ n = Len(rules[t]) + 1
      BY <1>7, <3>3 DEF t
    <3>4. QED BY <1>7, <2>1, <3>1, <3>2, <3>3
  <2>2. QED BY <2>1 DEF Filed
<1>12. Built'
  <2>1. pc \in Before /\ pc' \notin Building
    BY <1>1 DEF Reading, Before, Building
  <2>2. /\ \A u \in SaTables : sad[u] = Null
        /\ \A u \in SpTables : acl[u] = <<>>
    BY <2>1 DEF FileInv, Built
  <2>3. pc' # "tables" /\ DOMAIN sad = SaTables /\ acl = [u \in SpTables |-> acl[u]]
        /\ DOMAIN lpm = RtTables
    BY <1>1 DEF FileInv, Built
  <2>4. QED BY <1>1, <2>1, <2>2, <2>3 DEF Built
<1>13. QED BY <1>9, <1>10, <1>11, <1>12 DEF FileInv

\* The steps that read lines, and those that refuse one.
LEMMA LineKeeps ==
  ASSUME FileInv,
         \/ \E n \in 1 .. MaxChars : ReadContinued(n) \/ \E more \in BOOLEAN : ReadLast(n, more)
         \/ ReadRefused \/ Unrecognized \/ TooManyRules \/ TooManyWords \/ RefuseLine
         \/ NextLine \/ LineRefused \/ EndOfFile \/ SaUnknownAlgo
  PROVE  FileInv'
<1>1. /\ pc \in Reading /\ pc' \in Reading \cup {"read", "stopped"} /\ pc' # "items"
      /\ UNCHANGED <<rules, sad, acl, lpm>>
  BY DEF ReadContinued, ReadLast, ReadRefused, Unrecognized, TooManyRules, TooManyWords,
         RefuseLine, NextLine, LineRefused, EndOfFile, SaUnknownAlgo, Stop, Refuse, Reading, Tabs
<1>2. ti' = ti \/ ti' = 0
  BY DEF ReadContinued, ReadLast, ReadRefused, Unrecognized, TooManyRules, TooManyWords,
         RefuseLine, NextLine, LineRefused, EndOfFile, SaUnknownAlgo, Stop, Refuse
<1>3. status' = status \/ status' = -1
  BY DEF ReadContinued, ReadLast, ReadRefused, Unrecognized, TooManyRules, TooManyWords,
         RefuseLine, NextLine, LineRefused, EndOfFile, SaUnknownAlgo, Stop, Refuse
<1>4. pc' = "parsed" => status' = -1
  BY DEF ReadContinued, ReadLast, ReadRefused, Unrecognized, TooManyRules, TooManyWords,
         RefuseLine, NextLine, LineRefused, EndOfFile, SaUnknownAlgo, Stop, Refuse
<1>5. \/ UNCHANGED <<file, line>> \/ (file' = file /\ line' = NoLine)
      \/ \E more \in BOOLEAN : /\ file # <<>> /\ file' = Tail(file)
                               /\ line' = [table |-> Head(file), more |-> more]
  BY DEF ReadContinued, ReadLast, ReadRefused, Unrecognized, TooManyRules, TooManyWords,
         RefuseLine, NextLine, LineRefused, EndOfFile, SaUnknownAlgo, Stop, Refuse
<1>6. chars' = chars \/ chars' = 0 \/ \E n \in 1 .. MaxChars : chars' = chars + n /\ chars + n <= MaxChars
  BY DEF ReadContinued, ReadLast, ReadRefused, Unrecognized, TooManyRules, TooManyWords,
         RefuseLine, NextLine, LineRefused, EndOfFile, SaUnknownAlgo, Stop, Refuse
<1>7. file' \in Seq(Tables \cup {"other"}) /\ line'.table \in Tables \cup {"other"}
  <2>1. file \in Seq(Tables \cup {"other"}) /\ line.table \in Tables \cup {"other"}
    BY DEF FileInv, Sizes
  <2>2. file # <<>> => /\ Head(file) \in Tables \cup {"other"}
                       /\ Tail(file) \in Seq(Tables \cup {"other"})
    BY <2>1, HeadTailProperties
  <2>3. QED BY <1>5, <2>1, <2>2 DEF NoLine
<1>8. Sizes'
  <2>1. /\ chars \in 0 .. MaxChars /\ ti \in 0 .. MaxTokens /\ status \in {0, -1}
        /\ MaxChars \in Nat /\ MaxTokens \in Nat
    BY ConfigAssumption DEF FileInv, Sizes
  <2>2. chars' \in 0 .. MaxChars /\ ti' \in 0 .. MaxTokens /\ status' \in {0, -1}
    BY <1>2, <1>3, <1>6, <2>1
  <2>3. QED BY <1>1, <1>7, <2>2 DEF FileInv, Sizes
<1>9. Statement'
  BY <1>1, <1>4 DEF Statement
<1>10. Filed' /\ Built'
  BY <1>1, ReadingKeeps
<1>11. QED BY <1>8, <1>9, <1>10 DEF FileInv

-----------------------------------------------------------------------------
LEMMA InItems ==
  ASSUME FileInv, pc = "items"
  PROVE  /\ line.table \in Tables /\ Holds(line.table, items)
         /\ line.table \in SaTables => SaItems(items) /\ ti <= Words(DOMAIN items)
         /\ line.table \in SpTables => SpItems(items)
         /\ line.table \in RtTables => RtItems(line.table, items)
         /\ ti \in Nat
  BY TableKinds, ConfigAssumption DEF FileInv, Sizes, Statement, Holds

LEMMA SaItem ==
  ASSUME FileInv, line.table \in SaTables,
         NEW k \in {"mode", "cipher", "auth", "src", "dst"}, k \notin DOMAIN items,
         NEW n \in {2, 4}, n = 4 => k \in {"cipher", "auth"}, NEW v, Item(n, k, v),
         k = "mode" => \E m \in {"ipv4-tunnel", "ipv6-tunnel", "transport"} : v = Plain(m),
         k \in {"src", "dst"} => SaAddress(With(items, k, v), k)
  PROVE  FileInv'
<1>1. pc = "items"
  BY DEF Item
<1>2. SaItems(items) /\ ti <= Words(DOMAIN items) /\ ti \in Nat
  BY <1>1, InItems
<1>3. ti + n <= Words(DOMAIN items \cup {k})
  <2>1. Words(DOMAIN items) + n <= Words(DOMAIN items \cup {k})
    <3>1. CASE k = "mode"
      BY <3>1 DEF Words
    <3>2. CASE k = "cipher"
      BY <3>2 DEF Words
    <3>3. CASE k = "auth"
      BY <3>3 DEF Words
    <3>4. CASE k = "src"
      BY <3>4 DEF Words
    <3>5. CASE k = "dst"
      BY <3>5 DEF Words
    <3>6. QED BY <3>1, <3>2, <3>3, <3>4, <3>5
  <2>2. Words(DOMAIN items) \in Nat /\ Words(DOMAIN items \cup {k}) \in Nat
    BY DEF Words
  <2>3. QED BY <1>2, <2>1, <2>2
<1> DEFINE r == With(items, k, v)
<1>4. /\ DOMAIN r = DOMAIN items \cup {k} /\ r[k] = v
      /\ \A x \in DOMAIN items : r[x] = items[x]
  BY DEF With
<1>5. k \in {"src", "dst"} => SaAddress(r, k)
  OBVIOUS
<1> HIDE DEF r
<1>6. SaItems(r)
  <2>1. "spi" \in DOMAIN r /\ \E i \in Spi : r["spi"] = Plain(i)
    BY <1>2, <1>4 DEF SaItems
  <2>2. "mode" \in DOMAIN r =>
          \E m \in {"ipv4-tunnel", "ipv6-tunnel", "transport"} : r["mode"] = Plain(m)
    BY <1>2, <1>4 DEF SaItems
  <2>3. ASSUME NEW x \in {"src", "dst"}, x \in DOMAIN r PROVE SaAddress(r, x)
    <3>1. CASE x = k
      BY <1>5, <3>1
    <3>2. CASE x # k
      <4>1. x \in DOMAIN items /\ SaAddress(items, x) /\ r[x] = items[x]
        BY <1>2, <1>4, <2>3, <3>2 DEF SaItems
      <4>2. "mode" \in DOMAIN items => "mode" \in DOMAIN r /\ r["mode"] = items["mode"]
        BY <1>4
      <4>3. QED BY <4>1, <4>2 DEF SaAddress
    <3>3. QED BY <3>1, <3>2
  <2>4. QED BY <2>1, <2>2, <2>3 DEF SaItems
<1>7. Holds(line.table, r)
  BY <1>6, TableKinds DEF Holds
<1>8. QED BY <1>3, <1>7, ItemKeeps DEF r

LEMMA SaKeeps ==
  ASSUME FileInv, parse_sa_tokens
  PROVE  FileInv'
<1>1. ASSUME NEW n \in Spi, SaOpen(n) PROVE FileInv'
  <2> DEFINE r == With(NoItems, "spi", Plain(n))
  <2>1. IsSa(line.table) /\ Open(2, r)
    BY <1>1 DEF SaOpen
  <2>2. DOMAIN r = {"spi"} /\ r["spi"] = Plain(n)
    BY NoItemsIs DEF With
  <2> HIDE DEF r
  <2>3. line.table \in SaTables /\ line.table \in Tables
    BY <2>1, TableKinds
  <2>4. Holds(line.table, r)
    BY <2>2, <2>3, TableKinds DEF Holds, SaItems
  <2>5. QED BY <2>1, <2>3, <2>4, OpenKeeps
<1>2. ASSUME NEW m \in {"ipv4-tunnel", "ipv6-tunnel", "transport"}, SaMode(m) PROVE FileInv'
  <2>1. line.table \in SaTables /\ "mode" \notin DOMAIN items /\ Item(2, "mode", Plain(m))
    BY <1>2, TableKinds DEF SaMode, Fresh
  <2>2. QED BY <2>1, SaItem
<1>3. ASSUME NEW name, SaCipher(name) PROVE FileInv'
  <2>1. PICK n \in {2, 4} : \E v : Item(n, "cipher", v)
    BY <1>3 DEF SaCipher
  <2>2. line.table \in SaTables /\ "cipher" \notin DOMAIN items
    BY <1>3, TableKinds DEF SaCipher, Fresh
  <2>3. QED BY <2>1, <2>2, SaItem
<1>4. ASSUME NEW name, SaAuth(name) PROVE FileInv'
  <2>1. PICK n \in {2, 4} : \E v : Item(n, "auth", v)
    BY <1>4 DEF SaAuth
  <2>2. line.table \in SaTables /\ "auth" \notin DOMAIN items
    BY <1>4, TableKinds DEF SaAuth, Fresh
  <2>3. QED BY <2>1, <2>2, SaItem
<1>5. ASSUME NEW k \in {"src", "dst"}, SaEarlyAddr(k) PROVE FileInv'
  <2> DEFINE v == [got |-> Invalid, says |-> Invalid]
  <2>1. line.table \in SaTables /\ k \notin DOMAIN items /\ Item(2, k, v)
    BY <1>5, TableKinds DEF SaEarlyAddr, Fresh
  <2>2. With(items, k, v)[k] = v
    BY DEF With
  <2>3. SaAddress(With(items, k, v), k)
    BY <2>2 DEF SaAddress
  <2> HIDE DEF v
  <2>4. QED BY <2>1, <2>3, SaItem
<1>6. ASSUME NEW k \in {"src", "dst"}, NEW w, SaAddr(k, w) PROVE FileInv'
  <2> DEFINE m == items["mode"].got
             v == [got |-> SaParsed(m, w), says |-> w.means]
  <2>1. /\ line.table \in SaTables /\ k \notin DOMAIN items /\ Item(2, k, v)
        /\ "mode" \in DOMAIN items /\ m # "transport" /\ w \in SaText(m)
        /\ SaParsed(m, w) # Invalid
    BY <1>6, TableKinds DEF SaAddr, Fresh
  <2>2. /\ With(items, k, v)[k] = v
        /\ "mode" \in DOMAIN With(items, k, v)
        /\ With(items, k, v)["mode"] = items["mode"]
    BY <2>1 DEF With
  <2>3. SaAddress(With(items, k, v), k)
    BY <2>1, <2>2 DEF SaAddress
  <2> HIDE DEF v
  <2>4. QED BY <2>1, <2>3, SaItem
<1>7. ASSUME SaClose PROVE FileInv'
  <2>1. /\ Close /\ line.table \in SaTables /\ {"cipher", "auth", "mode"} \subseteq DOMAIN items
        /\ pc = "items"
    BY <1>7, TableKinds DEF SaClose, Close
  <2>2. Complete(line.table, items)
    BY <2>1, InItems, TableKinds DEF Complete
  <2>3. QED BY <2>1, <2>2, CloseKeeps
<1>8. SaUnknownAlgo => FileInv'
  BY LineKeeps
<1>9. QED BY <1>1, <1>2, <1>3, <1>4, <1>5, <1>6, <1>7, <1>8 DEF parse_sa_tokens

LEMMA SpItem ==
  ASSUME FileInv, line.table \in SpTables, NEW n \in Nat, NEW k, NEW v, Item(n, k, v),
         k = "policy" =>
           \/ \E i \in Spi : v = [got |-> PROTECT(i), says |-> <<"protect", i>>]
           \/ v = [got |-> BYPASS, says |-> <<"bypass">>]
           \/ v = [got |-> DISCARD, says |-> <<"discard">>]
  PROVE  FileInv'
<1>1. pc = "items"
  BY DEF Item
<1>2. SpItems(items)
  BY <1>1, InItems
<1> DEFINE r == With(items, k, v)
<1>3. /\ DOMAIN r = DOMAIN items \cup {k} /\ r[k] = v
      /\ \A x \in DOMAIN items : x # k => r[x] = items[x]
  BY DEF With
<1> HIDE DEF r
<1>4. SpItems(r)
  <2>1. CASE k = "policy"
    BY <1>3, <2>1 DEF SpItems
  <2>2. CASE k # "policy"
    BY <1>2, <1>3, <2>2 DEF SpItems
  <2>3. QED BY <2>1, <2>2
<1>5. Holds(line.table, r) /\ ~ IsSa(line.table)
  BY <1>4, TableKinds DEF Holds
<1>6. QED BY <1>5, ItemKeeps DEF r

LEMMA SpOpenKeeps ==
  ASSUME FileInv, line.table \in SpTables, ~ line.more, Open(2, NoItems)
  PROVE  FileInv'
<1>1. Holds(line.table, NoItems) /\ line.table \in Tables
  BY TableKinds, NoItemsIs DEF Holds, SpItems
<1>2. QED BY <1>1, OpenKeeps

\* The items that sp4.c and sp6.c have in common.
LEMMA SpCommonKeeps ==
  ASSUME FileInv, line.table \in SpTables,
         \/ SpPolicy \/ SpEsp \/ SpClose
         \/ \E n \in Pri : SpPri(n)
         \/ \E w \in TextRange : SpProto(w) \/ SpPorts("sport", w) \/ SpPorts("dport", w)
  PROVE  FileInv'
<1>1. CASE SpPolicy
  <2>1. ASSUME NEW i \in Spi, Policy(<<"protect", i>>, 2, PROTECT(i)) PROVE FileInv'
    <3>1. Item(2, "policy", [got |-> PROTECT(i), says |-> <<"protect", i>>])
      BY <2>1 DEF Policy
    <3>2. QED BY <3>1, SpItem
  <2>2. ASSUME Policy(<<"bypass">>, 1, BYPASS) PROVE FileInv'
    <3>1. Item(1, "policy", [got |-> BYPASS, says |-> <<"bypass">>])
      BY <2>2 DEF Policy
    <3>2. QED BY <3>1, SpItem
  <2>3. ASSUME Policy(<<"discard">>, 1, DISCARD) PROVE FileInv'
    <3>1. Item(1, "policy", [got |-> DISCARD, says |-> <<"discard">>])
      BY <2>3 DEF Policy
    <3>2. QED BY <3>1, SpItem
  <2>4. QED BY <1>1, <2>1, <2>2, <2>3 DEF SpPolicy
<1>2. CASE SpEsp
  <2>1. Item(1, "esp", Plain(TRUE))
    BY <1>2 DEF SpEsp
  <2>2. QED BY <2>1, SpItem
<1>3. ASSUME NEW n, SpPri(n) PROVE FileInv'
  <2>1. Item(2, "pri", Plain(n))
    BY <1>3 DEF SpPri
  <2>2. QED BY <2>1, SpItem
<1>4. ASSUME NEW k \in {"proto", "sport", "dport"}, NEW w, SpPorts(k, w) PROVE FileInv'
  <2>1. Item(2, k, [got |-> Range16(w), says |-> w.means])
    BY <1>4 DEF SpPorts
  <2>2. QED BY <2>1, SpItem
<1>5. ASSUME NEW w, SpProto(w) PROVE FileInv'
  BY <1>4, <1>5 DEF SpProto
<1>6. CASE SpClose
  <2>1. Close /\ "policy" \in DOMAIN items /\ pc = "items"
    BY <1>6 DEF SpClose, Close
  <2>2. Complete(line.table, items)
    BY <2>1, InItems, TableKinds DEF Complete
  <2>3. QED BY <2>1, <2>2, CloseKeeps
<1>7. QED BY <1>1, <1>2, <1>3, <1>4, <1>5, <1>6

LEMMA SpKeeps ==
  ASSUME FileInv, parse_sp4_tokens \/ parse_sp6_tokens
  PROVE  FileInv'
<1>1. line.table \in SpTables
  BY TableKinds DEF parse_sp4_tokens, parse_sp6_tokens
<1>2. ASSUME NEW k \in {"src", "dst"}, NEW w, Sp4Addr(k, w) \/ Sp6Addr(k, w) PROVE FileInv'
  <2>1. PICK v : Item(2, k, v)
    BY <1>2 DEF Sp4Addr, Sp6Addr
  <2>2. QED BY <1>1, <2>1, SpItem
<1>3. ~ line.more /\ Open(2, NoItems) => FileInv'
  BY <1>1, SpOpenKeeps
<1>4. (\/ SpPolicy \/ SpEsp \/ SpClose
       \/ \E n \in Pri : SpPri(n)
       \/ \E w \in TextRange : SpProto(w) \/ SpPorts("sport", w) \/ SpPorts("dport", w))
      => FileInv'
  BY <1>1, SpCommonKeeps
<1>5. CASE parse_sp4_tokens
  BY <1>2, <1>3, <1>4, <1>5 DEF parse_sp4_tokens
<1>6. CASE parse_sp6_tokens
  BY <1>2, <1>3, <1>4, <1>6 DEF parse_sp6_tokens
<1>7. QED BY <1>5, <1>6

LEMMA RtItem ==
  ASSUME FileInv, line.table \in RtTables, NEW n \in Nat, NEW k \in {"dst", "port"}, NEW v,
         Item(n, k, v),
         k = "port" => \E i \in Port : v = [got |-> i % 256, says |-> i],
         k = "dst" =>
           \E w \in RtText(line.table) :
             /\ RtParsed(line.table, w).addr # Invalid
             /\ v = [got |-> [addr |-> RtKept(line.table, RtParsed(line.table, w).addr),
                              depth |-> RtParsed(line.table, w).depth % 256],
                     says |-> Says(w)]
  PROVE  FileInv'
<1>1. pc = "items"
  BY DEF Item
<1>2. RtItems(line.table, items)
  BY <1>1, InItems
<1> DEFINE r == With(items, k, v)
<1>3. /\ DOMAIN r = DOMAIN items \cup {k} /\ r[k] = v
      /\ \A x \in DOMAIN items : x # k => r[x] = items[x]
  BY DEF With
<1> HIDE DEF r
<1>4. RtItems(line.table, r)
  <2>1. CASE k = "dst"
    BY <1>2, <1>3, <2>1 DEF RtItems
  <2>2. CASE k = "port"
    BY <1>2, <1>3, <2>2 DEF RtItems
  <2>3. QED BY <2>1, <2>2
<1>5. Holds(line.table, r) /\ ~ IsSa(line.table)
  BY <1>4, TableKinds DEF Holds
<1>6. QED BY <1>5, ItemKeeps DEF r

LEMMA RtKeeps ==
  ASSUME FileInv, parse_rt_tokens
  PROVE  FileInv'
<1>1. line.table \in RtTables
  BY DEF parse_rt_tokens, RtTables
<1>2. ASSUME NEW w \in Text4, Rt4Dst(w) PROVE FileInv'
  <2> DEFINE p == parse_ipv4_addr(w.text)
             v == [got |-> [addr |-> rte_bswap32(s_addr(p.addr)), depth |-> p.depth % 256],
                   says |-> Says(w)]
  <2>1. line.table = "rt4" /\ p.addr # Invalid /\ Item(2, "dst", v)
    BY <1>2 DEF Rt4Dst
  <2>2. /\ w \in RtText(line.table) /\ RtParsed(line.table, w) = p
        /\ RtKept(line.table, p.addr) = rte_bswap32(s_addr(p.addr))
    BY <2>1 DEF RtText, RtParsed, RtKept
  <2> HIDE DEF p
  <2>3. /\ w \in RtText(line.table) /\ RtParsed(line.table, w).addr # Invalid
        /\ v = [got |-> [addr |-> RtKept(line.table, RtParsed(line.table, w).addr),
                         depth |-> RtParsed(line.table, w).depth % 256],
                says |-> Says(w)]
    BY <2>1, <2>2
  <2> HIDE DEF v
  <2>4. QED BY <1>1, <2>1, <2>3, RtItem
<1>3. ASSUME NEW w \in Text6, Rt6Dst(w) PROVE FileInv'
  <2> DEFINE p == parse_ipv6_addr(w.text)
             v == [got |-> [addr |-> p.addr, depth |-> p.depth % 256], says |-> Says(w)]
  <2>1. line.table = "rt6" /\ p.addr # Invalid /\ Item(2, "dst", v)
    BY <1>3 DEF Rt6Dst
  <2>2. /\ w \in RtText(line.table) /\ RtParsed(line.table, w) = p
        /\ RtKept(line.table, p.addr) = p.addr
    BY <2>1 DEF RtText, RtParsed, RtKept
  <2> HIDE DEF p
  <2>3. /\ w \in RtText(line.table) /\ RtParsed(line.table, w).addr # Invalid
        /\ v = [got |-> [addr |-> RtKept(line.table, RtParsed(line.table, w).addr),
                         depth |-> RtParsed(line.table, w).depth % 256],
                says |-> Says(w)]
    BY <2>1, <2>2
  <2> HIDE DEF v
  <2>4. QED BY <1>1, <2>1, <2>3, RtItem
<1>4. ASSUME NEW n \in Port, RtPort(n) PROVE FileInv'
  <2>1. Item(2, "port", [got |-> n % 256, says |-> n])
    BY <1>4 DEF RtPort
  <2>2. QED BY <1>1, <2>1, RtItem
<1>5. CASE RtUnknown
  <2>1. /\ pc = "items" /\ ti < MaxTokens /\ ti' = ti + 1
        /\ UNCHANGED <<pc, file, chars, line, status, items, rules, sad, acl, lpm>>
    BY <1>5 DEF RtUnknown, Tabs
  <2>2. Sizes'
    BY <2>1, ConfigAssumption DEF FileInv, Sizes
  <2>3. Statement'
    BY <1>1, <2>1, TableKinds DEF FileInv, Statement
  <2>4. Filed' /\ Built'
    BY <2>1, ReadingKeeps DEF Reading
  <2>5. QED BY <2>2, <2>3, <2>4 DEF FileInv
<1>6. CASE RtOpen
  <2>1. ~ line.more /\ Open(1, NoItems)
    BY <1>6 DEF RtOpen
  <2>2. Holds(line.table, NoItems) /\ line.table \in Tables
    BY <1>1, TableKinds, NoItemsIs DEF Holds, RtItems
  <2>3. QED BY <2>1, <2>2, OpenKeeps
<1>7. CASE Close
  <2>1. pc = "items"
    BY <1>7 DEF Close
  <2>2. Complete(line.table, items)
    BY <1>1, <2>1, InItems, TableKinds DEF Complete
  <2>3. QED BY <1>7, <2>2, CloseKeeps
<1>8. QED BY <1>2, <1>3, <1>4, <1>5, <1>6, <1>7 DEF parse_rt_tokens

-----------------------------------------------------------------------------
\* The tables are made, and nothing else changes what was read.
LEMMA TablesKeep ==
  ASSUME FileInv, InitTables
  PROVE  FileInv'
<1>1. /\ pc \in {"sa_init", "sp4_init", "sp6_init", "rt_init"}
      /\ pc' \in {"sp4_init", "sp6_init", "rt_init", "tables", "stopped"}
      /\ UNCHANGED <<file, chars, line, status, rules>> /\ ti' \in {0, ti}
  BY DEF InitTables, sa_init, sp4_init, sp6_init, rt_init, rt_init_fails, Stop
<1>2. pc \in Building /\ pc' \notin Before /\ pc' # "items" /\ pc' # "parsed" /\ pc' # "sa_init"
  BY <1>1 DEF Building, Before, Reading
<1>3. Sizes'
  BY <1>1, ConfigAssumption DEF FileInv, Sizes
<1>4. Statement' /\ Filed'
  BY <1>1, <1>2 DEF FileInv, Statement, Filed
<1>5. /\ DOMAIN sad = SaTables /\ acl = [t \in SpTables |-> acl[t]] /\ DOMAIN lpm = RtTables
      /\ \A t \in SaTables : sad[t] = Null \/ (rules[t] # <<>> /\ sad[t] = sa_add_rules(rules[t]))
      /\ \A t \in SpTables : acl[t] = <<>> \/ acl[t] = rules[t]
      /\ pc # "sa_init" =>
           \A t \in SaTables : rules[t] # <<>> => sad[t] = sa_add_rules(rules[t])
  BY <1>2 DEF FileInv, Built
<1>6. CASE sa_init
  <2>1. /\ sad' = [t \in SaTables |-> IF rules[t] = <<>> THEN Null ELSE sa_add_rules(rules[t])]
        /\ pc' = "sp4_init" /\ UNCHANGED <<rules, acl, lpm>>
    BY <1>5, <1>6 DEF sa_init
  <2>2. QED BY <1>2, <1>3, <1>4, <1>5, <2>1 DEF FileInv, Built
<1>7. CASE sp4_init
  <2>1. /\ acl' = [[acl EXCEPT !["sp4_in"] = rules["sp4_in"]] EXCEPT !["sp4_out"] = rules["sp4_out"]]
        /\ pc # "sa_init" /\ pc' # "tables" /\ UNCHANGED <<rules, sad, lpm>>
    BY <1>7 DEF sp4_init
  <2>2. /\ acl' = [t \in SpTables |-> acl'[t]]
        /\ \A t \in SpTables : acl'[t] = acl[t] \/ acl'[t] = rules[t]
    BY <1>5, <2>1 DEF SpTables
  <2>3. QED BY <1>2, <1>3, <1>4, <1>5, <2>1, <2>2 DEF FileInv, Built
<1>8. CASE sp6_init
  <2>1. /\ acl' = [[acl EXCEPT !["sp6_in"] = rules["sp6_in"]] EXCEPT !["sp6_out"] = rules["sp6_out"]]
        /\ pc # "sa_init" /\ pc' # "tables" /\ UNCHANGED <<rules, sad, lpm>>
    BY <1>8 DEF sp6_init
  <2>2. /\ acl' = [t \in SpTables |-> acl'[t]]
        /\ \A t \in SpTables : acl'[t] = acl[t] \/ acl'[t] = rules[t]
    BY <1>5, <2>1 DEF SpTables
  <2>3. QED BY <1>2, <1>3, <1>4, <1>5, <2>1, <2>2 DEF FileInv, Built
<1>9. CASE rt_init
  <2>1. /\ lpm' = [t \in RtTables |-> Routes(t)] /\ pc # "sa_init"
        /\ \A t \in RtTables : \A n \in DOMAIN rules[t] : Addable(t, rules[t][n])
        /\ UNCHANGED <<rules, sad, acl>>
    BY <1>5, <1>9 DEF rt_init
  <2>2. \A t \in RtTables : DOMAIN rules[t] = 1 .. Len(rules[t])
    <3>1. ASSUME NEW t \in RtTables PROVE DOMAIN rules[t] = 1 .. Len(rules[t])
      <4>1. PICK S : rules[t] \in Seq(S)
        BY <3>1, TableKinds DEF FileInv, Sizes
      <4>2. QED BY <4>1, LenProperties
    <3>2. QED BY <3>1
  <2>3. \A t : Routes(t)' = Routes(t)
    BY <2>1 DEF Routes
  <2>4. \A t \in RtTables : lpm'[t] = Routes(t)' /\ \A n \in 1 .. Len(rules[t]) : Addable(t, rules[t][n])
    BY <2>1, <2>2, <2>3
  <2>5. DOMAIN lpm' = RtTables
    BY <2>1
  <2>6. QED BY <1>2, <1>3, <1>4, <1>5, <2>1, <2>4, <2>5 DEF FileInv, Built
<1>10. CASE rt_init_fails
  <2>1. pc # "sa_init" /\ pc' = "stopped" /\ UNCHANGED <<rules, sad, acl, lpm>>
    BY <1>10 DEF rt_init_fails, Stop, Tabs
  <2>2. pc' \notin Building /\ pc' # "tables"
    BY <2>1 DEF Building
  <2>3. QED BY <1>2, <1>3, <1>4, <1>5, <2>1, <2>2 DEF FileInv, Built
<1>11. QED BY <1>6, <1>7, <1>8, <1>9, <1>10 DEF InitTables

\* What main does elsewhere.
LEMMA MainKeeps ==
  ASSUME FileInv, UNCHANGED <<file, chars, line, status, ti, items, rules, Tabs>>,
         \/ pc' = pc
         \/ /\ pc' \notin {"items", "parsed"} /\ pc' \notin Building \ {"sa_init"}
            /\ pc' \in Before => pc \in Before
  PROVE  FileInv'
<1>1. UNCHANGED <<file, chars, line, status, ti, items, rules, sad, acl, lpm>>
  BY DEF Tabs
<1>2. Sizes' /\ Filed'
  BY <1>1 DEF FileInv, Sizes, Filed
<1>3. Statement'
  BY <1>1 DEF FileInv, Statement
<1>4. \A t : Routes(t)' = Routes(t)
  BY <1>1 DEF Routes
<1>5. pc' = "tables" => pc = "tables"
  BY DEF Building
<1>6. pc' \in Before => pc \in Before
  OBVIOUS
<1>7. pc' \in Building \ {"sa_init"} => pc \in Building \ {"sa_init"}
  OBVIOUS
<1>8. Built'
  BY <1>1, <1>4, <1>5, <1>6, <1>7 DEF FileInv, Built
<1>9. QED BY <1>2, <1>3, <1>8 DEF FileInv

LEMMA MainSteps ==
  ASSUME FileInv,
         \/ ArgPorts \/ ArgUnprotected \/ ArgPromiscuous \/ ArgFile \/ FileRead
         \/ ArgConfig \/ ArgSingleSa \/ ArgRefused \/ ArgsDone \/ NoFile
         \/ Checked \/ CheckFailed \/ init_lcore_rx_queues \/ TooManyQueues \/ RxQueuesDone
         \/ SkipContext \/ MakeContext \/ pool_init \/ ContextsDone
         \/ port_init \/ PortFails \/ StartPorts \/ StartFails \/ launch
         \/ UNCHANGED <<vars, startVars>>
  PROVE  FileInv'
<1> DEFINE Still == UNCHANGED <<file, chars, line, status, ti, items, rules, Tabs>>
           Moves(from, to) == pc = from /\ pc' = to /\ Still
<1>1. CASE ArgPorts \/ ArgUnprotected \/ ArgPromiscuous \/ ArgFile \/ ArgConfig \/ ArgSingleSa
  <2>1. Still /\ pc \in Before /\ pc' \in {"args", "file"}
    BY <1>1 DEF ArgPorts, ArgUnprotected, ArgPromiscuous, ArgFile, ArgConfig, ArgSingleSa,
                Taken, Option, Goto, Before
  <2>2. pc' \notin {"items", "parsed"} /\ pc' \notin Building
    BY <2>1 DEF Building
  <2>3. QED BY <2>1, <2>2, MainKeeps
<1>2. CASE FileRead \/ ArgsDone
  <2>1. Still /\ pc \in Before /\ pc' \in {"args", "check"}
    BY <1>2 DEF FileRead, ArgsDone, Goto, Before
  <2>2. pc' \notin {"items", "parsed"} /\ pc' \notin Building
    BY <2>1 DEF Building
  <2>3. QED BY <2>1, <2>2, MainKeeps
<1>3. CASE ArgRefused \/ NoFile \/ CheckFailed \/ TooManyQueues \/ PortFails \/ StartFails
  <2>1. Still /\ pc' = "stopped"
    BY <1>3 DEF ArgRefused, NoFile, CheckFailed, TooManyQueues, PortFails, StartFails, Exit, Goto
  <2>2. pc' \notin {"items", "parsed"} /\ pc' \notin Building /\ pc' \notin Before
    BY <2>1 DEF Building, Before, Reading
  <2>3. QED BY <2>1, <2>2, MainKeeps
<1>4. CASE Checked \/ init_lcore_rx_queues \/ RxQueuesDone \/ SkipContext \/ pool_init
           \/ ContextsDone \/ port_init \/ StartPorts \/ launch
  <2>1. Still /\ pc' \in {"rx_queues", "contexts", "ports", "launch", "running"}
    BY <1>4 DEF Checked, init_lcore_rx_queues, RxQueuesDone, SkipContext, pool_init,
                ContextsDone, port_init, StartPorts, launch, Goto
  <2>2. pc' \notin {"items", "parsed"} /\ pc' \notin Building /\ pc' \notin Before
    BY <2>1 DEF Building, Before, Reading
  <2>3. QED BY <2>1, <2>2, MainKeeps
<1>5. CASE MakeContext
  <2>1. Still /\ pc' = "sa_init"
    BY <1>5 DEF MakeContext, Goto
  <2>2. pc' \notin {"items", "parsed"} /\ pc' \notin Building \ {"sa_init"} /\ pc' \notin Before
    BY <2>1 DEF Building, Before, Reading
  <2>3. QED BY <2>1, <2>2, MainKeeps
<1>6. CASE UNCHANGED <<vars, startVars>>
  <2>1. Still /\ pc' = pc
    BY <1>6 DEF vars, Tabs
  <2>2. QED BY <2>1, MainKeeps
<1>7. QED BY <1>1, <1>2, <1>3, <1>4, <1>5, <1>6

LEMMA InitFileInv == InitStart => FileInv
<1> SUFFICES ASSUME InitStart PROVE FileInv
  OBVIOUS
<1>1. /\ pc = "args" /\ chars = 0 /\ line = NoLine /\ status = 0 /\ ti = 0
      /\ rules = [t \in Tables |-> <<>>] /\ sad = [t \in SaTables |-> Null]
      /\ acl = [t \in SpTables |-> <<>>] /\ lpm = [t \in RtTables |-> NoItems]
      /\ file \in Seq(Tables \cup {"other"})
  BY StartAssumption DEF InitStart, InitConfig, SaTables, SpTables, RtTables
<1>2. Len(<<>>) = 0 /\ <<>> \in Seq({})
  BY EmptySeq
<1>3. \A t \in Tables : /\ \E S : rules[t] \in Seq(S)
                         /\ Len(rules[t]) = 0 /\ Len(rules[t]) <= MaxRules[t]
  <2>1. ASSUME NEW t \in Tables
        PROVE  rules[t] \in Seq({}) /\ Len(rules[t]) = 0 /\ 0 <= MaxRules[t]
    BY <1>1, <1>2, <2>1, ConfigAssumption
  <2>2. QED BY <2>1
<1>4. Sizes
  BY <1>1, <1>3, ConfigAssumption DEF Sizes, NoLine
<1>5. Statement /\ Filed
  BY <1>1, <1>3 DEF Statement, Filed
<1>6. Built
  <2>1. pc \notin Building
    BY <1>1 DEF Building
  <2>2. pc # "tables"
    BY <1>1
  <2>3. QED BY <1>1, <2>1, <2>2 DEF Built
<1>7. QED BY <1>4, <1>5, <1>6 DEF FileInv

LEMMA NextFileInv == FileInv /\ [NextStart]_<<vars, startVars>> => FileInv'
<1> SUFFICES ASSUME FileInv, [NextStart]_<<vars, startVars>> PROVE FileInv'
  OBVIOUS
<1>1. parse_cfg_file => FileInv'
  BY LineKeeps, SaKeeps, SpKeeps, RtKeeps, Zenon DEF parse_cfg_file
<1>2. InitTables => FileInv'
  BY TablesKeep
<1>3. QED BY <1>1, <1>2, MainSteps, Zenon DEF NextStart

LEMMA SpecFileInv == SpecStart => []FileInv
  BY InitFileInv, NextFileInv, PTL DEF SpecStart

\* A statement with more words than the token array holds never becomes a rule,
\* for any length of the array above that of the longest statement.
THEOREM LongLinesAreRefused == SpecStart => []LongLinesRefused
<1>1. FileInv => LongLinesRefused
  BY DEF FileInv, Statement, LongLinesRefused
<1>2. QED BY SpecFileInv, <1>1, PTL

LEMMA Division ==
  ASSUME NEW x \in Nat, NEW s \in Nat, s > 0
  PROVE  /\ x \div s \in Nat /\ x % s \in 0 .. s - 1
         /\ x = (x \div s) * s + (x % s)
  OBVIOUS

LEMMA DivisionIs ==
  ASSUME NEW x \in Nat, NEW s \in Nat, s > 0, NEW q \in Nat, NEW r \in 0 .. s - 1,
         x = q * s + r
  PROVE  x \div s = q /\ x % s = r
<1> DEFINE d == x \div s
           e == x % s
<1>1. d \in Nat /\ e \in 0 .. s - 1 /\ x = d * s + e
  BY Division
<1> HIDE DEF d, e
<1>2. CASE d > q
  <2>1. d >= q + 1 /\ (q + 1) * s = q * s + s /\ (d >= q + 1 => d * s >= (q + 1) * s)
    BY <1>1, <1>2
  <2>2. QED BY <1>1, <2>1
<1>3. CASE q > d
  <2>1. q >= d + 1 /\ (d + 1) * s = d * s + s /\ (q >= d + 1 => q * s >= (d + 1) * s)
    BY <1>1, <1>3
  <2>2. QED BY <1>1, <2>1
<1>4. CASE d = q
  BY <1>1, <1>4 DEF d, e
<1>5. QED BY <1>1, <1>2, <1>3, <1>4

\* An index and the two flags in one number.
LEMMA PolicyBits ==
  /\ \A i \in 0 .. SaEntries - 1 : ~ Bit(i, BYPASS) /\ ~ Bit(i, DISCARD) /\ i % BYPASS = i
  /\ Bit(BYPASS, BYPASS) /\ ~ Bit(BYPASS, DISCARD) /\ BYPASS % BYPASS = 0
  /\ Bit(DISCARD, DISCARD) /\ ~ Bit(DISCARD, BYPASS)
  /\ BYPASS # 0 /\ DISCARD # 0
<1> DEFINE E == BYPASS
<1>1. SaEntries \in Nat \ {0} /\ E = 4 * SaEntries /\ DISCARD = 2 * E
  BY ConfigAssumption DEF BYPASS, DISCARD
<1>2. E \in Nat /\ E > 0 /\ 2 * E \in Nat /\ 2 * E > E /\ SaEntries <= E
  BY <1>1
<1> HIDE DEF E
<1>3. ASSUME NEW i \in 0 .. SaEntries - 1
      PROVE  i \div E = 0 /\ i % E = i /\ i \div (2 * E) = 0
  <2>1. i \in 0 .. E - 1 /\ i \in 0 .. (2 * E) - 1 /\ i \in Nat
    BY <1>1, <1>2
  <2>2. i = 0 * E + i /\ i = 0 * (2 * E) + i
    BY <1>2, <2>1
  <2>3. QED BY <1>2, <2>1, <2>2, DivisionIs
<1>4. E \div E = 1 /\ E % E = 0
  <2>1. E = 1 * E + 0 /\ 0 \in 0 .. E - 1
    BY <1>2
  <2>2. QED BY <1>2, <2>1, DivisionIs
<1>5. E \div (2 * E) = 0
  <2>1. E = 0 * (2 * E) + E /\ E \in 0 .. (2 * E) - 1
    BY <1>2
  <2>2. QED BY <1>2, <2>1, DivisionIs
<1>6. (2 * E) \div (2 * E) = 1 /\ (2 * E) \div E = 2
  <2>1. 2 * E = 1 * (2 * E) + 0 /\ 2 * E = 2 * E + 0 /\ 0 \in 0 .. E - 1 /\ 0 \in 0 .. (2 * E) - 1
    BY <1>2
  <2>2. QED BY <1>2, <2>1, DivisionIs
<1>7. 0 % 2 = 0 /\ 1 % 2 = 1 /\ 2 % 2 = 0
  OBVIOUS
<1>8. QED BY <1>1, <1>2, <1>3, <1>4, <1>5, <1>6, <1>7 DEF Bit, E

\* The userdata of a policy means to both directions what the file says, for
\* any number of SAs and any SPIs.
THEOREM PolicyIsResolved == SpecStart => []PolicyResolved
<1>1. ASSUME FileInv PROVE PolicyResolved
  <2>1. ASSUME NEW t \in DOMAIN acl, NEW n \in DOMAIN acl[t]
        PROVE  LET says == acl[t][n]["policy"].says
                   res  == acl[t][n]["policy"].got
                   means == IF says[1] = "protect" THEN <<"protect", SPI2IDX(says[2])>> ELSE says
               IN  means # <<"protect", 0>> => OutboundSp(res) = means /\ InboundSp(res) = means
    <3>1. t \in SpTables /\ acl[t] = rules[t]
      <4>1. t \in SpTables /\ (acl[t] = <<>> \/ acl[t] = rules[t])
        BY <1>1, <2>1 DEF FileInv, Built
      <4>2. acl[t] # <<>>
        BY <2>1, EmptySeq
      <4>3. QED BY <4>1, <4>2
    <3>2. n \in 1 .. Len(rules[t])
      <4>1. PICK S : rules[t] \in Seq(S)
        BY <1>1, <3>1, TableKinds DEF FileInv, Sizes
      <4>2. QED BY <2>1, <3>1, <4>1, LenProperties
    <3> DEFINE p == rules[t][n]["policy"]
    <3>3. \/ \E i \in Spi : p = [got |-> PROTECT(i), says |-> <<"protect", i>>]
          \/ p = [got |-> BYPASS, says |-> <<"bypass">>]
          \/ p = [got |-> DISCARD, says |-> <<"discard">>]
      <4>1. Complete(t, rules[t][n])
        BY <1>1, <3>1, <3>2, TableKinds DEF FileInv, Filed
      <4>2. QED BY <3>1, <4>1 DEF Complete, Holds, SpItems
    <3>4. acl[t][n]["policy"] = p
      BY <3>1
    <3> HIDE DEF p
    <3>5. ASSUME NEW i \in Spi, p = [got |-> PROTECT(i), says |-> <<"protect", i>>],
                 SPI2IDX(i) # 0
          PROVE  /\ OutboundSp(p.got) = <<"protect", SPI2IDX(i)>>
                 /\ InboundSp(p.got) = <<"protect", SPI2IDX(i)>>
      <4>1. p.got = SPI2IDX(i) /\ SPI2IDX(i) \in 0 .. SaEntries - 1
        BY <3>5, ConfigAssumption DEF PROTECT, SPI2IDX
      <4>2. QED BY <3>5, <4>1, PolicyBits DEF OutboundSp, InboundSp
    <3>6. ASSUME p = [got |-> BYPASS, says |-> <<"bypass">>]
          PROVE  OutboundSp(p.got) = <<"bypass">> /\ InboundSp(p.got) = <<"bypass">>
      BY <3>6, PolicyBits DEF OutboundSp, InboundSp
    <3>7. ASSUME p = [got |-> DISCARD, says |-> <<"discard">>]
          PROVE  OutboundSp(p.got) = <<"discard">> /\ InboundSp(p.got) = <<"discard">>
      BY <3>7, PolicyBits DEF OutboundSp, InboundSp
    <3>8. QED BY <3>3, <3>4, <3>5, <3>6, <3>7
  <2>2. QED BY <2>1 DEF PolicyResolved
<1>2. QED BY SpecFileInv, <1>1, PTL

-----------------------------------------------------------------------------
(***************************************************************************)
(* The loop of sa_add_rules.                                               *)
(***************************************************************************)
LEMMA UpTo ==
  ASSUME NEW n \in Nat, NEW G, 0 \in G,
         \A k \in 1 .. n : k - 1 \in G => k \in G
  PROVE  0 .. n \subseteq G
<1> DEFINE Bad == {k \in 0 .. n : k \notin G}
<1> SUFFICES ASSUME Bad # {} PROVE FALSE
  OBVIOUS
<1>1. Bad \subseteq Nat
  OBVIOUS
<1> HIDE DEF Bad
<1>2. PICK k \in Bad : \A j \in Bad : k <= j
  BY <1>1, LeastOf
<1>3. k \in 1 .. n /\ k \notin G
  BY <1>2 DEF Bad
<1>4. k - 1 \in G
  BY <1>2, <1>3 DEF Bad
<1>5. QED BY <1>3, <1>4

Empty == [sa |-> [idx \in 0 .. SaEntries - 1 |-> NoSa], ok |-> TRUE]

\* The first n iterations.
Adding(e, n, f) == f = [k \in 0 .. n |-> IF k = 0 THEN Empty ELSE AddEntry(f[k - 1], e[k])]

LEMMA AddingExists ==
  ASSUME NEW e, NEW n \in Nat
  PROVE  \E f : Adding(e, n, f)
<1> DEFINE G == {k \in Nat : \E f : Adding(e, k, f)}
<1>1. 0 \in G
  <2>1. Adding(e, 0, [j \in 0 .. 0 |-> Empty])
    BY DEF Adding
  <2>2. QED BY <2>1
<1>2. ASSUME NEW k \in 1 .. n, k - 1 \in G PROVE k \in G
  <2>1. PICK f : Adding(e, k - 1, f)
    BY <1>2
  <2> DEFINE g == [j \in 0 .. k |-> IF j < k THEN f[j] ELSE AddEntry(f[k - 1], e[k])]
  <2>2. \A j \in 0 .. k - 1 : f[j] = IF j = 0 THEN Empty ELSE AddEntry(f[j - 1], e[j])
    BY <2>1 DEF Adding
  <2>3. \A j \in 0 .. k : g[j] = IF j = 0 THEN Empty ELSE AddEntry(g[j - 1], e[j])
    BY <2>2
  <2>4. Adding(e, k, g)
    BY <2>3 DEF Adding
  <2>5. QED BY <2>4
<1> HIDE DEF G
<1>3. 0 .. n \subseteq G
  BY <1>1, <1>2, UpTo
<1>4. QED BY <1>3 DEF G

LEMMA AddRulesIs ==
  ASSUME NEW e, Len(e) \in Nat
  PROVE  \E f : /\ sa_add_rules(e) = f[Len(e)].sa /\ f[0] = Empty
                /\ \A k \in 1 .. Len(e) : f[k] = AddEntry(f[k - 1], e[k])
<1> DEFINE st[n \in 0 .. Len(e)] == IF n = 0 THEN Empty ELSE AddEntry(st[n - 1], e[n])
<1>1. st = CHOOSE f : Adding(e, Len(e), f)
  BY DEF Adding
<1>2. Adding(e, Len(e), st)
  BY <1>1, AddingExists
<1>3. sa_add_rules(e) = st[Len(e)].sa
  BY DEF sa_add_rules, Empty
<1> HIDE DEF st
<1>4. \A k \in 0 .. Len(e) : st[k] = IF k = 0 THEN Empty ELSE AddEntry(st[k - 1], e[k])
  BY <1>2 DEF Adding
<1>5. st[0] = Empty /\ \A k \in 1 .. Len(e) : st[k] = AddEntry(st[k - 1], e[k])
  BY <1>4
<1>6. QED BY <1>3, <1>5

\* A table of SAs, and whether to go on.
IsTable(x) == x = [sa |-> x.sa, ok |-> x.ok] /\ x.sa = [i \in 0 .. SaEntries - 1 |-> x.sa[i]]

\* An entry is added to a free slot, or the table stays as it is from there on.
LEMMA AddEntryIs ==
  ASSUME NEW x, IsTable(x), NEW r, NEW m \in Nat, r["spi"] = Plain(m), NEW y, y = AddEntry(x, r)
  PROVE  /\ IsTable(y) /\ SPI2IDX(m) \in 0 .. SaEntries - 1
         /\ \/ y.sa = x.sa /\ (~ x.ok \/ x.sa[SPI2IDX(m)].spi # 0)
            \/ /\ x.ok /\ y.ok = x.ok /\ x.sa[SPI2IDX(m)].spi = 0
               /\ y.sa[SPI2IDX(m)] = Sa(r)
               /\ \A i \in 0 .. SaEntries - 1 : i # SPI2IDX(m) => y.sa[i] = x.sa[i]
<1> DEFINE idx == SPI2IDX(m)
<1>1. idx \in 0 .. SaEntries - 1
  BY ConfigAssumption DEF SPI2IDX
<1>2. r["spi"].got = m
  BY DEF Plain
<1> DEFINE new == Sa(r)
           sa  == x.sa
           ok  == x.ok
<1>3. x = [sa |-> sa, ok |-> ok] /\ sa = [i \in 0 .. SaEntries - 1 |-> sa[i]]
  BY DEF IsTable
<1>4. y = IF ~ x.ok \/ x.sa[idx].spi # 0 THEN [x EXCEPT !.ok = FALSE] ELSE [x EXCEPT !.sa[idx] = new]
  BY <1>2 DEF AddEntry
<1> HIDE DEF idx, new, sa, ok
<1>5. CASE ~ x.ok \/ x.sa[idx].spi # 0
  <2>1. y = [sa |-> sa, ok |-> FALSE]
    BY <1>3, <1>4, <1>5
  <2>2. y.sa = sa /\ y.ok = FALSE
    BY <2>1
  <2>3. x.sa = sa
    BY DEF sa
  <2>4. IsTable(y)
    BY <1>3, <2>1, <2>2 DEF IsTable
  <2>5. QED BY <1>1, <1>5, <2>2, <2>3, <2>4 DEF idx
<1>6. CASE ~ (~ x.ok \/ x.sa[idx].spi # 0)
  <2> DEFINE t == [sa EXCEPT ![idx] = new]
  <2>1. y = [sa |-> t, ok |-> ok]
    BY <1>3, <1>4, <1>6
  <2>2. /\ t = [i \in 0 .. SaEntries - 1 |-> t[i]] /\ t[idx] = new
        /\ \A i \in 0 .. SaEntries - 1 : i # idx => t[i] = sa[i]
    BY <1>1, <1>3
  <2> HIDE DEF t
  <2>3. y.sa = t /\ y.ok = ok
    BY <2>1
  <2>4. x.ok = ok /\ x.sa = sa
    BY DEF sa, ok
  <2>5. IsTable(y)
    BY <2>1, <2>2, <2>3 DEF IsTable
  <2>6. QED BY <1>1, <1>6, <2>2, <2>3, <2>4, <2>5 DEF idx, new
<1>7. QED BY <1>5, <1>6

\* What sa_add_rules is given: every rule has an SPI.
Spis(e) == Len(e) \in Nat /\ \A k \in 1 .. Len(e) : \E m \in Spi : e[k]["spi"] = Plain(m)

\* The loop, from an empty table on.
Looped(e, f) ==
  /\ sa_add_rules(e) = f[Len(e)].sa
  /\ f[0] = Empty /\ \A k \in 1 .. Len(e) : f[k] = AddEntry(f[k - 1], e[k])
  /\ \A k \in 0 .. Len(e) : IsTable(f[k])

LEMMA LoopIs ==
  ASSUME NEW e, Spis(e)
  PROVE  \E f : Looped(e, f)
<1>1. PICK f : /\ sa_add_rules(e) = f[Len(e)].sa /\ f[0] = Empty
               /\ \A k \in 1 .. Len(e) : f[k] = AddEntry(f[k - 1], e[k])
  BY AddRulesIs DEF Spis
<1> DEFINE G == {k \in Nat : IsTable(f[k])}
<1>2. 0 \in G
  <2>1. f[0].sa = [idx \in 0 .. SaEntries - 1 |-> NoSa] /\ f[0].ok = TRUE
    BY <1>1 DEF Empty
  <2>2. f[0] = [sa |-> f[0].sa, ok |-> f[0].ok]
    BY <1>1, <2>1 DEF Empty
  <2>3. QED BY <2>1, <2>2 DEF IsTable
<1>3. ASSUME NEW k \in 1 .. Len(e), k - 1 \in G PROVE k \in G
  <2>1. PICK m \in Spi : e[k]["spi"] = Plain(m)
    BY DEF Spis
  <2>2. m \in Nat /\ IsTable(f[k - 1]) /\ f[k] = AddEntry(f[k - 1], e[k]) /\ k \in Nat
    BY <1>1, <1>3, <2>1, ConfigAssumption DEF Spis
  <2>3. IsTable(f[k])
    BY <2>1, <2>2, AddEntryIs
  <2>4. QED BY <2>2, <2>3
<1> HIDE DEF G
<1>4. 0 .. Len(e) \subseteq G
  BY <1>2, <1>3, UpTo DEF Spis
<1>5. QED BY <1>1, <1>4 DEF Looped, G

\* One iteration.
LEMMA LoopStepIs ==
  ASSUME NEW e, NEW f, Spis(e), Looped(e, f), NEW k \in 1 .. Len(e), NEW m \in Spi,
         e[k]["spi"] = Plain(m)
  PROVE  /\ m \in Nat /\ SPI2IDX(m) \in 0 .. SaEntries - 1 /\ k - 1 \in 0 .. Len(e)
         /\ \/ /\ f[k].sa = f[k - 1].sa
               /\ ~ f[k - 1].ok \/ f[k - 1].sa[SPI2IDX(m)].spi # 0
            \/ /\ f[k - 1].ok /\ f[k].ok = f[k - 1].ok /\ f[k - 1].sa[SPI2IDX(m)].spi = 0
               /\ f[k].sa[SPI2IDX(m)] = Sa(e[k]) /\ f[k].sa[SPI2IDX(m)].spi = m
               /\ \A i \in 0 .. SaEntries - 1 : i # SPI2IDX(m) => f[k].sa[i] = f[k - 1].sa[i]
<1>1. m \in Nat /\ k - 1 \in 0 .. Len(e) /\ IsTable(f[k - 1]) /\ f[k] = AddEntry(f[k - 1], e[k])
  BY ConfigAssumption DEF Looped, Spis
<1> DEFINE x == f[k - 1]
           y == f[k]
           r == e[k]
<1>2. IsTable(x) /\ r["spi"] = Plain(m) /\ y = AddEntry(x, r)
  BY <1>1
<1>3. Sa(r).spi = m
  BY <1>2 DEF Sa, Plain
<1> HIDE DEF x, y, r
<1>4. /\ SPI2IDX(m) \in 0 .. SaEntries - 1
      /\ \/ y.sa = x.sa /\ (~ x.ok \/ x.sa[SPI2IDX(m)].spi # 0)
         \/ /\ x.ok /\ y.ok = x.ok /\ x.sa[SPI2IDX(m)].spi = 0
            /\ y.sa[SPI2IDX(m)] = Sa(r)
            /\ \A i \in 0 .. SaEntries - 1 : i # SPI2IDX(m) => y.sa[i] = x.sa[i]
  BY <1>1, <1>2, AddEntryIs
<1>5. QED BY <1>1, <1>3, <1>4 DEF x, y, r

\* An SA is only ever in the slot of its SPI.
LEMMA SlotsRight ==
  ASSUME NEW e, Spis(e)
  PROVE  \A i \in DOMAIN sa_add_rules(e) :
           sa_add_rules(e)[i].spi # 0 => SPI2IDX(sa_add_rules(e)[i].spi) = i
<1>1. PICK f : Looped(e, f)
  BY LoopIs
<1> DEFINE Right(k) == \A i \in 0 .. SaEntries - 1 : f[k].sa[i].spi # 0 => SPI2IDX(f[k].sa[i].spi) = i
           G == {k \in Nat : Right(k)}
<1>2. 0 \in G
  <2>1. \A i \in 0 .. SaEntries - 1 : f[0].sa[i].spi = 0
    BY <1>1 DEF Looped, Empty, NoSa
  <2>2. QED BY <2>1
<1>3. ASSUME NEW k \in 1 .. Len(e), k - 1 \in G PROVE k \in G
  <2>1. PICK m \in Spi : e[k]["spi"] = Plain(m)
    BY DEF Spis
  <2>2. \/ f[k].sa = f[k - 1].sa
        \/ /\ f[k].sa[SPI2IDX(m)].spi = m
           /\ \A i \in 0 .. SaEntries - 1 : i # SPI2IDX(m) => f[k].sa[i] = f[k - 1].sa[i]
    BY <1>1, <2>1, LoopStepIs
  <2>3. Right(k - 1) /\ k \in Nat
    BY <1>3 DEF Spis
  <2>4. Right(k)
    BY <2>2, <2>3
  <2> HIDE DEF Right
  <2>5. QED BY <2>3, <2>4
<1> HIDE DEF G
<1>4. 0 .. Len(e) \subseteq G
  BY <1>2, <1>3, UpTo DEF Spis
<1>5. Right(Len(e))
  BY <1>4 DEF G, Spis
<1>6. sa_add_rules(e) = f[Len(e)].sa /\ IsTable(f[Len(e)])
  <2>1. Len(e) \in 0 .. Len(e)
    BY DEF Spis
  <2>2. QED BY <1>1, <2>1 DEF Looped
<1>7. DOMAIN sa_add_rules(e) = 0 .. SaEntries - 1
  BY <1>6 DEF IsTable
<1>8. QED BY <1>5, <1>6, <1>7

\* The SA of rule n is in the slot of its SPI when none before it is.
LEMMA RuleAdded ==
  ASSUME NEW e, Spis(e), NEW n \in 1 .. Len(e), NEW m \in Spi, e[n]["spi"] = Plain(m), m # 0,
         Added(e, n)
  PROVE  sa_add_rules(e)[SPI2IDX(m)] = Sa(e[n])
<1>1. PICK f : Looped(e, f)
  BY LoopIs
<1>2. Len(e) \in Nat /\ n \in Nat /\ \A k \in 1 .. Len(e) : \E i \in Spi : e[k]["spi"] = Plain(i)
  BY DEF Spis
\* Up to rule n, the SAs in the table are those of rules.
<1> DEFINE Free(k) ==
             /\ f[k].ok
             /\ \A i \in 0 .. SaEntries - 1 : f[k].sa[i].spi # 0 =>
                  \E l \in 1 .. k : e[l]["spi"].says # 0 /\ SPI2IDX(e[l]["spi"].says) = i
           G == {k \in Nat : k < n => Free(k)}
<1>3. 0 \in G
  <2>1. f[0].ok /\ \A i \in 0 .. SaEntries - 1 : f[0].sa[i].spi = 0
    BY <1>1 DEF Looped, Empty, NoSa
  <2>2. QED BY <2>1
<1>4. ASSUME NEW k \in 1 .. n, Free(k - 1), NEW i \in Spi, e[k]["spi"] = Plain(i)
      PROVE  /\ f[k].ok /\ SPI2IDX(i) \in 0 .. SaEntries - 1
             /\ f[k].sa[SPI2IDX(i)] = Sa(e[k]) /\ f[k].sa[SPI2IDX(i)].spi = i
             /\ \A j \in 0 .. SaEntries - 1 : j # SPI2IDX(i) => f[k].sa[j] = f[k - 1].sa[j]
  <2>1. k \in 1 .. Len(e) /\ k - 1 \in Nat
    BY <1>2
  <2>2. SPI2IDX(i) \in 0 .. SaEntries - 1
    BY <1>1, <1>4, <2>1, LoopStepIs
  <2>3. e[k]["spi"].says = i
    BY <1>4 DEF Plain
  <2>4. f[k - 1].sa[SPI2IDX(i)].spi = 0
    <3> SUFFICES ASSUME f[k - 1].sa[SPI2IDX(i)].spi # 0 PROVE FALSE
      OBVIOUS
    <3>1. PICK l \in 1 .. k - 1 : e[l]["spi"].says # 0 /\ SPI2IDX(e[l]["spi"].says) = SPI2IDX(i)
      BY <1>4, <2>2
    <3>2. l \in 1 .. n /\ l < k /\ k \in 1 .. n
      BY <1>2, <2>1
    <3>3. QED BY <2>3, <3>1, <3>2 DEF Added
  <2>5. f[k - 1].ok
    BY <1>4
  <2> HIDE DEF Free
  <2>6. QED BY <1>1, <1>4, <2>1, <2>2, <2>4, <2>5, LoopStepIs
<1>5. ASSUME NEW k \in 1 .. n, k - 1 \in G PROVE k \in G
  <2>1. k \in Nat /\ k - 1 \in Nat /\ k - 1 < n /\ Free(k - 1) /\ k \in 1 .. Len(e)
    BY <1>2, <1>5
  <2>2. PICK i \in Spi : e[k]["spi"] = Plain(i)
    BY <1>2, <2>1
  <2>3. /\ f[k].ok /\ SPI2IDX(i) \in 0 .. SaEntries - 1
        /\ f[k].sa[SPI2IDX(i)].spi = i
        /\ \A j \in 0 .. SaEntries - 1 : j # SPI2IDX(i) => f[k].sa[j] = f[k - 1].sa[j]
    <3> HIDE DEF Free
    <3>1. QED BY <1>4, <2>1, <2>2
  <2>4. e[k]["spi"].says = i
    BY <2>2 DEF Plain
  <2>5. ASSUME NEW j \in 0 .. SaEntries - 1, f[k].sa[j].spi # 0
        PROVE  \E l \in 1 .. k : e[l]["spi"].says # 0 /\ SPI2IDX(e[l]["spi"].says) = j
    <3>1. CASE j = SPI2IDX(i)
      <4>1. k \in 1 .. k /\ e[k]["spi"].says # 0 /\ SPI2IDX(e[k]["spi"].says) = j
        BY <2>1, <2>3, <2>4, <2>5, <3>1
      <4>2. QED BY <4>1
    <3>2. CASE j # SPI2IDX(i)
      <4>1. f[k - 1].sa[j].spi # 0
        BY <2>3, <2>5, <3>2
      <4>2. PICK l \in 1 .. k - 1 : e[l]["spi"].says # 0 /\ SPI2IDX(e[l]["spi"].says) = j
        BY <2>1, <4>1
      <4>3. l \in 1 .. k
        BY <2>1
      <4>4. QED BY <4>2, <4>3
    <3>3. QED BY <3>1, <3>2
  <2>6. Free(k)
    BY <2>3, <2>5
  <2> HIDE DEF Free
  <2>7. QED BY <2>1, <2>6
<1>6. Free(n - 1)
  <2> HIDE DEF Free, G
  <2>1. 0 .. n \subseteq G
    BY <1>2, <1>3, <1>5, UpTo
  <2>2. n - 1 \in G /\ n - 1 < n
    BY <1>2, <2>1
  <2>3. QED BY <2>2 DEF G
<1> HIDE DEF Free
<1>7. n \in 1 .. n
  BY <1>2
<1>8. /\ SPI2IDX(m) \in 0 .. SaEntries - 1
      /\ f[n].sa[SPI2IDX(m)] = Sa(e[n]) /\ f[n].sa[SPI2IDX(m)].spi = m
  BY <1>4, <1>6, <1>7
\* From there on, it stays.
<1> DEFINE H == {k \in Nat : k >= n => f[k].sa[SPI2IDX(m)] = Sa(e[n])}
<1>9. 0 \in H
  BY <1>2
<1>10. ASSUME NEW k \in 1 .. Len(e), k - 1 \in H PROVE k \in H
  <2>1. k \in Nat /\ k - 1 \in Nat
    BY <1>2
  <2>2. CASE k < n
    BY <2>1, <2>2, <1>2
  <2>3. CASE k = n
    BY <1>8, <2>1, <2>3
  <2>4. CASE k > n
    <3>1. f[k - 1].sa[SPI2IDX(m)] = Sa(e[n]) /\ f[k - 1].sa[SPI2IDX(m)].spi = m
      BY <1>2, <1>8, <1>10, <2>1, <2>4
    <3>2. PICK i \in Spi : e[k]["spi"] = Plain(i)
      BY <1>2
    <3>3. \/ f[k].sa = f[k - 1].sa
          \/ /\ f[k - 1].sa[SPI2IDX(i)].spi = 0
             /\ \A j \in 0 .. SaEntries - 1 : j # SPI2IDX(i) => f[k].sa[j] = f[k - 1].sa[j]
      BY <1>1, <3>2, LoopStepIs
    <3>4. f[k].sa[SPI2IDX(m)] = Sa(e[n])
      BY <1>8, <3>1, <3>3
    <3>5. QED BY <2>1, <3>4
  <2>5. QED BY <1>2, <2>1, <2>2, <2>3, <2>4
<1> HIDE DEF H
<1>11. 0 .. Len(e) \subseteq H
  BY <1>2, <1>9, <1>10, UpTo
<1>12. f[Len(e)].sa[SPI2IDX(m)] = Sa(e[n])
  BY <1>2, <1>11 DEF H
<1>13. QED BY <1>1, <1>12 DEF Looped

LEMMA SpisKnown ==
  ASSUME FileInv, NEW t \in SaTables
  PROVE  /\ \A k \in 1 .. Len(rules[t]) : Complete(t, rules[t][k]) /\ SaItems(rules[t][k])
         /\ Spis(rules[t]) /\ DOMAIN rules[t] = 1 .. Len(rules[t])
<1>1. t \in Tables
  BY TableKinds
<1>2. PICK S : rules[t] \in Seq(S)
  BY <1>1 DEF FileInv, Sizes
<1>3. Len(rules[t]) \in Nat /\ DOMAIN rules[t] = 1 .. Len(rules[t])
  BY <1>2, LenProperties
<1>4. ASSUME NEW k \in 1 .. Len(rules[t])
      PROVE  Complete(t, rules[t][k]) /\ SaItems(rules[t][k])
             /\ \E m \in Spi : rules[t][k]["spi"] = Plain(m)
  <2>1. Complete(t, rules[t][k])
    BY <1>1, <1>4 DEF FileInv, Filed
  <2>2. SaItems(rules[t][k])
    BY <2>1 DEF Complete, Holds
  <2>3. QED BY <2>1, <2>2 DEF SaItems
<1>5. QED BY <1>3, <1>4 DEF Spis

\* str, the token array and the rule arrays are never overrun, whatever the
\* file, and an SA is only in the slot of its SPI: IPSEC_SA_MAX_ENTRIES, the
\* length of the arrays and the statements are any.
THEOREM ConfigTypeCorrect == SpecStart => []TypeOK
<1>1. ASSUME FileInv PROVE TypeOK
  <2>1. /\ file \in Seq(Tables \union {"other"})
        /\ chars \in 0 .. MaxChars /\ ti \in 0 .. MaxTokens /\ status \in {0, -1}
        /\ \A t \in Tables : Len(rules[t]) <= MaxRules[t]
    BY <1>1 DEF FileInv, Sizes
  <2>2. ASSUME NEW t \in DOMAIN sad, NEW idx \in DOMAIN sad[t], sad[t][idx].spi # 0
        PROVE  SPI2IDX(sad[t][idx].spi) = idx
    <3>1. t \in SaTables /\ (sad[t] = Null \/ sad[t] = sa_add_rules(rules[t]))
      BY <1>1, <2>2 DEF FileInv, Built
    <3>2. sad[t] = sa_add_rules(rules[t])
      BY <2>2, <3>1, NoItemsIs DEF Null
    <3>3. Spis(rules[t])
      BY <1>1, <3>1, SpisKnown
    <3>4. QED BY <2>2, <3>2, <3>3, SlotsRight
  <2>3. QED BY <2>1, <2>2 DEF TypeOK
<1>2. QED BY SpecFileInv, <1>1, PTL

-----------------------------------------------------------------------------
(***************************************************************************)
(* What the tables find.  The functions that read the words of the file    *)
(* are folds over a word, and what they compute is left to the model       *)
(* checker: the theorems below are about words that are read as they are   *)
(* meant, or refused.                                                      *)
(***************************************************************************)
WordsRead ==
  /\ \A w \in Text4 : parse_ipv4_addr(w.text).addr # Invalid =>
       /\ parse_ipv4_addr(w.text) = [addr |-> w.means, depth |-> w.depth]
       /\ w.means \in Seq(Nat) /\ w.depth \in Nat
  /\ \A w \in Text6 : parse_ipv6_addr(w.text).addr # Invalid =>
       /\ parse_ipv6_addr(w.text) = [addr |-> w.means, depth |-> w.depth]
       /\ w.means \in Seq(Nat) /\ w.depth \in Nat

LEMMA TurnedTwice ==
  ASSUME NEW S, NEW s \in Seq(S)
  PROVE  Reverse(Reverse(s)) = s
<1>1. Len(s) \in Nat /\ s = [i \in 1 .. Len(s) |-> s[i]]
  <2>1. Len(s) \in Nat /\ s \in [1 .. Len(s) -> S]
    BY LenProperties
  <2>2. QED BY <2>1
<1> DEFINE n == Len(s)
           r == Reverse(s)
<1>2. r = [i \in 1 .. n |-> s[(n - i) + 1]]
  BY DEF Reverse
<1>3. r \in Seq(S) /\ Len(r) = n
  <2>1. \A i \in 1 .. n : s[(n - i) + 1] \in S
    <3>1. ASSUME NEW i \in 1 .. n PROVE s[(n - i) + 1] \in S
      <4>1. (n - i) + 1 \in 1 .. Len(s)
        BY <1>1
      <4>2. QED BY <4>1, ElementOfSeq
    <3>2. QED BY <3>1
  <2>2. r \in [1 .. n -> S]
    BY <1>2, <2>1
  <2>3. r \in Seq(S)
    BY <1>1, <2>2, SeqDef
  <2> HIDE DEF r
  <2>4. n \in Nat /\ DOMAIN r = 1 .. n
    BY <1>1, <2>2
  <2>5. QED BY <2>3, <2>4, LenProperties
<1>4. Reverse(r) = [i \in 1 .. n |-> r[(n - i) + 1]]
  BY <1>3 DEF Reverse
<1> HIDE DEF r
<1>5. n \in Nat
  BY <1>1
<1> HIDE DEF n
<1>6. \A i \in 1 .. n : r[(n - i) + 1] = s[i]
  <2>1. ASSUME NEW i \in 1 .. n PROVE r[(n - i) + 1] = s[i]
    <3>1. (n - i) + 1 \in 1 .. n /\ (n - ((n - i) + 1)) + 1 = i
      BY <1>5
    <3>2. QED BY <1>2, <3>1
  <2>2. QED BY <2>1
<1>7. Reverse(r) = [i \in 1 .. n |-> s[i]]
  BY <1>4, <1>6
<1>8. QED BY <1>1, <1>7 DEF r, n

LEMMA TurnedEmpty == Reverse(Invalid) = Invalid
<1>1. Invalid \in Seq(Nat)
  BY DEF Invalid
<1>2. Len(Invalid) = 0
  BY DEF Invalid
<1>3. Reverse(Invalid) = [i \in {} |-> Invalid[(0 - i) + 1]]
  BY <1>2 DEF Reverse
<1>4. Reverse(Invalid) \in [1 .. 0 -> Nat]
  BY <1>3
<1>5. QED BY <1>4, EmptySeq, SeqDef DEF Invalid

\* The address of a tunnel's end: as it is stored, it is the one the packets
\* of the end that the line names have in their headers.
LEMMA EndStored ==
  ASSUME WordsRead, NEW r, SaItems(r), NEW k \in {"src", "dst"}, k \in DOMAIN r,
         r[k].says # Invalid
  PROVE  /\ r["mode"].says = "ipv4-tunnel" => SaStored(r, k) = s_addr(r[k].says)
         /\ r["mode"].says = "ipv6-tunnel" => SaStored(r, k) = r[k].says
<1>1. /\ "mode" \in DOMAIN r /\ r["mode"].got # "transport"
      /\ \E w \in SaText(r["mode"].got) :
           /\ SaParsed(r["mode"].got, w) # Invalid
           /\ r[k] = [got |-> SaParsed(r["mode"].got, w), says |-> w.means]
  BY DEF SaItems, SaAddress
<1>2. PICK m \in {"ipv4-tunnel", "ipv6-tunnel", "transport"} : r["mode"] = Plain(m)
  BY <1>1 DEF SaItems
<1>3. r["mode"].got = m /\ r["mode"].says = m
  BY <1>2 DEF Plain
<1>4. PICK w \in SaText(m) :
        SaParsed(m, w) # Invalid /\ r[k] = [got |-> SaParsed(m, w), says |-> w.means]
  BY <1>1, <1>3
<1>5. r[k].got = SaParsed(m, w) /\ r[k].says = w.means
  BY <1>4
<1>6. CASE m = "ipv4-tunnel"
  <2> DEFINE addr == parse_ipv4_addr(w.text).addr
  <2>1. w \in Text4 /\ SaParsed(m, w) = Reverse(Reverse(addr))
    BY <1>6 DEF SaText, SaParsed, rte_bswap32, s_addr
  <2>2. addr # Invalid
    BY <1>4, <2>1, TurnedEmpty
  <2>3. addr = w.means /\ w.means \in Seq(Nat)
    <3>1. /\ parse_ipv4_addr(w.text) = [addr |-> w.means, depth |-> w.depth]
          /\ w.means \in Seq(Nat)
      BY <2>1, <2>2 DEF WordsRead
    <3>2. [addr |-> w.means, depth |-> w.depth].addr = w.means
      OBVIOUS
    <3>3. QED BY <3>1, <3>2
  <2> HIDE DEF addr
  <2>4. r[k].got = w.means
    BY <1>5, <2>1, <2>3, TurnedTwice
  <2>5. SaStored(r, k) = Reverse(w.means)
    BY <1>3, <1>4, <1>5, <1>6, <2>4 DEF SaStored, Got
  <2>6. QED BY <1>3, <1>5, <1>6, <2>5 DEF s_addr
<1>7. CASE m = "ipv6-tunnel"
  <2>1. w \in Text6 /\ SaParsed(m, w) = parse_ipv6_addr(w.text).addr
    BY <1>7 DEF SaText, SaParsed
  <2>2. parse_ipv6_addr(w.text) = [addr |-> w.means, depth |-> w.depth]
    BY <1>4, <2>1 DEF WordsRead
  <2>3. r[k].got = w.means
    BY <1>5, <2>1, <2>2
  <2>4. SaStored(r, k) = w.means
    BY <1>3, <1>7, <2>3 DEF SaStored, Got
  <2>5. QED BY <1>3, <1>5, <1>7, <2>4
<1>8. QED BY <1>1, <1>3, <1>6, <1>7

\* A packet of the peer that a line "sa in" names finds the SA of the line,
\* whatever the number of SAs, for words that are read as they are meant.
THEOREM PeersAreFound == WordsRead => (SpecStart => []PeerFound)
<1> SUFFICES ASSUME WordsRead PROVE SpecStart => []PeerFound
  OBVIOUS
<1>1. ASSUME FileInv, pc = "tables", NEW n \in DOMAIN rules["sa_in"]
      PROVE  LET entries == rules["sa_in"]
                 r == entries[n]
                 v == IF r["mode"].says = "ipv6-tunnel" THEN 6 ELSE 4
                 named == \A k \in {"src", "dst"} : k \in DOMAIN r /\ r[k].says # Invalid
             IN  Added(entries, n) /\ r["spi"].says # 0 /\ (r["mode"].says = "transport" \/ named) =>
                   LET src == IF named THEN r["src"].says ELSE Invalid
                       dst == IF named THEN r["dst"].says ELSE Invalid
                       sa  == single_inbound_lookup(r["spi"].says, v, src, dst)
                   IN  sa # NoSa /\ sa = Sa(r)
  <2> DEFINE entries == rules["sa_in"]
             r == entries[n]
             v == IF r["mode"].says = "ipv6-tunnel" THEN 6 ELSE 4
             named == \A k \in {"src", "dst"} : k \in DOMAIN r /\ r[k].says # Invalid
             src == IF named THEN r["src"].says ELSE Invalid
             dst == IF named THEN r["dst"].says ELSE Invalid
  <2>1. "sa_in" \in SaTables
    BY DEF SaTables
  <2>2. /\ Spis(entries) /\ n \in 1 .. Len(entries)
        /\ Complete("sa_in", r) /\ SaItems(r)
    BY <1>1, <2>1, SpisKnown
  <2>3. "mode" \in DOMAIN r
    BY <2>1, <2>2 DEF Complete
  <2>4. PICK m \in Spi : r["spi"] = Plain(m)
    BY <2>2 DEF SaItems
  <2>5. PICK mode \in {"ipv4-tunnel", "ipv6-tunnel", "transport"} : r["mode"] = Plain(mode)
    BY <2>2, <2>3 DEF SaItems
  <2>6. /\ r["spi"].got = m /\ r["spi"].says = m
        /\ r["mode"].got = mode /\ r["mode"].says = mode
    BY <2>4, <2>5 DEF Plain
  <2>7. sad["sa_in"] = sa_add_rules(entries)
    <3>1. rules["sa_in"] # <<>>
      BY <1>1, EmptySeq
    <3>2. pc \in Building \ {"sa_init"}
      BY <1>1 DEF Building
    <3>3. QED BY <1>1, <2>1, <3>1, <3>2 DEF FileInv, Built
  <2> SUFFICES ASSUME Added(entries, n), m # 0, mode = "transport" \/ named
               PROVE  LET sa == single_inbound_lookup(m, v, src, dst)
                      IN  sa # NoSa /\ sa = Sa(r)
    BY <2>6
  <2>8. sad["sa_in"][SPI2IDX(m)] = Sa(r)
    BY <2>2, <2>4, <2>7, RuleAdded
  <2>9. /\ Sa(r).spi = m /\ Sa(r).mode = mode
        /\ Sa(r).src = SaStored(r, "src") /\ Sa(r).dst = SaStored(r, "dst")
    BY <2>6 DEF Sa
  <2>10. Sa(r) # NoSa
    BY <2>9 DEF NoSa
  <2>11. CASE mode = "transport"
    BY <2>8, <2>9, <2>10, <2>11 DEF single_inbound_lookup
  <2>12. CASE mode = "ipv4-tunnel"
    <3>1. named /\ src = r["src"].says /\ dst = r["dst"].says /\ v = 4
      BY <2>6, <2>12
    <3>2. SaStored(r, "src") = s_addr(src) /\ SaStored(r, "dst") = s_addr(dst)
      BY <2>2, <2>6, <2>12, <3>1, EndStored
    <3> HIDE DEF src, dst, v, r
    <3>3. QED BY <2>8, <2>9, <2>10, <2>12, <3>1, <3>2 DEF single_inbound_lookup
  <2>13. CASE mode = "ipv6-tunnel"
    <3>1. named /\ src = r["src"].says /\ dst = r["dst"].says /\ v = 6
      BY <2>6, <2>13
    <3>2. SaStored(r, "src") = src /\ SaStored(r, "dst") = dst
      BY <2>2, <2>6, <2>13, <3>1, EndStored
    <3> HIDE DEF src, dst, v, r
    <3>3. QED BY <2>8, <2>9, <2>10, <2>13, <3>1, <3>2 DEF single_inbound_lookup
  <2>14. QED BY <2>11, <2>12, <2>13
<1>2. ASSUME FileInv PROVE PeerFound
  BY <1>1, <1>2 DEF PeerFound
<1>3. QED BY SpecFileInv, <1>2, PTL

\* The loop of rt_init over the routes of t.
PortOf(t, k) == Got(rules[t][k], "port", 0)
Laying(t, n, f) ==
  f = [k \in 0 .. n |-> IF k = 0 THEN NoItems
                        ELSE With(f[k - 1], To(t, rules[t][k]), PortOf(t, k))]

LEMMA LayingExists ==
  ASSUME NEW t, NEW n \in Nat
  PROVE  \E f : Laying(t, n, f)
<1> DEFINE P(k) == To(t, rules[t][k])
           Q(k) == PortOf(t, k)
           Laid(k, f) == f = [j \in 0 .. k |-> IF j = 0 THEN NoItems ELSE With(f[j - 1], P(j), Q(j))]
           G == {k \in Nat : \E f : Laid(k, f)}
<1> HIDE DEF P, Q
<1>1. 0 \in G
  <2>1. Laid(0, [j \in 0 .. 0 |-> NoItems])
    OBVIOUS
  <2>2. QED BY <2>1
<1>2. ASSUME NEW k \in 1 .. n, k - 1 \in G PROVE k \in G
  <2>1. PICK f : Laid(k - 1, f)
    BY <1>2
  <2> DEFINE g == [j \in 0 .. k |-> IF j < k THEN f[j] ELSE With(f[k - 1], P(k), Q(k))]
  <2>2. \A j \in 0 .. k - 1 : f[j] = IF j = 0 THEN NoItems ELSE With(f[j - 1], P(j), Q(j))
    BY <2>1
  <2>3. \A j \in 0 .. k : g[j] = IF j = 0 THEN NoItems ELSE With(g[j - 1], P(j), Q(j))
    BY <2>2
  <2>4. Laid(k, g)
    BY <2>3
  <2> HIDE DEF g
  <2>5. QED BY <2>4
<1> HIDE DEF G
<1>3. 0 .. n \subseteq G
  BY <1>1, <1>2, UpTo
<1>4. QED BY <1>3 DEF G, Laying, P, Q

LEMMA RoutesAre ==
  ASSUME NEW t, Len(rules[t]) \in Nat
  PROVE  \E f : /\ Routes(t) = f[Len(rules[t])] /\ f[0] = NoItems
                /\ \A k \in 1 .. Len(rules[t]) :
                     f[k] = With(f[k - 1], To(t, rules[t][k]), PortOf(t, k))
<1> DEFINE st[n \in 0 .. Len(rules[t])] ==
             IF n = 0 THEN NoItems ELSE With(st[n - 1], To(t, rules[t][n]), PortOf(t, n))
<1>1. st = CHOOSE f : Laying(t, Len(rules[t]), f)
  BY DEF Laying
<1>2. Laying(t, Len(rules[t]), st)
  BY <1>1, LayingExists
<1>3. Routes(t) = st[Len(rules[t])]
  BY DEF Routes, PortOf
<1> HIDE DEF st
<1>4. \A k \in 0 .. Len(rules[t]) :
        st[k] = IF k = 0 THEN NoItems ELSE With(st[k - 1], To(t, rules[t][k]), PortOf(t, k))
  BY <1>2 DEF Laying
<1>5. st[0] = NoItems
      /\ \A k \in 1 .. Len(rules[t]) : st[k] = With(st[k - 1], To(t, rules[t][k]), PortOf(t, k))
  BY <1>4
<1>6. QED BY <1>3, <1>5

\* The last route of a prefix is the one that counts.
LEMMA LastRouteStays ==
  ASSUME NEW t, Len(rules[t]) \in Nat, NEW n \in 1 .. Len(rules[t]), NEW to, NEW port,
         to = To(t, rules[t][n]), port = PortOf(t, n),
         \A l \in 1 .. Len(rules[t]) : l > n => To(t, rules[t][l]) # to
  PROVE  to \in DOMAIN Routes(t) /\ Routes(t)[to] = port
<1>1. PICK f : /\ Routes(t) = f[Len(rules[t])] /\ f[0] = NoItems
               /\ \A k \in 1 .. Len(rules[t]) :
                    f[k] = With(f[k - 1], To(t, rules[t][k]), PortOf(t, k))
  BY RoutesAre
<1> DEFINE LastOf(k) == to \in DOMAIN f[k] /\ f[k][to] = port
           G == {k \in Nat : k >= n => LastOf(k)}
<1>2. n \in Nat /\ n > 0 /\ n <= Len(rules[t])
  OBVIOUS
<1>3. 0 \in G
  BY <1>2
<1>4. ASSUME NEW k \in 1 .. Len(rules[t]), k - 1 \in G PROVE k \in G
  <2>1. k \in Nat /\ k - 1 \in Nat
    BY <1>2
  <2> DEFINE there == To(t, rules[t][k])
             now   == PortOf(t, k)
             prev  == f[k - 1]
  <2>2. f[k] = With(prev, there, now)
    BY <1>1
  <2>3. k = n => there = to /\ now = port
    OBVIOUS
  <2>4. k > n => there # to /\ to \in DOMAIN prev /\ prev[to] = port
    BY <1>2, <1>4, <2>1
  <2> HIDE DEF there, now, prev
  <2>5. k = n => LastOf(k)
    BY <2>2, <2>3 DEF With
  <2>6. k > n => LastOf(k)
    BY <2>2, <2>4 DEF With
  <2> HIDE DEF LastOf
  <2>7. QED BY <1>2, <2>1, <2>5, <2>6
<1> HIDE DEF G
<1>5. 0 .. Len(rules[t]) \subseteq G
  BY <1>3, <1>4, UpTo
<1>6. Len(rules[t]) \in G
  BY <1>5
<1>7. LastOf(Len(rules[t]))
  BY <1>2, <1>6 DEF G
<1>8. QED BY <1>1, <1>7

\* A route that the library takes, with a depth that fits a byte, goes to the
\* prefix of its line and, if the port fits too, to the port of its line.
LEMMA RouteKept ==
  ASSUME WordsRead, NEW t \in RtTables, NEW r, RtItems(t, r), Addable(t, r),
         r["dst"].says.depth < 256
  PROVE  /\ To(t, r) = Prefix(r["dst"].says, Bits(t))
         /\ ("port" \in DOMAIN r /\ r["port"].says < 256) => Got(r, "port", 0) = r["port"].says
<1>1. "dst" \in DOMAIN r
  <2> SUFFICES ASSUME "dst" \notin DOMAIN r PROVE FALSE
    OBVIOUS
  <2>1. 0 \in 1 .. MaxDepth(t)
    BY DEF Addable, Got, NoDst
  <2>2. QED BY <2>1
<1>2. PICK w \in RtText(t) :
        /\ RtParsed(t, w).addr # Invalid
        /\ r["dst"] = [got |-> [addr |-> RtKept(t, RtParsed(t, w).addr),
                                depth |-> RtParsed(t, w).depth % 256],
                       says |-> Says(w)]
  BY <1>1 DEF RtItems
<1>3. RtParsed(t, w) = [addr |-> w.means, depth |-> w.depth]
      /\ w.means \in Seq(Nat) /\ w.depth \in Nat
  BY <1>2 DEF RtText, RtParsed, WordsRead
<1> DEFINE p == RtParsed(t, w)
<1>4. p.addr = w.means /\ p.depth = w.depth
  BY <1>3
<1>5. RtKept(t, w.means) = w.means
  BY <1>3, TurnedTwice DEF RtKept, rte_bswap32, s_addr
<1> HIDE DEF p
<1>6. r["dst"] = [got |-> [addr |-> w.means, depth |-> w.depth % 256],
                  says |-> [addr |-> w.means, depth |-> w.depth]]
  BY <1>2, <1>4, <1>5 DEF Says, p
<1>7. w.depth < 256
  BY <1>6
<1> DEFINE d == w.depth
<1>8. d % 256 = d
  <2>1. d \in Nat /\ d < 256
    BY <1>3, <1>7
  <2> HIDE DEF d
  <2>2. QED BY <2>1
<1>9. r["dst"].got = r["dst"].says
  BY <1>6, <1>8
<1>10. ASSUME "port" \in DOMAIN r, r["port"].says < 256
       PROVE  Got(r, "port", 0) = r["port"].says
  <2>1. PICK n \in Port : r["port"] = [got |-> n % 256, says |-> n]
    BY <1>10 DEF RtItems
  <2>2. n \in Nat /\ n < 256
    BY <1>10, <2>1, ConfigAssumption
  <2>3. QED BY <1>10, <2>1, <2>2 DEF Got
<1>11. QED BY <1>9, <1>10 DEF To

\* A destination is sent to the port of the last line of its prefix, for any
\* routes and for words that are read as they are meant.
THEOREM RoutesAreMeant == WordsRead => (SpecStart => []RoutesMeant)
<1> SUFFICES ASSUME WordsRead PROVE SpecStart => []RoutesMeant
  OBVIOUS
<1>1. ASSUME FileInv, pc = "tables", NEW t \in DOMAIN lpm, NEW n \in DOMAIN rules[t]
      PROVE  LET dst(l)  == rules[t][l]["dst"].says
                 port(l) == IF "port" \in DOMAIN rules[t][l] THEN rules[t][l]["port"].says ELSE 0
                 same(l) == Prefix(dst(l), Bits(t)) = Prefix(dst(n), Bits(t))
                 fits(l) == dst(l).depth < 256
             IN  fits(n) /\ port(n) < 256 /\ (\A l \in DOMAIN rules[t] : l > n => fits(l) /\ ~ same(l)) =>
                   /\ Prefix(dst(n), Bits(t)) \in DOMAIN lpm[t]
                   /\ lpm[t][Prefix(dst(n), Bits(t))] = port(n)
  <2> DEFINE dst(l)  == rules[t][l]["dst"].says
             port(l) == IF "port" \in DOMAIN rules[t][l] THEN rules[t][l]["port"].says ELSE 0
             same(l) == Prefix(dst(l), Bits(t)) = Prefix(dst(n), Bits(t))
             fits(l) == dst(l).depth < 256
  <2> SUFFICES ASSUME fits(n), port(n) < 256,
                      \A l \in DOMAIN rules[t] : l > n => fits(l) /\ ~ same(l)
               PROVE  /\ Prefix(dst(n), Bits(t)) \in DOMAIN lpm[t]
                      /\ lpm[t][Prefix(dst(n), Bits(t))] = port(n)
    OBVIOUS
  <2>1. t \in RtTables /\ t \in Tables
    BY <1>1, TableKinds DEF FileInv, Built
  <2>2. PICK S : rules[t] \in Seq(S)
    BY <1>1, <2>1 DEF FileInv, Sizes
  <2>3. Len(rules[t]) \in Nat /\ DOMAIN rules[t] = 1 .. Len(rules[t])
    BY <2>2, LenProperties
  <2>4. lpm[t] = Routes(t)
    BY <1>1, <2>1 DEF FileInv, Built
  <2>5. ASSUME NEW l \in 1 .. Len(rules[t])
        PROVE  RtItems(t, rules[t][l]) /\ Addable(t, rules[t][l])
    <3>1. Complete(t, rules[t][l])
      BY <1>1, <2>1 DEF FileInv, Filed
    <3>2. Addable(t, rules[t][l])
      BY <1>1, <2>1 DEF FileInv, Built
    <3>3. QED BY <2>1, <3>1, <3>2 DEF Complete, Holds
  <2>6. ASSUME NEW l \in 1 .. Len(rules[t]), fits(l)
        PROVE  To(t, rules[t][l]) = Prefix(dst(l), Bits(t))
    BY <2>1, <2>5, <2>6, RouteKept
  <2>7. n \in 1 .. Len(rules[t])
    BY <2>3
  <2>8. PortOf(t, n) = port(n)
    <3>1. CASE "port" \in DOMAIN rules[t][n]
      <4>1. rules[t][n]["port"].says < 256
        BY <3>1
      <4>2. QED BY <2>1, <2>5, <2>7, <3>1, <4>1, RouteKept DEF PortOf
    <3>2. CASE "port" \notin DOMAIN rules[t][n]
      BY <3>2 DEF PortOf, Got
    <3>3. QED BY <3>1, <3>2
  <2> DEFINE to == Prefix(dst(n), Bits(t))
             out == port(n)
  <2>9. to = To(t, rules[t][n]) /\ out = PortOf(t, n)
    BY <2>6, <2>7, <2>8
  <2>10. \A l \in 1 .. Len(rules[t]) : l > n => To(t, rules[t][l]) # to
    <3>1. ASSUME NEW l \in 1 .. Len(rules[t]), l > n PROVE To(t, rules[t][l]) # to
      <4>1. fits(l) /\ ~ same(l)
        BY <2>3, <3>1
      <4>2. To(t, rules[t][l]) = Prefix(dst(l), Bits(t))
        BY <2>6, <4>1
      <4>3. QED BY <4>1, <4>2
    <3>2. QED BY <3>1
  <2> HIDE DEF to, out
  <2>11. to \in DOMAIN Routes(t) /\ Routes(t)[to] = out
    BY <2>3, <2>7, <2>9, <2>10, LastRouteStays
  <2>12. QED BY <2>4, <2>11 DEF to, out
<1>2. ASSUME FileInv PROVE RoutesMeant
  BY <1>1, <1>2 DEF RoutesMeant
<1>3. QED BY SpecFileInv, <1>2, PTL
=============================================================================
