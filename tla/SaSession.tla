----------------------------- MODULE SaSession ------------------------------
(***************************************************************************)
(* The security associations that the lcores of a socket share.  The first *)
(* packet of an SA makes the lcore that has it create the crypto session   *)
(* (create_session of ipsec_eval/ipsec.c), while other lcores run          *)
(* ipsec_enqueue on packets of the same SA.  Nothing is locked: a step here*)
(* is an access to a shared field, in the order the source has them.       *)
(*                                                                         *)
(* The tables of queue pairs and the map are those CdevInit builds.        *)
(***************************************************************************)
EXTENDS CdevInit

CONSTANTS
  Sa,          \* the SAs of a direction, the same entry for every lcore
  SaAlgo,      \* their cipher and authentication algorithms
  Dir          \* the direction: its contexts share the SAs

ASSUME SaSessionAssumption == SaAlgo \in [Sa -> Algo] /\ "none" \notin Sa

NoSession == -1
NoSa      == "none"

User == {c \in Context : c[2] = Dir}

\* The contexts that get packets: those of lcore_params.
Serving == {c \in User : \E n \in 1 .. NbParams : params[n] = c}

VARIABLES
  session,     \* sa->crypto_session: the device it was created on
  cdev_id_qp,  \* sa->cdev_id_qp, 0 before any session
  at,          \* where each lcore is in ipsec_enqueue, per context
  cur,         \* the SA of the packet it works on, NoSa when it has none
  found,       \* create_session's result of the hash lookup, 0 before
  op           \* the session attached to the packet's op

shared == <<session, cdev_id_qp>>
local  == <<at, cur, found, op>>

InitSa ==
  /\ Init
  /\ session = [s \in Sa |-> NoSession]
  /\ cdev_id_qp = [s \in Sa |-> 0]
  /\ at = [c \in User |-> "idle"]
  /\ cur = [c \in User |-> NoSa]
  /\ found = [c \in User |-> 0]
  /\ op = [c \in User |-> NoSession]

\* A packet of SA s whose session exists, as this lcore sees it.
Reuse(c, s) ==
  /\ cdev = -1 /\ c \in Serving /\ at[c] = "idle"
  /\ session[s] # NoSession
  /\ at' = [at EXCEPT ![c] = "attach"]
  /\ cur' = [cur EXCEPT ![c] = s]
  /\ UNCHANGED <<initVars, shared, found, op>>

\* create_session finds the queue pair of this lcore for the algorithms of s.
\* (Without one it fails and the packet is freed: nothing shared changes.)
Lookup(c, s) ==
  LET k == <<c, SaAlgo[s]>>
  IN  /\ cdev = -1 /\ c \in Serving /\ at[c] = "idle"
      /\ session[s] = NoSession
      /\ k \in DOMAIN map
      /\ at' = [at EXCEPT ![c] = "create"]
      /\ cur' = [cur EXCEPT ![c] = s]
      /\ found' = [found EXCEPT ![c] = map[k]]
      /\ UNCHANGED <<initVars, shared, op>>

\* sa->crypto_session = rte_cryptodev_sym_session_create(...), NULL when the
\* device is out of sessions; create_session does not look.
StoreSession(c) ==
  /\ at[c] = "create"
  /\ at' = [at EXCEPT ![c] = "index"]
  /\ \E d \in {tbl[c][found[c] + 1][1], NoSession} :
       session' = [session EXCEPT ![cur[c]] = d]
  /\ UNCHANGED <<initVars, cdev_id_qp, cur, found, op>>

\* Wrong on purpose: entries are counted from 1.
StoreIndexNext(c) ==
  /\ at[c] = "index"
  /\ at' = [at EXCEPT ![c] = "attach"]
  /\ cdev_id_qp' = [cdev_id_qp EXCEPT ![cur[c]] = found[c] + 1]
  /\ UNCHANGED <<initVars, session, cur, found, op>>

\* sa->cdev_id_qp = cdev_id_qp
StoreIndex(c) ==
  /\ at[c] = "index"
  /\ at' = [at EXCEPT ![c] = "attach"]
  /\ cdev_id_qp' = [cdev_id_qp EXCEPT ![cur[c]] = found[c]]
  /\ UNCHANGED <<initVars, session, cur, found, op>>

\* rte_crypto_op_attach_sym_session, then the ESP transform.
Attach(c) ==
  /\ at[c] = "attach"
  /\ at' = [at EXCEPT ![c] = "enqueue"]
  /\ op' = [op EXCEPT ![c] = session[cur[c]]]
  /\ UNCHANGED <<initVars, shared, cur, found>>

\* enqueue_cop on &ipsec_ctx->tbl[sa->cdev_id_qp], or the transform refused.
Enqueue(c) ==
  /\ at[c] = "enqueue"
  /\ at' = [at EXCEPT ![c] = "idle"]
  /\ cur' = [cur EXCEPT ![c] = NoSa]
  /\ found' = [found EXCEPT ![c] = 0]
  /\ op' = [op EXCEPT ![c] = NoSession]
  /\ UNCHANGED <<initVars, shared>>

NextSa ==
  \/ Next /\ UNCHANGED <<shared, local>>
  \/ \E c \in User, s \in Sa : Reuse(c, s) \/ Lookup(c, s)
  \/ \E c \in User :
       StoreSession(c) \/ StoreIndex(c) \/ Attach(c) \/ Enqueue(c)

varsSa == <<initVars, shared, local>>

SpecSa == InitSa /\ [][NextSa]_varsSa

-----------------------------------------------------------------------------

TypeOKSa ==
  /\ TypeOK
  /\ session \in [Sa -> Cdev \cup {NoSession}]
  /\ cdev_id_qp \in [Sa -> Nat]
  /\ at \in [User -> {"idle", "create", "index", "attach", "enqueue"}]
  /\ cur \in [User -> Sa \cup {NoSa}]
  /\ found \in [User -> Nat]
  /\ op \in [User -> Cdev \cup {NoSession}]

\* "RTE_ASSERT(sa->cdev_id_qp < ipsec_ctx->nb_qps)": the queue pair index an
\* SA carries, whichever lcore stored it, is one of the lcore that uses it.
IndexInTable ==
  \A c \in User : at[c] = "enqueue" => cdev_id_qp[cur[c]] < Len(tbl[c])

\* The deployments without a lock that is missing: one lcore per direction,
\* or all of them with one queue pair of the same device.
Alone   == Cardinality(Serving) <= 1
Uniform == \E d \in Cdev : \A c \in Serving : Len(tbl[c]) = 1 /\ tbl[c][1][1] = d

\* In these deployments an op goes to a queue pair of the device its session
\* was created on, with any number of lcores creating that session and using
\* it at the same time.
SessionOnDevice ==
  Alone \/ Uniform =>
    \A c \in User :
      at[c] = "enqueue" =>
        /\ cdev_id_qp[cur[c]] < Len(tbl[c])
        /\ op[c] \in {NoSession, tbl[c][cdev_id_qp[cur[c]] + 1][1]}
=============================================================================
