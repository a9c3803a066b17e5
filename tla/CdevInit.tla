------------------------------ MODULE CdevInit ------------------------------
(***************************************************************************)
(* How the gateway hands out the queue pairs of its crypto devices before  *)
(* it starts: cryptodevs_init, add_cdev_mapping and add_mapping of         *)
(* ipsec_eval/ipsec-secgw.c.  Each context (the inbound or outbound        *)
(* ipsec_ctx of an lcore) gets a table of queue pairs, one per device, and *)
(* a hash map gives for each algorithm the entry of that table to use.     *)
(***************************************************************************)
EXTENDS Integers, Sequences, FiniteSets

CONSTANTS
  Context,        \* contexts that can occur: <<lcore, dir>>
  MaxParams,      \* longest lcore_params of the model
  NbCdevs,        \* rte_cryptodev_count()
  QpLimits,       \* values of a device's max_nb_queue_pairs
  Algo,           \* pairs of a cipher and an authentication algorithm
  MapEntries,     \* CDEV_MAP_ENTRIES
  MaxQpPerLcore   \* MAX_QP_PER_LCORE

Cdev == 0 .. NbCdevs - 1

ASSUME CdevInitAssumption ==
  /\ \A c \in Context : c = <<c[1], c[2]>>
  /\ IsFiniteSet(Algo)
  /\ MaxParams \in Nat /\ NbCdevs \in Nat
  /\ QpLimits \subseteq Nat
  /\ MapEntries \in Nat /\ MaxQpPerLcore \in Nat

VARIABLES
  params,  \* lcore_params: the context each rx queue belongs to
  limit,   \* max_nb_queue_pairs of each device
  algos,   \* the pairs of algorithms each device can chain
  cdev,    \* cdev_id, from the last device down; -1 when all are done
  idx,     \* the next lcore_params entry, kept from one device to the next
  i,       \* how many entries this device has looked at
  qp,      \* how many queue pairs of this device are handed out
  tbl,     \* ipsec_ctx.tbl[0..nb_qps-1] of each context: <<id, qp>>
  map,     \* cdev_map_in and cdev_map_out: <<context, algo>> to tbl index
  nbqp     \* dev_conf.nb_queue_pairs of the devices configured

config   == <<params, limit, algos>>
initVars == <<config, cdev, idx, i, qp, tbl, map, nbqp>>

NbParams == Len(params)

Smaller(a, b) == IF a < b THEN a ELSE b

\* check_params wants at least one entry.
Init ==
  /\ params \in UNION {[1 .. n -> Context] : n \in 1 .. MaxParams}
  /\ limit \in [Cdev -> QpLimits]
  /\ algos \in [Cdev -> SUBSET Algo]
  /\ cdev = NbCdevs - 1
  /\ idx = 0 /\ i = 0 /\ qp = 0
  /\ tbl = [c \in Context |-> <<>>]
  /\ map = [k \in {} |-> 0]
  /\ nbqp = [d \in Cdev |-> 0]

\* Wrong on purpose: one queue pair too many; the last entry is left out.
MappingPast ==
  /\ cdev >= 0
  /\ qp <= Smaller(limit[cdev], NbParams)
  /\ i < NbParams

MappingShort ==
  /\ cdev >= 0
  /\ qp < Smaller(limit[cdev], NbParams)
  /\ i < NbParams - 1

\* The inner loop's condition.
Mapping ==
  /\ cdev >= 0
  /\ qp < Smaller(limit[cdev], NbParams)
  /\ i < NbParams

\* The keys the context at idx still lacks and this device can serve.
Turn    == params[idx + 1]
Missing == {<<Turn, a>> : a \in algos[cdev]} \ DOMAIN map

\* Free entries of the hash map of context c's direction.
Free(c) == MapEntries - Cardinality({k \in DOMAIN map : k[1][2] = c[2]})

Advance ==
  /\ i' = i + 1
  /\ idx' = (idx + 1) % NbParams
  /\ UNCHANGED <<config, cdev, nbqp>>

\* add_cdev_mapping returns 0: nothing to add, or the context's table is full.
SkipContext ==
  /\ Mapping
  /\ \/ Missing = {}
     \/ /\ \A n \in DOMAIN tbl[Turn] : tbl[Turn][n][1] # cdev
        /\ Len(tbl[Turn]) = MaxQpPerLcore
  /\ Advance
  /\ UNCHANGED <<qp, tbl, map>>

\* Wrong on purpose: the next context gets the same queue pair.
HandedNone(added) == qp

\* qp++ when add_cdev_mapping added something.
Handed(added) == IF added = {} THEN qp ELSE qp + 1

\* add_cdev_mapping adds the missing keys, or as many as the hash map takes;
\* entry n is the device's in the context's table, appended if need be.
MapContext(n, added) ==
  /\ Mapping
  /\ Missing # {}
  /\ added \subseteq Missing
  /\ Cardinality(added) = Smaller(Cardinality(Missing), Free(Turn))
  /\ \/ n \in DOMAIN tbl[Turn] /\ tbl[Turn][n][1] = cdev /\ UNCHANGED tbl
     \/ /\ \A k \in DOMAIN tbl[Turn] : tbl[Turn][k][1] # cdev
        /\ n = Len(tbl[Turn]) + 1 /\ n <= MaxQpPerLcore
        /\ tbl' = [tbl EXCEPT ![Turn] = Append(@, <<cdev, qp>>)]
  /\ map' = [k \in DOMAIN map \cup added |->
               IF k \in added THEN n - 1 ELSE map[k]]
  /\ qp' = Handed(added)
  /\ Advance

\* Wrong on purpose: cdev_id is unsigned, and always >= 0.
ConfigureForever ==
  /\ ~ Mapping
  /\ nbqp' = [d \in Cdev |-> IF d = cdev THEN qp ELSE nbqp[d]]
  /\ cdev' = cdev - 1
  /\ qp' = 0 /\ i' = 0
  /\ UNCHANGED <<config, idx, tbl, map>>

\* The device is configured with the queue pairs handed out; with none it is
\* left alone.
Configure ==
  /\ cdev >= 0 /\ ~ Mapping
  /\ nbqp' = [nbqp EXCEPT ![cdev] = qp]
  /\ cdev' = cdev - 1
  /\ qp' = 0 /\ i' = 0
  /\ UNCHANGED <<config, idx, tbl, map>>

Next ==
  \/ SkipContext
  \/ /\ Mapping
     /\ \E n \in 1 .. MaxQpPerLcore, added \in SUBSET Missing : MapContext(n, added)
  \/ Configure

Spec == Init /\ [][Next]_initVars

-----------------------------------------------------------------------------

TypeOK ==
  /\ params \in Seq(Context) /\ params # <<>>
  /\ limit \in [Cdev -> QpLimits] /\ algos \in [Cdev -> SUBSET Algo]
  /\ cdev \in -1 .. NbCdevs - 1
  /\ idx \in Nat /\ i \in Nat /\ qp \in Nat
  /\ tbl \in [Context -> Seq(Cdev \X Nat)]
  /\ DOMAIN map \subseteq Context \X Algo
  /\ \A k \in DOMAIN map : map[k] \in Nat /\ map[k] + 1 \in DOMAIN tbl[k[1]]
  /\ nbqp \in [Cdev -> Nat]

\* The queue pair ops of key k are enqueued on.
QpOf(k) == tbl[k[1]][map[k] + 1]

\* Entry n of context c was added by a mapping that failed: its hash map is
\* full and no key leads to the entry, so c itself never looks it up.
Stale(c, n) ==
  /\ Free(c) = 0
  /\ \A k \in DOMAIN map : k[1] = c => map[k] + 1 # n

\* Lcores enqueue without a lock, on tbl[sa->cdev_id_qp] whichever lcore stored
\* that index in the SA: so this is about every entry of the tables, not only
\* about those a key leads to.  Two contexts have a queue pair in common only
\* where a full hash map made add_mapping fail after it had filled the entry
\* in, so that the queue pair was handed out again.  Then they do share it.
QpPrivate ==
  \A c, e \in Context : \A n \in DOMAIN tbl[c], r \in DOMAIN tbl[e] :
    c # e /\ tbl[c][n] = tbl[e][r] => Stale(c, n) \/ Stale(e, r)

\* The queue pairs in use are ones their device was configured with.
QpConfigured ==
  \A k \in DOMAIN map :
    /\ k[2] \in algos[QpOf(k)[1]]
    /\ QpOf(k)[2] < limit[QpOf(k)[1]]
    /\ QpOf(k)[1] > cdev => QpOf(k)[2] < nbqp[QpOf(k)[1]]

\* "Start from last cdev id to give HW priority": a context misses out on a
\* device that can run the algorithm only if a later device serves it, the
\* device has no queue pair left, or one of the tables is full.
HwPriority ==
  cdev = -1 =>
    \A n \in 1 .. NbParams, d \in Cdev : \A a \in algos[d] :
      LET c == params[n] IN
      \/ <<c, a>> \in DOMAIN map /\ QpOf(<<c, a>>)[1] >= d
      \/ nbqp[d] = limit[d]
      \/ Free(c) = 0
      \/ Len(tbl[c]) = MaxQpPerLcore
=============================================================================
