-------------------------- MODULE SaSessionProofs ---------------------------
(***************************************************************************)
(* Proofs about CdevInit, for any lcores, any devices with any number of   *)
(* queue pairs and any capabilities, and any sizes of the hash maps and of *)
(* the contexts' tables; and, on top of them, proofs about SaSession, for  *)
(* any number of lcores and of shared SAs.                                 *)
(***************************************************************************)
EXTENDS SaSession, FiniteSetTheorems, SequenceTheorems, TLAPS

(***************************************************************************)
(* 1. The crypto devices: CdevInit.                                        *)
(***************************************************************************)

(***************************************************************************)
(* The inductive invariant, part by part.                                  *)
(***************************************************************************)

\* The keys that take up the hash map of context c's direction.
Keys(c) == {k \in DOMAIN map : k[1][2] = c[2]}

\* A hash map never holds more than its entries.
MapsBounded ==
  /\ IsFiniteSet(DOMAIN map)
  /\ \A c \in Context : Free(c) \in Nat

\* The round over lcore_params.
Round ==
  /\ idx < NbParams
  /\ i <= NbParams /\ qp <= i
  /\ cdev >= 0 => qp <= limit[cdev]

\* The tables only hold queue pairs of devices that were looked at, and that
\* these devices have.
TablesOfDevices ==
  \A c \in Context : \A n \in DOMAIN tbl[c] :
    /\ tbl[c][n][1] >= cdev
    /\ tbl[c][n][2] < limit[tbl[c][n][1]]

\* A queue pair of the present device that is not handed out yet is in a table
\* only as a stale entry.
HandedOutBelow ==
  \A c \in Context : \A n \in DOMAIN tbl[c] :
    tbl[c][n][1] = cdev /\ tbl[c][n][2] >= qp => Stale(c, n)

\* What HwPriority says of a context and a device that it was offered.
Served(c, d) ==
  \/ \A a \in algos[d] : <<c, a>> \in DOMAIN map /\ QpOf(<<c, a>>)[1] >= d
  \/ Free(c) = 0
  \/ Len(tbl[c]) = MaxQpPerLcore

\* Entry v (from 0) of lcore_params has been looked at for this device.
Visited(v) == v \in idx - i .. idx - 1 \/ v \in idx - i + NbParams .. NbParams - 1

OfferedSoFar ==
  \A n \in 1 .. NbParams :
    /\ cdev >= 0 /\ Visited(n - 1) => Served(params[n], cdev)
    /\ \A d \in Cdev : d > cdev => Served(params[n], d) \/ nbqp[d] = limit[d]

IInv ==
  /\ TypeOK /\ MapsBounded /\ Round /\ TablesOfDevices /\ HandedOutBelow
  /\ QpPrivate /\ QpConfigured /\ OfferedSoFar

-----------------------------------------------------------------------------
(* What the actions do, as the proofs below use it. *)

\* The types of the constants, and of what the loop looks at.
LEMMA Bounds ==
  ASSUME TypeOK
  PROVE  /\ NbCdevs \in Nat /\ MapEntries \in Nat /\ MaxQpPerLcore \in Nat
         /\ NbParams \in Nat /\ NbParams > 0
         /\ \A n \in 1 .. NbParams : params[n] \in Context
         /\ idx \in Nat /\ i \in Nat /\ qp \in Nat /\ cdev \in Int
         /\ \A d \in Cdev : limit[d] \in Nat
         /\ \A c \in Context : /\ tbl[c] \in Seq(Cdev \X Nat)
                               /\ Len(tbl[c]) \in Nat
                               /\ DOMAIN tbl[c] = 1 .. Len(tbl[c])
                               /\ \A n \in DOMAIN tbl[c] :
                                    /\ tbl[c][n] \in Cdev \X Nat
                                    /\ tbl[c][n][1] \in Cdev
                                    /\ tbl[c][n][2] \in Nat
         /\ \A k \in DOMAIN map : /\ k \in Context \X Algo
                                  /\ k[1] \in Context /\ k[2] \in Algo
                                  /\ k = <<k[1], k[2]>> /\ map[k] \in Nat
                                  /\ map[k] + 1 \in DOMAIN tbl[k[1]]
<1> USE CdevInitAssumption
<1>1. NbParams \in Nat /\ NbParams > 0 /\ \A n \in 1 .. NbParams : params[n] \in Context
  BY EmptySeq, LenProperties, ElementOfSeq DEF TypeOK, NbParams
<1>2. cdev \in Int /\ \A d \in Cdev : limit[d] \in Nat
  BY DEF TypeOK, Cdev
<1>3. ASSUME NEW c \in Context
      PROVE  /\ tbl[c] \in Seq(Cdev \X Nat) /\ Len(tbl[c]) \in Nat
             /\ DOMAIN tbl[c] = 1 .. Len(tbl[c])
             /\ \A n \in DOMAIN tbl[c] : tbl[c][n] \in Cdev \X Nat
  BY LenProperties, ElementOfSeq DEF TypeOK
<1>4. ASSUME NEW c \in Context, NEW n \in DOMAIN tbl[c]
      PROVE  tbl[c][n] \in Cdev \X Nat /\ tbl[c][n][1] \in Cdev /\ tbl[c][n][2] \in Nat
  BY <1>3
<1>5. ASSUME NEW k \in DOMAIN map
      PROVE  /\ k \in Context \X Algo /\ k[1] \in Context /\ k[2] \in Algo
             /\ k = <<k[1], k[2]>> /\ map[k] \in Nat
             /\ map[k] + 1 \in DOMAIN tbl[k[1]]
  <2>1. k \in Context \X Algo /\ map[k] \in Nat /\ map[k] + 1 \in DOMAIN tbl[k[1]]
    BY DEF TypeOK
  <2>2. QED BY ONLY <2>1
<1>6. NbCdevs \in Nat /\ MapEntries \in Nat /\ MaxQpPerLcore \in Nat
  OBVIOUS
<1>7. idx \in Nat /\ i \in Nat /\ qp \in Nat
  BY DEF TypeOK
<1> HIDE CdevInitAssumption
<1>8. QED BY <1>1, <1>2, <1>3, <1>4, <1>5, <1>6, <1>7

\* The inner loop goes on to the next entry of lcore_params, round and round.
LEMMA NextParam ==
  ASSUME NEW n \in Nat, NEW m \in 0 .. n - 1
  PROVE  (m + 1) % n = IF m + 1 = n THEN 0 ELSE m + 1
  OBVIOUS

\* The context whose turn it is.
LEMMA TurnIs ==
  ASSUME TypeOK, Round, Mapping
  PROVE  /\ Turn \in Context /\ Turn = params[idx + 1] /\ idx + 1 \in 1 .. NbParams
         /\ cdev \in Cdev /\ algos[cdev] \subseteq Algo
         /\ IsFiniteSet(Missing) /\ Missing \subseteq Context \X Algo
         /\ \A k \in Missing : /\ k \notin DOMAIN map /\ k[1] = Turn /\ k[2] \in algos[cdev]
                               /\ k = <<Turn, k[2]>>
<1>1. /\ Turn \in Context /\ Turn = params[idx + 1] /\ idx + 1 \in 1 .. NbParams
      /\ cdev \in Cdev /\ algos[cdev] \subseteq Algo
  <2>1. idx + 1 \in 1 .. NbParams /\ Turn \in Context
    BY Bounds DEF Round, Turn
  <2>2. cdev \in Cdev /\ algos[cdev] \subseteq Algo
    BY CdevInitAssumption DEF TypeOK, Mapping, Cdev
  <2>3. QED BY <2>1, <2>2 DEF Turn
<1>2. IsFiniteSet(Missing)
  <2> DEFINE pairs == {<<Turn, a>> : a \in algos[cdev]}
             f == [a \in algos[cdev] |-> <<Turn, a>>]
  <2>1. IsFiniteSet(algos[cdev])
    BY <1>1, CdevInitAssumption, FS_Subset
  <2>2. f \in Surjection(algos[cdev], pairs)
    BY DEF Surjection
  <2>3. IsFiniteSet(pairs)
    BY <2>1, <2>2, FS_Surjection
  <2>4. QED BY <2>3, FS_Subset DEF Missing
<1>3. QED BY <1>1, <1>2 DEF Missing

\* add_cdev_mapping and the hash map: it takes every missing key, or as many
\* as it has room for.
LEMMA MapGrows ==
  ASSUME TypeOK, MapsBounded, Round, NEW n \in 1 .. MaxQpPerLcore,
         NEW added \in SUBSET Missing, MapContext(n, added)
  PROVE  /\ DOMAIN map' = DOMAIN map \cup added
         /\ \A k \in DOMAIN map : map'[k] = map[k]
         /\ \A k \in added : map'[k] \in Nat /\ map'[k] + 1 = n
         /\ MapsBounded'
         /\ \A c \in Context : Free(c) = 0 => Free(c)' = 0
         /\ added # {} => Free(Turn) # 0
         /\ added = {} => Free(Turn) = 0
         /\ added # Missing => \A c \in Context : c = Turn => Free(c)' = 0
<1>0. /\ Mapping
      /\ map' = [k \in DOMAIN map \cup added |-> IF k \in added THEN n - 1 ELSE map[k]]
      /\ Missing # {}
      /\ Cardinality(added) = Smaller(Cardinality(Missing), Free(Turn))
  BY DEF MapContext
<1>1. /\ DOMAIN map' = DOMAIN map \cup added
      /\ \A k \in DOMAIN map : map'[k] = map[k]
      /\ \A k \in added : map'[k] \in Nat /\ map'[k] + 1 = n
  BY <1>0, TurnIs
<1>2. /\ IsFiniteSet(added) /\ IsFiniteSet(Missing)
      /\ Cardinality(added) \in Nat /\ Cardinality(Missing) \in Nat
      /\ Cardinality(added) = 0 <=> added = {}
      /\ Cardinality(Missing) = 0 <=> Missing = {}
      /\ Cardinality(added) = Cardinality(Missing) => added = Missing
  BY <1>0, TurnIs, FS_Subset, FS_CardinalityType, FS_EmptySet
<1>3. MapEntries \in Nat /\ Turn \in Context /\ \A c \in Context : Free(c) \in Nat
  BY <1>0, Bounds, TurnIs DEF MapsBounded
<1>4. ASSUME NEW c \in Context
      PROVE  /\ Free(c) = MapEntries - Cardinality(Keys(c))
             /\ Free(c)' = MapEntries - Cardinality(Keys(c)')
             /\ IsFiniteSet(Keys(c)) /\ Cardinality(Keys(c)) \in Nat
  <2>1. IsFiniteSet(Keys(c))
    BY FS_Subset DEF MapsBounded, Keys
  <2>2. QED BY <2>1, FS_CardinalityType DEF Free, Keys
<1>5. ASSUME NEW c \in Context, c[2] = Turn[2]
      PROVE  Free(c) = Free(Turn) /\ Free(c)' = Free(c) - Cardinality(added)
  <2>1. Keys(c)' = Keys(c) \cup added
    BY <1>0, <1>1, <1>5, TurnIs DEF Keys
  <2>2. Keys(c) \cap added = {}
    BY <1>0, TurnIs DEF Keys
  <2>3. Cardinality(Keys(c)') = Cardinality(Keys(c)) + Cardinality(added)
    BY <1>2, <1>4, <2>1, <2>2, FS_Union, FS_EmptySet, SMTT(20)
  <2>4. Free(c) = Free(Turn)
    BY <1>5 DEF Free
  <2>5. QED BY <1>2, <1>3, <1>4, <2>3, <2>4
<1>6. ASSUME NEW c \in Context, c[2] # Turn[2]
      PROVE  Free(c)' = Free(c)
  <2>1. Keys(c)' = Keys(c)
    BY <1>0, <1>1, <1>6, TurnIs DEF Keys
  <2>2. QED BY <1>4, <2>1
<1>7. /\ Cardinality(added) <= Free(Turn)
      /\ Cardinality(added) < Cardinality(Missing) => Cardinality(added) = Free(Turn)
      /\ Cardinality(added) <= Cardinality(Missing)
  BY <1>0, <1>2, <1>3 DEF Smaller
<1>8. \A c \in Context : /\ Free(c)' \in Nat
                         /\ Free(c) = 0 => Free(c)' = 0
  <2> TAKE c \in Context
  <2>1. CASE c[2] = Turn[2]
    BY <1>2, <1>3, <1>5, <1>7, <2>1
  <2>2. CASE c[2] # Turn[2]
    BY <1>3, <1>6, <2>2
  <2>3. QED BY <2>1, <2>2
<1>9. IsFiniteSet(DOMAIN map')
  <2>1. IsFiniteSet(DOMAIN map)
    BY DEF MapsBounded
  <2>2. IsFiniteSet(DOMAIN map \cup added)
    BY <1>2, <2>1, FS_Union
  <2>3. QED BY <1>1, <2>2
<1>10. MapsBounded'
  BY <1>8, <1>9 DEF MapsBounded
<1>11. /\ added # {} => Free(Turn) # 0
       /\ added = {} => Free(Turn) = 0
       /\ added # Missing => \A c \in Context : c = Turn => Free(c)' = 0
  <2>1. \A c \in Context : c = Turn => Free(c)' = Free(Turn) - Cardinality(added)
    BY <1>5
  <2>2. Free(Turn) \in Nat
    BY <1>3
  <2>3. Cardinality(added) = 0 => Free(Turn) = 0
    BY <1>0, <1>2, <1>7, <2>2
  <2>4. Cardinality(added) # 0 => Free(Turn) # 0
    BY <1>2, <1>7, <2>2
  <2>5. Cardinality(added) # Cardinality(Missing) => Cardinality(added) = Free(Turn)
    BY <1>2, <1>7
  <2>6. QED BY <1>2, <2>1, <2>2, <2>3, <2>4, <2>5
<1>12. QED BY <1>1, <1>8, <1>10, <1>11

\* add_cdev_mapping and the tables: entry n of the context whose turn it is
\* holds a queue pair of the device, and is new if the context had none.
LEMMA TableGrows ==
  ASSUME TypeOK, Round, NEW n \in 1 .. MaxQpPerLcore,
         NEW added \in SUBSET Missing, MapContext(n, added)
  PROVE  /\ tbl' \in [Context -> Seq(Cdev \X Nat)]
         /\ \A c \in Context : \A m \in DOMAIN tbl[c] :
              m \in DOMAIN tbl'[c] /\ tbl'[c][m] = tbl[c][m]
         /\ \A c \in Context : \A m \in DOMAIN tbl'[c] :
              \/ m \in DOMAIN tbl[c]
              \/ /\ c = Turn /\ m = n /\ tbl'[c][m] = <<cdev, qp>>
                 /\ m = Len(tbl[c]) + 1
         /\ n \in DOMAIN tbl'[Turn] /\ tbl'[Turn][n][1] = cdev
         /\ \A c \in Context : Len(tbl[c]) = MaxQpPerLcore => Len(tbl'[c]) = MaxQpPerLcore
<1>1. /\ Turn \in Context /\ cdev \in Cdev /\ qp \in Nat /\ MaxQpPerLcore \in Nat
      /\ n \in Nat /\ <<cdev, qp>> \in Cdev \X Nat
      /\ tbl \in [Context -> Seq(Cdev \X Nat)]
  <2>1. Turn \in Context /\ cdev \in Cdev
    BY TurnIs DEF MapContext
  <2>2. qp \in Nat /\ tbl \in [Context -> Seq(Cdev \X Nat)]
    BY DEF TypeOK
  <2>3. MaxQpPerLcore \in Nat
    BY CdevInitAssumption
  <2>4. QED BY <2>1, <2>2, <2>3
<1>2. \A c \in Context : /\ tbl[c] \in Seq(Cdev \X Nat) /\ Len(tbl[c]) \in Nat
                         /\ DOMAIN tbl[c] = 1 .. Len(tbl[c])
  BY Bounds
<1>3. CASE n \in DOMAIN tbl[Turn] /\ tbl[Turn][n][1] = cdev /\ tbl' = tbl
  BY <1>1, <1>2, <1>3
<1>4. CASE /\ n = Len(tbl[Turn]) + 1 /\ n <= MaxQpPerLcore
           /\ tbl' = [tbl EXCEPT ![Turn] = Append(@, <<cdev, qp>>)]
  <2> DEFINE t == Append(tbl[Turn], <<cdev, qp>>)
  <2>1. /\ t \in Seq(Cdev \X Nat)
        /\ Len(t) = Len(tbl[Turn]) + 1
        /\ DOMAIN t = 1 .. Len(t)
        /\ \A m \in 1 .. Len(tbl[Turn]) : t[m] = tbl[Turn][m]
        /\ t[Len(tbl[Turn]) + 1] = <<cdev, qp>>
    BY <1>1, <1>2, AppendProperties, LenProperties
  <2> HIDE DEF t
  <2>2. tbl' = [tbl EXCEPT ![Turn] = t]
    BY <1>1, <1>4 DEF t
  <2>3. /\ tbl' \in [Context -> Seq(Cdev \X Nat)]
        /\ tbl'[Turn] = t
        /\ \A c \in Context : c # Turn => tbl'[c] = tbl[c]
    BY <1>1, <2>1, <2>2
  <2>4. \A c \in Context : \A m \in DOMAIN tbl[c] :
          m \in DOMAIN tbl'[c] /\ tbl'[c][m] = tbl[c][m]
    <3> TAKE c \in Context
    <3>1. CASE c = Turn
      <4>1. DOMAIN tbl[c] = 1 .. Len(tbl[Turn]) /\ Len(tbl[Turn]) \in Nat
        BY <1>2, <3>1
      <4>2. DOMAIN tbl'[c] = 1 .. Len(tbl[Turn]) + 1
        BY <2>1, <2>3, <3>1
      <4>3. \A m \in 1 .. Len(tbl[Turn]) : tbl'[c][m] = tbl[c][m]
        BY <2>1, <2>3, <3>1
      <4>4. QED BY <4>1, <4>2, <4>3
    <3>2. CASE c # Turn
      BY <2>3, <3>2
    <3>3. QED BY <3>1, <3>2
  <2>5. \A c \in Context : \A m \in DOMAIN tbl'[c] :
          \/ m \in DOMAIN tbl[c]
          \/ c = Turn /\ m = n /\ tbl'[c][m] = <<cdev, qp>> /\ m = Len(tbl[c]) + 1
    BY <1>1, <1>2, <1>4, <2>1, <2>3
  <2>6. n \in DOMAIN tbl'[Turn] /\ tbl'[Turn][n][1] = cdev
    BY <1>1, <1>2, <1>4, <2>1, <2>3
  <2>7. \A c \in Context : Len(tbl[c]) = MaxQpPerLcore => Len(tbl'[c]) = MaxQpPerLcore
    BY <1>1, <1>2, <1>4, <2>3
  <2>8. QED BY <2>3, <2>4, <2>5, <2>6, <2>7
<1>5. QED BY <1>3, <1>4 DEF MapContext

\* An entry that no key leads to stays so once the hash map is full.
LEMMA StaleStays ==
  ASSUME TypeOK, MapsBounded, Round, NEW n \in 1 .. MaxQpPerLcore,
         NEW added \in SUBSET Missing, MapContext(n, added),
         NEW c \in Context, NEW m, Stale(c, m)
  PROVE  Stale(c, m)'
<1>1. Free(c)' = 0
  BY MapGrows DEF Stale
<1>2. ASSUME NEW k \in DOMAIN map', k[1] = c
      PROVE  map'[k] + 1 # m
  <2>1. k \notin added
    <3>1. k \in added => Free(Turn) # 0 /\ k[1] = Turn
      BY MapGrows, TurnIs DEF MapContext
    <3>2. QED BY <1>2, <3>1 DEF Stale
  <2>2. k \in DOMAIN map
    <3>1. DOMAIN map' = DOMAIN map \cup added
      BY MapGrows
    <3>2. QED BY <1>2, <2>1, <3>1
  <2>3. map'[k] = map[k]
    BY <2>2, MapGrows
  <2>4. QED BY <1>2, <2>2, <2>3 DEF Stale
<1>3. QED BY <1>1, <1>2 DEF Stale

-----------------------------------------------------------------------------
(* Type correctness. *)

LEMMA TypeInit == Init => TypeOK
<1> SUFFICES ASSUME Init PROVE TypeOK
  OBVIOUS
<1>1. params \in Seq(Context) /\ params # <<>>
  <2>1. PICK n \in 1 .. MaxParams : params \in [1 .. n -> Context]
    BY DEF Init
  <2>2. n \in Nat /\ n >= 1
    BY CdevInitAssumption
  <2>3. params \in Seq(Context) /\ Len(params) = n
    BY <2>1, <2>2
  <2>4. QED BY <2>2, <2>3
<1>2. tbl \in [Context -> Seq(Cdev \X Nat)]
  BY EmptySeq DEF Init
<1>3. nbqp \in [Cdev -> Nat] /\ cdev \in -1 .. NbCdevs - 1
  BY CdevInitAssumption DEF Init
<1>4. DOMAIN map = {}
  BY DEF Init
<1>5. limit \in [Cdev -> Nat]
  BY CdevInitAssumption DEF Init
<1>6. QED BY <1>1, <1>2, <1>3, <1>4 DEF Init, TypeOK

LEMMA TypeStep == IInv /\ [Next]_initVars => TypeOK'
<1> SUFFICES ASSUME IInv, [Next]_initVars PROVE TypeOK'
  OBVIOUS
<1> USE DEF IInv
<1>1. CASE SkipContext
  BY <1>1, Bounds, SMTT(20) DEF TypeOK, SkipContext, Advance, config, NbParams
<1>2. ASSUME NEW n \in 1 .. MaxQpPerLcore, NEW added \in SUBSET Missing,
             MapContext(n, added)
      PROVE  TypeOK'
  <2>1. /\ UNCHANGED <<config, cdev, nbqp>> /\ Mapping
        /\ i' \in Nat /\ idx' \in Nat /\ qp' \in Nat
    BY <1>2, Bounds, SMTT(20) DEF MapContext, Advance, Handed
  <2>2. DOMAIN map' = DOMAIN map \cup added
    BY <1>2, MapGrows
  <2>3. DOMAIN map' \subseteq Context \X Algo
    <3>1. added \subseteq Context \X Algo
      BY <2>1, TurnIs
    <3>2. QED BY <2>2, <3>1 DEF TypeOK
  <2>4. ASSUME NEW k \in DOMAIN map'
        PROVE  map'[k] \in Nat /\ map'[k] + 1 \in DOMAIN tbl'[k[1]]
    <3>1. CASE k \in DOMAIN map
      <4>1. /\ map'[k] = map[k] /\ map[k] \in Nat /\ k[1] \in Context
            /\ map[k] + 1 \in DOMAIN tbl[k[1]]
        BY <1>2, <3>1, MapGrows, Bounds
      <4>2. QED BY <1>2, <4>1, TableGrows
    <3>2. CASE k \in added
      <4>1. map'[k] \in Nat /\ map'[k] + 1 = n /\ k[1] = Turn
        BY <1>2, <2>1, <3>2, MapGrows, TurnIs
      <4>2. QED BY <1>2, <4>1, TableGrows
    <3>3. QED BY <2>2, <3>1, <3>2
  <2>5. tbl' \in [Context -> Seq(Cdev \X Nat)]
    BY <1>2, TableGrows
  <2>6. QED BY <2>1, <2>3, <2>4, <2>5 DEF TypeOK, config
<1>3. CASE Configure
  <2>1. /\ cdev \in Cdev /\ cdev' \in -1 .. NbCdevs - 1
        /\ qp \in Nat /\ nbqp' = [nbqp EXCEPT ![cdev] = qp] /\ qp' = 0 /\ i' = 0
        /\ UNCHANGED <<params, limit, algos, idx, tbl, map>>
    BY <1>3, CdevInitAssumption DEF TypeOK, Configure, config, Cdev
  <2>2. nbqp' \in [Cdev -> Nat]
    BY <2>1 DEF TypeOK
  <2>3. QED BY <2>1, <2>2 DEF TypeOK
<1>4. CASE UNCHANGED initVars
  BY <1>4 DEF TypeOK, initVars, config
<1>5. QED BY <1>1, <1>2, <1>3, <1>4 DEF Next

-----------------------------------------------------------------------------
(* Each part of the invariant is preserved. *)

LEMMA RoundStep == IInv /\ [Next]_initVars => Round'
<1> SUFFICES ASSUME IInv, [Next]_initVars PROVE Round'
  OBVIOUS
<1>0. /\ NbParams \in Nat /\ NbParams > 0 /\ idx \in 0 .. NbParams - 1
      /\ i \in Nat /\ qp \in Nat /\ cdev \in Int
      /\ \A d \in Cdev : limit[d] \in Nat
  BY Bounds DEF IInv, Round
<1>1. CASE Mapping /\ Advance /\ qp' \in {qp, qp + 1}
  <2>1. /\ idx' = (idx + 1) % NbParams /\ i' = i + 1
        /\ cdev' = cdev /\ limit' = limit /\ NbParams' = NbParams
    BY <1>1 DEF Advance, config, NbParams
  <2>2. idx' < NbParams
    BY <1>0, <2>1, NextParam
  <2>3. i < NbParams /\ qp < limit[cdev] /\ cdev \in Cdev /\ limit[cdev] \in Nat /\ qp <= i
    <3>1. cdev \in Cdev
      BY <1>1, TurnIs DEF IInv
    <3>2. QED BY <1>0, <1>1, <3>1 DEF Mapping, Smaller, IInv, Round
  <2>4. QED BY <1>0, <1>1, <2>1, <2>2, <2>3 DEF Round
<1>2. CASE Configure
  <2>1. /\ idx' = idx /\ i' = 0 /\ qp' = 0 /\ limit' = limit /\ NbParams' = NbParams
        /\ cdev' = cdev - 1 /\ cdev \in Cdev
    BY <1>2, CdevInitAssumption DEF Configure, config, NbParams, IInv, TypeOK, Cdev
  <2>2. cdev' >= 0 => cdev' \in Cdev
    BY <1>0, <2>1, CdevInitAssumption DEF Cdev
  <2>3. QED BY <1>0, <2>1, <2>2 DEF Round
<1>3. CASE UNCHANGED initVars
  BY <1>3 DEF IInv, Round, initVars, config, NbParams
<1>4. QED BY <1>0, <1>1, <1>2, <1>3 DEF Next, SkipContext, MapContext, Handed

LEMMA MapsBoundedStep == IInv /\ [Next]_initVars => MapsBounded'
<1> SUFFICES ASSUME IInv, [Next]_initVars PROVE MapsBounded'
  OBVIOUS
<1>1. CASE UNCHANGED map
  BY <1>1 DEF IInv, MapsBounded, Free
<1>2. ASSUME NEW n \in 1 .. MaxQpPerLcore, NEW added \in SUBSET Missing,
             MapContext(n, added)
      PROVE  MapsBounded'
  BY <1>2, MapGrows DEF IInv
<1>3. QED BY <1>1, <1>2 DEF Next, SkipContext, Configure, initVars

LEMMA TablesStep == IInv /\ [Next]_initVars => TablesOfDevices'
<1> SUFFICES ASSUME IInv, [Next]_initVars PROVE TablesOfDevices'
  OBVIOUS
<1>0. cdev \in Int
  BY Bounds DEF IInv
<1>1. CASE UNCHANGED <<tbl, limit, cdev>>
  BY <1>1 DEF IInv, TablesOfDevices
<1>2. ASSUME NEW n \in 1 .. MaxQpPerLcore, NEW added \in SUBSET Missing,
             MapContext(n, added)
      PROVE  TablesOfDevices'
  <2>1. cdev' = cdev /\ limit' = limit /\ cdev \in Int /\ qp < limit[cdev]
    <3>1. Mapping /\ cdev \in Cdev /\ limit[cdev] \in Nat /\ qp \in Nat /\ NbParams \in Nat
      BY <1>2, TurnIs, Bounds DEF IInv, MapContext
    <3>2. QED BY <1>0, <1>2, <3>1 DEF MapContext, Advance, config, Mapping, Smaller
  <2>2. ASSUME NEW c \in Context, NEW m \in DOMAIN tbl'[c]
        PROVE  tbl'[c][m][1] >= cdev' /\ tbl'[c][m][2] < limit'[tbl'[c][m][1]]
    <3>1. CASE m \in DOMAIN tbl[c]
      <4>1. tbl'[c][m] = tbl[c][m]
        BY <1>2, <3>1, TableGrows DEF IInv
      <4>2. QED BY <2>1, <3>1, <4>1 DEF IInv, TablesOfDevices
    <3>2. CASE m \notin DOMAIN tbl[c]
      <4>1. tbl'[c][m] = <<cdev, qp>>
        BY <1>2, <3>2, TableGrows DEF IInv
      <4>2. QED BY <2>1, <4>1
    <3>3. QED BY <3>1, <3>2
  <2>3. QED BY <2>2 DEF TablesOfDevices
<1>3. CASE Configure
  <2>1. tbl' = tbl /\ limit' = limit /\ cdev' = cdev - 1
    BY <1>3 DEF Configure, config
  <2>2. \A c \in Context : \A m \in DOMAIN tbl[c] : tbl[c][m][1] \in Int
    BY Bounds DEF IInv, Cdev
  <2>3. QED BY <1>0, <2>1, <2>2 DEF IInv, TablesOfDevices
<1>4. QED BY <1>1, <1>2, <1>3 DEF Next, SkipContext, Advance, initVars, config

LEMMA HandedOutStep == IInv /\ [Next]_initVars => HandedOutBelow'
<1> SUFFICES ASSUME IInv, [Next]_initVars PROVE HandedOutBelow'
  OBVIOUS
<1>1. CASE UNCHANGED <<tbl, map, cdev, qp>>
  BY <1>1 DEF IInv, HandedOutBelow, Stale, Free
<1>2. ASSUME NEW n \in 1 .. MaxQpPerLcore, NEW added \in SUBSET Missing,
             MapContext(n, added)
      PROVE  HandedOutBelow'
  <2>0. TypeOK /\ MapsBounded /\ Round /\ HandedOutBelow
    BY DEF IInv
  <2>1. cdev' = cdev /\ qp \in Nat /\ qp' = Handed(added)
    BY <1>2, <2>0, Bounds DEF MapContext, Advance
  <2> SUFFICES ASSUME NEW c \in Context, NEW m \in DOMAIN tbl'[c],
                      tbl'[c][m][1] = cdev', tbl'[c][m][2] >= qp'
               PROVE  Stale(c, m)'
    BY DEF HandedOutBelow
  <2>2. CASE m \in DOMAIN tbl[c]
    <3>1. tbl'[c][m] = tbl[c][m] /\ tbl[c][m][2] \in Nat
      BY <1>2, <2>0, <2>2, TableGrows, Bounds
    <3>2. tbl[c][m][2] >= qp
      BY <2>1, <3>1 DEF Handed
    <3>3. Stale(c, m)
      BY <2>0, <2>1, <2>2, <3>1, <3>2 DEF HandedOutBelow
    <3>4. QED BY <1>2, <2>0, <3>3, StaleStays
  <2>3. CASE m \notin DOMAIN tbl[c]
    <3>1. c = Turn /\ tbl'[c][m] = <<cdev, qp>>
      BY <1>2, <2>0, <2>3, TableGrows
    <3>2. added = {}
      BY <2>1, <3>1 DEF Handed
    <3>3. Free(c) = 0
      BY <1>2, <2>0, <3>1, <3>2, MapGrows
    <3>4. Stale(c, m)
      BY <2>0, <2>3, <3>3, Bounds DEF Stale
    <3>5. QED BY <1>2, <2>0, <3>4, StaleStays
  <2>4. QED BY <2>2, <2>3
<1>3. CASE Configure
  <2>1. tbl' = tbl /\ cdev' = cdev - 1
    BY <1>3 DEF Configure
  <2>2. \A c \in Context : \A m \in DOMAIN tbl[c] :
          tbl[c][m][1] >= cdev /\ tbl[c][m][1] \in Int /\ cdev \in Int
    BY Bounds DEF IInv, TablesOfDevices, Cdev
  <2>3. \A c \in Context : \A m \in DOMAIN tbl[c] : tbl[c][m][1] # cdev'
    BY <2>1, <2>2
  <2>4. QED BY <2>1, <2>3 DEF HandedOutBelow
<1>4. QED BY <1>1, <1>2, <1>3 DEF Next, SkipContext, Advance, initVars, config

LEMMA EntriesStep == IInv /\ [Next]_initVars => QpPrivate'
<1> SUFFICES ASSUME IInv, [Next]_initVars PROVE QpPrivate'
  OBVIOUS
<1>1. CASE UNCHANGED <<tbl, map>>
  <2>1. \A c, m : Stale(c, m)' <=> Stale(c, m)
    BY <1>1 DEF Stale, Free
  <2>2. QED BY <1>1, <2>1 DEF IInv, QpPrivate
<1>2. ASSUME NEW n \in 1 .. MaxQpPerLcore, NEW added \in SUBSET Missing,
             MapContext(n, added)
      PROVE  QpPrivate'
  <2>0. /\ TypeOK /\ MapsBounded /\ Round /\ HandedOutBelow /\ QpPrivate
        /\ qp \in Nat
    BY Bounds DEF IInv
  <2>1. ASSUME NEW c \in Context, NEW m \in DOMAIN tbl'[c],
               NEW e \in Context, NEW r \in DOMAIN tbl'[e],
               c # e, tbl'[c][m] = tbl'[e][r], r \in DOMAIN tbl[e]
        PROVE  Stale(c, m)' \/ Stale(e, r)'
    <3>1. tbl'[e][r] = tbl[e][r]
      BY <1>2, <2>0, <2>1, TableGrows
    <3>2. CASE m \in DOMAIN tbl[c]
      <4>1. tbl'[c][m] = tbl[c][m]
        BY <1>2, <2>0, <3>2, TableGrows
      <4>2. Stale(c, m) \/ Stale(e, r)
        BY <2>0, <2>1, <3>1, <3>2, <4>1 DEF QpPrivate
      <4>3. QED BY <1>2, <2>0, <4>2, StaleStays
    <3>3. CASE m \notin DOMAIN tbl[c]
      <4>1. tbl'[c][m] = <<cdev, qp>>
        BY <1>2, <2>0, <3>3, TableGrows
      <4>2. tbl[e][r][1] = cdev /\ tbl[e][r][2] >= qp
        BY <2>0, <2>1, <3>1, <4>1
      <4>3. Stale(e, r)
        BY <2>0, <2>1, <4>2 DEF HandedOutBelow
      <4>4. QED BY <1>2, <2>0, <4>3, StaleStays
    <3>4. QED BY <3>2, <3>3
  <2>2. ASSUME NEW c \in Context, NEW m \in DOMAIN tbl'[c],
               NEW e \in Context, NEW r \in DOMAIN tbl'[e], c # e
        PROVE  m \in DOMAIN tbl[c] \/ r \in DOMAIN tbl[e]
    <3>1. m \in DOMAIN tbl[c] \/ c = Turn
      BY <1>2, <2>0, TableGrows
    <3>2. r \in DOMAIN tbl[e] \/ e = Turn
      BY <1>2, <2>0, TableGrows
    <3>3. QED BY <2>2, <3>1, <3>2
  <2>3. ASSUME NEW c \in Context, NEW m \in DOMAIN tbl'[c],
               NEW e \in Context, NEW r \in DOMAIN tbl'[e],
               c # e, tbl'[c][m] = tbl'[e][r]
        PROVE  Stale(c, m)' \/ Stale(e, r)'
    <3>1. CASE r \in DOMAIN tbl[e]
      BY <2>1, <2>3, <3>1
    <3>2. CASE m \in DOMAIN tbl[c]
      BY <2>1, <2>3, <3>2
    <3>3. QED BY <2>2, <2>3, <3>1, <3>2
  <2>4. QED BY <2>3 DEF QpPrivate
<1>3. QED BY <1>1, <1>2 DEF Next, SkipContext, Configure, initVars

\* The queue pair a key leads to stays the same.
LEMMA QpOfStays ==
  ASSUME TypeOK, MapsBounded, Round, NEW n \in 1 .. MaxQpPerLcore,
         NEW added \in SUBSET Missing, MapContext(n, added)
  PROVE  /\ \A k \in DOMAIN map : QpOf(k)' = QpOf(k)
         /\ \A k \in added : QpOf(k)'[1] = cdev
<1>1. ASSUME NEW k \in DOMAIN map PROVE QpOf(k)' = QpOf(k)
  <2>1. map'[k] = map[k]
    BY MapGrows
  <2>2. k[1] \in Context /\ map[k] + 1 \in DOMAIN tbl[k[1]]
    BY Bounds
  <2>3. tbl'[k[1]][map[k] + 1] = tbl[k[1]][map[k] + 1]
    BY <2>2, TableGrows
  <2>4. QED BY <2>1, <2>3 DEF QpOf
<1>2. ASSUME NEW k \in added PROVE QpOf(k)'[1] = cdev
  <2>1. map'[k] + 1 = n
    BY MapGrows
  <2>2. k[1] = Turn
    BY TurnIs DEF MapContext
  <2>3. tbl'[Turn][n][1] = cdev
    BY TableGrows
  <2>4. QED BY <2>1, <2>2, <2>3 DEF QpOf
<1>3. QED BY <1>1, <1>2

\* A key does not lead to a stale entry.
LEMMA InUse ==
  ASSUME NEW k \in DOMAIN map
  PROVE  ~ Stale(k[1], map[k] + 1)
  BY DEF Stale

LEMMA ConfiguredStep == IInv /\ [Next]_initVars => QpConfigured'
<1> SUFFICES ASSUME IInv, [Next]_initVars PROVE QpConfigured'
  OBVIOUS
<1>0. TypeOK /\ MapsBounded /\ Round /\ QpConfigured /\ HandedOutBelow /\ TablesOfDevices
  BY DEF IInv
<1>1. CASE UNCHANGED <<tbl, map, algos, limit, cdev, nbqp>>
  BY <1>0, <1>1 DEF QpConfigured, QpOf
<1>2. ASSUME NEW n \in 1 .. MaxQpPerLcore, NEW added \in SUBSET Missing,
             MapContext(n, added)
      PROVE  QpConfigured'
  <2>1. UNCHANGED <<algos, limit, cdev, nbqp>> /\ Mapping
    BY <1>2 DEF MapContext, Advance, config
  <2>2. DOMAIN map' = DOMAIN map \cup added
    BY <1>0, <1>2, MapGrows
  <2>3. ASSUME NEW k \in DOMAIN map
        PROVE  /\ k[2] \in algos'[QpOf(k)'[1]]
               /\ QpOf(k)'[2] < limit'[QpOf(k)'[1]]
               /\ QpOf(k)'[1] > cdev' => QpOf(k)'[2] < nbqp'[QpOf(k)'[1]]
    <3>1. QpOf(k)' = QpOf(k)
      BY <1>0, <1>2, QpOfStays
    <3>2. QED BY <1>0, <2>1, <3>1 DEF QpConfigured
  <2>4. ASSUME NEW k \in added
        PROVE  /\ k[2] \in algos'[QpOf(k)'[1]]
               /\ QpOf(k)'[2] < limit'[QpOf(k)'[1]]
               /\ ~ QpOf(k)'[1] > cdev'
    <3>1. QpOf(k)'[1] = cdev /\ cdev \in Int
      BY <1>0, <1>2, QpOfStays, Bounds
    <3>2. k[2] \in algos[cdev] /\ k[1] = Turn /\ Turn \in Context
      BY <1>0, <2>1, TurnIs
    <3>3. map'[k] + 1 \in DOMAIN tbl'[k[1]]
      <4>1. map'[k] + 1 = n
        BY <1>0, <1>2, MapGrows
      <4>2. n \in DOMAIN tbl'[Turn]
        BY <1>0, <1>2, TableGrows
      <4>3. QED BY <3>2, <4>1, <4>2
    <3>4. QpOf(k)'[2] < limit'[QpOf(k)'[1]]
      <4>1. TablesOfDevices'
        BY TablesStep
      <4>2. QED BY <3>2, <3>3, <4>1 DEF TablesOfDevices, QpOf
    <3>5. QED BY <2>1, <3>1, <3>2, <3>4
  <2>5. QED BY <2>2, <2>3, <2>4 DEF QpConfigured
<1>3. CASE Configure
  <2>1. /\ UNCHANGED <<tbl, map, algos, limit>> /\ cdev' = cdev - 1
        /\ nbqp' = [nbqp EXCEPT ![cdev] = qp] /\ nbqp \in [Cdev -> Nat]
        /\ cdev \in Int /\ qp \in Nat
    BY <1>0, <1>3, Bounds DEF Configure, config, TypeOK
  <2>2. ASSUME NEW k \in DOMAIN map, QpOf(k)[1] > cdev - 1
        PROVE  QpOf(k)[2] < nbqp'[QpOf(k)[1]]
    <3>1. /\ k[1] \in Context /\ map[k] + 1 \in DOMAIN tbl[k[1]]
          /\ QpOf(k)[1] \in Cdev /\ QpOf(k)[1] \in Int /\ QpOf(k)[2] \in Nat
      BY <1>0, Bounds DEF QpOf, Cdev
    <3>2. CASE QpOf(k)[1] = cdev
      <4>1. ~ QpOf(k)[2] >= qp
        BY <1>0, <3>1, <3>2, InUse DEF HandedOutBelow, QpOf
      <4>2. nbqp'[QpOf(k)[1]] = qp
        BY <2>1, <3>1, <3>2
      <4>3. QED BY <2>1, <3>1, <4>1, <4>2
    <3>3. CASE QpOf(k)[1] > cdev
      <4>1. nbqp'[QpOf(k)[1]] = nbqp[QpOf(k)[1]]
        BY <2>1, <3>1, <3>3
      <4>2. QED BY <1>0, <3>3, <4>1 DEF QpConfigured
    <3>4. QED BY <2>1, <2>2, <3>1, <3>2, <3>3
  <2>3. \A k \in DOMAIN map : QpOf(k)' = QpOf(k)
    BY <2>1 DEF QpOf
  <2>4. QED BY <1>0, <2>1, <2>2, <2>3 DEF QpConfigured
<1>4. QED BY <1>1, <1>2, <1>3 DEF Next, SkipContext, Advance, initVars, config

\* One more entry of lcore_params has been looked at.
LEMMA VisitedStep ==
  ASSUME TypeOK, Round, Mapping, Advance, NEW v \in 0 .. NbParams - 1, Visited(v)'
  PROVE  v = idx \/ Visited(v)
<1>1. /\ NbParams \in Nat /\ idx \in 0 .. NbParams - 1 /\ i \in 0 .. NbParams - 1
      /\ v \in 0 .. NbParams - 1
  BY Bounds DEF Round, Mapping
<1>2. /\ idx' = (IF idx + 1 = NbParams THEN 0 ELSE idx + 1) /\ i' = i + 1
      /\ NbParams' = NbParams
  BY <1>1, NextParam DEF Advance, config, NbParams
<1>3. CASE idx + 1 = NbParams
  BY <1>1, <1>2, <1>3 DEF Visited
<1>4. CASE idx + 1 # NbParams
  BY <1>1, <1>2, <1>4 DEF Visited
<1>5. QED BY <1>3, <1>4

\* A context served stays so.
LEMMA ServedStays ==
  ASSUME TypeOK, MapsBounded, Round, NEW n \in 1 .. MaxQpPerLcore,
         NEW added \in SUBSET Missing, MapContext(n, added),
         NEW c \in Context, NEW d \in Cdev, Served(c, d)
  PROVE  Served(c, d)'
<1>0. algos' = algos /\ MaxQpPerLcore' = MaxQpPerLcore
  BY DEF MapContext, Advance, config
<1>1. CASE \A a \in algos[d] : <<c, a>> \in DOMAIN map /\ QpOf(<<c, a>>)[1] >= d
  <2>1. DOMAIN map' = DOMAIN map \cup added
    BY MapGrows
  <2>2. \A k \in DOMAIN map : QpOf(k)' = QpOf(k)
    BY QpOfStays
  <2>3. ASSUME NEW a \in algos[d]
        PROVE  <<c, a>> \in DOMAIN map' /\ QpOf(<<c, a>>)'[1] >= d
    BY <1>1, <2>1, <2>2
  <2>4. QED BY <1>0, <2>3 DEF Served
<1>2. CASE Free(c) = 0
  BY <1>2, MapGrows DEF Served
<1>3. CASE Len(tbl[c]) = MaxQpPerLcore
  BY <1>3, TableGrows DEF Served
<1>4. QED BY <1>1, <1>2, <1>3 DEF Served

\* The context whose turn it was is served by the device.
LEMMA ServedNow ==
  ASSUME TypeOK, MapsBounded, Round, TablesOfDevices,
         TypeOK', TablesOfDevices', SkipContext \/
           \E n \in 1 .. MaxQpPerLcore, added \in SUBSET Missing : MapContext(n, added),
         NEW c \in Context, c = Turn
  PROVE  Served(c, cdev)'
<1>0. Mapping /\ algos' = algos /\ cdev' = cdev
  BY DEF SkipContext, MapContext, Advance, config
<1>1. ASSUME NEW k \in DOMAIN map', k[1] = c
      PROVE  QpOf(k)'[1] >= cdev
  <2>1. map'[k] + 1 \in DOMAIN tbl'[c]
    BY <1>1 DEF TypeOK
  <2>2. QED BY <1>0, <1>1, <2>1 DEF TablesOfDevices, QpOf
<1>2. ASSUME Missing \subseteq DOMAIN map', DOMAIN map \subseteq DOMAIN map'
      PROVE  Served(c, cdev)'
  <2>1. ASSUME NEW a \in algos[cdev] PROVE <<c, a>> \in DOMAIN map'
    BY <1>2 DEF Missing
  <2>2. \A a \in algos[cdev] : QpOf(<<c, a>>)'[1] >= cdev
    BY <1>1, <2>1
  <2>3. QED BY <1>0, <2>1, <2>2 DEF Served
<1>3. CASE SkipContext
  <2>1. CASE Missing = {}
    BY <1>2, <1>3, <2>1 DEF SkipContext
  <2>2. CASE Len(tbl[Turn]) = MaxQpPerLcore
    BY <1>3, <2>2 DEF SkipContext, Served
  <2>3. QED BY <1>3, <2>1, <2>2 DEF SkipContext
<1>4. ASSUME NEW n \in 1 .. MaxQpPerLcore, NEW added \in SUBSET Missing,
             MapContext(n, added)
      PROVE  Served(c, cdev)'
  <2>1. DOMAIN map' = DOMAIN map \cup added
    BY <1>4, MapGrows
  <2>2. CASE added = Missing
    BY <1>2, <2>1, <2>2
  <2>3. CASE added # Missing
    <3>1. Free(c)' = 0
      BY <1>4, <2>3, MapGrows
    <3>2. QED BY <3>1 DEF Served
  <2>4. QED BY <2>2, <2>3
<1>5. QED BY <1>3, <1>4

LEMMA OfferedStep == IInv /\ [Next]_initVars => OfferedSoFar'
<1> SUFFICES ASSUME IInv, [Next]_initVars PROVE OfferedSoFar'
  OBVIOUS
<1>0. /\ TypeOK /\ MapsBounded /\ Round /\ TablesOfDevices /\ OfferedSoFar
      /\ TypeOK' /\ TablesOfDevices'
      /\ NbParams \in Nat /\ \A n \in 1 .. NbParams : params[n] \in Context
      /\ cdev \in Int /\ i \in Nat /\ idx \in 0 .. NbParams - 1 /\ i <= NbParams
      /\ qp \in Nat /\ qp <= i /\ \A d \in Cdev : limit[d] \in Nat
  BY Bounds, TypeStep, TablesStep DEF IInv, Round
<1>1. CASE UNCHANGED initVars
  <2>1. \A c, d : Served(c, d)' <=> Served(c, d)
    BY <1>1 DEF initVars, config, Served, QpOf, Free
  <2>2. \A v : Visited(v)' <=> Visited(v)
    BY <1>1 DEF initVars, config, Visited, NbParams
  <2>3. QED BY <1>0, <1>1, <2>1, <2>2 DEF OfferedSoFar, initVars, config, NbParams
<1>2. CASE SkipContext \/
           \E n \in 1 .. MaxQpPerLcore, added \in SUBSET Missing : MapContext(n, added)
  <2>1. /\ Mapping /\ Advance
        /\ UNCHANGED <<params, limit, algos, cdev, nbqp>> /\ NbParams' = NbParams
    BY <1>2 DEF SkipContext, MapContext, Advance, config, NbParams
  <2>2. ASSUME NEW c \in Context, NEW d \in Cdev, Served(c, d)
        PROVE  Served(c, d)'
    <3>1. CASE SkipContext
      BY <2>1, <2>2, <3>1 DEF SkipContext, Served, QpOf, Free
    <3>2. ASSUME NEW n \in 1 .. MaxQpPerLcore, NEW added \in SUBSET Missing,
                 MapContext(n, added)
          PROVE  Served(c, d)'
      BY <1>0, <2>2, <3>2, ServedStays
    <3>3. QED BY <1>2, <3>1, <3>2
  <2>3. ASSUME NEW n \in 1 .. NbParams, Visited(n - 1)'
        PROVE  Served(params[n], cdev)'
    <3>1. n - 1 \in 0 .. NbParams - 1 /\ params[n] \in Context /\ cdev \in Cdev
      BY <1>0, <2>1, TurnIs
    <3>2. CASE n - 1 = idx
      <4>1. params[n] = Turn
        BY <1>0, <3>2 DEF Turn
      <4>2. \A c \in Context : c = Turn => Served(c, cdev)'
        BY <1>0, <1>2, ServedNow
      <4>3. PICK c \in Context : c = params[n]
        BY <3>1
      <4>4. params'[n] = c /\ cdev' = cdev
        BY <2>1, <4>3
      <4>5. QED BY <2>1, <4>1, <4>2, <4>3, <4>4
    <3>3. CASE Visited(n - 1)
      BY <1>0, <2>1, <2>2, <3>1, <3>3 DEF OfferedSoFar, Mapping
    <3>4. QED BY <1>0, <2>1, <2>3, <3>1, <3>2, <3>3, VisitedStep
  <2>4. QED BY <1>0, <2>1, <2>2, <2>3 DEF OfferedSoFar
<1>3. CASE Configure
  <2>1. /\ UNCHANGED <<params, limit, algos, idx, tbl, map>> /\ NbParams' = NbParams
        /\ cdev >= 0 /\ cdev \in Cdev /\ ~ Mapping
        /\ cdev' = cdev - 1 /\ i' = 0 /\ nbqp' = [nbqp EXCEPT ![cdev] = qp]
        /\ nbqp \in [Cdev -> Nat]
    BY <1>0, <1>3, CdevInitAssumption DEF Configure, config, NbParams, TypeOK, Cdev
  <2>2. \A c, d : Served(c, d)' <=> Served(c, d)
    BY <2>1 DEF Served, QpOf, Free
  <2>3. ASSUME NEW n \in 1 .. NbParams PROVE ~ Visited(n - 1)'
    <3>1. n - 1 \in 0 .. NbParams - 1
      BY <1>0
    <3>2. QED BY <1>0, <2>1, <3>1 DEF Visited
  <2>4. ASSUME NEW n \in 1 .. NbParams
        PROVE  Served(params[n], cdev) \/ qp = limit[cdev]
    <3>1. CASE i = NbParams
      <4>1. n - 1 \in 0 .. NbParams - 1
        BY <1>0
      <4>2. Visited(n - 1)
        BY <1>0, <3>1, <4>1 DEF Visited
      <4>3. QED BY <1>0, <2>1, <4>2 DEF OfferedSoFar
    <3>2. CASE i # NbParams
      BY <1>0, <2>1, <3>2 DEF Mapping, Smaller, IInv, Round
    <3>3. QED BY <3>1, <3>2
  <2>5. ASSUME NEW n \in 1 .. NbParams, NEW d \in Cdev, d > cdev - 1
        PROVE  Served(params[n], d) \/ nbqp'[d] = limit[d]
    <3>1. d \in Int
      BY DEF Cdev
    <3>2. CASE d = cdev
      BY <2>1, <2>4, <3>2
    <3>3. CASE d > cdev
      BY <1>0, <2>1, <3>1, <3>3 DEF OfferedSoFar
    <3>4. QED BY <1>0, <2>5, <3>1, <3>2, <3>3
  <2>6. QED BY <2>1, <2>2, <2>3, <2>5 DEF OfferedSoFar
<1>4. QED BY <1>1, <1>2, <1>3 DEF Next

LEMMA IInvInit == Init => IInv
<1> SUFFICES ASSUME Init PROVE IInv
  OBVIOUS
<1>1. TypeOK
  BY TypeInit
<1>2. /\ NbParams \in Nat /\ NbParams > 0 /\ NbCdevs \in Nat /\ MapEntries \in Nat
      /\ \A d \in Cdev : limit[d] \in Nat
  BY <1>1, Bounds
<1>3. /\ DOMAIN map = {} /\ \A c \in Context : tbl[c] = <<>>
      /\ cdev = NbCdevs - 1 /\ idx = 0 /\ i = 0 /\ qp = 0
  BY DEF Init
<1>4. MapsBounded
  <2>1. \A c \in Context : Free(c) = MapEntries - Cardinality({})
    <3> TAKE c \in Context
    <3>1. {k \in DOMAIN map : k[1][2] = c[2]} = {}
      BY <1>3
    <3>2. QED BY <3>1 DEF Free
  <2>2. QED BY <1>2, <1>3, <2>1, FS_EmptySet DEF MapsBounded
<1>5. Round
  BY <1>2, <1>3 DEF Round, Cdev
<1>6. TablesOfDevices /\ HandedOutBelow /\ QpPrivate
  BY <1>3 DEF TablesOfDevices, HandedOutBelow, QpPrivate
<1>7. QpConfigured
  BY <1>3 DEF QpConfigured
<1>8. OfferedSoFar
  <2>1. \A n \in 1 .. NbParams : ~ Visited(n - 1)
    BY <1>2, <1>3 DEF Visited
  <2>2. \A d \in Cdev : ~ d > cdev
    BY <1>2, <1>3 DEF Cdev
  <2>3. QED BY <2>1, <2>2 DEF OfferedSoFar
<1>9. QED BY <1>1, <1>4, <1>5, <1>6, <1>7, <1>8 DEF IInv

LEMMA Invariance == Spec => []IInv
<1>1. Init => IInv
  BY IInvInit
<1>2. IInv /\ [Next]_initVars => IInv'
  BY TypeStep, RoundStep, MapsBoundedStep, TablesStep, HandedOutStep, EntriesStep,
     ConfiguredStep, OfferedStep DEF IInv
<1>3. QED BY <1>1, <1>2, PTL DEF Spec

-----------------------------------------------------------------------------
(* The theorems. *)

LEMMA PriorityNow == IInv => HwPriority
<1> SUFFICES ASSUME IInv, cdev = -1, NEW n \in 1 .. NbParams, NEW d \in Cdev,
                    NEW a \in algos[d]
             PROVE  \/ /\ <<params[n], a>> \in DOMAIN map
                       /\ QpOf(<<params[n], a>>)[1] >= d
                    \/ nbqp[d] = limit[d]
                    \/ Free(params[n]) = 0
                    \/ Len(tbl[params[n]]) = MaxQpPerLcore
  BY DEF HwPriority
<1>1. d > cdev
  BY DEF Cdev
<1>2. QED BY <1>1 DEF IInv, OfferedSoFar, Served

\* Types: in particular every key leads to an entry its context's table has.
THEOREM TypeCorrect == Spec => []TypeOK
  BY Invariance, PTL DEF IInv

\* The tables of two contexts have a queue pair in common, so that their
\* lcores may enqueue on it without a lock, only where the hash map of one of
\* them was full when add_mapping had already filled its entry in.
THEOREM QueuePairsPrivate == Spec => []QpPrivate
  BY Invariance, PTL DEF IInv

\* The queue pairs the keys lead to exist on their device, can run the key's
\* algorithms, and are within nb_queue_pairs once the device is configured.
THEOREM QueuePairsConfigured == Spec => []QpConfigured
  BY Invariance, PTL DEF IInv

\* At the end of cryptodevs_init every context was served by the last device
\* that can run an algorithm, unless its queue pairs or a table ran out.
THEOREM HardwareFirst == Spec => []HwPriority
<1>1. IInv => HwPriority
  BY PriorityNow
<1>2. QED BY <1>1, Invariance, PTL

-----------------------------------------------------------------------------
(***************************************************************************)
(* 2. The sessions of shared SAs: SaSession.                               *)
(***************************************************************************)

(***************************************************************************)
(* The inductive invariant, part by part.                                  *)
(***************************************************************************)

\* The lcores start when the crypto devices are set up.
Started ==
  cdev # -1 =>
    /\ \A c \in User : at[c] = "idle"
    /\ \A s \in Sa : session[s] = NoSession /\ cdev_id_qp[s] = 0

\* A packet under way is one of an SA, of a context that gets packets.
Working ==
  \A c \in User :
    /\ at[c] # "idle" => c \in Serving /\ cur[c] \in Sa
    /\ at[c] \in {"create", "index"} => found[c] + 1 \in DOMAIN tbl[c]

\* The queue pair of context c that SA s leads to is one of device d, or d is
\* no device at all.
LeadsTo(c, s, d) ==
  /\ cdev_id_qp[s] + 1 \in DOMAIN tbl[c]
  /\ d \in {NoSession, tbl[c][cdev_id_qp[s] + 1][1]}

\* With one lcore an SA that has a session carries the index that goes with
\* it, but for the moment between the two stores of create_session.
AloneInv ==
  \A c \in Serving :
    (\A e \in Serving : e = c) =>
      /\ \A s \in Sa :
           session[s] # NoSession /\ ~ (at[c] = "index" /\ cur[c] = s)
             => LeadsTo(c, s, session[s])
      /\ at[c] = "index" => session[cur[c]] \in {NoSession, tbl[c][found[c] + 1][1]}
      /\ at[c] = "attach" => LeadsTo(c, cur[c], session[cur[c]])
      /\ at[c] = "enqueue" => LeadsTo(c, cur[c], op[c])

\* With one queue pair of the same device each there is one index, and one
\* device to create sessions on.
UniformInv ==
  \A d \in Cdev :
    (\A c \in Serving : Len(tbl[c]) = 1 /\ tbl[c][1][1] = d) =>
      /\ \A s \in Sa : session[s] \in {NoSession, d} /\ cdev_id_qp[s] = 0
      /\ \A c \in User : at[c] = "enqueue" => op[c] \in {NoSession, d}

SaInv == IInv /\ TypeOKSa /\ Started /\ Working /\ AloneInv /\ UniformInv

-----------------------------------------------------------------------------
(* What the actions do, as the proofs below use it. *)

\* The setup is over when cdev is -1.
LEMMA SetUpEnds == ASSUME TypeOK, Next PROVE cdev # -1
<1>1. Mapping => cdev # -1
  BY DEF Mapping
<1>2. QED BY <1>1 DEF Next, SkipContext, MapContext, Configure

\* A step of an lcore is taken after the setup and leaves its results alone.
LEMMA LcoreStep ==
  ASSUME TypeOK, Started, Working, [NextSa]_varsSa
  PROVE  \/ Next /\ cdev # -1 /\ UNCHANGED <<shared, local>>
         \/ UNCHANGED varsSa
         \/ /\ cdev = -1 /\ UNCHANGED initVars /\ Serving' = Serving
            /\ \E c \in Serving : \/ \E s \in Sa : Reuse(c, s) \/ Lookup(c, s)
                                  \/ StoreSession(c) \/ StoreIndex(c)
                                  \/ Attach(c) \/ Enqueue(c)
<1>1. CASE Next /\ UNCHANGED <<shared, local>>
  BY <1>1, SetUpEnds
<1>2. ASSUME NEW c \in User, NEW s \in Sa, Reuse(c, s) \/ Lookup(c, s)
      PROVE  cdev = -1 /\ c \in Serving /\ UNCHANGED initVars
  BY <1>2 DEF Reuse, Lookup
<1>3. ASSUME NEW c \in User,
             StoreSession(c) \/ StoreIndex(c) \/ Attach(c) \/ Enqueue(c)
      PROVE  cdev = -1 /\ c \in Serving /\ UNCHANGED initVars
  <2>1. at[c] # "idle" /\ UNCHANGED initVars
    BY <1>3 DEF StoreSession, StoreIndex, Attach, Enqueue
  <2>2. QED BY <2>1 DEF Started, Working
<1>4. UNCHANGED initVars => Serving' = Serving
  BY DEF initVars, config, Serving, NbParams
<1>5. QED BY <1>1, <1>2, <1>3, <1>4 DEF NextSa

\* The contexts that get packets.
LEMMA ServingFinite == ASSUME TypeOK PROVE IsFiniteSet(Serving)
<1> DEFINE f == [n \in 1 .. NbParams |-> params[n]]
           S == {params[n] : n \in 1 .. NbParams}
<1>1. IsFiniteSet(1 .. NbParams)
  BY Bounds, FS_Interval
<1>2. f \in Surjection(1 .. NbParams, S)
  BY DEF Surjection
<1>3. IsFiniteSet(S)
  BY <1>1, <1>2, FS_Surjection
<1>4. Serving \subseteq S
  BY DEF Serving
<1>5. QED BY <1>3, <1>4, FS_Subset

\* With at most one of them, they are all the same.
LEMMA AloneIsOne ==
  ASSUME TypeOK, Alone, NEW c \in Serving, NEW e \in Serving
  PROVE  e = c
<1>1. IsFiniteSet(Serving) /\ Cardinality(Serving) \in Nat
  BY ServingFinite, FS_CardinalityType
<1>2. Cardinality(Serving) # 0
  BY <1>1, FS_EmptySet
<1>3. Cardinality(Serving) = 1
  BY <1>1, <1>2 DEF Alone
<1>4. QED BY <1>1, <1>3, FS_Singleton

-----------------------------------------------------------------------------
(* Each part of the invariant is preserved. *)

LEMMA SaTypeStep == SaInv /\ TypeOK' /\ [NextSa]_varsSa => TypeOKSa'
<1> SUFFICES ASSUME SaInv, TypeOK', [NextSa]_varsSa PROVE TypeOKSa'
  OBVIOUS
<1>0. TypeOKSa /\ Working /\ TypeOK /\ Started
  BY DEF SaInv, TypeOKSa
<1>1. CASE UNCHANGED <<shared, local>>
  BY <1>0, <1>1 DEF TypeOKSa, shared, local
<1>2. ASSUME NEW c \in Serving, NEW s \in Sa, Reuse(c, s)
      PROVE  TypeOKSa'
  BY <1>0, <1>2 DEF TypeOKSa, Reuse, shared
<1>3. ASSUME NEW c \in Serving, NEW s \in Sa, Lookup(c, s)
      PROVE  TypeOKSa'
  <2>1. map[<<c, SaAlgo[s]>>] \in Nat
    BY <1>0, <1>3, Bounds DEF Lookup
  <2>2. QED BY <1>0, <1>3, <2>1 DEF TypeOKSa, Lookup, shared
<1>4. ASSUME NEW c \in Serving, StoreSession(c)
      PROVE  TypeOKSa'
  <2>1. tbl[c][found[c] + 1][1] \in Cdev
    <3>1. c \in User /\ c \in Context
      BY DEF Serving, User
    <3>2. found[c] + 1 \in DOMAIN tbl[c]
      BY <1>0, <1>4, <3>1 DEF Working, StoreSession
    <3>3. QED BY <1>0, <3>1, <3>2, Bounds
  <2>2. PICK d \in Cdev \cup {NoSession} : session' = [session EXCEPT ![cur[c]] = d]
    BY <1>4, <2>1 DEF StoreSession
  <2>3. session' \in [Sa -> Cdev \cup {NoSession}]
    BY <1>0, <2>2 DEF TypeOKSa
  <2>4. at' \in [User -> {"idle", "create", "index", "attach", "enqueue"}]
    BY <1>0, <1>4 DEF TypeOKSa, StoreSession
  <2>5. QED BY <1>0, <1>4, <2>3, <2>4 DEF TypeOKSa, StoreSession
<1>5. ASSUME NEW c \in Serving, StoreIndex(c)
      PROVE  TypeOKSa'
  <2>1. found[c] \in Nat
    BY <1>0 DEF TypeOKSa, Serving
  <2>2. QED BY <1>0, <1>5, <2>1 DEF TypeOKSa, StoreIndex
<1>6. ASSUME NEW c \in Serving, Attach(c)
      PROVE  TypeOKSa'
  <2>1. session[cur[c]] \in Cdev \cup {NoSession}
    BY <1>0, <1>6 DEF TypeOKSa, Working, Attach, Serving
  <2>2. QED BY <1>0, <1>6, <2>1 DEF TypeOKSa, Attach, shared
<1>7. ASSUME NEW c \in Serving, Enqueue(c)
      PROVE  TypeOKSa'
  BY <1>0, <1>7 DEF TypeOKSa, Enqueue, shared
<1>8. QED BY <1>0, <1>1, <1>2, <1>3, <1>4, <1>5, <1>6, <1>7, LcoreStep DEF varsSa

LEMMA StartedStep == SaInv /\ TypeOK' /\ [NextSa]_varsSa => Started'
<1> SUFFICES ASSUME SaInv, TypeOK', [NextSa]_varsSa PROVE Started'
  OBVIOUS
<1>0. TypeOK /\ Working /\ Started
  BY DEF SaInv, TypeOKSa
<1>1. CASE cdev # -1 /\ UNCHANGED <<shared, local>>
  BY <1>0, <1>1 DEF Started, shared, local
<1>2. CASE UNCHANGED varsSa
  BY <1>0, <1>2 DEF Started, varsSa, shared, local, initVars
<1>3. CASE cdev = -1 /\ UNCHANGED initVars
  BY <1>3 DEF Started, initVars
<1>4. QED BY <1>0, <1>1, <1>2, <1>3, LcoreStep

LEMMA WorkingStep == SaInv /\ TypeOK' /\ [NextSa]_varsSa => Working'
<1> SUFFICES ASSUME SaInv, TypeOK', [NextSa]_varsSa PROVE Working'
  OBVIOUS
<1>0. TypeOKSa /\ TypeOK /\ Working /\ Started /\ NoSa \notin Sa
  BY SaSessionAssumption DEF SaInv, TypeOKSa, NoSa
<1>1. CASE cdev # -1 /\ UNCHANGED <<shared, local>>
  BY <1>0, <1>1 DEF Working, Started, local
<1>2. CASE UNCHANGED varsSa
  BY <1>0, <1>2 DEF Working, Serving, NbParams, varsSa, local, initVars, config
<1>3. ASSUME cdev = -1, UNCHANGED initVars, Serving' = Serving, NEW c \in Serving,
             \/ \E s \in Sa : Reuse(c, s) \/ Lookup(c, s)
             \/ StoreSession(c) \/ StoreIndex(c) \/ Attach(c) \/ Enqueue(c)
      PROVE  Working'
  <2>1. tbl' = tbl /\ c \in User /\ c \in Context
    BY <1>3 DEF initVars, Serving, User
  <2>2. ASSUME NEW e \in User, e # c
        PROVE  at'[e] = at[e] /\ cur'[e] = cur[e] /\ found'[e] = found[e]
    BY <1>0, <1>3, <2>1, <2>2
       DEF TypeOKSa, Reuse, Lookup, StoreSession, StoreIndex, Attach, Enqueue
  <2>3. /\ at'[c] # "idle" => cur'[c] \in Sa
        /\ at'[c] \in {"create", "index"} => found'[c] + 1 \in DOMAIN tbl[c]
    <3>1. ASSUME NEW s \in Sa, Reuse(c, s)
          PROVE  at'[c] = "attach" /\ cur'[c] \in Sa
      BY <1>0, <2>1, <3>1 DEF TypeOKSa, Reuse
    <3>2. ASSUME NEW s \in Sa, Lookup(c, s)
          PROVE  cur'[c] \in Sa /\ found'[c] + 1 \in DOMAIN tbl[c]
      <4>1. cur'[c] = s /\ found'[c] = map[<<c, SaAlgo[s]>>]
            /\ <<c, SaAlgo[s]>> \in DOMAIN map
        BY <1>0, <2>1, <3>2 DEF TypeOKSa, Lookup
      <4>2. map[<<c, SaAlgo[s]>>] + 1 \in DOMAIN tbl[c]
        BY <1>0, <4>1, Bounds
      <4>3. QED BY <4>1, <4>2
    <3>3. CASE StoreSession(c)
      BY <1>0, <2>1, <3>3 DEF TypeOKSa, Working, StoreSession
    <3>4. CASE StoreIndex(c) \/ Attach(c)
      BY <1>0, <2>1, <3>4 DEF TypeOKSa, Working, StoreIndex, Attach
    <3>5. CASE Enqueue(c)
      BY <1>0, <2>1, <3>5 DEF TypeOKSa, Enqueue
    <3>6. QED BY <1>3, <3>1, <3>2, <3>3, <3>4, <3>5
  <2>4. QED BY <1>0, <1>3, <2>1, <2>2, <2>3 DEF Working
<1>4. QED BY <1>0, <1>1, <1>2, <1>3, LcoreStep

LEMMA AloneStep == SaInv /\ TypeOK' /\ [NextSa]_varsSa => AloneInv'
<1> SUFFICES ASSUME SaInv, TypeOK', [NextSa]_varsSa PROVE AloneInv'
  OBVIOUS
<1>0. TypeOKSa /\ TypeOK /\ Working /\ Started /\ AloneInv /\ Serving \subseteq User
  BY DEF SaInv, TypeOKSa, Serving
<1>1. CASE cdev # -1 /\ UNCHANGED <<shared, local>>
  <2>1. \A c \in User : at'[c] = "idle"
    BY <1>0, <1>1 DEF Started, local
  <2>2. \A s \in Sa : session'[s] = NoSession
    BY <1>0, <1>1 DEF Started, shared
  <2>3. Serving' \subseteq User
    BY DEF Serving, User
  <2>4. QED BY <2>1, <2>2, <2>3 DEF AloneInv
<1>2. CASE UNCHANGED varsSa
  BY <1>0, <1>2 DEF AloneInv, LeadsTo, Serving, NbParams,
                    varsSa, shared, local, initVars, config
<1>3. ASSUME cdev = -1, UNCHANGED initVars, Serving' = Serving, NEW c \in Serving,
             \/ \E s \in Sa : Reuse(c, s) \/ Lookup(c, s)
             \/ StoreSession(c) \/ StoreIndex(c) \/ Attach(c) \/ Enqueue(c)
      PROVE  AloneInv'
  <2> SUFFICES ASSUME \A e \in Serving : e = c
               PROVE  /\ \A s \in Sa :
                           session'[s] # NoSession /\ ~ (at'[c] = "index" /\ cur'[c] = s)
                             => LeadsTo(c, s, session[s])'
                      /\ at'[c] = "index" =>
                           session'[cur'[c]] \in {NoSession, tbl[c][found'[c] + 1][1]}
                      /\ at'[c] = "attach" => LeadsTo(c, cur[c], session[cur[c]])'
                      /\ at'[c] = "enqueue" => LeadsTo(c, cur[c], op[c])'
    BY <1>3 DEF AloneInv, initVars
  <2>1. /\ tbl' = tbl /\ c \in User /\ c \in Context /\ c \in DOMAIN at
        /\ c \in DOMAIN cur /\ c \in DOMAIN found /\ c \in DOMAIN op
    BY <1>0, <1>3 DEF initVars, Serving, User, TypeOKSa
  <2>2. /\ at[c] # "idle" => cur[c] \in Sa
        /\ at[c] \in {"create", "index"} => found[c] + 1 \in DOMAIN tbl[c]
        /\ \A s \in Sa : session[s] # NoSession /\ ~ (at[c] = "index" /\ cur[c] = s)
                           => LeadsTo(c, s, session[s])
        /\ at[c] = "index" => session[cur[c]] \in {NoSession, tbl[c][found[c] + 1][1]}
        /\ at[c] = "attach" => LeadsTo(c, cur[c], session[cur[c]])
        /\ at[c] = "enqueue" => LeadsTo(c, cur[c], op[c])
        /\ session \in [Sa -> Cdev \cup {NoSession}] /\ cdev_id_qp \in [Sa -> Nat]
    BY <1>0, <2>1 DEF Working, AloneInv, TypeOKSa
  <2>3. ASSUME NEW s \in Sa, Reuse(c, s)
        PROVE  at'[c] = "attach" /\ cur'[c] = s /\ UNCHANGED shared /\ at[c] = "idle"
               /\ session[s] # NoSession
    BY <2>1, <2>3 DEF Reuse
  <2>4. CASE \E s \in Sa : Reuse(c, s)
    BY <2>1, <2>2, <2>3, <2>4 DEF LeadsTo, shared
  <2>5. ASSUME NEW s \in Sa, Lookup(c, s)
        PROVE  at'[c] = "create" /\ UNCHANGED shared /\ at[c] = "idle"
    BY <2>1, <2>5 DEF Lookup
  <2>6. CASE \E s \in Sa : Lookup(c, s)
    BY <2>1, <2>2, <2>5, <2>6 DEF LeadsTo, shared
  <2>7. CASE StoreSession(c)
    <3>1. /\ at[c] = "create" /\ at'[c] = "index"
          /\ UNCHANGED <<cdev_id_qp, cur, found, op>> /\ cur[c] \in Sa
      BY <2>1, <2>2, <2>7 DEF StoreSession
    <3>2. PICK d \in {tbl[c][found[c] + 1][1], NoSession} :
                 session' = [session EXCEPT ![cur[c]] = d]
      BY <2>7 DEF StoreSession
    <3>3. session'[cur[c]] = d /\ \A s \in Sa : s # cur[c] => session'[s] = session[s]
      BY <2>2, <3>1, <3>2
    <3>4. QED BY <2>1, <2>2, <3>1, <3>2, <3>3 DEF LeadsTo
  <2>8. CASE StoreIndex(c)
    <3>1. /\ at[c] = "index" /\ at'[c] = "attach"
          /\ UNCHANGED <<session, cur, found, op>> /\ cur[c] \in Sa
          /\ cdev_id_qp'[cur[c]] = found[c]
          /\ \A s \in Sa : s # cur[c] => cdev_id_qp'[s] = cdev_id_qp[s]
      BY <2>1, <2>2, <2>8 DEF StoreIndex
    <3>2. LeadsTo(c, cur[c], session[cur[c]])'
      BY <2>1, <2>2, <3>1 DEF LeadsTo
    <3>3. ASSUME NEW s \in Sa, session'[s] # NoSession PROVE LeadsTo(c, s, session[s])'
      BY <2>1, <2>2, <3>1, <3>2, <3>3 DEF LeadsTo
    <3>4. QED BY <3>1, <3>2, <3>3
  <2>9. CASE Attach(c)
    <3>1. /\ at[c] = "attach" /\ at'[c] = "enqueue"
          /\ UNCHANGED <<session, cdev_id_qp, cur, found>>
          /\ op'[c] = session[cur[c]]
      BY <2>1, <2>9 DEF Attach, shared
    <3>2. QED BY <2>1, <2>2, <3>1 DEF LeadsTo
  <2>10. CASE Enqueue(c)
    <3>1. at[c] = "enqueue" /\ at'[c] = "idle" /\ UNCHANGED <<session, cdev_id_qp>>
      BY <2>1, <2>10 DEF Enqueue, shared
    <3>2. QED BY <2>1, <2>2, <3>1 DEF LeadsTo
  <2>11. QED BY <1>3, <2>4, <2>6, <2>7, <2>8, <2>9, <2>10
<1>4. QED BY <1>0, <1>1, <1>2, <1>3, LcoreStep

LEMMA UniformStep == SaInv /\ TypeOK' /\ [NextSa]_varsSa => UniformInv'
<1> SUFFICES ASSUME SaInv, TypeOK', [NextSa]_varsSa PROVE UniformInv'
  OBVIOUS
<1>0. TypeOKSa /\ TypeOK /\ Working /\ Started /\ UniformInv /\ Serving \subseteq User
  BY DEF SaInv, TypeOKSa, Serving
<1>1. CASE cdev # -1 /\ UNCHANGED <<shared, local>>
  <2>1. \A c \in User : at'[c] = "idle"
    BY <1>0, <1>1 DEF Started, local
  <2>2. \A s \in Sa : session'[s] = NoSession /\ cdev_id_qp'[s] = 0
    BY <1>0, <1>1 DEF Started, shared
  <2>3. QED BY <2>1, <2>2 DEF UniformInv
<1>2. CASE UNCHANGED varsSa
  BY <1>0, <1>2 DEF UniformInv, Serving, NbParams,
                    varsSa, shared, local, initVars, config
<1>3. ASSUME cdev = -1, UNCHANGED initVars, Serving' = Serving, NEW c \in Serving,
             \/ \E s \in Sa : Reuse(c, s) \/ Lookup(c, s)
             \/ StoreSession(c) \/ StoreIndex(c) \/ Attach(c) \/ Enqueue(c)
      PROVE  UniformInv'
  <2> SUFFICES ASSUME NEW d \in Cdev,
                      \A e \in Serving : Len(tbl[e]) = 1 /\ tbl[e][1][1] = d
               PROVE  /\ \A s \in Sa : session'[s] \in {NoSession, d} /\ cdev_id_qp'[s] = 0
                      /\ \A e \in User : at'[e] = "enqueue" => op'[e] \in {NoSession, d}
    BY <1>3 DEF UniformInv, initVars
  <2>1. /\ tbl' = tbl /\ c \in User /\ c \in Context
        /\ tbl[c][1][1] = d /\ Len(tbl[c]) = 1
    BY <1>0, <1>3 DEF initVars, Serving, User
  <2>2. /\ \A s \in Sa : session[s] \in {NoSession, d} /\ cdev_id_qp[s] = 0
        /\ \A e \in User : at[e] = "enqueue" => op[e] \in {NoSession, d}
    BY <1>0 DEF UniformInv
  <2>3. at[c] \in {"create", "index"} => found[c] = 0
    <3>1. DOMAIN tbl[c] = 1 .. 1 /\ found[c] \in Nat
      BY <1>0, <2>1, Bounds DEF TypeOKSa
    <3>2. QED BY <1>0, <2>1, <3>1 DEF Working
  <2>4. CASE \E s \in Sa : Reuse(c, s) \/ Lookup(c, s)
    BY <1>0, <2>1, <2>2, <2>4 DEF TypeOKSa, Reuse, Lookup, shared
  <2>5. CASE StoreSession(c)
    <3>1. PICK x \in {d, NoSession} : session' = [session EXCEPT ![cur[c]] = x]
      <4>1. found[c] = 0
        BY <2>3, <2>5 DEF StoreSession
      <4>2. tbl[c][found[c] + 1][1] = d
        BY <2>1, <4>1
      <4>3. QED BY <2>5, <4>2 DEF StoreSession
    <3>2. \A s \in Sa : session'[s] \in {NoSession, d}
      BY <1>0, <2>2, <3>1 DEF TypeOKSa
    <3>3. UNCHANGED <<cdev_id_qp, op>> /\ \A e \in User : at'[e] = "enqueue" => at[e] = "enqueue"
      BY <1>0, <2>1, <2>5 DEF TypeOKSa, StoreSession
    <3>4. QED BY <2>2, <3>2, <3>3
  <2>6. CASE StoreIndex(c)
    BY <1>0, <2>1, <2>2, <2>3, <2>6 DEF TypeOKSa, StoreIndex
  <2>7. CASE Attach(c)
    <3>1. cur[c] \in Sa
      BY <1>0, <2>1, <2>7 DEF Working, Attach
    <3>2. QED BY <1>0, <2>1, <2>2, <2>7, <3>1 DEF TypeOKSa, Attach, shared
  <2>8. CASE Enqueue(c)
    BY <1>0, <2>1, <2>2, <2>8 DEF TypeOKSa, Enqueue, shared
  <2>9. QED BY <1>3, <2>4, <2>5, <2>6, <2>7, <2>8
<1>4. QED BY <1>0, <1>1, <1>2, <1>3, LcoreStep

-----------------------------------------------------------------------------
(* The setup goes on below the lcores as if they were not there. *)

LEMMA NextSaIsNext == [NextSa]_varsSa => [Next]_initVars
<1> SUFFICES ASSUME [NextSa]_varsSa PROVE [Next]_initVars
  OBVIOUS
<1>1. ASSUME NEW c \in User,
             \/ \E s \in Sa : Reuse(c, s) \/ Lookup(c, s)
             \/ StoreSession(c) \/ StoreIndex(c) \/ Attach(c) \/ Enqueue(c)
      PROVE  UNCHANGED initVars
  BY <1>1 DEF Reuse, Lookup, StoreSession, StoreIndex, Attach, Enqueue
<1>2. QED BY <1>1 DEF NextSa, varsSa

\* SaSession implements CdevInit: whatever the lcores do with their packets,
\* the tables of queue pairs and the hash maps are those of a setup run of
\* cryptodevs_init, and stay so.
THEOREM SessionsKeepSetup == SpecSa => Spec
<1>1. InitSa => Init
  BY DEF InitSa
<1>2. [NextSa]_varsSa => [Next]_initVars
  BY NextSaIsNext
<1>3. QED BY <1>1, <1>2, PTL DEF SpecSa, Spec

LEMMA SaInvInit == InitSa => SaInv
<1> SUFFICES ASSUME InitSa PROVE SaInv
  OBVIOUS
<1>1. IInv /\ TypeOK
  BY IInvInit DEF InitSa, IInv
<1>2. TypeOKSa /\ Working /\ Started
  BY <1>1 DEF InitSa, TypeOKSa, Working, Started
<1>3. AloneInv
  BY DEF InitSa, AloneInv, Serving
<1>4. UniformInv
  BY DEF InitSa, UniformInv
<1>5. QED BY <1>1, <1>2, <1>3, <1>4 DEF SaInv

LEMMA SaInvariance == SpecSa => []SaInv
<1>1. InitSa => SaInv
  BY SaInvInit
<1>2. SaInv /\ [NextSa]_varsSa => IInv'
  <2>1. IInv /\ [Next]_initVars => IInv'
    BY TypeStep, RoundStep, MapsBoundedStep, TablesStep, HandedOutStep, EntriesStep,
       ConfiguredStep, OfferedStep DEF IInv
  <2>2. QED BY <2>1, NextSaIsNext DEF SaInv
<1>3. IInv' => TypeOK'
  BY DEF IInv
<1>4. SaInv /\ [NextSa]_varsSa => SaInv'
  BY <1>2, <1>3, SaTypeStep, StartedStep, WorkingStep, AloneStep, UniformStep DEF SaInv
<1>5. QED BY <1>1, <1>4, PTL DEF SpecSa

\* Types, and that what a lcore found is in its context's table.
THEOREM SaTypeCorrect == SpecSa => []TypeOKSa
  BY SaInvariance, PTL DEF SaInv

LEMMA OnDeviceNow == SaInv => SessionOnDevice
<1> SUFFICES ASSUME SaInv, Alone \/ Uniform, NEW c \in User, at[c] = "enqueue"
             PROVE  /\ cdev_id_qp[cur[c]] < Len(tbl[c])
                    /\ op[c] \in {NoSession, tbl[c][cdev_id_qp[cur[c]] + 1][1]}
  BY DEF SessionOnDevice
<1>1. /\ TypeOK /\ c \in Serving /\ c \in Context /\ cur[c] \in Sa
      /\ cdev_id_qp[cur[c]] \in Nat
  BY DEF SaInv, TypeOKSa, Working, User
<1>2. Len(tbl[c]) \in Nat /\ DOMAIN tbl[c] = 1 .. Len(tbl[c])
  BY <1>1, Bounds
<1>3. CASE Alone
  <2>1. LeadsTo(c, cur[c], op[c])
    BY <1>1, <1>3, AloneIsOne DEF SaInv, AloneInv
  <2>2. QED BY <1>1, <1>2, <2>1 DEF LeadsTo
<1>4. CASE Uniform
  <2>1. PICK d \in Cdev : \A e \in Serving : Len(tbl[e]) = 1 /\ tbl[e][1][1] = d
    BY <1>4 DEF Uniform
  <2>2. cdev_id_qp[cur[c]] = 0 /\ op[c] \in {NoSession, d}
    BY <1>1, <2>1 DEF SaInv, UniformInv
  <2>3. QED BY <1>1, <2>1, <2>2
<1>5. QED BY <1>3, <1>4

\* An op goes to a queue pair of the device its session was created on, if
\* one lcore serves the direction or all have one queue pair of one device,
\* however many lcores create the session and use it at the same time.
THEOREM SessionsOnDevice == SpecSa => []SessionOnDevice
<1>1. SaInv => SessionOnDevice
  BY OnDeviceNow
<1>2. QED BY <1>1, SaInvariance, PTL
=============================================================================
