# privacy-domain: specification and proofs

The repository holds two programs built on DPDK 17.02 that do not share code:

- `ipsec_eval`, an IPsec gateway: it encrypts and decrypts the packets between
  protected and unprotected ports, through asynchronous crypto devices;
- `nat_eval`, a stateless NAT: it replaces source addresses and ports by their
  encryption, so it keeps no table of flows.

This directory models their core logic in TLA+, checks it with TLC on small
instances and proves what matters most for all instances with TLAPS.
`PROJECT.json` gives, for each definition, the lines of source it stands for.

    tlc -workers 2 -config MCCryptoQueue.cfg MCCryptoQueue.tla
    tlapm CryptoQueueProofs.tla

## The system

### ipsec_eval

| component | state | operations | correct when |
|---|---|---|---|
| crypto path (`ipsec.c`) | per context (lcore and direction): `tbl[]` of `cdev_qp` with a partial burst `buf[]`, `len`, `in_flight`; `last_qp` | `ipsec_inbound`, `ipsec_outbound`: `ipsec_enqueue`, `enqueue_cop`, `ipsec_dequeue` | every mbuf is owned once; `in_flight` is what the device holds; no array overruns; no queue pair starves |
| packet processing (`ipsec-secgw.c`) | `struct ipsec_traffic` per burst, `tx_mbufs[port]`, `priv->sa` in each mbuf | `main_loop`, `process_pkts`, `route4/6_pkts`, `send_burst`, `drain_buffers` | only what the policy allows leaves, in the form it asks for; packets of an SA stay in order |
| device setup (`ipsec-secgw.c`) | `cdev_map_in`, `cdev_map_out`, the contexts' tables | `cryptodevs_init`, `add_cdev_mapping`, `add_mapping` | contexts share no queue pair and use configured ones; later devices are preferred |
| shared SAs (`ipsec.c`, `sa.c`) | `crypto_session`, `cdev_id_qp`, `seq`, shared by the lcores of a socket, no lock | `create_session`, `ipsec_enqueue` | an op goes to the device that has its session; sequence numbers are unique |
| ESP (`esp.c`, `ipip.h`) | the packet, `sa->seq` | `esp_inbound`, `esp_outbound` and their `_post` | decapsulation undoes encapsulation |
| SA, SP and route tables (`sa.c`, `sp4.c`, `sp6.c`, `rt.c`) | arrays filled while parsing, then tables in shared memory | `parse_*_tokens`, `*_init`, lookups | a packet of the peer finds its SA; policies and routes mean what the file says |
| parser (`parser.c`) | the line being continued, the status | `parse_cfg_file` | a line is applied once and entirely, or the start fails |
| start (`ipsec-secgw.c`) | ports, queues, pools, lcore lists | `main`, `parse_args`, `port_init`, `pool_init` | what an lcore polls and sends to is set up, and its own |

One lcore runs its receive loop alone. It shares the SAs with the other lcores
of its socket, and works beside the crypto devices and NICs, which take and
return mbufs at their own pace. The hard behaviours are there: ops are kept in
a partial burst until 32 have come, so packets are handed back among those of
later bursts; devices and NICs accept part of a burst; everything that is
refused on the way must be freed once; and the SAs are written without a lock
when their first packet arrives.

### nat_eval

| component | state | operations | correct when |
|---|---|---|---|
| address table (`nat.c`) | `prefix_tbl`, `idx_tbl`, `MAX_IDX`, `MAX_PREFIX` | `load_rtbl`, `idx_to_ip`, `ip_to_idx` | the two lookups are inverse and give what the file says |
| translation (`nat.c`) | the packet's addresses, port and checksums; global tweaks for RC5 | `process_outgoing_pkt`, `process_incoming_pkt` | two flows of the inside are never one outside, and no inside address is shown |
| cipher (`enc_lib/ff3/ff3.c`) | the halves of the message | `ff3_encrypt`, `ff3_decrypt` | a permutation, and its inverse |
| forwarding (`l3fwd_sse.h`, `l3fwd.h`) | group lengths, `tx_mbufs[port]` | `port_groupx4`, `send_packets_multi`, `send_packetsx4` | each packet is sent or freed once, in order |
| main loops, start (`main.c`, `l3fwd_em.c`, `l3fwd_lpm.c`) | `force_quit`, port and lcore configuration, pools | `em_main_loop`, `lpm_main_loop`, `main` | every queue is polled by one lcore, the pools suffice, the process ends after a signal |

The lcores share the read-only tables. The hard parts are numeric: three
lengths of prefixes share two arrays, and messages of odd lengths are split in
halves of different widths.

## The modules

| module | models | checked by | proved in |
|---|---|---|---|
| `CryptoQueue` | the crypto path of an lcore | `crypto_queue` | `CryptoQueueProofs` |
| `IpsecLcore` | packet processing around it | `lcore` | `IpsecLcoreProofs` |
| `IpsecNoSp` | the same with `--single-sa` | `single_sa` | |
| `CdevInit` | device setup | `sa_session` | `SaSessionProofs` |
| `SaSession` | shared SAs on the tables of `CdevInit` | `sa_session`, `sa_assert` | `SaSessionProofs` |
| `Esp` | the ESP transforms of both ends | `esp` | `EspProofs` |
| `CfgText` | addresses and ranges in the configuration file | `gw_start` | |
| `GwConfig` | the file, and the SA, SP and route tables made from it | `gw_start` | `GwStartProofs` |
| `GwStart` | the gateway from its command line to its loops | `gw_start` | `GwStartProofs` |
| `NatTable` | the address table | `nat`, `nat_table_large` | `NatStartProofs` |
| `NatPacket` | the translation of a packet | `nat` | `NatStartProofs` |
| `NatStart` | the NAT from its command line to its end | `nat` | `NatStartProofs` |
| `Ff3` | the cipher | `ff3_encrypt`, `ff3_decrypt` | `Ff3Proofs` |
| `TxBatch` | grouping and sending of a burst | `tx_batch` | `TxBatchProofs` |

`GwStart` extends `GwConfig`, which extends `CfgText`: the file is read where
`parse_args` meets `-f`. `NatStart` extends `NatPacket`, which extends
`NatTable`: the table is loaded during the start, and the loops translate with
it. `SaSession` extends `CdevInit`, and `IpsecLcore` uses `CryptoQueue`. The
proofs of a module are in one that extends it; `NatStartProofs` has those of the
three modules of the NAT.

The `MC` modules give the constants their values. Definitions marked "Wrong on
purpose" are the mutants of the definition that follows them: each property of
a passing run has one that TLC finds it violated by.

### CryptoQueue

The state is that of the C structures, with an array and its length as a
sequence. `pc` says whether the lcore is in the caller, in `ipsec_enqueue` or
in `ipsec_dequeue`. An action is an iteration of a loop: `EnqueueBuffer` and
`EnqueueFlush` are `enqueue_cop` without and with the call of
`rte_cryptodev_enqueue_burst`, `PollQp` is one queue pair looked at,
`PostAccept` and `PostReject` one packet post-processed. Which queue pair a
packet goes to, and whether it is refused, is left open here: the module is the
abstract specification of how the gateway uses its devices. A device is a FIFO
queue of `QueueDepth` ops that finishes them one at a time.

`IpsecLcore` *implements* it: the lcore calls `ipsec_inbound` and
`ipsec_outbound` only in the ways `CryptoQueue` describes, and takes everything
back between calls. The refinement maps the abstract `pool` to the mbufs
outside the crypto path (`CryptoPathUsed == Caller!Spec`); each stage of
`process_pkts` that does not touch the crypto path is a stutter, or gives back
what the path has returned.

### IpsecLcore

`stage` follows `process_pkts`. A packet is its flow: where it came from, its
version, the SA its SPI selects if it is ESP, and what the SP rules say of its
inner headers. `sealed` says if the payload is ciphertext; a device flips it
when it finishes the op. `sa` is `priv->sa`, which stays in the mbuf when it is
freed, as in the code. The steps of the crypto path are those of `CryptoQueue`,
with the SA lookup added. Left out: the contents of headers other than these,
fragments, the timer (a drain can come at any time) and the routes themselves
(a packet may have any). `Keep` is what the loops with `j` leave of an array, in
its order; it is a recursive function, which can be proved about, unlike
`SelectSeq`.

### IpsecNoSp

`--single-sa` replaces two functions. The read of `traffic->ipsec.pkts[i]`
that the call has not written is a choice between the two versions.

### CdevInit and SaSession

`CdevInit` is the start: a step is one call of `add_cdev_mapping`, or the
configuration of a device. The hash map holds `MapEntries` keys per direction;
when it is full, which of the missing keys were added before depends on the
device's order of capabilities, and any may have been. `SaSession` then lets
the lcores create and use the sessions of shared SAs; a step is one access to
a shared field in program order. A session is the device it was created on.

`add_mapping` fills in the table's entry before it adds the key. When the map is
full the key is missing, the entry stays, and the caller, told that nothing was
added, hands the same queue pair to the next context. The context with the full
map never finds that entry, but `ipsec_enqueue` goes by `tbl[sa->cdev_id_qp]`, an
index that another lcore may have stored in the SA, so it can use it: two lcores
then use one queue pair. `QpPrivate` therefore speaks of all entries of all
tables, and says that two contexts have a queue pair in common *only* through
such an entry (`Stale`); that no queue pair is ever shared would be false.

### Esp

One SA, a packet at a time through `esp_outbound` on each lcore that has the
SA, then the wire, then `esp_inbound` and `esp_inbound_post` at a peer with the
same SA. The steps within `esp_outbound` are its accesses to the shared
`sa->seq` (`LoadSeq`, `StoreSeq`, `EspSeq`, `PacketIv`, `CounterBlock`): the
code reads it again for each use, without a lock (esp.c:312-349). What is
computed is lengths, padding and the headers `ipip.h` writes; ciphertext is
"these bytes from this counter block", and the peer gets the plain text if it
decrypts the same bytes from the same block. `ForeignSend` is a peer with other
padding, `Congested` a router on the way that marks the outer header.

### CfgText, GwConfig and GwStart

`CfgText` reads words symbol by symbol, as `inet_pton4`, `inet_pton6` and the
range readers of `parser.c` do: a word is a sequence of digits and separators,
and the result is compared with what the word means. `AddressesMeant` has the
addresses and the ranges written "from:to"; other ranges that are accepted
(`Loose`) are read as the code reads them, and left out of the property. Words have fewer than
256 characters (`ConfigAssumption`): the part before "/" is copied to an array of
that size before its length is looked at (parser.c:244, 273). `GwConfig` is
`parse_cfg_file`: an action is a line read (continued or not), or an item of a
statement; then `sa_init`, `sp4_init`, `sp6_init` and `rt_init` build the tables
of each socket. Items keep both what the code stored (`got`) and what the line
says (`says`). An invocation gives the statements of
the file, and the words of each are chosen from small sets in any order. `MaxTokens` is the length of the token
array, 32 in the code and 18 in the run, more than the longest statement needs.
`GwStart` takes options in command-line order, then checks the parameters,
makes lists, pools, SA contexts and ports, and launches the loops; each loop of
`main` is a step per triple, lcore or port, and `todo` is what it has not
reached.

### NatTable

`load_rtbl` line by line, on addresses of four octets of `Octet` values, so the
shifts and comparisons of the code are kept as divisions and comparisons. Both
tables have the sizes of the code: `Slots` is `prefix_tbl`, `idx_tbl` has
`IdxEntries` (2000) and `overrun` notes a store behind it. `SkipLine` is a line
with another prefix length, which leaves `idx` and `mask` behind for the
end of the file (`read`). Assumed of a file: the lines that are taken are disjoint
prefixes in ascending order, their addresses numbered consecutively from 0, at
least one of them (without one nat.c:206 stores before the table), and none is
255.255.255.0/24, whose end would be stored after it. The
recursion of `idx_to_ip`'s loop is a recursive function that gives `Endless`
where the code's loop does not end.

### NatPacket and NatStart

`NatPacket` is `process_outgoing_pkt`, with the cipher any permutation of the
messages out of a set (`Ff3Proofs` shows that `ff3_encrypt` is one, whatever AES
computes). `BitXor` is a constant, of which it is assumed what the translation
relies on: a second exclusive or with the same bits undoes the first. The runs
give it its bits with `Bitwise`, which the prover cannot take.
`process_incoming_pkt` is not modelled: nothing calls it, and it rests on
`ff3_decrypt`, which does not undo `ff3_encrypt` (run `ff3_decrypt`); that a reply
finds its way back is nowhere claimed here. What the encryption alone must give
is `FlowsApart`: as no state is kept, two flows to one destination are told apart
by their public address and port only.

`NatStart` is `main` from the options to the end: `ParseArg` and its checks,
the ports one by one, `init_mem` with a pool and a table per socket, the start
of the ports, the launch, then `em_get_dst_port` for each packet on each lcore,
the signal, `Leave` of each lcore, and the end of `main`. A burst is taken one
packet at a time, as the packets of a burst do not affect each other's
translation. A packet's payload is of one of three kinds, as
`packet_type & (TCP | UDP)` sees it: TCP and UDP, types that share a bit with
them (ICMP, IGMP, fragments: the code translates them as if they had ports,
unless `--parse-ptype` sets the types), and none of those; what a burst becomes after that is `TxBatch`. The route of a
packet (a hash lookup) is any port or none. `Hang` is an lcore that does not
come out of `idx_to_ip`, `Crash` a table that could not be allocated.

### Ff3

A step is a round. AES is any function of the block: the initial state chooses
it. The messages have `U + V` bits; `Reverse` is `bit_reverse_m`.

### TxBatch

`send_packets_multi` with its `pnum[]`, `lp` and loop variable: an action is an
iteration of the grouping loop, of `GROUP_PORT_STEP` or of the sending loop.
The table `gptbl` is kept as it is, little-endian words written out. A packet
is its destination and its place, so that what left, what is in the buffer and
what waits can be compared with the order of arrival. 0 marks entries of
`pnum[]` that the call has not written; `GroupsAreRuns` says that none is read.
The copies through `switch` into loops are appends (with nothing to copy they
move four stale pointers past `len`, which nothing reads). How a packet gets
its destination is a choice.

## The runs

| run | instance | shows |
|---|---|---|
| `crypto_queue` | 1 context, 2 queue pairs, 4 mbufs, bursts of 2, device queues of 3 | an mbuf is in one place at all times; `in_flight` is exact; arrays do not overrun; what a device accepted is handed back, though another queue pair could fill each call |
| `lcore` | 1 port, 1 queue pair per direction, 4 mbufs, bursts of 2, 8 flows | policy, ownership, array bounds, order within an SA, and the refinement |
| `single_sa` | the same under `--single-sa`, 2 mbufs | a violation: IPv6 packets leave in clear |
| `sa_session` | 3 contexts, 3 devices, maps of 3 keys, tables of 2; 2 lcores and 2 shared SAs | queue pairs are configured, and shared only through entries a full map left behind; later devices come first; an op reaches the device of its session in the deployments `Alone` and `Uniform` |
| `sa_assert` | the same | a violation of the code's own `RTE_ASSERT` in other deployments |
| `esp` | 12 SAs, 12 packets, 4 foreign paddings, 1 or 2 lcores, 2 packets | what the peer decrypts is what was sent, outside three cases; counter blocks and sequence numbers are fresh and agree |
| `gw_start` | 7 files with words right and wrong, 43 command lines, 3 lcores, 2 sockets, 3 ports | addresses, ranges "from:to", policies and routes mean what the file says, peers find their SA, long lines are refused, queues are ready and private |
| `nat` | 33 command lines on a table of 8 addresses, one on files of up to 4 prefixes of all kinds, with skipped lines, 2 permutations, 3 lcores, 2 sockets, 2 ports | index and address agree, `idx_tbl` is not overrun, queues are ready, pools suffice, flows stay apart, no inside address leaves, the process ends |
| `nat_table_large` | octets of 2 bits, files of up to 6 prefixes out of 19 | a violation: index to address for files the table is not laid out for |
| `ff3_encrypt` | 3 bits, 2 rounds, all round functions | encryption can be undone |
| `ff3_decrypt` | the same | a violation: `ff3_decrypt` gives AES another block |
| `tx_batch` | bursts of up to 8, a port and `BAD_PORT` | groups are runs of one port; each packet leaves once, in order |

Bounds. `MaxBurst` is 32 in the code. Two is enough for a burst that is
accepted in part and for partial bursts that survive several calls; with four
mbufs, partial bursts, device queues, arrays and transmit buffers are non-empty
together, and the pool can run out. A dequeue burst that one queue pair can
fill by itself is what starves another, so `crypto_queue` has a device queue
longer than a burst. Several contexts at once are covered by the theorems, and
by `lcore` with one queue pair each. In `sa_session` the hash maps and the
tables are as small as the numbers of keys and of devices, so both run full. Packets in `esp` have lengths
on both sides of each multiple of the block and of the room at the end, with
and without IP options; `SeqWord` = 2 makes the 32-bit number in the header
wrap around while the 64-bit counter does not; two packets show two numbers.
In `gw_start` the array of SAs has four slots, so that SPIs collide in
`SPI2IDX` and carry the bits of `BYPASS`, and `Byte` = 8 lets the queue number
wrap (queue 7); a file has one or two statements, as statements meet only in the
tables of their own kind. In `nat` a /8 is four
/16s and a /16 four /24s; files of up to four prefixes have each kind before
and after another; 8 addresses are the 3 bits of host that the cipher has;
`IdxEntries` = 9 entries are enough for 144 indices, which four prefixes pass,
so that the last ones are stored outside and `StoresInside`, a part of
`TypeOKNat`, is tried on both sides.
Packets are forwarded on either lcore, before, after or without the signal;
`FlowsApart` speaks of two, and two out of nine are forwarded with one of the
files; the other properties speak of one, and with the others it is one
(`MaxForwarded`).
In `nat_table_large` files of six prefixes cross a 2^24 boundary of the index.
In `tx_batch` a burst of 8 has a call of `port_groupx4` in the loop and
one after it, and shorter ones have up to three packets left; two destinations
give every outcome of the comparisons, as only neighbours are compared. The
mbufs are symmetric in `lcore`, which checks no liveness.

`CHECK_DEADLOCK FALSE` is set where the program can stop: the starts, the files
and the cipher end, `esp` stops after `MaxPackets`; and the gateway stops
receiving for good when every mbuf of the pool is in a partial burst (`lcore`).
This is a hazard of the code, listed as such, as no timer flushes partial
crypto bursts.

What the packet properties assume. `RoundTrip` leaves out an SA shared by
lcores whose cipher takes its counter from `sa->seq`, a transport header
longer than what is put in front of it, and the length field of an IPv6 header.
`FlowsApart` and `NoLeak` are about tables with as many addresses as the cipher
has host values, for which `idx_tbl` is laid out: at most 2^24 addresses or /8
prefixes only, the last line a line that is taken (`TableFits`, `Simple`). With
the `NUM_ADDR` of 26 that nat.c:44 sets, that leaves tables of /8 prefixes; for
mixed ones of that size `nat_table_large` shows what the code does. `NoLeak` is
about exact match (`-E`), as LPM translates nothing. The section "Where the code and its word differ" says
what the code does in the cases left out.

Fairness. In `crypto_queue`: weak fairness of the steps of `ipsec_enqueue`,
`ipsec_dequeue` and of the caller: the lcore is a busy loop that never blocks.
Weak fairness of `DeviceFinish`: a device finishes what it accepted. Strong
fairness of the calls of each context is an *assumption on the traffic*:
`main_loop` calls `process_pkts` only for a port that delivered packets.
Without it `QueuesDrained` does not hold, in the model as in the code. In
`nat`, for `QuitEnds`: weak fairness of `main`, which runs on or waits for the
lcores, and of `Leave` for each lcore, as each iteration of a loop looks at
`force_quit`. The signal itself is not fair.

## The proofs

Eight modules hold the theorems. Each has one inductive invariant, `IInv`
(`Basic` in `CryptoQueueProofs`, `SaInv` in `SaSessionProofs`, `TableInv` and
`NatInv` in `NatStartProofs`, and `FileInv` for the file in `GwStartProofs`), made of named parts; a lemma per part or per action shows that a step keeps it, and each
theorem reads its property off the invariant. The constants are any that the
module's `ASSUME` allows, so that the bounds of the runs play no role. The
induction theorems of the library cannot be used, as they take an operator;
where a recursive function needs induction (`Keep`, `Before`, `Pow`, `Reverse`),
it is done by the least number of a set (`LeastOf`, `UpTo`).

| module | theorems (property) |
|---|---|
| `CryptoQueueProofs` | `TypeCorrect` (`TypeOK`), `InFlightIsExact` (`InFlightExact`), `ArraysAreBounded` (`ArraysBounded`), `MbufIsHeldOnce` (`MbufHeldOnce`) |
| `IpsecLcoreProofs` | `TypeCorrect` (`TypeOK`), `TrafficIsBounded` (`TrafficBounded`), `SentIsAllowed` (`SentAsAllowed`), `MbufIsHeldOnce` (`MbufHeldOnce`), `CryptoPathIsUsed` (`CryptoPathUsed`, the refinement), `SaOrderKept` (`PerSaOrder`) |
| `SaSessionProofs` | `TypeCorrect`, `QueuePairsPrivate` (`QpPrivate`), `QueuePairsConfigured` (`QpConfigured`), `HardwareFirst` (`HwPriority`), `SessionsKeepSetup` (`SpecSa => Spec`), `SaTypeCorrect` (`TypeOKSa`), `SessionsOnDevice` (`SessionOnDevice`) |
| `EspProofs` | `TypeCorrect` (`TypeOK`), `RoundTripHolds` (`RoundTrip`), `CountersFresh` (`SeqFresh`) |
| `GwStartProofs` | `TransmitQueuesPrivate` (`TxPrivate`), `PolledQueuesReady` (`PolledReady`), `ConfigTypeCorrect` (`TypeOK`), `LongLinesAreRefused` (`LongLinesRefused`), `PolicyIsResolved` (`PolicyResolved`), `PeersAreFound` (`PeerFound`), `RoutesAreMeant` (`RoutesMeant`) |
| `NatStartProofs` | `AddressIsFound` (`AddressFound`), `IndexIsFound` (`IndexFoundInSimple`), `ProgramKeepsTable` (`SpecNat => Spec`), `TableOfProgram`, `NatTypeCorrect` (`TypeOKNat`), `QueuesAreReady` (`QueuesReady`), `PoolsCover` (`PoolCovers`), `StoresStayInside` (`StoresInside`, which `TypeOKNat` has), `FlowsStayApart` (`FlowsApart`), `NothingLeaks` (`NoLeak`) |
| `Ff3Proofs` | `TypeCorrect` (`TypeOK`), `EncryptionIsReversible` (`EncryptionReversible`) |
| `TxBatchProofs` | `GroupsFound` (`GroupsAreRuns`), `TypeCorrect` (`TypeOK`), `SentOnce` (`SentOnceInOrder`) |

### CryptoQueue

Assumed: `NbQps` counts queue pairs, a burst has at least one op. The first
three properties have one inductive invariant, `Basic`. It adds to them
`Shape`: a device has not finished more ops than it holds, `last_qp` points into
the table, and `pkts`, `cops` and `out` are empty where the lcore is not in the
loop that uses them. `PollQp` needs the first to take finished ops off the
queue and `EnqueueFlush` needs the length of `buf` to be below a burst.

`MbufHeldOnce` is inductive given `Basic`. Its heart is `SharesOut(held)`:
`held` gives the set of mbufs of each place, and each mbuf is in exactly one.
Lemma `HandOver` says that moving a set from one place to another keeps that
so; each action is one hand-over, and `EnqueueFlush`, which empties `buf` into
the device and the pool, is the lemma `FlushOver`. The lemmas on sequences
without repetitions (`AppendElems`, `TailElems`, `SplitElems`, `ConcatElems`)
turn the array operations into set operations.

### IpsecLcore

Assumed: flows and policies have the form `FlowType` gives them, an SA has an
index above 0 and a queue pair that its context has.

`P` is `CryptoQueueProofs` with the mbufs outside the crypto path as its pool.
`NextPlaces` shows that each step of the lcore is a step of `P` or leaves its
variables alone. With that, `P`'s lemmas `NextBasic` and `NextHeldOnce` carry
its invariants over to the lcore, and the refinement itself follows. What is
left to show is about the packets outside the crypto path:

- `Control`: which arrays are empty at which stage;
- `Bounds`: `TrafficBounded`, and that until the crypto path is through the
  packets in clear are of one burst: two bursts fit into the array when those
  of the crypto path come back, three would not;
- `Placed`: each mbuf is in one of seven places, and each array holds it once;
- `Kinds`: what is known of a packet in each place. In `pkts` it waits for an SA
  (`Waiting`); in `buf` and in a device queue its `priv->sa` is the SA it was
  given, and it is sealed or not according to whether the device has come to it
  (`Prepared`); when the crypto path returns it, it is transformed; after the
  filters it is `Allowed`.

`SentAsAllowed` needs all of it: `priv->sa` outlives the packet in the mbuf, so
that one has to know that an mbuf between `ipsec_enqueue` and the filters was
not received anew (`Placed`), and that a device has transformed exactly the
first `ready` ops of its queue.

`PerSaOrder` is a property of a step, proved from the same invariant. The line
of an SA runs through ten places, from the transmit buffer back to `buf`; in
each step a packet of the line stays where it is or goes to the place in front,
and what leaves a place leaves from its head (`Ord`, "a stands before b"). The
one place where order could be lost is between queue pairs: an SA has one queue
pair (`SaQp`), so that its packets are never in two device queues (`Kinds`), and
between calls `cops` and `out` are empty (`Control`).

### CdevInit and SaSession

Assumed: there are finitely many pairs of algorithms, and the sizes are
numbers. The invariant of the setup is that a queue pair of the present device
that is not handed out yet (`qp` and above) is in a table only as a stale
entry, one that `add_mapping` made although the hash map was full
(`HandedOutBelow`, `Stale`). A stale entry stays stale, as a full map takes
no more keys, so that of two entries with one queue pair one is stale for good
(`QpPrivate`). For `HwPriority`, `OfferedSoFar` says which entries of
`lcore_params` the present device has looked at, though the round starts
wherever the last device stopped.

`SessionsKeepSetup` shows that `SaSession` implements `CdevInit`, so that this
invariant holds while the lcores run. `SessionOnDevice` then needs one invariant
for each of the deployments it names: with one lcore a session and its index go
together but for the moment between the two stores of `create_session`
(`AloneInv`); with one queue pair of one device each, all indices are 0 and all
sessions on that device (`UniformInv`).

### Esp

Assumed: the modes, block sizes and IV lengths are those that `sa.c` sets up,
and a packet is at least as long as its header, is not shorter than 20 bytes,
and is no ESP. The lemma `Lengths` shows that none of the 16-bit computations
of `esp_outbound` wraps around for a packet that fits its mbuf, and
`GivenBack` that taking off what was put on gives the packet back.
`PacketsInv` says that each packet of this sender, wherever it is, is what
`esp_outbound` made of some packet, but for a mark on the outer header. For
`SeqFresh`, `Counted` bounds `seq` by the packets that came, and, with one lcore
on the SA, `Numbers` says that it finds `seq` as it left it and `Below` that no
packet sent has a counter block above `seq`, nor the one in preparation.

### GwStart and GwConfig

Assumed: sizes are numbers, a port has a bit in the mask (DPDK has at most 32
ports), and the options have the form `getopt_long` and `parse_config` give
them. The invariant is about the three loops of the start: what `todo` no longer
has is done (`Loops`), and what was checked of the triples holds of the lists
made from them (`Checks`). Reading the file is seen as steps that move `pc` and
leave these variables alone (`ConfigSteps`). `TxPrivate` comes down to
`TxQueueOwn`: the numbers of lcores below two different lcores differ.

The file has an invariant of its own, `FileInv`. `Sizes` has the bounds.
`Statement` is about the line being parsed: its items are of the forms the parser
stores (`Holds`), and a line with too many words is one of an SA, whose words so
far are no more than those of its items (`Words`). As no item may come twice
that is at most 16, less than the token array holds, and such a line cannot use
up all its words: `LongLinesRefused` is inductive only with this count. `Filed`
says that every rule has besides what is mandatory (`Complete`), and `Built`
that the tables of a socket are empty until the file is read and then made of
all its rules.

`PolicyResolved` then is `PolicyBits`: an index below `SaEntries` has neither of
the two bits, and the numbers of `BYPASS` and `DISCARD` each have one. For
`TypeOK` and `PeerFound` the loop of `sa_add_rules` is followed entry by entry
(`LoopIs`, `LoopStepIs`): the table has SAs in their own slots only
(`SlotsRight`), up to a rule whose slot and those of the rules before it are
free the SAs in it are those of rules, and what is in the table stays
(`RuleAdded`). `LastRouteStays` does the same for the routes of a prefix.

`PeersAreFound` and `RoutesAreMeant` have a hypothesis, `WordsRead`: a word that
`parse_ipv4_addr` or `parse_ipv6_addr` accepts is read as the address and the
depth it means. What these functions compute is a fold over the word, and out of
the prover's reach; that they read words right is what `AddressesMeant` checks in
`gw_start`, and the words of that run fulfil the hypothesis. What is proved
is the rest of the way: the mode that decides how an address is read and
stored, the changes of byte order, and the tables.

### NatTable

Assumed: an octet has at least two values, and no prefix is 0. The table of a
file so far has an entry marked as a prefix only where the file has it, with
the number of addresses before it (`Entries`). The lemma `FirstBits` places the
entries of an address in the ranges of their lengths, so that an entry of one
length is never taken for one of another, and `Marked` says that of the three
entries `ip_to_idx` looks at only that of the address's own prefix is marked, as
the prefixes of a file are disjoint.

`IndexFoundInSimple` is about the other direction. `Counted` says that `MAX_IDX`
is the number of addresses of the lines so far. `Laid` says where the loop of
`idx_to_ip` starts: with prefixes of 8 bits only, entry n of `idx_tbl` is the
prefix that begins at index n * 2^24; otherwise a /16 or /24 begins at each
multiple of 2^16, and entry n is that one, as long as all indices are below
2^24. `Chained` says that the `next` of each prefix is the one that the file has
after it. `EveryIndex` then shows that the loop, started there, ends at the prefix
of the index: the entries on the way have growing indices, of which the last one
not above the index is the prefix meant.

### NatStart

Assumed: options and parameters have the form the parser gives them, packets
have addresses and ports of the sizes the headers have, and a cipher is a
permutation. `ProgramKeepsTable` shows that the program implements `Spec` of
`NatTable`, by the same actions, so that the invariant of the table holds
while the lcores translate.

The start goes through the ports from the lowest enabled one on (`Order`), and
what is behind it is done: the queues of a port number from 0 without gaps
(`Configured`), each lcore has a transmit queue there (`PortsDone`), the pools
exist, were sized for the first port, and have a table if the loops need one
(`Pools`). `QueuesReady` and `PoolCovers` follow by counting: lemma `Ranks` says
that the number of lcores below an lcore, its transmit queue, is its own.

`Sent` says of what left that it is the packet that came or its translation, by
the cipher that `init_key` stored and the table, and that a packet without a type
leaves by the port it came from. For `FlowsApart`, `EveryIndex` says that two
indices with one address are one index on a table that fits, `MessageParts`
takes a message apart, so that the encrypted messages are the same, the
permutation takes them back to one input, and `BitXor` with the same
destination to one host part and port.

### Ff3

Assumed: the left half is as wide as the right one or one bit wider, as
`u` and `v` are (ff3.c:40-41), and the number of rounds is even (`NUM_ROUNDS` is
8). The code takes messages of up to 48 bits, whose halves fit its words. The invariant, `IInv`, says that there is a trace of the rounds so far that
begins with the halves of the message and ends with `A` and `B`, each half of
the width its round gives it (`Encrypting`, `Passed`). After an even number of
rounds the widths are those of the start, so the halves are joined where they were
split. `RoundBack` takes back one round, whatever AES put in, as the half was
below the power of two it is reduced by; `UndoIs` walks the trace back by it.

At both ends stands `bit_reverse_m`. `ReverseIs` says what its recursion
computes: a number that is built bit by bit from the low end of the other
(`Mirrored`). By `Halved` and `MirroredBits` the bits of the result are those
of the argument from the other end, so that `ReverseTwice` gives the argument
back.

### TxBatch

Assumed: `MaxBurst` is a multiple of four (32 in the code), as the loop that
takes four packets at a time reads four whenever it runs. `Counted(pnum, lp, c)`
says that up to packet `c` the counts are those of the runs of one port, and
that `lp` is at the last. `StepCounts` shows it of one `GROUP_PORT_STEP`, and
`FourAtOnce` that a call of `port_groupx4`, whatever the sixteen outcomes of its
comparisons, is three such steps and the comparison of a fourth.
For `SentOnceInOrder`, every way of sending splits the line of a port, its
buffer and then its group, in a part that leaves and a part that waits
(`SendSplits`); a line that is split so keeps its order (`Shift`).

### Only model-checked

- `QueuesDrained` and `QuitEnds`: liveness under fairness is out of the prover's
  reach.
- `AddressesMeant`: what the readers of `CfgText` return is computed by folds
  over words. It is the one safety property without a proof.

## Where the code and its word differ

Four runs end in a counterexample; `PROJECT.json` has the lines.

- `single_sa`: with `--single-sa` only IPv4 packets are given to
  `ipsec_outbound`; IPv6 packets are routed unencrypted.
- `sa_assert`: `cdev_id_qp`, stored in a shared SA, is an index into the table
  of the lcore that stored it; used by an lcore with a shorter table, it fails
  the `RTE_ASSERT`.
- `nat_table_large`: `idx_tbl` is indexed by `idx >> 24` and by `idx >> 16`, and
  for files that mix a /8 with longer prefixes one kind of entry hides the
  other.
- `ff3_decrypt`: the half is copied into the output buffer instead of the
  block that is encrypted.

The models follow the code in the places below too, where it does something a
user may not expect. No run is a counterexample for them; where a property has
a precondition, this is why.

The gateway's file. `parse_range` takes a range without ":" and leaves -1 as its
low end, so that "80" is 65535:80, in which no port is (parser.c:310, 328); the
message for a refused range expects "port_from:port_to" (sp4.c:363). It also cuts
numbers to 16 bits and skips letters. The refusal of a line with too many words is undone by a
later check; it is refused in the end only because no item may come twice
(`LongLinesRefused`). `protect` with an SPI that is a multiple of 2^17 drops
the packets. SAs after one whose SPI collides are not installed, and the result
of `sa_add_rules` is ignored. A route without a port goes to port 0; a depth is
cut to a byte (/304 is /48) and a route's port is not checked (rt.c:143).
An address with "::" among eight groups is refused, where the comment says that
the "::" is ignored (parser.c:130). Unknown words of an `rt` line are ignored, addresses before the mode of an SA
are skipped, a continued line at the end of the file is dropped. An unknown
cipher or authentication name is dereferenced as NULL (sa.c:284-287, 348-351).

The gateway's start. With a full hash map two contexts may use one queue pair
(see `CdevInit`). `-p` with text that is no number is all ports, and 0 is
refused; two lcores may be given the same queue (ipsec-secgw.c:823), queue
numbers may have gaps (809), and queue 255 wraps to 0.

ESP. The length fields of IPv6 outer headers hold the length of the packet with
its header (esp.c:203, 308, ipip.h:75). In transport mode the header is moved
over itself (esp.c:301): with a short IV the IPv4 packet is then taken for IPv6
and its protocol is not set. `sa->seq` is read again for each use, so with
several lcores the IV in the packet and the counter block can differ.

The NAT. `-p` with 0 or no number is all ports. The next hop is checked against
the mask only, which may name absent ports (em_hlm_sse.h:260). `--enable-jumbo`
without `--max-pkt-len` swallows the next option (main.c:627). With neither
`-E` nor `-L` the code takes LPM, as the usage text says (332) and the comment
does not (672); LPM forwarding never translates and makes no table. A table
that cannot be allocated is NULL, and the first packet crashes. IPv4 packets
with options go back untranslated by the port they came from. An index outside
the table keeps an lcore in `idx_to_ip` for good, and the process then does
not end after a signal (`QuitEnds` excepts it). `ip_to_idx` gives 0 for an
address it does not hold (nat.c:357). The number of mbufs is computed with the
queues of the first port (main.c:520), so a later port with more is not covered
(`PoolCovers` excepts it). ICMP and fragments are translated as if they had ports
(em_hlm_sse.h:245). A line with another prefix length, if it is the last, gives
`MAX_IDX` and the end of the last prefix its `idx` and `mask` (nat.c:207-209), and
the indices of the last prefix may then hang. Packets in a transmit batch at the end are neither
sent nor freed.

## Not modelled

- RC5 and ChaCha20 are compiled out (`CRYPTO_ALG` is FF3); ChaCha20 and the AES
  assembly are third party. Benchmarks and plots have no state.
- ACL, LPM, hash tables and the device library are external: only what their
  lookups and calls are used for appears. A route of the hash tables is a
  choice of port; of LPM forwarding there is only start and end, and
  `send_single_packet`, for builds without SSE, is left out.
- `process_incoming_pkt` of the NAT, which nothing calls.
- Words of more than 255 characters in the gateway's file, and files of the NAT
  other than `NatTable` assumes (above).
- Keys, payload bytes, checksums, printing, waiting for links.
- In `Esp`, the `switch` defaults for algorithms no SA can have.

## Plan

The components that keep state are modelled, and most of the safety properties
are proved. What is left is the composition of `Esp` with `IpsecLcore`: the
refusals of the transforms as the errors of the post-processing.
