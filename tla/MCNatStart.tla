----------------------------- MODULE MCNatStart -----------------------------
(***************************************************************************)
(* Small instance of NatStart: octets of 2 bits as in MCNatTable, a cipher *)
(* over 2 bits of port and 3 of host, three lcores on two sockets, two     *)
(* ports.  Every command line is run with files of 8 addresses, which is   *)
(* what 3 bits of host ask for; one is run with files of all kinds.        *)
(***************************************************************************)
EXTENDS NatStart, Bitwise

MCXor(x, y) == x ^^ y

c(port, queue, lcore) == [port |-> port, queue |-> queue, lcore |-> lcore]
arg(opt, ok, val) == [opt |-> opt, ok |-> ok, val |-> val]
flag(opt) == arg(opt, TRUE, 0)

Both == arg("p", TRUE, {0, 1})

MCDefault == <<c(0, 0, 0), c(1, 0, 1)>>

\* The queues of the ports: right, on one lcore, repeated, out of order, with a
\* gap, more on the second port or on the first, for an lcore or a port that is
\* absent, with too many on an lcore, with a queue out of range, none at all.
MCConfigs ==
  { <<c(0, 0, 0), c(0, 1, 1), c(1, 0, 2)>>, <<c(0, 0, 0), c(1, 0, 0)>>,
    <<c(0, 0, 0), c(0, 0, 1)>>, <<c(0, 1, 0), c(0, 0, 1)>>, <<c(0, 0, 0), c(0, 2, 1)>>,
    <<c(0, 0, 0), c(1, 0, 1), c(1, 1, 2)>>, <<c(0, 0, 2), c(0, 1, 1)>>,
    <<c(0, 0, 3)>>, <<c(2, 0, 0)>>, <<c(0, 0, 0), c(0, 1, 0), c(1, 0, 0)>>,
    <<c(0, 3, 0)>>, <<>> }

Lines ==
  { <<Both, flag("E"), arg("config", TRUE, cfg)>> : cfg \in MCConfigs }
  \union
  { <<arg("p", TRUE, m), flag("E")>> : m \in {{}, {0}, {1}, {0, 1, 2}} }
  \union
  { <<Both>> \o rest : rest \in
      { <<>>, <<flag("L"), flag("ipv6")>>, <<flag("E"), flag("L")>>,
        <<flag("E"), flag("P"), flag("no-numa"), flag("parse-ptype")>>,
        <<flag("E"), flag("ipv6"), flag("eth-dest")>>, <<arg("eth-dest", FALSE, 0)>>,
        <<flag("E"), arg("hash-entry-num", TRUE, 5)>>, <<arg("hash-entry-num", TRUE, 9)>>,
        <<arg("config", FALSE, <<>>)>>, <<flag("enable-jumbo")>>,
        <<flag("enable-jumbo"), flag("E")>>,
        <<flag("E"), flag("enable-jumbo"), arg("max-pkt-len", TRUE, 9)>>,
        <<flag("enable-jumbo"), arg("max-pkt-len", FALSE, 0)>>,
        <<flag("max-pkt-len")>>, <<flag("?")>> } }
  \union { <<arg("p", FALSE, 0), flag("E")>>, <<flag("E")>> }

\* 160 to 163 and 172 to 175; 164 to 171, with which two packets are forwarded;
\* 1/8, 2/8, /16s of 2 and 3 and /24s of 2 and 3, some of them inside those
\* /16s.
EightAddresses == {40, 43}
TwoPackets == {41, 42}
AllKinds == {1, 2} \union 8 .. 10 \union 12 .. 13 \union 32 .. 33 \union 48 .. 50
MCCandidates == EightAddresses \union TwoPackets \union AllKinds

\* A line that is skipped: a /26 of one address, after eight addresses.
MCOthers == {[idx |-> 8, size |-> 1]}

MCInvocations ==
  { [args |-> line, files |-> EightAddresses] : line \in Lines }
  \union
  { [args |-> <<Both, flag("E")>>, files |-> TwoPackets],
    [args |-> <<arg("p", TRUE, {0}), flag("E"), arg("config", TRUE, <<c(0, 0, 0)>>)>>, files |-> AllKinds],
    [args |-> <<Both, flag("E")>>, files |-> {}] }

MCMaxForwarded(f) == IF f = TwoPackets THEN 2 ELSE 1

MCArguments == UNION {{c0.args[n] : n \in DOMAIN c0.args} : c0 \in MCInvocations}

\* lcore 2 is on the second socket.
MCSocketOf == [l \in 0 .. 2 |-> IF l = 2 THEN 1 ELSE 0]

\* Two keys: permutations that mix the bits of port and host.
MCCiphers ==
  { [x \in 0 .. 31 |-> (5 * x + 3) % 32], [x \in 0 .. 31 |-> (31 - 11 * x + 352) % 32] }

Out == [v |-> 4, l4 |-> "port", ext |-> FALSE, saddr |-> 131, sport |-> 2, daddr |-> 70, dport |-> 0]

MCPackets ==
  { Out, [Out EXCEPT !.saddr = 134], [Out EXCEPT !.saddr = 134, !.sport = 0],
    [Out EXCEPT !.sport = 1], [Out EXCEPT !.dport = 3],
    [Out EXCEPT !.ext = TRUE], [Out EXCEPT !.l4 = "none"], [Out EXCEPT !.l4 = "bits"],
    [Out EXCEPT !.v = 6] }
=============================================================================
