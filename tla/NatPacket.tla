----------------------------- MODULE NatPacket ------------------------------
(***************************************************************************)
(* The translation of a packet in nat_eval/nat.c: port and host part of    *)
(* the inside address are combined with those of the destination,          *)
(* encrypted, and the result selects a port and an address of the table.   *)
(*                                                                         *)
(* A message of the cipher, ff3_msg_t, has Ports * Hosts values (2^16 and  *)
(* 2^NUM_ADDR in the code).  The cipher is any of a set of permutations:   *)
(* Ff3 shows that ff3_encrypt is one.                                      *)
(***************************************************************************)
EXTENDS NatTable

CONSTANTS
  Ports, Hosts,   \* powers of two
  BitXor(_, _),   \* the bits of one port or host part or the other, not both
  Ciphers         \* the permutations, one for each key

Messages == 0 .. Ports * Hosts - 1

\* An address has no more host bits than bits, and a host part is an index that
\* idx_tbl has an entry for.
ASSUME PacketAssumption ==
  /\ Ports \in Nat \ {0} /\ Hosts \in Nat \ {0}
  /\ Hosts <= Octet * Size8 /\ Hosts <= IdxEntries * Size16
  /\ \A n \in {Ports, Hosts} : \A x, y \in 0 .. n - 1 :
       BitXor(x, y) \in 0 .. n - 1 /\ BitXor(BitXor(x, y), y) = x
  /\ \A e \in Ciphers :
       e \in [Messages -> Messages] /\ \A x, y \in Messages : e[x] = e[y] => x = y

VARIABLE rk   \* the key that init_key stored: nat_encrypt_ff3 under it

Message(port, host) == host * Ports + port
MsgPort(x) == x % Ports
MsgHost(x) == x \div Ports
HostOf(addr) == addr % Hosts   \* addr & HOST_MASK

\* Wrong on purpose: = for ^= in the line of the host part.
InputDest(p) == Message(BitXor(p.sport, p.dport), HostOf(p.daddr))

Input(p) == Message(BitXor(p.sport, p.dport), BitXor(HostOf(p.saddr), HostOf(p.daddr)))

\* Endless as the address when idx_to_ip does not return.
process_outgoing_pkt(p) ==
  LET output == rk[Input(p)] IN
  [p EXCEPT !.sport = MsgPort(output), !.saddr = idx_to_ip(MsgHost(output))]
=============================================================================
