-------------------------------- MODULE Esp ---------------------------------
(***************************************************************************)
(* esp.c and ipip.h: what esp_outbound does to the lengths and headers of  *)
(* a packet, and what esp_inbound and esp_inbound_post make of the result  *)
(* at a peer that has the same SA.                                         *)
(*                                                                         *)
(* The lcores of a socket share the SA.  esp_outbound reads and writes     *)
(* sa->seq several times without a lock; each access is a step of its own, *)
(* since the stores in between may alias it.  Encryption is modelled by    *)
(* the bytes it covers and the counter block it starts from: the peer gets *)
(* the plain text back if it decrypts those bytes from that block.         *)
(***************************************************************************)
EXTENDS Integers, TLC

CONSTANTS
  Lcores,       \* the lcores that may use the SA
  Sas,          \* [flags, cipher, auth, iv_len, block_size, digest_len]
  Packets,      \* IP packets: [v, hdr, len, says, p, ttl, ecn, nib]
  Foreign,      \* what another implementation sends: [payload, padding]
  TailRoom,     \* the largest packet an mbuf has room for, less its headers
  MaxPackets,   \* how many packets are sent: a bound on the exploration
  SeqWord       \* the numbers of the header's 32-bit sequence field

(***************************************************************************)
(* says is the length field of the header, nib the high half of its bytes  *)
(* 8, 16 and 24 (the time to live or the addresses, by version).  An IPv6  *)
(* packet has no extension headers.  A packet that is ESP already is       *)
(* dropped before it gets here, and the lengths of an mbuf have 16 bits.   *)
(***************************************************************************)
ASSUME EspAssumption ==
  /\ Lcores \subseteq Nat
  /\ TailRoom \in Nat /\ TailRoom <= 65535 /\ MaxPackets \in Nat /\ SeqWord \in Nat \ {0}
  /\ Sas \subseteq [flags : {"ipv4-tunnel", "ipv6-tunnel", "transport"}, cipher : STRING,
                    auth : STRING, iv_len : {0, 8, 16}, block_size : {4, 16}, digest_len : Nat]
  /\ Packets \subseteq [v : {4, 6}, hdr : Nat, len : Nat, says : Nat, p : STRING,
                        ttl : 0 .. 255, ecn : 0 .. 3, nib : [{8, 16, 24} -> 0 .. 15]]
  /\ \A m \in Packets : m.hdr >= 20 /\ m.len >= m.hdr /\ m.p # "esp"

VARIABLES
  sa,      \* the SA both ends have
  shared,  \* do all the lcores use it, or just one
  seq,     \* sa->seq of the sender
  left,    \* packets still to come
  out,     \* what each lcore has in esp_outbound
  wire,    \* packets under way
  cops,    \* packets in the peer's device
  done     \* packets the peer is through with: [w, res]

vars == <<sa, shared, seq, left, out, wire, cops, done>>

EspHdr == 8         \* sizeof(struct esp_hdr)
Ip4Hdr == 20
Ip6Hdr == 40
Word   == 65536     \* the values of a uint16_t

Transport == sa.flags = "transport"
Counter   == sa.cipher \in {"aes-128-ctr", "aes-128-gcm"}   \* the others start from a block in the packet

NoPacket == [at |-> "idle"]

Init ==
  /\ sa \in Sas /\ shared \in BOOLEAN
  /\ seq = 0 /\ left = MaxPackets
  /\ out = [l \in Lcores |-> NoPacket]
  /\ wire = {} /\ cops = {} /\ done = {}

-----------------------------------------------------------------------------
(* esp_outbound *)

AlignCeil(n, block) == ((n + block - 1) \div block) * block   \* RTE_ALIGN_CEIL

\* The header that stays outside of the payload.
Kept(m) == IF Transport THEN m.hdr ELSE 0

\* Wrong on purpose: no room for the two bytes of the trailer.
PadPayloadShort(m) == AlignCeil(m.len - Kept(m), sa.block_size) % Word

PadPayload(m) == AlignCeil(m.len - Kept(m) + 2, sa.block_size) % Word
Pad(m)        == (PadPayload(m) + Kept(m) - m.len) % Word

OuterHdr(m) ==
  CASE sa.flags = "ipv4-tunnel" -> Ip4Hdr
    [] sa.flags = "ipv6-tunnel" -> Ip6Hdr
    [] OTHER -> m.hdr

\* The check against IP_MAXPACKET, and rte_pktmbuf_append.
Fits(m) ==
  /\ OuterHdr(m) + EspHdr + sa.iv_len + PadPayload(m) + sa.digest_len <= Word - 1
  /\ m.len + Pad(m) + sa.digest_len <= TailRoom

\* The length of the packet after the calls that append and prepend.
Grown(m) ==
  m.len + Pad(m) + sa.digest_len + EspHdr + sa.iv_len
    + (IF Transport THEN 0 ELSE OuterHdr(m))

\* In transport mode the header is moved by EspHdr + iv_len, and its version is
\* looked up where it was; when the two places overlap, another byte is there.
VersionRead(m) ==
  LET at == EspHdr + sa.iv_len IN IF at >= m.hdr THEN m.v ELSE m.nib[at]

\* Is the right one of the two kinds of header rewritten?
Recognised(m) == (VersionRead(m) = 4) <=> (m.v = 4)

\* The header in front of the ESP header; both length fields get the length of
\* the whole packet.
Outer(m) ==
  CASE sa.flags = "ipv4-tunnel" ->
         [v |-> 4, hdr |-> Ip4Hdr, p |-> "esp", says |-> Grown(m), ecn |-> m.ecn, ttl |-> 64]
    [] sa.flags = "ipv6-tunnel" ->
         [v |-> 6, hdr |-> Ip6Hdr, p |-> "esp", says |-> Grown(m), ecn |-> m.ecn, ttl |-> 64]
    [] OTHER ->
         [v |-> m.v, hdr |-> m.hdr, ecn |-> m.ecn, ttl |-> m.ttl,
          p |-> IF Recognised(m) THEN "esp" ELSE m.p,
          says |-> IF Recognised(m) THEN Grown(m) ELSE m.says]

\* The next header, as the trailer has it.
Nlp(m) == IF Transport THEN m.p ELSE IF m.v = 4 THEN "ipip" ELSE "ipv6"

\* The packet inside a tunnel; its time to live is a byte.
Inner(m) == [m EXCEPT !.ttl = (@ - 1) % 256]

\* The bytes that are encrypted, without the block that CBC encrypts in place
\* of an IV, and those that are authenticated.
Enc(m)  == <<OuterHdr(m) + EspHdr + sa.iv_len, PadPayload(m)>>
Auth(m) == <<OuterHdr(m), EspHdr + sa.iv_len + PadPayload(m), Grown(m) - sa.digest_len>>

Coming(l) == left > 0 /\ out[l] = NoPacket /\ (shared \/ \A k \in Lcores : l <= k)

\* The packet is checked and grows, up to line 310.
Prepare(l, m) ==
  /\ Coming(l) /\ Fits(m)
  /\ left' = left - 1
  /\ out' = [out EXCEPT ![l] = [at |-> "load", m |-> m]]
  /\ UNCHANGED <<sa, shared, seq, wire, cops, done>>

\* ipsec_enqueue frees the packet.
Refuse(l, m) ==
  /\ Coming(l) /\ ~ Fits(m)
  /\ left' = left - 1
  /\ UNCHANGED <<sa, shared, seq, out, wire, cops, done>>

Step(l, from, to) == out[l].at = from /\ out' = [out EXCEPT ![l] = to]

\* sa->seq++ is a load and a store.
LoadSeq(l) ==
  /\ Step(l, "load", [at |-> "store", m |-> out[l].m, tmp |-> seq])
  /\ UNCHANGED <<sa, shared, seq, left, wire, cops, done>>

\* Wrong on purpose: the number is not counted up.
StoreSeqSame(l) ==
  /\ Step(l, "store", [at |-> "esp", m |-> out[l].m])
  /\ UNCHANGED <<sa, shared, seq, left, wire, cops, done>>

StoreSeq(l) ==
  /\ Step(l, "store", [at |-> "esp", m |-> out[l].m])
  /\ seq' = out[l].tmp + 1
  /\ UNCHANGED <<sa, shared, left, wire, cops, done>>

EspSeq(l) ==
  /\ Step(l, "esp", [at |-> "iv", m |-> out[l].m, esp_seq |-> seq % SeqWord])
  /\ UNCHANGED <<sa, shared, seq, left, wire, cops, done>>

\* The IV in the packet, all zero when CBC encrypts it.
PacketIv(l) ==
  /\ Step(l, "iv", [at |-> "icb", m |-> out[l].m, esp_seq |-> out[l].esp_seq,
                    iv |-> IF Counter THEN seq ELSE 0])
  /\ UNCHANGED <<sa, shared, seq, left, wire, cops, done>>

\* The counter block; then the device encrypts the packet, and it is sent.
CounterBlock(l) ==
  /\ out[l].at = "icb"
  /\ LET m == out[l].m IN
     wire' = wire \union
       {[own |-> TRUE, m |-> m, ip |-> Outer(m), inner |-> Inner(m), len |-> Grown(m),
         esp_seq |-> out[l].esp_seq, iv |-> out[l].iv, icb |-> seq,
         enc |-> Enc(m), auth |-> Auth(m),
         pad_len |-> Pad(m) - 2, padding |-> TRUE, next |-> Nlp(m)]}
  /\ out' = [out EXCEPT ![l] = NoPacket]
  /\ UNCHANGED <<sa, shared, seq, left, cops, done>>

-----------------------------------------------------------------------------
(* The network *)

\* A packet of another sender, with a payload of any length and any padding.
\* It carries an IPv4 packet, and no m.
ForeignSend(f) ==
  LET ip == IF sa.flags = "ipv6-tunnel" THEN [v |-> 6, hdr |-> Ip6Hdr] ELSE [v |-> 4, hdr |-> Ip4Hdr]
      start == ip.hdr + EspHdr + sa.iv_len
      len   == start + f.payload + sa.digest_len
  IN  /\ left > 0 /\ left' = left - 1
      /\ wire' = wire \union
           {[own |-> FALSE, len |-> len,
             ip |-> ip @@ [p |-> "esp", says |-> len, ecn |-> 0, ttl |-> 9],
             inner |-> [v |-> 4, hdr |-> Ip4Hdr, ttl |-> 9, ecn |-> 0],
             esp_seq |-> 1, iv |-> 1, icb |-> 1, enc |-> <<start, f.payload>>,
             auth |-> <<ip.hdr, EspHdr + sa.iv_len + f.payload, len - sa.digest_len>>,
             pad_len |-> 2, padding |-> f.padding, next |-> "ipip"]}
      /\ UNCHANGED <<sa, shared, seq, out, cops, done>>

\* A router on the way has met congestion: only ECN-capable packets are marked.
Congested(w) ==
  /\ w.ip.ecn \in {1, 2}
  /\ wire' = (wire \ {w}) \union {[w EXCEPT !.ip.ecn = 3]}
  /\ UNCHANGED <<sa, shared, seq, left, out, cops, done>>

-----------------------------------------------------------------------------
(* esp_inbound and esp_inbound_post *)

Reaches(w) == w \in wire /\ w.ip.p = "esp"   \* others are not given to esp_inbound

PayloadLen(w) == w.len - w.ip.hdr - EspHdr - sa.iv_len - sa.digest_len

esp_inbound(w) ==
  LET n == PayloadLen(w) IN
  /\ Reaches(w) /\ n > 0 /\ n % sa.block_size = 0
  /\ wire' = wire \ {w}
  /\ cops' = cops \union
       {[w |-> w, enc |-> <<w.ip.hdr + EspHdr + sa.iv_len, n>>,
         auth |-> <<w.ip.hdr, EspHdr + sa.iv_len + n, w.len - sa.digest_len>>,
         icb |-> IF Counter THEN w.iv ELSE w.icb]}
  /\ UNCHANGED <<sa, shared, seq, left, out, done>>

Over(w, res) == done' = done \union {[w |-> w, res |-> res]}
Refused == [refused |-> TRUE]
Garbage == [garbage |-> TRUE]

InboundRefused(w) ==
  LET n == PayloadLen(w) IN
  /\ Reaches(w) /\ (n <= 0 \/ n % sa.block_size # 0)
  /\ wire' = wire \ {w} /\ Over(w, Refused)
  /\ UNCHANGED <<sa, shared, seq, left, out, cops>>

Decrypted(c)     == c.enc = c.w.enc /\ c.icb = c.w.icb
Authenticated(c) == sa.auth = "null" \/ c.auth = c.w.auth

\* Wrong on purpose: the digest stays at the end of the packet.
TrimmedDigest(w) == w.len - (w.pad_len + 2)

\* The length without padding, trailer and digest.
Trimmed(w) == w.len - (w.pad_len + 2 + sa.digest_len)

\* In transport mode the length field is that of the whole packet again.
TransportIn(w) ==
  LET len == Trimmed(w) - (EspHdr + sa.iv_len) IN
  [v |-> w.ip.v, p |-> w.next, len |-> len, says |-> len, ttl |-> w.ip.ttl, ecn |-> w.ip.ecn]

\* ip4_ecn_setup, ip6_ecn_setup: a mark on the outer header is copied to a
\* packet that is ECN-capable.
Ecn(w) == IF w.ip.ecn = 3 /\ w.inner.ecn # 0 THEN 3 ELSE w.inner.ecn

ipip_inbound(w) ==
  LET ip_len == IF w.ip.v = 4 THEN Ip4Hdr ELSE Ip6Hdr IN
  [v |-> w.inner.v, len |-> Trimmed(w) - (ip_len + EspHdr + sa.iv_len),
   ttl |-> (w.inner.ttl - 1) % 256, ecn |-> Ecn(w)]

\* The device has done its work.  What is decrypted wrongly may still look
\* like a padding, unless it is authenticated.
esp_inbound_post(c) ==
  /\ c \in cops /\ cops' = cops \ {c}
  /\ \/ Authenticated(c) /\ Decrypted(c) /\ c.w.padding
        /\ Over(c.w, IF Transport THEN TransportIn(c.w) ELSE ipip_inbound(c.w))
     \/ Authenticated(c) /\ ~ Decrypted(c) /\ Over(c.w, Garbage)
  /\ UNCHANGED <<sa, shared, seq, left, out, wire>>

PostRefused(c) ==
  /\ c \in cops /\ cops' = cops \ {c}
  /\ ~ (Authenticated(c) /\ Decrypted(c) /\ c.w.padding)
  /\ Over(c.w, Refused)
  /\ UNCHANGED <<sa, shared, seq, left, out, wire>>

Outbound(l) ==
  \/ \E m \in Packets : Prepare(l, m) \/ Refuse(l, m)
  \/ LoadSeq(l) \/ StoreSeq(l) \/ EspSeq(l) \/ PacketIv(l) \/ CounterBlock(l)

Next ==
  \/ \E l \in Lcores : Outbound(l)
  \/ \E f \in Foreign : ForeignSend(f)
  \/ \E w \in wire : Congested(w) \/ esp_inbound(w) \/ InboundRefused(w)
  \/ \E c \in cops : esp_inbound_post(c) \/ PostRefused(c)

Spec == Init /\ [][Next]_vars

-----------------------------------------------------------------------------
(* Properties *)

OwnSent == {w \in wire \union {c.w : c \in cops} \union {d.w : d \in done} : w.own}

\* Whatever the length of a packet, the padding and the headers make up the
\* length that the size check is about, nothing is written outside of what was
\* appended or prepended (64 bytes at most), the payload is a multiple of the
\* cipher's block, and an IPv4 header in front has the packet's length.
TypeOK ==
  /\ left \in 0 .. MaxPackets /\ seq \in 0 .. MaxPackets
  /\ \A w \in OwnSent :
       /\ w.enc[1] + w.enc[2] + sa.digest_len = w.len
       /\ w.enc[2] % sa.block_size = 0
       /\ w.pad_len \in 0 .. sa.block_size - 1
       /\ w.len <= TailRoom + 64
       /\ w.ip.p = "esp" /\ w.ip.v = 4 => w.ip.says = w.len

\* What the peer's esp_inbound and esp_inbound_post give back is the packet that
\* esp_outbound was given: its version, its length and, in transport mode, its
\* protocol and, for IPv4, the length field of its header if that is the length
\* of the packet; in a tunnel each end counts the time to live down, and a
\* congestion mark on the outer header is kept.  Both sides agree on what is
\* encrypted and authenticated, for every cipher, mode and length.  Three cases
\* are left out, in which the code as it is does change packets: an SA of
\* several lcores whose cipher takes its counter from sa->seq; a transport
\* header longer than what is put behind it; and the length field of an IPv6
\* header, which does not count the header while both ends write a length that
\* does (esp.c:203 and 308, as ipip.h:75 in a tunnel's outer header).
RoundTrip ==
  LET sound == ~ shared \/ ~ Counter IN
  /\ \A w \in OwnSent : ~ Transport \/ w.m.hdr <= EspHdr + sa.iv_len => w.ip.p = "esp"
  /\ \A d \in done : d.w.own /\ sound =>
       LET m   == d.w.m
           ecn == IF d.w.ip.ecn = 3 THEN 3 ELSE m.ecn
       IN  IF Transport
           THEN /\ [d.res EXCEPT !.says = m.says] =
                     [v |-> m.v, p |-> m.p, len |-> m.len, says |-> m.says,
                      ttl |-> m.ttl, ecn |-> ecn]
                /\ m.v = 4 /\ m.says = m.len => d.res.says = m.says
           ELSE d.res = [v |-> m.v, len |-> m.len, ttl |-> (m.ttl - 2) % 256, ecn |-> ecn]

\* The packets of an SA that one lcore uses have counter blocks of their own,
\* each the one that the packet carries, and the number in the ESP header is
\* that of the counter.
SeqFresh ==
  ~ shared => \A w \in OwnSent :
    /\ w.esp_seq = w.icb % SeqWord
    /\ Counter => w.iv = w.icb
    /\ \A u \in OwnSent : u # w => u.icb # w.icb
=============================================================================
