----------------------------- MODULE EspProofs ------------------------------
(***************************************************************************)
(* Proofs about Esp, for any packets that an mbuf can hold, any number of  *)
(* them, any lcores and SAs, and any packets of other senders.             *)
(***************************************************************************)
EXTENDS Esp, FiniteSetTheorems, TLAPS

(***************************************************************************)
(* The lengths that esp_outbound computes.                                 *)
(***************************************************************************)

\* What RTE_ALIGN_CEIL returns for the blocks of the ciphers.
LEMMA AlignCeilIs ==
  ASSUME NEW n \in Nat, NEW block \in {4, 16}
  PROVE  /\ AlignCeil(n, block) \in Nat
         /\ n <= AlignCeil(n, block) /\ AlignCeil(n, block) <= n + block - 1
         /\ AlignCeil(n, block) % block = 0
<1>1. CASE block = 4
  BY <1>1 DEF AlignCeil
<1>2. CASE block = 16
  BY <1>2 DEF AlignCeil
<1>3. QED BY <1>1, <1>2

\* A difference below 2^16 comes out right in 16 bits.
LEMMA WrapIs ==
  ASSUME NEW x \in Nat, NEW d \in Int, x + d >= 0, x + d <= 17
  PROVE  ((x % 65536) + d) % 65536 = x + d
  OBVIOUS

\* The fields of the SA and of a packet.
LEMMA FieldTypes ==
  ASSUME sa \in Sas, NEW m \in Packets
  PROVE  /\ sa.flags \in {"ipv4-tunnel", "ipv6-tunnel", "transport"}
         /\ sa.iv_len \in {0, 8, 16} /\ sa.block_size \in {4, 16} /\ sa.digest_len \in Nat
         /\ m.v \in {4, 6} /\ m.hdr \in Nat /\ m.hdr >= 20 /\ m.len \in Nat /\ m.len >= m.hdr
         /\ m.says \in Nat /\ m.p # "esp" /\ m.ttl \in 0 .. 255 /\ m.ecn \in 0 .. 3
         /\ TailRoom \in Nat /\ TailRoom <= 65535
  BY EspAssumption

\* A packet that fits has the padding it needs, although the computation has
\* 16 bits, and the sizes checked are those of the packet that is built.
LEMMA Lengths ==
  ASSUME sa \in Sas, NEW m \in Packets, Fits(m)
  PROVE  /\ PadPayload(m) \in Nat /\ PadPayload(m) > 0
         /\ PadPayload(m) % sa.block_size = 0
         /\ Pad(m) = PadPayload(m) + Kept(m) - m.len
         /\ Pad(m) - 2 \in 0 .. sa.block_size - 1
         /\ OuterHdr(m) \in Nat /\ Kept(m) \in Nat
         /\ Transport => Kept(m) = OuterHdr(m)
         /\ ~ Transport => Kept(m) = 0
         /\ Grown(m) = OuterHdr(m) + EspHdr + sa.iv_len + PadPayload(m) + sa.digest_len
         /\ Grown(m) \in Nat /\ Grown(m) <= TailRoom + 64
<1> DEFINE x == AlignCeil(m.len - Kept(m) + 2, sa.block_size)
<1>1. /\ sa.flags \in {"ipv4-tunnel", "ipv6-tunnel", "transport"}
      /\ sa.iv_len \in {0, 8, 16} /\ sa.block_size \in {4, 16} /\ sa.digest_len \in Nat
      /\ m.hdr \in Nat /\ m.len \in Nat /\ m.len >= m.hdr /\ TailRoom \in Nat /\ TailRoom <= 65535
  BY FieldTypes
<1>2. /\ Kept(m) \in Nat /\ Kept(m) <= m.len
      /\ Transport => Kept(m) = m.hdr /\ OuterHdr(m) = m.hdr
      /\ ~ Transport => Kept(m) = 0 /\ OuterHdr(m) \in {20, 40}
      /\ OuterHdr(m) \in Nat
  BY <1>1 DEF Kept, Transport, OuterHdr, Ip4Hdr, Ip6Hdr
<1>3. /\ x \in Nat /\ m.len - Kept(m) + 2 <= x
      /\ x <= m.len - Kept(m) + 2 + sa.block_size - 1
      /\ x % sa.block_size = 0
  <2> DEFINE n == m.len - Kept(m) + 2
  <2>1. n \in Nat
    BY <1>1, <1>2
  <2> HIDE DEF n
  <2>2. /\ AlignCeil(n, sa.block_size) \in Nat
        /\ n <= AlignCeil(n, sa.block_size)
        /\ AlignCeil(n, sa.block_size) <= n + sa.block_size - 1
        /\ AlignCeil(n, sa.block_size) % sa.block_size = 0
    <3>1. PICK block \in {4, 16} : block = sa.block_size
      BY <1>1
    <3>2. QED BY <2>1, <3>1, AlignCeilIs
  <2>3. x = AlignCeil(n, sa.block_size)
    BY DEF x, n
  <2>4. QED BY <2>2, <2>3 DEF n
<1> HIDE DEF x
<1>4. PadPayload(m) = x % 65536 /\ Pad(m) = ((x % 65536) + Kept(m) - m.len) % 65536
  BY DEF x, PadPayload, Pad, Word
<1>5. Pad(m) = x + Kept(m) - m.len
  <2> DEFINE d == Kept(m) - m.len
  <2>1. d \in Int /\ x + d >= 0 /\ x + d <= 17
    BY <1>1, <1>2, <1>3
  <2> HIDE DEF d
  <2>2. ((x % 65536) + d) % 65536 = x + d
    BY <1>3, <2>1, WrapIs
  <2>3. (x % 65536) + Kept(m) - m.len = (x % 65536) + d /\ x + Kept(m) - m.len = x + d
    BY <1>1, <1>2, <1>3 DEF d
  <2>4. QED BY <1>4, <2>2, <2>3
<1>6. x < 65536
  BY <1>1, <1>2, <1>3, <1>5 DEF Fits
<1>7. PadPayload(m) = x
  BY <1>3, <1>4, <1>6
<1>8. /\ PadPayload(m) \in Nat /\ PadPayload(m) > 0
      /\ PadPayload(m) % sa.block_size = 0
      /\ Pad(m) = PadPayload(m) + Kept(m) - m.len
      /\ Pad(m) - 2 \in 0 .. sa.block_size - 1
  BY <1>1, <1>2, <1>3, <1>5, <1>7
<1>9. m.len + Pad(m) + sa.digest_len <= TailRoom
  BY DEF Fits
<1>10. /\ Grown(m) = OuterHdr(m) + EspHdr + sa.iv_len + PadPayload(m) + sa.digest_len
       /\ Grown(m) \in Nat /\ Grown(m) <= TailRoom + 64
  <2>1. CASE Transport
    BY <1>1, <1>2, <1>8, <1>9, <2>1 DEF Grown, EspHdr
  <2>2. CASE ~ Transport
    <3>1. Grown(m) = m.len + Pad(m) + sa.digest_len + 8 + sa.iv_len + OuterHdr(m)
      BY <2>2 DEF Grown, EspHdr
    <3>2. Pad(m) = PadPayload(m) - m.len /\ OuterHdr(m) \in {20, 40}
      BY <1>1, <1>2, <1>8, <2>2
    <3>3. QED BY <1>1, <1>8, <1>9, <3>1, <3>2 DEF EspHdr
  <2>3. QED BY <2>1, <2>2
<1>11. QED BY <1>2, <1>8, <1>10

(***************************************************************************)
(* The inductive invariant, part by part.                                  *)
(***************************************************************************)

\* ip is the header that esp_outbound put in front of m, which may have been
\* marked on the way if m is ECN-capable.
HeaderOf(m, ip) ==
  /\ {"v", "hdr", "p", "says", "ecn", "ttl"} \subseteq DOMAIN ip
  /\ ip.v = Outer(m).v /\ ip.hdr = OuterHdr(m) /\ ip.p = Outer(m).p
  /\ ip.says = Outer(m).says /\ ip.ttl = Outer(m).ttl
  /\ \/ ip.ecn = m.ecn
     \/ ip.ecn = 3 /\ m.ecn # 0

\* w is what esp_outbound made of a packet that fits.
Formed(w) ==
  /\ {"own", "m", "ip", "inner", "len", "esp_seq", "iv", "icb", "enc", "auth",
      "pad_len", "padding", "next"} \subseteq DOMAIN w
  /\ w.m \in Packets /\ Fits(w.m)
  /\ HeaderOf(w.m, w.ip)
  /\ w.inner = Inner(w.m) /\ w.len = Grown(w.m)
  /\ w.enc = Enc(w.m) /\ w.auth = Auth(w.m)
  /\ w.pad_len = Pad(w.m) - 2 /\ w.padding = TRUE /\ w.next = Nlp(w.m)
  /\ w.icb \in Nat

\* A packet of this sender or of another one.
OnTheWay(w) ==
  /\ {"own", "ip"} \subseteq DOMAIN w
  /\ w.own \in BOOLEAN
  /\ w.own => Formed(w)

\* What esp_inbound asks the device to do with c.w.
Asked(c) ==
  c.w.own =>
    /\ c.enc = c.w.enc /\ c.auth = c.w.auth
    /\ c.icb = IF Counter THEN c.w.iv ELSE c.w.icb

\* What esp_inbound_post gives back: in transport mode, the length of the packet
\* is in the header's length field.
Expected(w) ==
  LET m   == w.m
      ecn == IF w.ip.ecn = 3 THEN 3 ELSE m.ecn
  IN  IF Transport
      THEN [v |-> m.v, p |-> m.p, len |-> m.len, says |-> m.len,
            ttl |-> m.ttl, ecn |-> ecn]
      ELSE [v |-> m.v, len |-> m.len, ttl |-> (m.ttl - 2) % 256, ecn |-> ecn]

Sound == ~ shared \/ ~ Counter

PacketsInv ==
  /\ sa \in Sas /\ shared \in BOOLEAN
  /\ \A w \in wire : OnTheWay(w)
  /\ \A c \in cops : OnTheWay(c.w) /\ Asked(c)
  /\ \A d \in done : OnTheWay(d.w) /\ (d.w.own /\ Sound => d.res = Expected(d.w))

\* Where the lcores are in esp_outbound.
Working ==
  /\ seq \in Nat /\ left \in Nat
  /\ DOMAIN out = Lcores
  /\ \A l \in Lcores :
       \/ out[l] = NoPacket
       \/ /\ out[l].at \in {"load", "store", "esp", "iv", "icb"}
          /\ out[l].m \in Packets /\ Fits(out[l].m)
          /\ out[l].at = "store" => out[l].tmp \in Nat

\* The lcores that have a packet they have not counted yet.
Pending == {l \in Lcores : out[l].at \in {"load", "store"}}

\* sa->seq never gets ahead of the packets that came.
Counted ==
  /\ IsFiniteSet(Pending)
  /\ seq + Cardinality(Pending) + left <= MaxPackets
  /\ \A l \in Lcores :
       out[l].at = "store" => out[l].tmp + Cardinality(Pending) + left <= MaxPackets

\* An SA of one lcore, the first of them.
OnlyOne == \A l \in Lcores : out[l] # NoPacket => \A k \in Lcores : l <= k

\* It finds sa->seq as it left it.
Numbers ==
  \A l \in Lcores :
    /\ out[l].at = "store" => out[l].tmp = seq
    /\ out[l].at \in {"iv", "icb"} => out[l].esp_seq = seq % SeqWord
    /\ out[l].at = "icb" => out[l].iv = IF Counter THEN seq ELSE 0

\* The number it has counted up to is not used yet.
Below ==
  \A w \in OwnSent :
    /\ w.icb <= seq
    /\ \A l \in Lcores : out[l].at \in {"esp", "iv", "icb"} => w.icb # seq

\* A packet under way has not arrived.
NotArrived ==
  \A w \in wire : w.own => (\A c \in cops : c.w # w) /\ (\A d \in done : d.w # w)

OneLcore == ~ shared => OnlyOne /\ Numbers /\ Below /\ NotArrived

IInv == PacketsInv /\ Working /\ Counted /\ OneLcore /\ SeqFresh

-----------------------------------------------------------------------------
(* What the actions do, as the proofs below use it. *)

\* What depends on the SA only does not change.
LEMMA SaStays ==
  ASSUME sa' = sa
  PROVE  /\ Transport' = Transport /\ Counter' = Counter
         /\ \A m : Fits(m)' = Fits(m)
         /\ \A w : Formed(w)' = Formed(w) /\ OnTheWay(w)' = OnTheWay(w)
         /\ \A c : Asked(c)' = Asked(c)
         /\ \A w : Expected(w)' = Expected(w)
<1>1. Transport' = Transport /\ Counter' = Counter
  BY DEF Transport, Counter
<1>2. /\ \A m : Kept(m)' = Kept(m) /\ OuterHdr(m)' = OuterHdr(m)
      /\ \A m : PadPayload(m)' = PadPayload(m)
  BY <1>1 DEF Kept, OuterHdr, PadPayload
<1>3. \A m : Pad(m)' = Pad(m)
  BY <1>2 DEF Pad
<1>4. \A m : Fits(m)' = Fits(m) /\ Grown(m)' = Grown(m)
  BY <1>1, <1>2, <1>3 DEF Fits, Grown
<1>5. \A m : Recognised(m)' = Recognised(m)
  BY DEF Recognised, VersionRead
<1>6. \A m : Outer(m)' = Outer(m)
  BY <1>4, <1>5 DEF Outer
<1>7. \A m : Nlp(m)' = Nlp(m) /\ Enc(m)' = Enc(m) /\ Auth(m)' = Auth(m)
  BY <1>1, <1>2, <1>4 DEF Nlp, Enc, Auth
<1>8. \A m, ip : HeaderOf(m, ip)' = HeaderOf(m, ip)
  BY <1>2, <1>6 DEF HeaderOf
<1>9. \A w : Formed(w)' = Formed(w)
  BY <1>3, <1>4, <1>7, <1>8 DEF Formed, Inner
<1>10. \A w : OnTheWay(w)' = OnTheWay(w)
  BY <1>9 DEF OnTheWay
<1>11. \A c : Asked(c)' = Asked(c)
  BY <1>1 DEF Asked
<1>12. \A w : Expected(w)' = Expected(w)
  BY <1>1 DEF Expected
<1>13. QED BY <1>1, <1>4, <1>9, <1>10, <1>11, <1>12

\* The packet that CounterBlock sends.
NewPacket(l) ==
  LET m == out[l].m IN
  [own |-> TRUE, m |-> m, ip |-> Outer(m), inner |-> Inner(m), len |-> Grown(m),
   esp_seq |-> out[l].esp_seq, iv |-> out[l].iv, icb |-> seq,
   enc |-> Enc(m), auth |-> Auth(m),
   pad_len |-> Pad(m) - 2, padding |-> TRUE, next |-> Nlp(m)]

LEMMA OuterIsHeader == ASSUME sa \in Sas, NEW m \in Packets PROVE HeaderOf(m, Outer(m))
<1>1. sa.flags \in {"ipv4-tunnel", "ipv6-tunnel", "transport"}
  BY FieldTypes
<1>2. CASE sa.flags = "ipv4-tunnel"
  <2>1. /\ Outer(m) = [v |-> 4, hdr |-> Ip4Hdr, p |-> "esp", says |-> Grown(m),
                       ecn |-> m.ecn, ttl |-> 64]
        /\ OuterHdr(m) = Ip4Hdr
    BY <1>2 DEF Outer, OuterHdr
  <2>2. QED BY <2>1 DEF HeaderOf
<1>3. CASE sa.flags = "ipv6-tunnel"
  <2>1. /\ Outer(m) = [v |-> 6, hdr |-> Ip6Hdr, p |-> "esp", says |-> Grown(m),
                       ecn |-> m.ecn, ttl |-> 64]
        /\ OuterHdr(m) = Ip6Hdr
    BY <1>3 DEF Outer, OuterHdr
  <2>2. QED BY <2>1 DEF HeaderOf
<1>4. CASE sa.flags = "transport"
  <2>1. /\ Outer(m) = [v |-> m.v, hdr |-> m.hdr, ecn |-> m.ecn, ttl |-> m.ttl,
                       p |-> IF Recognised(m) THEN "esp" ELSE m.p,
                       says |-> IF Recognised(m) THEN Grown(m) ELSE m.says]
        /\ OuterHdr(m) = m.hdr
    BY <1>4 DEF Outer, OuterHdr
  <2>2. QED BY <2>1 DEF HeaderOf
<1>5. QED BY <1>1, <1>2, <1>3, <1>4

LEMMA NewIsFormed ==
  ASSUME sa \in Sas, Working, NEW l \in Lcores, out[l].at = "icb"
  PROVE  /\ OnTheWay(NewPacket(l)) /\ NewPacket(l).own
         /\ NewPacket(l).icb = seq /\ NewPacket(l).esp_seq = out[l].esp_seq
         /\ NewPacket(l).iv = out[l].iv
<1> DEFINE m == out[l].m
           w == NewPacket(l)
<1>1. m \in Packets /\ Fits(m) /\ seq \in Nat
  BY DEF Working, NoPacket
<1>2. HeaderOf(m, Outer(m))
  BY <1>1, OuterIsHeader
<1>3. /\ {"own", "m", "ip", "inner", "len", "esp_seq", "iv", "icb", "enc", "auth",
          "pad_len", "padding", "next"} \subseteq DOMAIN w
      /\ w.own = TRUE /\ w.m = m /\ w.ip = Outer(m) /\ w.inner = Inner(m)
      /\ w.len = Grown(m) /\ w.esp_seq = out[l].esp_seq /\ w.iv = out[l].iv
      /\ w.icb = seq /\ w.enc = Enc(m) /\ w.auth = Auth(m) /\ w.pad_len = Pad(m) - 2
      /\ w.padding = TRUE /\ w.next = Nlp(m)
  BY DEF NewPacket
<1> HIDE DEF w, m
<1>4. Formed(w)
  BY <1>1, <1>2, <1>3 DEF Formed
<1>5. OnTheWay(w)
  BY <1>3, <1>4 DEF OnTheWay
<1>6. QED BY <1>3, <1>5 DEF w, m

\* A mark on the way leaves the packet what it is.
LEMMA MarkedIsFormed ==
  ASSUME NEW w, OnTheWay(w), w.ip.ecn \in {1, 2}
  PROVE  LET x == [w EXCEPT !.ip.ecn = 3] IN
         /\ OnTheWay(x) /\ x.own = w.own
         /\ w.own => x.icb = w.icb /\ x.esp_seq = w.esp_seq /\ x.iv = w.iv
<1> DEFINE x == [w EXCEPT !.ip.ecn = 3]
<1>1. DOMAIN x = DOMAIN w /\ x.own = w.own /\ x.ip = [w.ip EXCEPT !.ecn = 3]
  BY DEF OnTheWay
<1>2. ASSUME Formed(w)
      PROVE  Formed(x) /\ x.icb = w.icb /\ x.esp_seq = w.esp_seq /\ x.iv = w.iv
  <2>1. /\ x.m = w.m /\ x.inner = w.inner /\ x.len = w.len /\ x.esp_seq = w.esp_seq
        /\ x.iv = w.iv /\ x.icb = w.icb /\ x.enc = w.enc /\ x.auth = w.auth
        /\ x.pad_len = w.pad_len /\ x.padding = w.padding /\ x.next = w.next
    BY <1>2 DEF Formed
  <2>2. HeaderOf(w.m, x.ip)
    <3>1. HeaderOf(w.m, w.ip)
      BY <1>2 DEF Formed
    <3>2. /\ DOMAIN x.ip = DOMAIN w.ip /\ x.ip.v = w.ip.v /\ x.ip.hdr = w.ip.hdr
          /\ x.ip.p = w.ip.p /\ x.ip.says = w.ip.says /\ x.ip.ttl = w.ip.ttl
          /\ x.ip.ecn = 3
      BY <1>1, <3>1 DEF HeaderOf
    <3>3. w.m.ecn # 0
      BY <3>1 DEF HeaderOf
    <3>4. QED BY <3>1, <3>2, <3>3 DEF HeaderOf
  <2> HIDE DEF x
  <2>3. QED BY <1>1, <1>2, <2>1, <2>2 DEF Formed
<1> HIDE DEF x
<1>3. QED BY <1>1, <1>2 DEF OnTheWay, x

\* The peer takes the lengths that esp_outbound gave the packet for granted,
\* and they are what it expects.
LEMMA PayloadIs ==
  ASSUME sa \in Sas, NEW w, Formed(w)
  PROVE  /\ PayloadLen(w) > 0 /\ PayloadLen(w) % sa.block_size = 0
         /\ <<w.ip.hdr + EspHdr + sa.iv_len, PayloadLen(w)>> = w.enc
         /\ <<w.ip.hdr, EspHdr + sa.iv_len + PayloadLen(w), w.len - sa.digest_len>> = w.auth
<1> DEFINE m == w.m
<1>1. /\ m \in Packets /\ Fits(m) /\ w.len = Grown(m) /\ w.ip.hdr = OuterHdr(m)
      /\ w.enc = Enc(m) /\ w.auth = Auth(m)
  BY DEF Formed, HeaderOf
<1> HIDE DEF m
<1>2. /\ PadPayload(m) \in Nat /\ PadPayload(m) > 0
      /\ PadPayload(m) % sa.block_size = 0
      /\ OuterHdr(m) \in Nat
      /\ Grown(m) = OuterHdr(m) + EspHdr + sa.iv_len + PadPayload(m) + sa.digest_len
  BY <1>1, Lengths
<1>3. sa.iv_len \in Nat /\ sa.digest_len \in Nat
  BY <1>1, FieldTypes
<1>4. PayloadLen(w) = PadPayload(m)
  BY <1>1, <1>2, <1>3 DEF PayloadLen, EspHdr
<1>5. QED BY <1>1, <1>2, <1>4 DEF Enc, Auth

\* What it takes off is what was put on.
LEMMA GivenBack ==
  ASSUME sa \in Sas, NEW w, Formed(w)
  PROVE  (IF Transport THEN TransportIn(w) ELSE ipip_inbound(w)) = Expected(w)
<1> DEFINE m == w.m
<1>1. /\ m \in Packets /\ Fits(m) /\ HeaderOf(m, w.ip) /\ w.inner = Inner(m)
      /\ w.len = Grown(m) /\ w.pad_len = Pad(m) - 2 /\ w.next = Nlp(m)
  BY DEF Formed
<1>2. /\ sa.flags \in {"ipv4-tunnel", "ipv6-tunnel", "transport"}
      /\ sa.iv_len \in Nat /\ sa.digest_len \in Nat /\ sa.block_size \in Nat
      /\ m.len \in Nat /\ m.ttl \in 0 .. 255
  BY <1>1, FieldTypes
<1>3. /\ Inner(m).v = m.v /\ Inner(m).ecn = m.ecn
      /\ Inner(m).ttl = (m.ttl - 1) % 256
  BY <1>1, EspAssumption DEF Inner
<1> HIDE DEF m
<1>4. /\ Pad(m) = PadPayload(m) + Kept(m) - m.len
      /\ PadPayload(m) \in Nat /\ Kept(m) \in Nat /\ OuterHdr(m) \in Nat
      /\ Transport => Kept(m) = OuterHdr(m)
      /\ ~ Transport => Kept(m) = 0
      /\ Grown(m) = OuterHdr(m) + EspHdr + sa.iv_len + PadPayload(m) + sa.digest_len
  BY <1>1, Lengths
<1>5. Trimmed(w) = OuterHdr(m) - Kept(m) + EspHdr + sa.iv_len + m.len
  <2>1. Trimmed(w) = Grown(m) - (Pad(m) - 2 + 2 + sa.digest_len)
    BY <1>1 DEF Trimmed
  <2>2. Grown(m) \in Nat /\ Pad(m) \in Int
    BY <1>2, <1>4 DEF EspHdr
  <2>3. QED BY <1>2, <1>4, <2>1, <2>2 DEF EspHdr
<1>6. CASE Transport
  <2>1. Trimmed(w) - (EspHdr + sa.iv_len) = m.len
    BY <1>2, <1>4, <1>5, <1>6 DEF EspHdr
  <2>2. w.ip.v = m.v /\ w.ip.ttl = m.ttl /\ w.next = m.p
    BY <1>1, <1>6 DEF HeaderOf, Outer, Transport, Nlp
  <2>3. w.ip.ecn = IF w.ip.ecn = 3 THEN 3 ELSE m.ecn
    BY <1>1 DEF HeaderOf
  <2>4. TransportIn(w) = Expected(w)
    BY <1>6, <2>1, <2>2, <2>3 DEF TransportIn, Expected, m
  <2>5. QED BY <1>6, <2>4
<1>7. CASE ~ Transport
  <2>1. (IF w.ip.v = 4 THEN Ip4Hdr ELSE Ip6Hdr) = OuterHdr(m)
    <3>1. CASE sa.flags = "ipv4-tunnel"
      BY <1>1, <3>1 DEF HeaderOf, Outer, OuterHdr
    <3>2. CASE sa.flags = "ipv6-tunnel"
      BY <1>1, <3>2 DEF HeaderOf, Outer, OuterHdr
    <3>3. QED BY <1>2, <1>7, <3>1, <3>2 DEF Transport
  <2>2. Trimmed(w) - (OuterHdr(m) + EspHdr + sa.iv_len) = m.len
    BY <1>2, <1>4, <1>5, <1>7 DEF EspHdr
  <2>3. w.inner.v = m.v /\ w.inner.ecn = m.ecn /\ w.inner.ttl = (m.ttl - 1) % 256
    BY <1>1, <1>3 DEF m
  <2>4. (((m.ttl - 1) % 256) - 1) % 256 = (m.ttl - 2) % 256
    BY <1>2
  <2>5. Ecn(w) = IF w.ip.ecn = 3 THEN 3 ELSE m.ecn
    BY <1>1, <2>3 DEF HeaderOf, Ecn
  <2>6. ipip_inbound(w) = Expected(w)
    BY <1>7, <2>1, <2>2, <2>3, <2>4, <2>5 DEF ipip_inbound, Expected, m
  <2>7. QED BY <1>7, <2>6
<1>8. QED BY <1>6, <1>7

\* The members of OwnSent.
LEMMA OwnSentIs ==
  /\ \A w \in wire : w.own => w \in OwnSent
  /\ \A c \in cops : c.w.own => c.w \in OwnSent
  /\ \A d \in done : d.w.own => d.w \in OwnSent
  /\ \A w \in OwnSent : w.own /\ (\/ w \in wire
                                  \/ \E c \in cops : w = c.w
                                  \/ \E d \in done : w = d.w)
  BY DEF OwnSent

LEMMA OwnFormed == ASSUME PacketsInv, NEW w \in OwnSent PROVE Formed(w) /\ w.own
  BY OwnSentIs DEF PacketsInv, OnTheWay

LEMMA SaFixed == [Next]_vars => sa' = sa /\ shared' = shared
  BY DEF Next, Outbound, Prepare, Refuse, LoadSeq, StoreSeq, EspSeq, PacketIv, CounterBlock,
         ForeignSend, Congested, esp_inbound, InboundRefused, esp_inbound_post, PostRefused, vars

-----------------------------------------------------------------------------
(* Each part of the invariant is preserved. *)

LEMMA PacketsStep == IInv /\ [Next]_vars => PacketsInv'
<1> SUFFICES ASSUME IInv, [Next]_vars PROVE PacketsInv'
  OBVIOUS
<1>0. PacketsInv /\ Working /\ SeqFresh /\ sa' = sa /\ shared' = shared
  BY SaFixed DEF IInv
<1>1. /\ sa' \in Sas /\ shared' \in BOOLEAN /\ sa \in Sas
      /\ \A w : OnTheWay(w)' = OnTheWay(w)
      /\ \A c : Asked(c)' = Asked(c)
      /\ \A w : Expected(w)' = Expected(w)
      /\ Sound' = Sound
  BY <1>0, SaStays DEF PacketsInv, Sound
<1>2. SUFFICES /\ \A w \in wire' : OnTheWay(w)
               /\ \A c \in cops' : OnTheWay(c.w) /\ Asked(c)
               /\ \A d \in done' : OnTheWay(d.w) /\ (d.w.own /\ Sound => d.res = Expected(d.w))
  BY <1>1 DEF PacketsInv
<1>3. CASE UNCHANGED <<wire, cops, done>>
  BY <1>0, <1>3 DEF PacketsInv
<1>4. ASSUME NEW l \in Lcores, CounterBlock(l)
      PROVE  /\ wire' = wire \union {NewPacket(l)} /\ OnTheWay(NewPacket(l))
             /\ UNCHANGED <<cops, done>>
  BY <1>0, <1>1, <1>4, NewIsFormed DEF CounterBlock, NewPacket
<1>5. ASSUME NEW f \in Foreign, ForeignSend(f)
      PROVE  /\ \E w : wire' = wire \union {w} /\ OnTheWay(w)
             /\ UNCHANGED <<cops, done>>
  <2> DEFINE ip == IF sa.flags = "ipv6-tunnel" THEN [v |-> 6, hdr |-> Ip6Hdr]
                   ELSE [v |-> 4, hdr |-> Ip4Hdr]
             start == ip.hdr + EspHdr + sa.iv_len
             len == start + f.payload + sa.digest_len
             w == [own |-> FALSE, len |-> len,
                   ip |-> ip @@ [p |-> "esp", says |-> len, ecn |-> 0, ttl |-> 9],
                   inner |-> [v |-> 4, hdr |-> Ip4Hdr, ttl |-> 9, ecn |-> 0],
                   esp_seq |-> 1, iv |-> 1, icb |-> 1, enc |-> <<start, f.payload>>,
                   auth |-> <<ip.hdr, EspHdr + sa.iv_len + f.payload, len - sa.digest_len>>,
                   pad_len |-> 2, padding |-> f.padding, next |-> "ipip"]
  <2>1. wire' = wire \union {w}
    BY <1>5, Zenon DEF ForeignSend
  <2>2. OnTheWay(w)
    BY DEF OnTheWay
  <2>3. QED BY <1>5, <2>1, <2>2 DEF ForeignSend
<1>6. ASSUME NEW w \in wire, Congested(w)
      PROVE  /\ \E x : wire' = (wire \ {w}) \union {x} /\ OnTheWay(x)
             /\ UNCHANGED <<cops, done>>
  BY <1>0, <1>6, MarkedIsFormed DEF Congested, PacketsInv
<1>7. ASSUME NEW w \in wire, esp_inbound(w)
      PROVE  /\ \E c : cops' = cops \union {c} /\ OnTheWay(c.w) /\ Asked(c)
             /\ wire' \subseteq wire /\ done' = done
  <2> DEFINE c == [w |-> w, enc |-> <<w.ip.hdr + EspHdr + sa.iv_len, PayloadLen(w)>>,
                   auth |-> <<w.ip.hdr, EspHdr + sa.iv_len + PayloadLen(w),
                              w.len - sa.digest_len>>,
                   icb |-> IF Counter THEN w.iv ELSE w.icb]
  <2>1. cops' = cops \union {c}
    BY <1>7 DEF esp_inbound
  <2>2. OnTheWay(w) /\ (w.own => Formed(w))
    BY <1>0 DEF PacketsInv, OnTheWay
  <2>3. Asked(c)
    BY <1>1, <2>2, PayloadIs DEF Asked
  <2>4. QED BY <1>7, <2>1, <2>2, <2>3 DEF esp_inbound
<1>8. ASSUME NEW w \in wire, InboundRefused(w)
      PROVE  /\ done' = done \union {[w |-> w, res |-> Refused]}
             /\ OnTheWay(w) /\ ~ w.own /\ wire' \subseteq wire /\ cops' = cops
  <2>1. OnTheWay(w) /\ (w.own => Formed(w)) /\ w.own \in BOOLEAN
    BY <1>0 DEF PacketsInv, OnTheWay
  <2>2. ASSUME w.own PROVE FALSE
    <3>1. PayloadLen(w) > 0 /\ PayloadLen(w) % sa.block_size = 0
      BY <1>1, <2>1, <2>2, PayloadIs
    <3>2. PayloadLen(w) \in Int
      BY <3>1, <1>1, <2>1, <2>2, FieldTypes, Lengths DEF PayloadLen, Formed, HeaderOf, EspHdr
    <3>3. QED BY <1>8, <3>1, <3>2 DEF InboundRefused
  <2>3. QED BY <1>8, <2>1, <2>2 DEF InboundRefused, Over
<1>9. ASSUME NEW c \in cops, esp_inbound_post(c) \/ PostRefused(c)
      PROVE  /\ \E res : /\ done' = done \union {[w |-> c.w, res |-> res]}
                         /\ c.w.own /\ Sound => res = Expected(c.w)
             /\ OnTheWay(c.w) /\ cops' \subseteq cops /\ wire' = wire
  <2>1. OnTheWay(c.w) /\ Asked(c) /\ (c.w.own => Formed(c.w))
    BY <1>0 DEF PacketsInv, OnTheWay
  <2>2. ASSUME c.w.own, Sound
        PROVE  Decrypted(c) /\ Authenticated(c) /\ c.w.padding
    <3>1. c.w \in OwnSent
      BY <2>2, OwnSentIs
    <3>2. Counter => c.w.iv = c.w.icb
      BY <1>0, <2>2, <3>1 DEF Sound, SeqFresh
    <3>3. c.enc = c.w.enc /\ c.auth = c.w.auth /\ c.icb = c.w.icb /\ c.w.padding = TRUE
      BY <2>1, <2>2, <3>2 DEF Asked, Formed
    <3>4. QED BY <3>3 DEF Decrypted, Authenticated
  <2>3. c.w.own => (IF Transport THEN TransportIn(c.w) ELSE ipip_inbound(c.w)) = Expected(c.w)
    BY <1>1, <2>1, GivenBack
  <2>4. cops' \subseteq cops /\ wire' = wire
    BY <1>9 DEF esp_inbound_post, PostRefused
  <2>5. \E res : /\ done' = done \union {[w |-> c.w, res |-> res]}
                 /\ c.w.own /\ Sound => res = Expected(c.w)
    <3>1. CASE PostRefused(c)
      BY <2>2, <3>1 DEF PostRefused, Over
    <3>2. CASE /\ esp_inbound_post(c) /\ Decrypted(c)
               /\ Over(c.w, IF Transport THEN TransportIn(c.w) ELSE ipip_inbound(c.w))
      BY <2>3, <3>2 DEF Over
    <3>3. CASE ~ Decrypted(c) /\ Over(c.w, Garbage)
      BY <2>2, <3>3 DEF Over
    <3>4. QED BY <1>9, <3>1, <3>2, <3>3 DEF esp_inbound_post
  <2>6. QED BY <2>1, <2>4, <2>5
<1>10. CASE \E w \in wire : Congested(w) \/ esp_inbound(w) \/ InboundRefused(w)
  <2>1. ASSUME NEW w \in wire, Congested(w) PROVE \A x \in wire' : OnTheWay(x)
    BY <1>0, <1>6, <2>1 DEF PacketsInv
  <2>2. ASSUME NEW w \in wire, esp_inbound(w) PROVE \A c \in cops' : OnTheWay(c.w) /\ Asked(c)
    BY <1>0, <1>7, <2>2 DEF PacketsInv
  <2>3. ASSUME NEW w \in wire, InboundRefused(w)
        PROVE  \A d \in done' : OnTheWay(d.w) /\ (d.w.own /\ Sound => d.res = Expected(d.w))
    BY <1>0, <1>8, <2>3 DEF PacketsInv
  <2>4. QED BY <1>0, <1>6, <1>7, <1>8, <1>10, <2>1, <2>2, <2>3 DEF PacketsInv
<1>11. CASE \E c \in cops : esp_inbound_post(c) \/ PostRefused(c)
  <2>1. PICK c \in cops : esp_inbound_post(c) \/ PostRefused(c)
    BY <1>11
  <2>2. PICK res : /\ done' = done \union {[w |-> c.w, res |-> res]}
                   /\ c.w.own /\ Sound => res = Expected(c.w)
    BY <1>9, <2>1
  <2>3. OnTheWay(c.w) /\ cops' \subseteq cops /\ wire' = wire
    BY <1>9, <2>1
  <2>4. QED BY <1>0, <2>2, <2>3 DEF PacketsInv
<1>12. CASE \E l \in Lcores : Outbound(l)
  <2>1. ASSUME NEW l \in Lcores, Outbound(l), ~ CounterBlock(l)
        PROVE  UNCHANGED <<wire, cops, done>>
    BY <2>1 DEF Outbound, Prepare, Refuse, LoadSeq, StoreSeq, EspSeq, PacketIv
  <2>2. QED BY <1>0, <1>3, <1>4, <1>12, <2>1 DEF PacketsInv
<1>13. CASE \E f \in Foreign : ForeignSend(f)
  BY <1>0, <1>5, <1>13 DEF PacketsInv
<1>14. QED BY <1>3, <1>10, <1>11, <1>12, <1>13 DEF Next, vars

\* A step of lcore l in esp_outbound: what becomes of its packet, and of the
\* counters.
Moves(l) ==
  \/ /\ out[l] = NoPacket /\ left > 0 /\ left' = left - 1 /\ seq' = seq
     /\ shared \/ \A k \in Lcores : l <= k
     /\ \E m \in Packets : Fits(m) /\ out'[l] = [at |-> "load", m |-> m]
  \/ /\ out[l].at = "load" /\ left' = left /\ seq' = seq
     /\ out'[l] = [at |-> "store", m |-> out[l].m, tmp |-> seq]
  \/ /\ out[l].at = "store" /\ left' = left /\ seq' = out[l].tmp + 1
     /\ out'[l] = [at |-> "esp", m |-> out[l].m]
  \/ /\ out[l].at = "esp" /\ left' = left /\ seq' = seq
     /\ out'[l] = [at |-> "iv", m |-> out[l].m, esp_seq |-> seq % SeqWord]
  \/ /\ out[l].at = "iv" /\ left' = left /\ seq' = seq
     /\ out'[l] = [at |-> "icb", m |-> out[l].m, esp_seq |-> out[l].esp_seq,
                   iv |-> IF Counter THEN seq ELSE 0]
  \/ /\ out[l].at = "icb" /\ left' = left /\ seq' = seq
     /\ out'[l] = NoPacket

LEMMA LcoreSteps ==
  ASSUME Working, [Next]_vars
  PROVE  \/ UNCHANGED <<seq, out>> /\ left' \in Nat /\ left' <= left
         \/ \E l \in Lcores : /\ Moves(l) /\ DOMAIN out' = Lcores
                              /\ \A k \in Lcores : k # l => out'[k] = out[k]
<1>1. ASSUME NEW l \in Lcores, NEW to, out' = [out EXCEPT ![l] = to]
      PROVE  /\ DOMAIN out' = Lcores /\ out'[l] = to
             /\ \A k \in Lcores : k # l => out'[k] = out[k]
  BY <1>1 DEF Working
<1>2. ASSUME NEW l \in Lcores, NEW m \in Packets, Prepare(l, m)
      PROVE  Moves(l) /\ \E to : out' = [out EXCEPT ![l] = to]
  BY <1>1, <1>2 DEF Prepare, Coming, Moves
<1>3. ASSUME NEW l \in Lcores, LoadSeq(l)
      PROVE  Moves(l) /\ \E to : out' = [out EXCEPT ![l] = to]
  BY <1>1, <1>3 DEF LoadSeq, Step, Moves
<1>4. ASSUME NEW l \in Lcores, StoreSeq(l)
      PROVE  Moves(l) /\ \E to : out' = [out EXCEPT ![l] = to]
  BY <1>1, <1>4 DEF StoreSeq, Step, Moves
<1>5. ASSUME NEW l \in Lcores, EspSeq(l)
      PROVE  Moves(l) /\ \E to : out' = [out EXCEPT ![l] = to]
  BY <1>1, <1>5 DEF EspSeq, Step, Moves
<1>6. ASSUME NEW l \in Lcores, PacketIv(l)
      PROVE  Moves(l) /\ \E to : out' = [out EXCEPT ![l] = to]
  BY <1>1, <1>6 DEF PacketIv, Step, Moves
<1>7. ASSUME NEW l \in Lcores, CounterBlock(l)
      PROVE  Moves(l) /\ \E to : out' = [out EXCEPT ![l] = to]
  BY <1>1, <1>7 DEF CounterBlock, Moves
<1>8. ASSUME NEW l \in Lcores, NEW m \in Packets, Refuse(l, m)
      PROVE  UNCHANGED <<seq, out>> /\ left' \in Nat /\ left' <= left
  BY <1>8 DEF Refuse, Coming, Working
<1>9. ASSUME NEW f \in Foreign, ForeignSend(f)
      PROVE  UNCHANGED <<seq, out>> /\ left' \in Nat /\ left' <= left
  BY <1>9 DEF ForeignSend, Working
<1>10. ASSUME \/ \E w \in wire : Congested(w) \/ esp_inbound(w) \/ InboundRefused(w)
              \/ \E c \in cops : esp_inbound_post(c) \/ PostRefused(c)
              \/ UNCHANGED vars
       PROVE  UNCHANGED <<seq, out>> /\ left' \in Nat /\ left' <= left
  BY <1>10 DEF Congested, esp_inbound, InboundRefused, esp_inbound_post, PostRefused, vars, Working
<1>11. ASSUME NEW l \in Lcores, Moves(l), \E to : out' = [out EXCEPT ![l] = to]
       PROVE  /\ DOMAIN out' = Lcores
              /\ \A k \in Lcores : k # l => out'[k] = out[k]
  BY <1>1, <1>11
<1>12. CASE \E l \in Lcores : Outbound(l)
  <2>1. PICK l \in Lcores : Outbound(l)
    BY <1>12
  <2>2. CASE \E m \in Packets : Refuse(l, m)
    BY <1>8, <2>2
  <2>3. CASE Moves(l) /\ \E to : out' = [out EXCEPT ![l] = to]
    BY <1>11, <2>3
  <2>4. QED BY <1>2, <1>3, <1>4, <1>5, <1>6, <1>7, <2>1, <2>2, <2>3 DEF Outbound
<1>13. QED BY <1>9, <1>10, <1>12 DEF Next

LEMMA WorkingStep == IInv /\ [Next]_vars => Working'
<1> SUFFICES ASSUME IInv, [Next]_vars PROVE Working'
  OBVIOUS
<1>0. Working /\ \A m : Fits(m)' = Fits(m)
  BY SaFixed, SaStays DEF IInv
<1>1. CASE UNCHANGED <<seq, out>> /\ left' \in Nat
  BY <1>0, <1>1 DEF Working
<1>2. ASSUME NEW l \in Lcores, Moves(l), DOMAIN out' = Lcores,
             \A k \in Lcores : k # l => out'[k] = out[k]
      PROVE  Working'
  <2>1. out[l] # NoPacket =>
          /\ out[l].m \in Packets /\ Fits(out[l].m)
          /\ out[l].at = "store" => out[l].tmp \in Nat
    BY <1>0 DEF Working
  <2>2. out[l].at # "idle" => out[l] # NoPacket
    BY DEF NoPacket
  <2>3. seq' \in Nat /\ left' \in Nat
    BY <1>0, <1>2, <2>1, <2>2 DEF Moves, Working
  <2>4. \/ out'[l] = NoPacket
        \/ /\ out'[l].at \in {"load", "store", "esp", "iv", "icb"}
           /\ out'[l].m \in Packets /\ Fits(out'[l].m)
           /\ out'[l].at = "store" => out'[l].tmp \in Nat
    BY <1>0, <1>2, <2>1, <2>2 DEF Moves, Working
  <2>5. ASSUME NEW k \in Lcores
        PROVE  \/ out'[k] = NoPacket
               \/ /\ out'[k].at \in {"load", "store", "esp", "iv", "icb"}
                  /\ out'[k].m \in Packets /\ Fits(out'[k].m)
                  /\ out'[k].at = "store" => out'[k].tmp \in Nat
    BY <1>0, <1>2, <2>4 DEF Working
  <2>6. QED BY <1>0, <1>2, <2>3, <2>5 DEF Working, NoPacket
<1>3. QED BY <1>0, <1>1, <1>2, LcoreSteps

LEMMA CountedStep == IInv /\ [Next]_vars => Counted'
<1> SUFFICES ASSUME IInv, [Next]_vars PROVE Counted'
  OBVIOUS
<1>0. /\ Working /\ Counted /\ MaxPackets \in Nat /\ seq \in Nat /\ left \in Nat
      /\ IsFiniteSet(Pending) /\ Cardinality(Pending) \in Nat
      /\ seq + Cardinality(Pending) + left <= MaxPackets
  BY EspAssumption, FS_CardinalityType DEF IInv, Counted, Working
<1>1. CASE UNCHANGED <<seq, out>> /\ left' \in Nat /\ left' <= left
  <2>1. Pending' = Pending
    BY <1>1 DEF Pending
  <2>2. seq' + Cardinality(Pending') + left' <= MaxPackets
    BY <1>0, <1>1, <2>1
  <2>3. ASSUME NEW l \in Lcores, out'[l].at = "store"
        PROVE  out'[l].tmp + Cardinality(Pending') + left' <= MaxPackets
    <3>1. out[l].at = "store" /\ out'[l].tmp = out[l].tmp
      BY <1>1, <2>3
    <3>2. out[l].tmp \in Nat
      BY <1>0, <3>1 DEF Working, NoPacket
    <3>3. out[l].tmp + Cardinality(Pending) + left <= MaxPackets
      BY <1>0, <3>1 DEF Counted
    <3>4. QED BY <1>0, <1>1, <2>1, <3>1, <3>2, <3>3
  <2>4. QED BY <1>0, <2>1, <2>2, <2>3 DEF Counted
<1>2. ASSUME NEW l \in Lcores, Moves(l), DOMAIN out' = Lcores,
             \A k \in Lcores : k # l => out'[k] = out[k]
      PROVE  Counted'
  <2>1. \A k \in Lcores \ {l} : k \in Pending' <=> k \in Pending
    BY <1>2 DEF Pending
  <2> DEFINE old == seq + Cardinality(Pending) + left
             new == seq' + Cardinality(Pending') + left'
  <2>2. /\ IsFiniteSet(Pending') /\ Cardinality(Pending') \in Nat
        /\ seq' \in Nat /\ left' \in Nat
        /\ Cardinality(Pending') + left' <= Cardinality(Pending) + left
        /\ new <= MaxPackets
    <3>1. CASE out[l] = NoPacket /\ out'[l].at = "load" /\ left' = left - 1 /\ left > 0 /\ seq' = seq
      <4>1. l \notin Pending /\ Pending' = Pending \cup {l}
        BY <1>2, <2>1, <3>1 DEF Pending, NoPacket
      <4>2. Cardinality(Pending') = Cardinality(Pending) + 1 /\ IsFiniteSet(Pending')
        BY <1>0, <4>1, FS_AddElement
      <4>3. QED BY <1>0, <3>1, <4>2
    <3>2. CASE out[l].at = "store" /\ out'[l].at = "esp" /\ left' = left /\ seq' = out[l].tmp + 1
      <4>1. l \in Pending /\ Pending' = Pending \ {l}
        BY <1>2, <2>1, <3>2 DEF Pending
      <4>2. Cardinality(Pending') = Cardinality(Pending) - 1 /\ IsFiniteSet(Pending')
            /\ Cardinality(Pending') \in Nat
        BY <1>0, <4>1, FS_RemoveElement, FS_CardinalityType
      <4>3. out[l].tmp \in Nat
        BY <1>0, <3>2 DEF Working, NoPacket
      <4>4. out[l].tmp + Cardinality(Pending) + left <= MaxPackets
        BY <1>0, <3>2 DEF Counted
      <4>5. QED BY <1>0, <3>2, <4>2, <4>3, <4>4
    <3>3. CASE /\ l \in Pending <=> l \in Pending'
               /\ left' = left /\ seq' = seq
      <4>1. Pending' = Pending
        BY <2>1, <3>3 DEF Pending
      <4>2. QED BY <1>0, <3>3, <4>1
    <3>4. l \in Pending <=> out[l].at \in {"load", "store"}
      BY DEF Pending
    <3>5. l \in Pending' <=> out'[l].at \in {"load", "store"}
      BY DEF Pending
    <3>6. QED BY <1>2, <3>1, <3>2, <3>3, <3>4, <3>5 DEF Moves, NoPacket
  <2>3. ASSUME NEW k \in Lcores, out'[k].at = "store"
        PROVE  out'[k].tmp + Cardinality(Pending') + left' <= MaxPackets
    <3>1. CASE k = l
      <4>1. out[l].at = "load" /\ out'[k].tmp = seq
        BY <1>2, <2>3, <3>1 DEF Moves, NoPacket
      <4>2. QED BY <1>0, <2>2, <4>1
    <3>2. CASE k # l
      <4>1. out'[k] = out[k] /\ out[k].at = "store"
        BY <1>2, <2>3, <3>2
      <4>2. out[k].tmp \in Nat
        BY <1>0, <4>1 DEF Working, NoPacket
      <4>3. out[k].tmp + Cardinality(Pending) + left <= MaxPackets
        BY <1>0, <4>1 DEF Counted
      <4>4. QED BY <1>0, <2>2, <4>1, <4>2, <4>3
    <3>3. QED BY <3>1, <3>2
  <2>4. QED BY <2>2, <2>3 DEF Counted
<1>3. QED BY <1>0, <1>1, <1>2, LcoreSteps

\* With an SA of one lcore only that one moves.
LEMMA OneActive ==
  ASSUME OnlyOne, ~ shared, NEW l \in Lcores, Moves(l)
  PROVE  /\ \A k \in Lcores : l <= k
         /\ \A k \in Lcores : k # l => out[k] = NoPacket
<1>1. \A k \in Lcores : l <= k
  BY DEF OnlyOne, Moves, NoPacket
<1>2. ASSUME NEW k \in Lcores, out[k] # NoPacket PROVE k = l
  <2>1. k <= l /\ l <= k /\ k \in Nat /\ l \in Nat
    BY <1>1, <1>2, EspAssumption DEF OnlyOne
  <2>2. QED BY <2>1
<1>3. QED BY <1>1, <1>2

LEMMA NumbersStep == IInv /\ ~ shared /\ [Next]_vars => OnlyOne' /\ Numbers'
<1> SUFFICES ASSUME IInv, ~ shared, [Next]_vars PROVE OnlyOne' /\ Numbers'
  OBVIOUS
<1>0. Working /\ OnlyOne /\ Numbers /\ Counter' = Counter
  BY SaFixed, SaStays DEF IInv, OneLcore
<1>1. CASE UNCHANGED <<seq, out>>
  BY <1>0, <1>1 DEF OnlyOne, Numbers
<1>2. ASSUME NEW l \in Lcores, Moves(l), DOMAIN out' = Lcores,
             \A k \in Lcores : k # l => out'[k] = out[k]
      PROVE  OnlyOne' /\ Numbers'
  <2>1. /\ \A k \in Lcores : l <= k
        /\ \A k \in Lcores : k # l => out'[k] = NoPacket
    BY <1>0, <1>2, OneActive
  <2>2. OnlyOne'
    BY <2>1 DEF OnlyOne, NoPacket
  <2>3. /\ out'[l].at = "store" => out'[l].tmp = seq'
        /\ out'[l].at \in {"iv", "icb"} => out'[l].esp_seq = seq' % SeqWord
        /\ out'[l].at = "icb" => out'[l].iv = IF Counter THEN seq' ELSE 0
    BY <1>0, <1>2 DEF Moves, Numbers, NoPacket
  <2>4. QED BY <1>0, <2>1, <2>2, <2>3 DEF Numbers, NoPacket
<1>3. QED BY <1>0, <1>1, <1>2, LcoreSteps

\* w, which is not another sender's, is marked, and becomes x.
BecameMarked(w, x) ==
  /\ w \in wire /\ w.own /\ x.own
  /\ x.icb = w.icb /\ x.esp_seq = w.esp_seq /\ x.iv = w.iv
  /\ wire' = (wire \ {w}) \union {x}
  /\ UNCHANGED <<seq, out, cops, done>>

\* A step leaves the packets sent as they are, sends one, or marks one.
LEMMA SentSteps ==
  ASSUME IInv, ~ shared, [Next]_vars
  PROVE  \/ OwnSent' = OwnSent /\ NotArrived'
         \/ \E l \in Lcores : CounterBlock(l)
         \/ \E w, x : BecameMarked(w, x)
<1>0. PacketsInv /\ NotArrived
  BY DEF IInv, OneLcore
<1>1. CASE UNCHANGED <<wire, cops, done>>
  BY <1>0, <1>1 DEF OwnSent, NotArrived
<1>2. ASSUME NEW f \in Foreign, ForeignSend(f)
      PROVE  OwnSent' = OwnSent /\ NotArrived'
  <2>1. PICK w : wire' = wire \union {w} /\ w.own = FALSE
    <3> DEFINE ip == IF sa.flags = "ipv6-tunnel" THEN [v |-> 6, hdr |-> Ip6Hdr]
                     ELSE [v |-> 4, hdr |-> Ip4Hdr]
               start == ip.hdr + EspHdr + sa.iv_len
               len == start + f.payload + sa.digest_len
               w == [own |-> FALSE, len |-> len,
                     ip |-> ip @@ [p |-> "esp", says |-> len, ecn |-> 0, ttl |-> 9],
                     inner |-> [v |-> 4, hdr |-> Ip4Hdr, ttl |-> 9, ecn |-> 0],
                     esp_seq |-> 1, iv |-> 1, icb |-> 1, enc |-> <<start, f.payload>>,
                     auth |-> <<ip.hdr, EspHdr + sa.iv_len + f.payload, len - sa.digest_len>>,
                     pad_len |-> 2, padding |-> f.padding, next |-> "ipip"]
    <3>1. wire' = wire \union {w}
      BY <1>2, Zenon DEF ForeignSend
    <3>2. w.own = FALSE
      OBVIOUS
    <3>3. QED BY <3>1, <3>2
  <2>2. cops' = cops /\ done' = done
    BY <1>2 DEF ForeignSend
  <2>3. QED BY <1>0, <2>1, <2>2 DEF OwnSent, NotArrived
<1>3. ASSUME NEW w \in wire, Congested(w)
      PROVE  \/ OwnSent' = OwnSent /\ NotArrived'
             \/ \E x : BecameMarked(w, x)
  <2> DEFINE x == [w EXCEPT !.ip.ecn = 3]
  <2>1. /\ w.own \in BOOLEAN /\ x.own = w.own
        /\ w.own => x.icb = w.icb /\ x.esp_seq = w.esp_seq /\ x.iv = w.iv
    BY <1>0, <1>3, MarkedIsFormed DEF Congested, PacketsInv, OnTheWay
  <2>2. wire' = (wire \ {w}) \union {x} /\ UNCHANGED <<seq, out, cops, done>>
    BY <1>3 DEF Congested
  <2> HIDE DEF x
  <2>3. CASE w.own
    BY <2>1, <2>2, <2>3 DEF BecameMarked
  <2>4. CASE ~ w.own
    BY <1>0, <2>1, <2>2, <2>4 DEF OwnSent, NotArrived
  <2>5. QED BY <2>3, <2>4
<1>4. ASSUME NEW w \in wire, esp_inbound(w)
      PROVE  OwnSent' = OwnSent /\ NotArrived'
  <2>1. PICK c : cops' = cops \union {c} /\ c.w = w
    <3> DEFINE c == [w |-> w, enc |-> <<w.ip.hdr + EspHdr + sa.iv_len, PayloadLen(w)>>,
                     auth |-> <<w.ip.hdr, EspHdr + sa.iv_len + PayloadLen(w),
                                w.len - sa.digest_len>>,
                     icb |-> IF Counter THEN w.iv ELSE w.icb]
    <3>1. cops' = cops \union {c}
      BY <1>4 DEF esp_inbound
    <3>2. c.w = w
      OBVIOUS
    <3> HIDE DEF c
    <3>3. QED BY <3>1, <3>2
  <2>2. wire' = wire \ {w} /\ done' = done
    BY <1>4 DEF esp_inbound
  <2>3. OwnSent' = OwnSent
    BY <2>1, <2>2 DEF OwnSent
  <2>4. NotArrived'
    BY <1>0, <2>1, <2>2 DEF NotArrived
  <2>5. QED BY <2>3, <2>4
<1>5. ASSUME NEW w \in wire, InboundRefused(w)
      PROVE  OwnSent' = OwnSent /\ NotArrived'
  <2>1. PICK d : done' = done \union {d} /\ d.w = w
    <3> DEFINE d == [w |-> w, res |-> Refused]
    <3>1. done' = done \union {d} /\ d.w = w
      BY <1>5 DEF InboundRefused, Over
    <3> HIDE DEF d
    <3>2. QED BY <3>1
  <2>2. wire' = wire \ {w} /\ cops' = cops
    BY <1>5 DEF InboundRefused
  <2>3. OwnSent' = OwnSent
    BY <2>1, <2>2 DEF OwnSent
  <2>4. NotArrived'
    BY <1>0, <2>1, <2>2 DEF NotArrived
  <2>5. QED BY <2>3, <2>4
<1>6. ASSUME NEW c \in cops, esp_inbound_post(c) \/ PostRefused(c)
      PROVE  OwnSent' = OwnSent /\ NotArrived'
  <2>1. PICK d : done' = done \union {d} /\ d.w = c.w
    <3>1. \E res : Over(c.w, res)
      BY <1>6 DEF esp_inbound_post, PostRefused
    <3>2. PICK res : done' = done \union {[w |-> c.w, res |-> res]}
      BY <3>1 DEF Over
    <3> DEFINE d == [w |-> c.w, res |-> res]
    <3>3. done' = done \union {d} /\ d.w = c.w
      BY <3>2
    <3> HIDE DEF d
    <3>4. QED BY <3>3
  <2>2. wire' = wire /\ cops' = cops \ {c}
    BY <1>6 DEF esp_inbound_post, PostRefused
  <2>3. {b.w : b \in cops'} \union {b.w : b \in done'} = {b.w : b \in cops} \union {b.w : b \in done}
    BY <2>1, <2>2
  <2>4. OwnSent' = OwnSent
    BY <2>2, <2>3 DEF OwnSent
  <2>5. NotArrived'
    BY <1>0, <2>1, <2>2 DEF NotArrived
  <2>6. QED BY <2>4, <2>5
<1>7. ASSUME NEW l \in Lcores, Outbound(l), ~ CounterBlock(l)
      PROVE  UNCHANGED <<wire, cops, done>>
  BY <1>7 DEF Outbound, Prepare, Refuse, LoadSeq, StoreSeq, EspSeq, PacketIv
<1>8. QED BY <1>1, <1>2, <1>3, <1>4, <1>5, <1>6, <1>7 DEF Next, vars

LEMMA FreshStep == IInv /\ [Next]_vars => OneLcore' /\ SeqFresh'
<1> SUFFICES ASSUME IInv, [Next]_vars, ~ shared
             PROVE  /\ Below' /\ NotArrived'
                    /\ \A w \in OwnSent' :
                         /\ w.esp_seq = w.icb % SeqWord
                         /\ Counter => w.iv = w.icb
                         /\ \A u \in OwnSent' : u # w => u.icb # w.icb
  BY NumbersStep, SaFixed, SaStays DEF OneLcore, SeqFresh
<1>0. /\ PacketsInv /\ Working /\ OnlyOne /\ Numbers /\ Below /\ NotArrived
      /\ seq \in Nat /\ sa \in Sas
      /\ \A w \in OwnSent :
           /\ w.icb \in Nat /\ w.own
           /\ w.esp_seq = w.icb % SeqWord
           /\ Counter => w.iv = w.icb
           /\ \A u \in OwnSent : u # w => u.icb # w.icb
  BY OwnFormed DEF IInv, OneLcore, SeqFresh, Working, PacketsInv, Formed
<1>1. CASE OwnSent' = OwnSent /\ NotArrived'
  <2>1. CASE UNCHANGED <<seq, out>>
    BY <1>0, <1>1, <2>1 DEF Below
  <2>2. ASSUME NEW l \in Lcores, Moves(l), \A k \in Lcores : k # l => out'[k] = out[k]
        PROVE  Below'
    <3>1. \A k \in Lcores : k # l => out'[k] = NoPacket
      BY <1>0, <2>2, OneActive
    <3>2. /\ seq' \in {seq, seq + 1}
          /\ out'[l].at \in {"esp", "iv", "icb"} =>
               \/ seq' = seq + 1
               \/ out[l].at \in {"esp", "iv", "icb"} /\ seq' = seq
      <4>1. seq' = seq \/ (out[l].at = "store" /\ seq' = out[l].tmp + 1)
        BY <2>2, Zenon DEF Moves
      <4>2. \/ out[l].at \in {"store", "esp", "iv"}
            \/ \E m : out'[l] = [at |-> "load", m |-> m]
            \/ \E m, tmp : out'[l] = [at |-> "store", m |-> m, tmp |-> tmp]
            \/ out'[l] = NoPacket
        <5>1. \A x : out[l].at = x => x = out[l].at
          OBVIOUS
        <5>2. QED BY <2>2, <5>1, Zenon DEF Moves
      <4>3. /\ out[l].at = "store" => seq' = out[l].tmp + 1
            /\ out[l].at \in {"esp", "iv"} => seq' = seq
        BY <2>2 DEF Moves, NoPacket
      <4>4. out[l].at = "store" => out[l].tmp = seq
        BY <1>0 DEF Numbers
      <4>5. seq' \in {seq, seq + 1}
        BY <4>1, <4>4
      <4>6. out'[l].at \in {"esp", "iv", "icb"} => out[l].at \in {"store", "esp", "iv"}
        <5>1. \A r, m : r = [at |-> "load", m |-> m] => r.at = "load"
          OBVIOUS
        <5>2. \A r, m, tmp : r = [at |-> "store", m |-> m, tmp |-> tmp] => r.at = "store"
          OBVIOUS
        <5>3. \A r : r = NoPacket => r.at = "idle"
          BY DEF NoPacket
        <5>4. \/ out[l].at \in {"store", "esp", "iv"}
              \/ out'[l].at = "load" \/ out'[l].at = "store" \/ out'[l].at = "idle"
          BY <4>2, <5>1, <5>2, <5>3, Zenon
        <5>5. QED BY <5>4
      <4>7. QED BY <4>3, <4>4, <4>5, <4>6
    <3>3. ASSUME NEW w \in OwnSent
          PROVE  w.icb <= seq' /\ (out'[l].at \in {"esp", "iv", "icb"} => w.icb # seq')
      <4>1. w.icb \in Nat /\ w.icb <= seq
        BY <1>0 DEF Below
      <4>2. out[l].at \in {"esp", "iv", "icb"} => w.icb # seq
        BY <1>0 DEF Below
      <4>3. QED BY <1>0, <3>2, <4>1, <4>2
    <3>4. QED BY <1>1, <3>1, <3>3 DEF Below, NoPacket
  <2>3. QED BY <1>0, <1>1, <2>1, <2>2, LcoreSteps
<1>2. ASSUME NEW l \in Lcores, CounterBlock(l)
      PROVE  /\ Below' /\ NotArrived'
             /\ \A w \in OwnSent' :
                  /\ w.esp_seq = w.icb % SeqWord
                  /\ Counter => w.iv = w.icb
                  /\ \A u \in OwnSent' : u # w => u.icb # w.icb
  <2> DEFINE x == NewPacket(l)
  <2>1. /\ x.own /\ x.icb = seq /\ x.esp_seq = out[l].esp_seq /\ x.iv = out[l].iv
        /\ wire' = wire \union {x} /\ out[l].at = "icb"
        /\ out' = [out EXCEPT ![l] = NoPacket] /\ UNCHANGED <<seq, left, cops, done>>
    BY <1>0, <1>2, NewIsFormed DEF CounterBlock, NewPacket
  <2> HIDE DEF x
  <2>2. OwnSent' = OwnSent \union {x}
    BY <2>1 DEF OwnSent
  <2>3. x.esp_seq = seq % SeqWord /\ (Counter => x.iv = seq)
    BY <1>0, <2>1 DEF Numbers
  <2>4. \A w \in OwnSent : w.icb # seq /\ w.icb <= seq
    BY <1>0, <2>1 DEF Below
  <2>5. \A k \in Lcores : out'[k] = NoPacket
    <3>1. \A k \in Lcores : k # l => out[k] = NoPacket
      <4>1. Moves(l)
        BY <1>0, <2>1 DEF Moves, Working
      <4>2. QED BY <1>0, <4>1, OneActive
    <3>2. QED BY <1>0, <2>1, <3>1 DEF Working
  <2>6. Below'
    BY <1>0, <2>1, <2>2, <2>4, <2>5 DEF Below, NoPacket
  <2>7. NotArrived'
    <3>1. \A c \in cops : c.w # x
      BY <2>1, <2>4, OwnSentIs
    <3>2. \A d \in done : d.w # x
      BY <2>1, <2>4, OwnSentIs
    <3>3. QED BY <1>0, <2>1, <3>1, <3>2 DEF NotArrived
  <2>8. QED BY <1>0, <2>1, <2>2, <2>3, <2>4, <2>6, <2>7
<1>3. ASSUME NEW w, NEW x, BecameMarked(w, x)
      PROVE  /\ Below' /\ NotArrived'
             /\ \A v \in OwnSent' :
                  /\ v.esp_seq = v.icb % SeqWord
                  /\ Counter => v.iv = v.icb
                  /\ \A u \in OwnSent' : u # v => u.icb # v.icb
  <2>1. /\ w \in wire /\ w.own /\ x.own
        /\ x.icb = w.icb /\ x.esp_seq = w.esp_seq /\ x.iv = w.iv
        /\ wire' = (wire \ {w}) \union {x} /\ UNCHANGED <<seq, out, cops, done>>
        /\ w \in OwnSent
    BY <1>3, OwnSentIs DEF BecameMarked
  <2>2. /\ \A c \in cops : c.w # w
        /\ \A d \in done : d.w # w
    BY <1>0, <2>1 DEF NotArrived
  <2>3. \A v \in OwnSent' : v = x \/ (v \in OwnSent /\ v # w)
    BY <2>1, <2>2 DEF OwnSent
  <2>4. Below'
    BY <1>0, <2>1, <2>3 DEF Below
  <2>5. \A v \in OwnSent : v # w => v.icb # x.icb
    BY <1>0, <2>1
  <2>6. \A c \in cops : c.w.own => c.w # x
    BY <2>1, <2>2, <2>5, OwnSentIs
  <2>7. \A d \in done : d.w.own => d.w # x
    BY <2>1, <2>2, <2>5, OwnSentIs
  <2>8. NotArrived'
    BY <1>0, <2>1, <2>6, <2>7 DEF NotArrived
  <2>9. QED BY <1>0, <2>1, <2>3, <2>4, <2>5, <2>8
<1>4. QED BY <1>0, <1>1, <1>2, <1>3, SentSteps

LEMMA IInvInit == Init => IInv
<1> SUFFICES ASSUME Init PROVE IInv
  OBVIOUS
<1>0. /\ MaxPackets \in Nat /\ OwnSent = {}
      /\ \A l \in Lcores : out[l] = NoPacket
  BY EspAssumption DEF Init, OwnSent
<1>1. PacketsInv /\ Working
  BY <1>0 DEF Init, PacketsInv, Working
<1>2. Pending = {}
  BY <1>0 DEF Pending, NoPacket
<1>3. Counted
  BY <1>0, <1>2, FS_EmptySet DEF Init, Counted, NoPacket
<1>4. OneLcore /\ SeqFresh
  BY <1>0 DEF Init, OneLcore, OnlyOne, Numbers, Below, NotArrived, SeqFresh, NoPacket
<1>5. QED BY <1>1, <1>3, <1>4 DEF IInv

LEMMA Invariance == Spec => []IInv
<1>1. Init => IInv
  BY IInvInit
<1>2. IInv /\ [Next]_vars => IInv'
  BY PacketsStep, WorkingStep, CountedStep, FreshStep DEF IInv
<1>3. QED BY <1>1, <1>2, PTL DEF Spec

-----------------------------------------------------------------------------
(* The theorems. *)

\* What the lengths of a packet that was built say of the packet on the way.
LEMMA TypeNow == IInv => TypeOK
<1> SUFFICES ASSUME IInv PROVE TypeOK
  OBVIOUS
<1>1. left \in 0 .. MaxPackets /\ seq \in 0 .. MaxPackets
  <2>1. /\ seq \in Nat /\ left \in Nat /\ Cardinality(Pending) \in Nat /\ MaxPackets \in Nat
        /\ seq + Cardinality(Pending) + left <= MaxPackets
    BY EspAssumption, FS_CardinalityType DEF IInv, Working, Counted
  <2>2. QED BY <2>1
<1>2. ASSUME NEW w \in OwnSent
      PROVE  /\ w.enc[1] + w.enc[2] + sa.digest_len = w.len
             /\ w.enc[2] % sa.block_size = 0
             /\ w.pad_len \in 0 .. sa.block_size - 1
             /\ w.len <= TailRoom + 64
             /\ w.ip.p = "esp" /\ w.ip.v = 4 => w.ip.says = w.len
  <2> DEFINE m == w.m
  <2>1. /\ sa \in Sas /\ m \in Packets /\ Fits(m) /\ HeaderOf(m, w.ip) /\ w.enc = Enc(m)
        /\ w.len = Grown(m) /\ w.pad_len = Pad(m) - 2
    BY OwnFormed DEF IInv, PacketsInv, Formed
  <2> HIDE DEF m
  <2>2. /\ PadPayload(m) \in Nat /\ PadPayload(m) % sa.block_size = 0
        /\ Pad(m) - 2 \in 0 .. sa.block_size - 1 /\ OuterHdr(m) \in Nat
        /\ Grown(m) = OuterHdr(m) + EspHdr + sa.iv_len + PadPayload(m) + sa.digest_len
        /\ Grown(m) <= TailRoom + 64
    BY <2>1, Lengths
  <2>3. /\ sa.iv_len \in Nat /\ sa.digest_len \in Nat /\ m.p # "esp"
        /\ sa.flags \in {"ipv4-tunnel", "ipv6-tunnel", "transport"}
    BY <2>1, FieldTypes
  <2>4. w.enc[1] = OuterHdr(m) + EspHdr + sa.iv_len /\ w.enc[2] = PadPayload(m)
    BY <2>1 DEF Enc
  <2>5. w.ip.p = "esp" => w.ip.says = w.len
    <3>1. Outer(m).p = "esp" => Outer(m).says = Grown(m)
      <4>1. CASE sa.flags = "ipv4-tunnel"
        BY <4>1 DEF Outer
      <4>2. CASE sa.flags = "ipv6-tunnel"
        BY <4>2 DEF Outer
      <4>3. CASE sa.flags = "transport"
        BY <2>3, <4>3 DEF Outer
      <4>4. QED BY <2>3, <4>1, <4>2, <4>3
    <3>2. QED BY <2>1, <3>1 DEF HeaderOf
  <2>6. QED BY <2>1, <2>2, <2>3, <2>4, <2>5 DEF EspHdr
<1>3. QED BY <1>1, <1>2 DEF TypeOK

\* A header that is not longer than what is put behind it is recognised.
LEMMA HeaderNow ==
  ASSUME IInv, NEW w \in OwnSent, ~ Transport \/ w.m.hdr <= EspHdr + sa.iv_len
  PROVE  w.ip.p = "esp"
<1> DEFINE m == w.m
<1>1. sa \in Sas /\ m \in Packets /\ HeaderOf(m, w.ip)
  BY OwnFormed DEF IInv, PacketsInv, Formed
<1>2. sa.flags \in {"ipv4-tunnel", "ipv6-tunnel", "transport"}
  BY <1>1, FieldTypes
<1>3. CASE Transport
  <2>1. m.hdr \in Nat /\ EspHdr + sa.iv_len \in Nat
    BY <1>1, FieldTypes DEF EspHdr
  <2>2. EspHdr + sa.iv_len >= m.hdr
    BY <1>3, <2>1
  <2>3. Recognised(m)
    BY <2>2 DEF Recognised, VersionRead
  <2>4. Outer(m).p = "esp"
    BY <1>3, <2>3 DEF Outer, Transport
  <2>5. QED BY <1>1, <2>4 DEF HeaderOf
<1>4. CASE ~ Transport
  <2>1. Outer(m).p = "esp"
    BY <1>2, <1>4 DEF Outer, Transport
  <2>2. QED BY <1>1, <2>1 DEF HeaderOf
<1>5. QED BY <1>3, <1>4

\* Whatever the lengths of the packets, what esp_outbound builds is as long as
\* its size check and its headers say, and aligned for the cipher.
THEOREM TypeCorrect == Spec => []TypeOK
<1>1. IInv => TypeOK
  BY TypeNow
<1>2. QED BY <1>1, Invariance, PTL

\* esp_inbound and esp_inbound_post undo what esp_outbound did, for every mode,
\* cipher and length, except in the three cases that RoundTrip names.
THEOREM RoundTripHolds == Spec => []RoundTrip
<1>1. IInv => RoundTrip
  <2> SUFFICES ASSUME IInv PROVE RoundTrip
    OBVIOUS
  <2>1. \A w \in OwnSent : ~ Transport \/ w.m.hdr <= EspHdr + sa.iv_len => w.ip.p = "esp"
    BY HeaderNow
  <2>2. ASSUME NEW d \in done, d.w.own, Sound
        PROVE  LET m   == d.w.m
                   ecn == IF d.w.ip.ecn = 3 THEN 3 ELSE m.ecn
               IN  IF Transport
                   THEN /\ [d.res EXCEPT !.says = m.says] =
                             [v |-> m.v, p |-> m.p, len |-> m.len, says |-> m.says,
                              ttl |-> m.ttl, ecn |-> ecn]
                        /\ m.v = 4 /\ m.says = m.len => d.res.says = m.says
                   ELSE d.res = [v |-> m.v, len |-> m.len, ttl |-> (m.ttl - 2) % 256,
                                 ecn |-> ecn]
    <3>1. d.res = Expected(d.w)
      BY <2>2 DEF IInv, PacketsInv
    <3>2. QED BY <3>1 DEF Expected
  <2>3. QED BY <2>1, <2>2 DEF RoundTrip, Sound
<1>2. QED BY <1>1, Invariance, PTL

\* With an SA that one lcore uses no two packets have one counter block, and
\* each carries its own.
THEOREM CountersFresh == Spec => []SeqFresh
  BY Invariance, PTL DEF IInv
=============================================================================
