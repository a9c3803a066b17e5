------------------------------- MODULE MCEsp --------------------------------
(***************************************************************************)
(* Small instance of Esp: the SAs of all modes with the lengths of the     *)
(* algorithms in sa.c, and packets on both sides of every boundary of      *)
(* padding and room, with and without IP options.                          *)
(***************************************************************************)
EXTENDS Esp

MCSas ==
  { [flags |-> f, cipher |-> c[1], iv_len |-> c[2], block_size |-> c[3],
     auth |-> c[4], digest_len |-> c[5]] :
      f \in {"ipv4-tunnel", "ipv6-tunnel", "transport"},
      c \in {<<"null", 0, 4, "null", 0>>, <<"aes-128-cbc", 16, 16, "sha1-hmac", 12>>,
             <<"aes-128-ctr", 8, 16, "sha1-hmac", 12>>,
             <<"aes-128-gcm", 8, 16, "aes-128-gcm", 16>>} }

ip4(hdr, len, ttl, ecn) ==
  [v |-> 4, hdr |-> hdr, len |-> len, says |-> len, p |-> "tcp", ttl |-> ttl, ecn |-> ecn,
   nib |-> 8 :> ttl \div 16 @@ 16 :> 12 @@ 24 :> 0]
ip6(len, nib, ecn) ==
  [v |-> 6, hdr |-> 40, len |-> len, says |-> len - 40, p |-> "udp", ttl |-> 64, ecn |-> ecn,
   nib |-> 8 :> 2 @@ 16 :> 0 @@ 24 :> nib]

MCPackets ==
  {ip4(20, n, 64, 2) : n \in {20, 28, 33, 34, 35}}
  \union {ip4(20, 30, 1, 0), ip4(24, 39, 65, 1), ip4(20, 100, 64, 0)}
  \union {[ip4(20, 46, 64, 0) EXCEPT !.says = 40]}   \* Ethernet's padding is still there
  \union {ip6(n, 2, 2) : n \in {40, 54, 55}} \union {ip6(58, 4, 0)}

MCForeign == {[payload |-> n, padding |-> b] : n \in {4, 16}, b \in BOOLEAN}
=============================================================================
