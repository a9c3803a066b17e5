----------------------------- MODULE MCNatTable -----------------------------
(***************************************************************************)
(* NatTable with octets of 2 bits: an address has 8 bits, a /8 covers 64   *)
(* addresses, a /16 16 and a /24 4.  The files are made of the prefixes    *)
(* 1/8 and 2/8, the /16s of 2 and 3, and the first /24s of 1 and 3.        *)
(***************************************************************************)
EXTENDS NatTable

MCCandidates == {1, 2} \cup 8 .. 15 \cup 16 .. 21 \cup 48 .. 50
=============================================================================
