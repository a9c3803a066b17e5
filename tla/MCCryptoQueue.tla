--------------------------- MODULE MCCryptoQueue ---------------------------
(***************************************************************************)
(* A small instance of CryptoQueue for TLC: one context whose two queue    *)
(* pairs could each fill every dequeue burst.                              *)
(***************************************************************************)
EXTENDS CryptoQueue, TLC

MCQps == "out" :> 2
=============================================================================
