----------------------------- MODULE MCTxBatch ------------------------------
(***************************************************************************)
(* TxBatch with bursts of up to 8 packets: a call of port_groupx4 inside   *)
(* the loop, the one after it, and up to three packets counted one by one, *)
(* for every arrangement of two destinations.  Two are enough: packets are *)
(* grouped by whether neighbours have the same one.                        *)
(***************************************************************************)
EXTENDS TxBatch
=============================================================================
