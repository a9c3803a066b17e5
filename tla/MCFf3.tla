------------------------------- MODULE MCFf3 --------------------------------
(***************************************************************************)
(* Ff3 on a message of 3 bits, an odd length as in enc_lib/test.c, for     *)
(* every message and every pair of round functions.                        *)
(***************************************************************************)
EXTENDS Ff3
=============================================================================
