---------------------------- MODULE MCIpsecLcore ----------------------------
(***************************************************************************)
(* IpsecLcore with one queue pair per direction, an IPv4 policy in both    *)
(* directions and none for IPv6, and one flow of every kind.               *)
(***************************************************************************)
EXTENDS IpsecLcore, TLC

MCNbQps == [c \in Ctx |-> 1]

MCSa       == {<<"in", 1>>, <<"out", 1>>}
MCSaQp     == [s \in MCSa |-> 0]
MCSaTunnel == [s \in MCSa |-> 4]
MCHasSp    == [c \in Ctx |-> [v \in Ver |-> v = 4]]

InFlow(v, esp, sp)  == [dir |-> "in", v |-> v, esp |-> esp, sp |-> sp]
OutFlow(v, esp, sp) == [dir |-> "out", v |-> v, esp |-> esp, sp |-> sp]

\* Received from an unprotected port: in clear although the rule asks for
\* SA 1, in clear as the rule allows, and as ESP of SA 1 whose inner headers
\* call for SA 1 or are IPv6 and meet no policy.
MCInFlow ==
  {InFlow(4, 0, 1), InFlow(4, 0, Bypass), InFlow(4, 1, 1), InFlow(6, 1, 0)}

\* Received from a protected port: to be protected by SA 1, to be dropped,
\* IPv6 with no policy, or ESP that has no business there.
MCOutFlow ==
  {OutFlow(4, 0, 1), OutFlow(4, 0, Discard), OutFlow(6, 0, 0), OutFlow(4, 2, 1)}

MCFlow == MCInFlow \cup MCOutFlow

MCSymmetry == Permutations(Mbuf)
=============================================================================
