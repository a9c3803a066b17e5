---------------------------- MODULE MCIpsecNoSp -----------------------------
(***************************************************************************)
(* IpsecNoSp with one SA in each direction and IPv4 and IPv6 traffic.      *)
(***************************************************************************)
EXTENDS IpsecNoSp

MCNbQps    == [c \in Ctx |-> 1]
MCSa       == {<<"in", 1>>, <<"out", 1>>}
MCSaQp     == [s \in MCSa |-> 0]
MCSaTunnel == [s \in MCSa |-> 4]
MCHasSp    == [c \in Ctx |-> [v \in Ver |-> FALSE]]

MCFlow == {[dir |-> "in", v |-> 4, esp |-> 1, sp |-> 0],
           [dir |-> "out", v |-> 4, esp |-> 0, sp |-> 0],
           [dir |-> "out", v |-> 6, esp |-> 0, sp |-> 0]}
=============================================================================
