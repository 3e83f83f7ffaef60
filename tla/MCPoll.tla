------------------------------- MODULE MCPoll -------------------------------
(* Poll for TLC: the optional sources a router has.                        *)
EXTENDS Poll

NativeAndUci == {"network.wireless", "uci", "hosts"}
\* calls left running by failed polls that are told apart at a time: one is enough to
\* run beside every call of the polls after it
FewStragglers == Cardinality({t \in tasks : ~t.own}) <= 1

Everything == {"network.wireless", "uci", "iwinfo", "hosts"}
=============================================================================
