-------------------------- MODULE MCPrefillGateway --------------------------
(* The prefill gateway with two tasks, one of which has a prefix to match.    *)
EXTENDS PrefillGateway, TLC

CONSTANTS t1, t2, p1, k1

TwoTasks == {t1, t2}
OneServer == {p1}
OneKey == {k1}
OneOfEach == [t \in Tasks |-> IF t = t1 THEN k1 ELSE NoKey]

=============================================================================
