-------------------------- MODULE MCConnectorSync --------------------------
(* ConnectorSync on two deals and two runs. A page holds one deal: a change *)
(* to the first, or its deletion, can fall between two pages.               *)
EXTENDS ConnectorSync

CONSTANTS d1, d2

MCDeals == {d1, d2}

MCMaxVersion == [d \in MCDeals |-> IF d = d1 THEN 2 ELSE 1]
=============================================================================
