----------------------------- MODULE MCPoolMonitors -----------------------------
(* Two monitors of a pool: one reads it at each tick and shows volumes, the other *)
(* at each third.                                                                *)
EXTENDS PoolReads

CONSTANTS often, seldom

MCMonitors == {often, seldom}
MCIntervalOf == [m \in MCMonitors |-> IF m = often THEN 1 ELSE 3]
MCWindowsOf == [m \in MCMonitors |-> IF m = often THEN {1, 2} ELSE {}]
=============================================================================
