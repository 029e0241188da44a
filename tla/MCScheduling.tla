------------------------------ MODULE MCScheduling ------------------------------
(***************************************************************************)
(* Two tasks over four registrations, and a scan for a monitor of the pool  *)
(* and one of an account.                                                   *)
(***************************************************************************)
EXTENDS Scheduling, TLC

CONSTANTS t1, t2, pool, account, usdc, weth, wallet

MCIds == {t1, t2}
MCMonitors == {pool, account}

\* The account's event is of a reserve that has a price, the others are not.
MCProfile == (pool :> [type |-> "pool", reserves |-> {}, wallet |-> wallet])
  @@ (account :> [type |-> "account", reserves |-> {}, wallet |-> wallet])
MCLogs == [b \in 0..MaxTip |->
  IF b % 2 = 1 THEN [reserve |-> usdc, addresses |-> {wallet}, priced |-> TRUE]
  ELSE [reserve |-> weth, addresses |-> {}, priced |-> FALSE]]
=============================================================================
