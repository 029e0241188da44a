---------------------------- MODULE MCControlPlane ----------------------------
(* One integration asked for the v3, v4 and PancakeSwap positions of a wallet; a   *)
(* monitor of a position and one of the market; of the four positions that can be  *)
(* asked for, one does not exist.                                                  *)
EXTENDS ControlPlane

CONSTANTS chain, m1, m2, rpc, market

MCCallChains == {chain}
MCCapabilitiesOf == chain :> {"reserves", "v3", "v4", "pancake"}
MCKinds == {"v3", "v4", "pancake"}
MCChainOf == [k \in MCKinds |-> chain]
MCMonitors == {m1, m2}
MCKindOf == (m1 :> "position") @@ (m2 :> "market")
MCIntegrations == {rpc, market}
MCMarketData == {market}
MCPositions == {<<1, 1>>, <<1, 2>>, <<2, 1>>}

\* A bound: besides the tests, a behaviour asks for one sort of thing.
Asked(sort) ==
  \/ sort \in late
  \/ \E a \in Calls : Served!SortOf(call[a]) = sort
  \/ sort = "reserves" /\ \E c \in CallChains : catalog[c].config # 0
  \/ sort \in Kinds /\ readers[sort] # 0
  \/ sort = "v4" /\ (index # {} \/ job.running)
OneSortAtATime ==
  part = "calls" => Cardinality({sort \in Served!Sorts \ {"test"} : Asked(sort)}) <= 1
=============================================================================
