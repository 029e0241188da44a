------------------------------ MODULE MCRuleEngine ------------------------------
(***************************************************************************)
(* RuleEngine on two conditions: a pair of gauges (a price with a          *)
(* hysteresis band and the data age of the monitor), or the price with an  *)
(* event.                                                                  *)
(***************************************************************************)
EXTENDS RuleEngine, TLC

CONSTANTS c1, c2, e1

MCConditions == {c1, c2}
MCMetrics == {"price", "data_age", "liquidation"}
MCEventMetrics == {"liquidation"}
MCDataAgeMetrics == {"data_age"}
MCEventIds == {e1}
MCDurations == {0, 1}
MCCooldowns == {1}
MCLags == {<<0, 0>>, <<1, 2>>}

Price == [metric |-> "price", operator |-> "gte", threshold |-> 2,
          hysteresis |-> 1, boolean |-> FALSE]
DataAge == [metric |-> "data_age", operator |-> "gte", threshold |-> 1,
            hysteresis |-> 0, boolean |-> FALSE]
Liquidation == [metric |-> "liquidation", operator |-> "eq", threshold |-> 1,
                hysteresis |-> 0, boolean |-> TRUE]

Sample(metric, value, status) == [metric |-> metric, value |-> value, status |-> status]
MCSamples ==
  {Sample("price", v, "ok") : v \in 0..2} \cup
  {Sample("price", 2, "error"), Sample("data_age", 0, "ok"), Sample("data_age", 1, "stale"),
   Sample("liquidation", 1, "ok")}

MCDefinitions == {(c1 :> Price @@ c2 :> DataAge), (c1 :> Price @@ c2 :> Liquidation)}
=============================================================================
