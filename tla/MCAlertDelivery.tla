----------------------------- MODULE MCAlertDelivery -----------------------------
(* One alert with two targets and one with a single, shared target. *)
EXTENDS AlertDelivery, TLC

CONSTANTS a1, a2

MCAlerts == {a1, a2}
MCTargetsOf == (a1 :> {1, 2} @@ a2 :> {1})
MCBackoff == <<1, 1>>
MCRetryAfters == {0, 2}
MCLegacyDue == {a2}
=============================================================================
