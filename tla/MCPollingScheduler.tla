---------------------------- MODULE MCPollingScheduler ----------------------------
(* Two tasks over four registrations: one may be removed and registered anew *)
(* while its former runs are still in flight.                                *)
EXTENDS PollingScheduler

CONSTANTS t1, t2

MCIds == {t1, t2}
=============================================================================
