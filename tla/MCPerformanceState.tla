-------------------------- MODULE MCPerformanceState --------------------------
(* Bounds for each series, so that each meets its own hazards: a daily run is *)
(* started again, weekly runs are forced and published, representative runs   *)
(* are dispatched twice, started again, degraded and published.               *)
EXTENDS PerformanceState

All == {"daily", "weekly", "representative"}
PerSeries(d, w, r) ==
  [x \in Series |-> CASE x = "daily" -> d [] x = "weekly" -> w [] x = "representative" -> r]

Forced == PerSeries(0, 1, 2)
Reruns == PerSeries(1, 0, 1)
Published == PerSeries(0, 1, 2)
Faults == PerSeries(1, 1, 2)

(* A page follows the failed re-run.                                          *)
PublishedTwice == PerSeries(2, 2, 2)
=============================================================================
