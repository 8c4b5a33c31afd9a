----------------------------- MODULE MCSchedule -----------------------------
(* Schedule with an int of 13 bits (12 and the sign), so that the sweep reaches its limit. *)
EXTENDS Schedule

\* The clock stepped back, no tick, a fast and a slow round trip, one past STOPTM.
MCTimes == {-5, 0, 25, 40000, 500000}
=============================================================================
