---------------------------- MODULE MCDriverPool ----------------------------
(* Two workers, two callers, one campaign of two items and one of a single  *)
(* item, a queue of one task and a driver bound that two batches reach.     *)
EXTENDS DriverPool

CONSTANTS w1, w2, t1, t2, c1, c2

MCWorkers   == {w1, w2}
MCCallers   == {t1, t2}
MCCampaigns == {c1, c2}
MCItemsOf   == [c \in MCCampaigns |-> IF c = c1 THEN {"a", "b"} ELSE {"x"}]

\* One caller drives a few passes at a time; the other drives until the engine
\* idles and shuts it down, and may start the small campaign as well.
MCStarts == [t \in MCCallers |-> IF t = t1 THEN MCCampaigns ELSE {c2}]
MCCallsOf ==
  [t \in MCCallers |->
     IF t = t1 THEN {"run_steps", "wait_for_idle"} ELSE {"run_until_idle", "shutdown"}]
=============================================================================
