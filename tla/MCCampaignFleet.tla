--------------------------- MODULE MCCampaignFleet ---------------------------
(***************************************************************************)
(* A fleet of two redundant pairs, 1-2 and 3-4, the last of which may be   *)
(* blank or absent in the inventory.                                       *)
(***************************************************************************)
EXTENDS CampaignFleet

CONSTANTS c1, c2, pairA, pairB, component, linux

MCTargets == 1..4

MCCatalog ==
  [t \in MCTargets |->
     [component |-> component, platform |-> linux, capabilities |-> {},
      strategies |-> Strategies, removal |-> FALSE,
      group |-> IF t <= 2 THEN pairA ELSE pairB]]

MCInstalled == [t \in MCTargets |-> V(1, 0, 0)]

Artifact(v) ==
  [component |-> component, version |-> v, platforms |-> {linux}, capabilities |-> {},
   reversible |-> TRUE, irreversible_steps |-> {}]

MCRequest(targets, strategy, v) ==
  [component |-> component, targets |-> targets, artifact |-> Artifact(v),
   strategy |-> strategy, max_parallel |-> 2, acknowledged |-> FALSE,
   budget |-> [major |-> 0, minor |-> 1, patch |-> 0, pairs |-> {}]]

\* The pair that two campaigns upgrade, to different versions.
Pair  == MCRequest(<<1, 2>>, "redundant_pair_rolling", V(1, 1, 0))
Newer == MCRequest(<<2>>, "in_place", V(1, 2, 0))

\* Requests that are only planned, some of them to be rejected.
Rolling  == MCRequest(<<>>, "redundant_pair_rolling", V(1, 1, 0))
Lonely   == MCRequest(<<2, 3, 4>>, "redundant_pair_rolling", V(1, 1, 0))
Restarts == MCRequest(<<2, 1>>, "restart_based", V(1, 1, 0))
Older    == MCRequest(<<1, 2>>, "in_place", V(0, 9, 0))
Twice    == MCRequest(<<1, 1, 5>>, "in_place", V(1, 1, 0))

MCRequests   == {Pair, Newer, Rolling, Lonely, Restarts, Older, Twice}
MCCampaigns  == {c1, c2}
MCRequestsOf == [c \in MCCampaigns |-> IF c = c1 THEN {Pair} ELSE {Newer}]
MCPolicy     == [max_targets |-> 4, max_stages |-> 2, max_concurrent |-> 2]
MCDrift      == {V(1, 2, 0)}
MCAnswers    == {{}, MCTargets}

\* One campaign, both of whose targets are unsteady.
OneCampaign   == {c1}
OneRequest    == {Pair}
OneRequestsOf == [c \in OneCampaign |-> OneRequest]
AllCompatible == {MCTargets}
=============================================================================
