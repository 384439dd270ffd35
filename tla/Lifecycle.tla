----------------------------- MODULE Lifecycle -----------------------------
(***************************************************************************)
(* The lifecycle of an upgrade campaign as pure operators: its states, the *)
(* states of one attempt on one target, and the table of transitions with  *)
(* the guards each of them requires (src/model/lifecycle.cpp).             *)
(***************************************************************************)

UpgradeStates == {"proposed", "validated", "prepared", "staged", "activating",
                  "verifying", "completed", "blocked", "paused", "failed",
                  "rollback_planned", "rolling_back", "rolled_back"}

\* AttemptState without `created`, which no code path assigns; "none" stands
\* for a target that has no attempt record yet.
AttemptStates == {"none", "preparing", "prepared", "activating", "activated",
                  "verifying", "verified", "failed", "aborted", "rolling_back",
                  "rolled_back", "abandoned"}

\* Mutated form: a rolled back campaign is not terminal.
OnlyCompletedIsTerminal == {"completed"}

TerminalStates == {"completed", "rolled_back"}

ActiveStates == {"activating", "verifying", "rolling_back"}

PausableStates == {"validated", "prepared", "staged", "paused", "blocked"}

\* attempt_state_is_in_flight
InFlight(st) == st \in {"preparing", "activating", "verifying", "rolling_back"}

(***************************************************************************)
(* kRules: <<from, to, the guards that must have been established>>.       *)
(***************************************************************************)
PreflightRules ==
  {"proposed", "blocked", "paused"} \X {"validated"}
    \X {{"preflight_current", "artifact_integrity_verified"}}

\* Mutated form: no rollback plan is required before preparing.
ForwardRulesWithoutPlan ==
  { <<"validated", "prepared", {"irreversible_acknowledged"}>>,
    <<"prepared", "staged", {"adapter_supports_strategy", "staging_complete"}>>,
    <<"staged", "activating", {"skew_within_budget", "drain_satisfied"}>>,
    <<"activating", "verifying", {"activation_complete"}>> }

ForwardRules ==
  { <<"validated", "prepared",
      {"rollback_plan_recorded", "irreversible_acknowledged"}>>,
    <<"prepared", "staged", {"adapter_supports_strategy", "staging_complete"}>>,
    <<"staged", "activating", {"skew_within_budget", "drain_satisfied"}>>,
    <<"activating", "verifying", {"activation_complete"}>>,
    <<"verifying", "staged", {"skew_within_budget", "drain_satisfied"}>>,
    <<"verifying", "completed",
      {"verification_fresh_passed", "all_stages_complete"}>>,
    <<"paused", "staged", {"staging_complete"}>> }

\* Mutated form: a planned rollback may be failed.
FailureRulesWithPlanned ==
  {"verifying", "activating", "staged", "prepared", "paused", "validated",
   "rolling_back", "blocked", "rollback_planned"}
    \X {"failed"} \X {{"failure_recorded"}}

FailureRules ==
  {"verifying", "activating", "staged", "prepared", "paused", "validated",
   "rolling_back", "blocked"} \X {"failed"} \X {{"failure_recorded"}}

RollbackRules ==
  { <<"failed", "rollback_planned", {"rollback_eligible"}>>,
    <<"rollback_planned", "rolling_back", {"rollback_eligible"}>>,
    <<"rolling_back", "rolled_back", {"rollback_complete"}>> }

PauseRules == {"validated", "prepared", "staged", "blocked"} \X {"paused"} \X {{}}

BlockRules ==
  {"proposed", "validated", "prepared", "staged", "activating", "verifying"}
    \X {"blocked"} \X {{"failure_recorded"}}

Rules == PreflightRules \cup ForwardRules \cup FailureRules \cup RollbackRules
           \cup PauseRules \cup BlockRules

(***************************************************************************)
(* evaluate_transition: staying put is always allowed, nothing leaves a    *)
(* terminal state, and any other move needs a rule whose guards all hold.  *)
(***************************************************************************)
Allowed(from, to, guards) ==
  \/ from = to
  \/ /\ from \notin TerminalStates
     /\ \E r \in Rules : r[1] = from /\ r[2] = to /\ r[3] \subseteq guards

\* transition_locked: the state after trying the move.
Try(from, to, guards) == IF Allowed(from, to, guards) THEN to ELSE from
=============================================================================
