---------------------------- MODULE StagedUpgrade ----------------------------
(***************************************************************************)
(* What a campaign promises to somebody who sees only its targets, its     *)
(* ledger and its verdict: stages one after the other, forward and then at *)
(* most back, a success that is true, boundaries that are not crossed, and *)
(* nothing after the verdict.  There is no lifecycle, attempt, work item,  *)
(* driver, adapter or restart here.                                        *)
(*                                                                         *)
(* What is recorded of a target may trail the target itself: an activation *)
(* takes effect before it is recorded, or is recorded without effect.      *)
(***************************************************************************)
EXTENDS Naturals, Sequences

CONSTANTS Targets, StageOf, Reversible, Handoff

VARIABLES version,   \* what each target runs
          ledger,    \* the outcomes recorded of each target
          verdict    \* open, completed or rolled_back

vars == <<version, ledger, verdict>>

Applied  == <<"applied">>
Verified == <<"applied", "verified">>

Init ==
  /\ version = [t \in Targets |-> "old"]
  /\ ledger = [t \in Targets |-> <<>>]
  /\ verdict = "open"

\* A target's turn comes when every target of every earlier stage is verified.
Turn(t) ==
  \A u \in Targets : StageOf[u] < StageOf[t] => ledger[u] = Verified

\* Nothing was reversed yet: the campaign may go forward.
WayForward == \A t \in Targets : ledger[t] \in {<<>>, Applied, Verified}

\* No irreversible boundary was crossed: it may go back.
WayBack == Reversible /\ (Handoff => \A t \in Targets : ledger[t] # Verified)

\* A target is changed before its activation is recorded, and changed back
\* after it.
Install(t) ==
  /\ ledger[t] = <<>> /\ Turn(t) /\ WayForward
  /\ version' = [version EXCEPT ![t] = "new"]
  /\ UNCHANGED <<ledger, verdict>>

Uninstall(t) ==
  /\ ledger[t] \in {Applied, Verified} /\ WayBack
  /\ version' = [version EXCEPT ![t] = "old"]
  /\ UNCHANGED <<ledger, verdict>>

Record(t, outcome) == ledger' = [ledger EXCEPT ![t] = Append(@, outcome)]

Apply(t) ==
  /\ ledger[t] = <<>> /\ Turn(t) /\ WayForward
  /\ Record(t, "applied")
  /\ UNCHANGED <<version, verdict>>

\* Success is decided by the verification of the last target.
Verify(t) ==
  /\ ledger[t] = Applied /\ version[t] = "new" /\ WayForward
  /\ Record(t, "verified")
  /\ \/ UNCHANGED verdict
     \/ /\ \A u \in Targets : version[u] = "new" /\ ledger'[u] = Verified
        /\ verdict' = "completed"
  /\ UNCHANGED version

\* A rollback is decided by the reversal after which nothing verified is left.
Reverse(t) ==
  /\ ledger[t] \in {Applied, Verified} /\ version[t] = "old" /\ WayBack
  /\ Record(t, "rolled_back")
  /\ \/ UNCHANGED verdict
     \/ /\ \A u \in Targets : ledger'[u] # Verified
        /\ verdict' = "rolled_back"
  /\ UNCHANGED version

Next ==
  /\ verdict = "open"
  /\ \E t \in Targets : Install(t) \/ Uninstall(t) \/ Apply(t) \/ Verify(t) \/ Reverse(t)

Spec == Init /\ [][Next]_vars
=============================================================================
