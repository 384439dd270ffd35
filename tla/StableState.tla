----------------------------- MODULE StableState -----------------------------
(***************************************************************************)
(* What the durable store promises to the engine: a state that changes one *)
(* write at a time, that a restart brings back, and whose incarnation      *)
(* grows with every start. Stopping at any moment changes nothing, except  *)
(* that the write in progress may or may not have been made. There is no   *)
(* journal, file, snapshot or repair here.                                 *)
(*                                                                         *)
(* The promise is made for storage that keeps what it acknowledged:        *)
(* after a write that failed half-way, or bytes that changed on disk,      *)
(* `trusted' is FALSE and nothing is promised.                             *)
(***************************************************************************)
EXTENDS Naturals, Sequences

CONSTANTS CampaignIds, AttemptIds

VARIABLES core,      \* campaign and attempt revisions, ledger, epoch, incarnation
          up,        \* a process has the store open
          trusted    \* storage has kept everything it acknowledged

vars == <<core, up, trusted>>

Init ==
  /\ core = [campaigns |-> [k \in CampaignIds |-> 0], attempts |-> [k \in AttemptIds |-> 0],
             ledger |-> <<>>, epoch |-> 1, incarnation |-> 0]
  /\ up = FALSE
  /\ trusted = TRUE

\* One write.
Written(c, d) ==
  \/ \E k \in CampaignIds : d = [c EXCEPT !.campaigns[k] = @ + 1]
  \/ \E k \in AttemptIds : d = [c EXCEPT !.attempts[k] = @ + 1]
  \/ /\ Len(d.ledger) = Len(c.ledger) + 1
     /\ SubSeq(d.ledger, 1, Len(c.ledger)) = c.ledger
     /\ d = [c EXCEPT !.ledger = d.ledger]
  \/ d.epoch > c.epoch /\ d = [c EXCEPT !.epoch = d.epoch]

\* A start takes the next incarnation, also when it fails right after.
Started(c, d) == d = [c EXCEPT !.incarnation = @ + 1]

\* A write while the store is open, a start, or a stop, orderly or not, between
\* two writes or in the middle of one.
Step(c, d) ==
  \/ up /\ up' /\ Written(c, d)
  \/ ~up /\ up' \in BOOLEAN /\ Started(c, d)
  \/ up /\ ~up' /\ (c = d \/ Written(c, d))

Next ==
  \/ trusted /\ trusted' /\ \E c \in {core}, d \in {core'} : Step(c, d)
  \/ ~trusted'

Spec == Init /\ [][Next]_vars
=============================================================================
