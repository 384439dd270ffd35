--------------------------- MODULE MCDurableStore ---------------------------
(* One campaign and one attempt, a journal of few records, two starts and at *)
(* most one storage fault.                                                   *)
EXTENDS DurableStore

CONSTANTS c1, a1

MCCampaignIds == {c1}
MCAttemptIds  == {a1}
=============================================================================
