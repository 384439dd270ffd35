---------------------------- MODULE DurableStore ----------------------------
(***************************************************************************)
(* The engine's durable state: the append-only journal and the maps that   *)
(* are rebuilt from it.                                                    *)
(*                                                                         *)
(*   src/src/store/journal.cpp   open and replay, write_record, close      *)
(*   src/src/store/state.cpp     open, recover, apply_record, put_*,       *)
(*                               append_*, set_epoch, note, compact        *)
(*   src/src/core/fs.cpp         FileWriter, write_file_atomic             *)
(*   src/src/model/provenance.cpp  compute_chain, verify_ledger            *)
(*                                                                         *)
(* A record is its type and what the properties tell apart of its data. A  *)
(* SHA-256 chain value stands for one record and everything before it.     *)
(* Nothing before a frame ever changes while the frame is kept, so a chain *)
(* value is named by the place of its record in the file: a frame holds    *)
(* the place it links to, and is accepted only right after it.             *)
(***************************************************************************)
EXTENDS Naturals, Sequences, FiniteSets

CONSTANTS CampaignIds, AttemptIds,
          MaxRecords,      \* JournalOptions::max_records
          MaxCampaigns,    \* StoreOptions::max_campaigns
          MaxAttempts,     \* StoreOptions::max_attempts
          MaxProvenance,   \* StoreOptions::max_provenance_records
          MaxDecisions,    \* StoreOptions::max_decisions_per_campaign
          MaxSnapshot,     \* entries that fit in one record of max_record_bytes
          MaxRevision,     \* bound: revisions and ticket writes
          MaxEpoch,        \* bound: epochs
          MaxIncarnation,  \* bound: successful starts
          MaxFaults,       \* bound: failed writes and damaged frames
          None

ASSUME StoreAssumption ==
  /\ IsFiniteSet(CampaignIds) /\ IsFiniteSet(AttemptIds)
  /\ MaxRecords \in Nat \ {0} /\ MaxCampaigns \in Nat \ {0} /\ MaxAttempts \in Nat \ {0}
  /\ MaxProvenance \in Nat \ {0} /\ MaxDecisions \in Nat \ {0}
  /\ MaxRevision \in Nat /\ MaxEpoch \in Nat \ {0} /\ MaxIncarnation \in Nat
  /\ MaxFaults \in Nat

VARIABLES
  file,       \* journal.fum: its header and its frames
  temp,       \* journal.compact: the frames of a snapshot being installed
  phase,      \* of the process: see Phases
  records,    \* Journal::records_; its length names chain_ and last_sequence_
  mem,        \* the maps, the ledger, epoch_ and incarnation_ of DurableStore
  faults,     \* failed writes and damaged frames so far
  failed,     \* a write of this process failed with bytes in the file
  rotted,     \* an acknowledged frame was damaged on disk
  started     \* incarnations that came up

vars == <<file, temp, phase, records, mem, faults, failed, rotted, started>>

\* down: no process. opened: the journal is replayed, the boot record is not
\* written. up: in service. swap, replace: inside compact(). dead: the journal
\* of the running process is closed, every write is refused.
Phases == {"down", "opened", "up", "swap", "replace", "dead"}

Record(t, k, n, b) == [type |-> t, key |-> k, num |-> n, body |-> b]
Frame(p, prev) == [record |-> p, prev |-> prev, whole |-> TRUE]

\* A frame of which only part, or something else, is in the file.
Torn == [record |-> Record("note", None, 0, None), prev |-> 0, whole |-> FALSE]

EmptyState ==
  [campaigns |-> [k \in CampaignIds |-> 0], attempts |-> [k \in AttemptIds |-> 0],
   ledger |-> <<>>, chain |-> <<>>, sequence |-> 0, decisions |-> <<>>, ticket |-> 0,
   epoch |-> 1, incarnation |-> 1]

-----------------------------------------------------------------------------
(* Replay. *)

RecordsOf(frames, n) == [j \in 1..n |-> frames[j].record]

\* The checks of Journal::open on frame j: complete, checksum, chain link.
\* The sequence number advances with the chain link.
FrameValid(frames, j) ==
  frames[j].whole /\ frames[j].prev = j - 1

\* Replay stops at the first frame that fails.
ValidLength(frames) ==
  CHOOSE n \in 0..Len(frames) :
    /\ \A j \in 1..n : FrameValid(frames, j)
    /\ n = Len(frames) \/ ~FrameValid(frames, n + 1)

Replayed(frames) == RecordsOf(frames, ValidLength(frames))
Damaged(frames)  == ValidLength(frames) < Len(frames)

\* DurableStore::apply_record.
ApplyRecord(m, p) ==
  CASE p.type = "campaign"   -> [m EXCEPT !.campaigns[p.key] = p.num]
    [] p.type = "attempt"    -> [m EXCEPT !.attempts[p.key] = p.num]
    [] p.type = "provenance" -> [m EXCEPT !.ledger = Append(@, p.body),
                                          !.chain = p.body.chain,
                                          !.sequence = p.body.sequence]
    [] p.type = "decision"   -> [m EXCEPT !.decisions = Append(@, p.num)]
    [] p.type = "ticket"     -> [m EXCEPT !.ticket = p.num]
    [] p.type = "epoch"      -> [m EXCEPT !.epoch = p.num]
    [] p.type = "boot"       -> [m EXCEPT !.incarnation = p.num]
    [] p.type = "snapshot"   -> [m EXCEPT !.campaigns = p.body.campaigns,
                                          !.attempts = p.body.attempts,
                                          !.ledger = p.body.ledger,
                                          !.chain = p.body.chain,
                                          !.sequence = p.body.sequence,
                                          !.decisions = <<>>,
                                          !.epoch = p.body.epoch,
                                          !.incarnation = p.body.incarnation]
    [] p.type \in {"note", "shutdown"} -> m

\* The state after all of rs.
StateOf(rs) ==
  LET after[n \in 0..Len(rs)] ==
        IF n = 0 THEN EmptyState ELSE ApplyRecord(after[n - 1], rs[n])
  IN after[Len(rs)]

\* The backward scan of Journal::open ends at the last boot or snapshot
\* record and keeps what it saw last: the incarnation of that record, and the
\* epoch of the earliest record after it that names one.
LastTerminal(rs) ==
  CHOOSE n \in 0..Len(rs) :
    /\ n = 0 \/ rs[n].type \in {"boot", "snapshot"}
    /\ \A j \in (n + 1)..Len(rs) : rs[j].type \notin {"boot", "snapshot"}

\* Mutated form: the incarnation in a snapshot is not read.
LastBootOnly(rs) ==
  LET n == LastTerminal(rs) IN IF n > 0 /\ rs[n].type = "boot" THEN rs[n].num ELSE 0

LastBootIncarnation(rs) ==
  LET n == LastTerminal(rs)
  IN IF n = 0 THEN 0 ELSE IF rs[n].type = "boot" THEN rs[n].num ELSE rs[n].body.incarnation

LastEpoch(rs) ==
  LET n == LastTerminal(rs)
      named == {j \in (n + 1)..Len(rs) : rs[j].type = "epoch"}
  IN IF n > 0 /\ rs[n].type = "snapshot" THEN rs[n].body.epoch
     ELSE IF named = {} THEN 0
     ELSE rs[CHOOSE j \in named : \A i \in named : j <= i].num

\* DurableStore::recover.
Recovered(rs) ==
  LET m == StateOf(rs)
  IN [m EXCEPT !.epoch = IF LastEpoch(rs) > @ THEN LastEpoch(rs) ELSE @]

-----------------------------------------------------------------------------
(* Appending. *)

\* Mutated form: one record more.
RoomForOneMore == Len(records) <= MaxRecords

Room == Len(records) < MaxRecords

\* What can be in the file when writing record p ends early: nothing, part of
\* the frame, or all of it although the caller never learns.
Partial(p) ==
  {<<>>, <<Torn>>, <<Frame(p, Len(records))>>}

\* Journal::write_record up to its return with success.
Written(p) ==
  /\ Room
  /\ file' = [file EXCEPT !.frames = Append(@, Frame(p, Len(records)))]
  /\ records' = Append(records, p)
  /\ UNCHANGED <<faults, failed>>

\* FileWriter::append or sync fails: the error is returned, the bytes stay,
\* and neither the chain nor tail_damaged_ is touched.
WriteFails(p) ==
  /\ Room /\ faults < MaxFaults
  /\ \E stray \in Partial(p) :
       /\ file' = [file EXCEPT !.frames = @ \o stray]
       /\ failed' = (failed \/ stray # <<>>)
  /\ faults' = faults + 1
  /\ UNCHANGED records

\* The records the operations below write in the present state.
CampaignRecord(k) == Record("campaign", k, mem.campaigns[k] + 1, None)
AttemptRecord(k)  == Record("attempt", k, mem.attempts[k] + 1, None)
DecisionRecord ==
  LET n == Len(mem.decisions)
  IN Record("decision", None, IF n = 0 THEN 1 ELSE mem.decisions[n] + 1, None)
TicketRecord      == Record("ticket", None, mem.ticket + 1, None)
EpochRecord(e)    == Record("epoch", None, e, None)
NoteRecord        == Record("note", None, 0, None)
ShutdownRecord    == Record("shutdown", None, 0, None)
BootRecord(n)     == Record("boot", None, n, None)

\* Mutated form: the snapshot leaves the attempts out.
SnapshotWithoutAttempts == Record("snapshot", None, 0, [mem EXCEPT !.attempts = EmptyState.attempts])

SnapshotRecord == Record("snapshot", None, 0, mem)

\* ProvenanceRecord::compute_chain: the previous chain and the record's content.
ComputeChain(prev, seq, inc) == Append(prev, [sequence |-> seq, incarnation |-> inc])

\* Mutated form: an entry starts a chain of its own.
LedgerEntryUnlinked ==
  LET seq == mem.sequence + 1
  IN [sequence |-> seq, incarnation |-> mem.incarnation, previous |-> <<>>,
      chain |-> ComputeChain(<<>>, seq, mem.incarnation)]

LedgerEntry ==
  LET seq == mem.sequence + 1
  IN [sequence |-> seq, incarnation |-> mem.incarnation, previous |-> mem.chain,
      chain |-> ComputeChain(mem.chain, seq, mem.incarnation)]

ProvenanceRecord == Record("provenance", None, 0, LedgerEntry)

\* ensure_capacity: only a new key needs a free place.
CampaignFits(k) ==
  /\ mem.campaigns[k] > 0 \/ Cardinality({j \in CampaignIds : mem.campaigns[j] > 0}) < MaxCampaigns
  /\ mem.campaigns[k] < MaxRevision
AttemptFits(k) ==
  /\ mem.attempts[k] > 0 \/ Cardinality({j \in AttemptIds : mem.attempts[j] > 0}) < MaxAttempts
  /\ mem.attempts[k] < MaxRevision

\* Mutated form: one entry more.
ProvenanceFitsOneMore == Len(mem.ledger) <= MaxProvenance

ProvenanceFits == Len(mem.ledger) < MaxProvenance

-----------------------------------------------------------------------------
(* Opening. *)

\* What a process held in memory is gone with it.
MemoryLost == records' = <<>> /\ mem' = EmptyState /\ failed' = FALSE

Init ==
  /\ file = [header |-> "none", frames |-> <<>>] /\ temp = <<>>
  /\ phase = "down" /\ records = <<>> /\ mem = EmptyState
  /\ faults = 0 /\ failed = FALSE /\ rotted = FALSE /\ started = {}

\* Journal::open and recover on frames fs.
Load(fs) ==
  /\ file' = [header |-> "ok", frames |-> fs]
  /\ records' = Replayed(fs)
  /\ mem' = Recovered(Replayed(fs))
  /\ failed' = FALSE
  /\ phase' = "opened"
  /\ UNCHANGED <<temp, faults, rotted, started>>

\* A new or an intact journal. A damaged one is refused here, and so is a
\* header that was only partly written.
OpenIntact ==
  /\ phase = "down" /\ Cardinality(started) < MaxIncarnation
  /\ file.header # "torn" /\ ~Damaged(file.frames)
  /\ Load(file.frames)

\* repair_damaged_tail: drop what could not be verified, atomically.
OpenRepaired ==
  /\ phase = "down" /\ Cardinality(started) < MaxIncarnation
  /\ file.header = "ok" /\ Damaged(file.frames)
  /\ Load(SubSeq(file.frames, 1, ValidLength(file.frames)))

\* The process dies while it writes the header of a new journal.
HeaderTorn ==
  /\ phase = "down" /\ file.header = "none"
  /\ file' = [file EXCEPT !.header = "torn"]
  /\ UNCHANGED <<temp, phase, records, mem, faults, failed, rotted, started>>

NextIncarnation == LastBootIncarnation(records) + 1

Boot ==
  /\ phase = "opened"
  /\ Written(BootRecord(NextIncarnation))
  /\ mem' = [mem EXCEPT !.incarnation = NextIncarnation]
  /\ started' = started \cup {NextIncarnation}
  /\ phase' = "up"
  /\ UNCHANGED <<temp, rotted>>

\* The boot record cannot be written: open() fails, and the journal's
\* destructor closes it, which appends a shutdown record.
BootFails ==
  /\ phase = "opened" /\ Room /\ faults < MaxFaults
  /\ \E stray \in Partial(BootRecord(NextIncarnation)) :
       file' = [file EXCEPT !.frames = @ \o stray \o <<Frame(ShutdownRecord, Len(records))>>]
  /\ faults' = faults + 1
  /\ phase' = "down" /\ MemoryLost
  /\ UNCHANGED <<temp, rotted, started>>

\* A journal at its record bound takes no boot record.
BootRefused ==
  /\ phase = "opened" /\ ~Room
  /\ phase' = "down" /\ MemoryLost
  /\ UNCHANGED <<file, temp, faults, rotted, started>>

-----------------------------------------------------------------------------
(* The operations of DurableStore. *)

\* Journal first, memory after: m is the memory when the append succeeds.
Store(p, m) ==
  /\ phase = "up"
  /\ \/ Written(p) /\ mem' = m
     \/ WriteFails(p) /\ UNCHANGED mem
  /\ UNCHANGED <<temp, phase, rotted, started>>

PutCampaign(k) ==
  CampaignFits(k) /\ Store(CampaignRecord(k), [mem EXCEPT !.campaigns[k] = @ + 1])

PutAttempt(k) ==
  AttemptFits(k) /\ Store(AttemptRecord(k), [mem EXCEPT !.attempts[k] = @ + 1])

\* Mutated form: the head of the chain stays behind.
AppendProvenanceOldHead ==
  /\ ProvenanceFits
  /\ Store(ProvenanceRecord, [mem EXCEPT !.ledger = Append(@, LedgerEntry),
                                         !.sequence = LedgerEntry.sequence])

AppendProvenance ==
  /\ ProvenanceFits
  /\ Store(ProvenanceRecord, [mem EXCEPT !.ledger = Append(@, LedgerEntry),
                                         !.chain = LedgerEntry.chain,
                                         !.sequence = LedgerEntry.sequence])

\* The oldest decision of a full list is dropped before the append is tried.
AppendDecision ==
  LET kept == IF Len(mem.decisions) >= MaxDecisions THEN Tail(mem.decisions) ELSE mem.decisions
  IN /\ phase = "up"
     /\ \/ Written(DecisionRecord) /\ mem' = [mem EXCEPT !.decisions = Append(kept, DecisionRecord.num)]
        \/ WriteFails(DecisionRecord) /\ mem' = [mem EXCEPT !.decisions = kept]
     /\ UNCHANGED <<temp, phase, rotted, started>>

\* put_ticket; put_policy writes its record and its map in the same way.
PutTicket == mem.ticket < MaxRevision /\ Store(TicketRecord, [mem EXCEPT !.ticket = @ + 1])
SetEpoch(e) == e > mem.epoch /\ Store(EpochRecord(e), [mem EXCEPT !.epoch = e])
Note == Store(NoteRecord, mem)

\* Journal::close: a shutdown record if there is room; closed in any case.
Close ==
  /\ phase = "up"
  /\ \/ /\ Room
        /\ file' = [file EXCEPT !.frames = Append(@, Frame(ShutdownRecord, Len(records)))]
        /\ UNCHANGED faults
     \/ /\ Room /\ faults < MaxFaults
        /\ \E stray \in Partial(ShutdownRecord) : file' = [file EXCEPT !.frames = @ \o stray]
        /\ faults' = faults + 1
     \/ ~Room /\ UNCHANGED <<file, faults>>
  /\ phase' = "down" /\ MemoryLost
  /\ UNCHANGED <<temp, rotted, started>>

-----------------------------------------------------------------------------
(* compact(). *)

SnapshotSize ==
  Cardinality({k \in CampaignIds : mem.campaigns[k] > 0})
  + Cardinality({k \in AttemptIds : mem.attempts[k] > 0}) + Len(mem.ledger)

\* The snapshot is one record of a fresh journal, closed again at once. A
\* snapshot beyond the record bound is refused.
CompactWrite ==
  /\ phase = "up" /\ SnapshotSize <= MaxSnapshot /\ MaxRecords >= 2
  /\ temp' = <<Frame(SnapshotRecord, 0), Frame(ShutdownRecord, 1)>>
  /\ phase' = "swap"
  /\ UNCHANGED <<file, records, mem, faults, failed, rotted, started>>

\* The old journal is closed. When its shutdown record cannot be written
\* compact() returns, with the journal closed.
CompactClose ==
  /\ phase = "swap"
  /\ \/ Written(ShutdownRecord) /\ phase' = "replace"
     \/ WriteFails(ShutdownRecord) /\ phase' = "dead"
     \/ ~Room /\ phase' = "dead" /\ UNCHANGED <<file, records, faults, failed>>
  /\ UNCHANGED <<temp, mem, rotted, started>>

\* The rename, the second open and recover().
CompactReplace ==
  /\ phase = "replace"
  /\ file' = [header |-> "ok", frames |-> temp]
  /\ records' = Replayed(temp)
  /\ mem' = Recovered(Replayed(temp))
  /\ temp' = <<>>
  /\ phase' = "up"
  /\ failed' = FALSE
  /\ UNCHANGED <<faults, rotted, started>>

CompactReplaceFails ==
  /\ phase = "replace" /\ faults < MaxFaults
  /\ faults' = faults + 1
  /\ phase' = "dead"
  /\ UNCHANGED <<file, temp, records, mem, failed, rotted, started>>

-----------------------------------------------------------------------------
(* The environment. *)

\* The process dies, possibly in the middle of one append: part of a frame is
\* left. A whole frame is left by the step that writes it and a crash after it.
\* journal.compact is left behind and never read.
Crash ==
  /\ phase # "down"
  /\ \/ UNCHANGED file
     \/ /\ Room /\ phase \in {"opened", "up", "swap"}
        /\ file' = [file EXCEPT !.frames = Append(@, Torn)]
  /\ phase' = "down" /\ MemoryLost
  /\ temp' = <<>>
  /\ UNCHANGED <<faults, rotted, started>>

\* A frame changes on disk while no process runs.
Rot ==
  /\ phase = "down" /\ faults < MaxFaults
  /\ \E j \in DOMAIN file.frames :
       /\ file.frames[j].whole
       /\ file' = [file EXCEPT !.frames[j] = Torn]
  /\ faults' = faults + 1
  /\ rotted' = TRUE
  /\ UNCHANGED <<temp, phase, records, mem, failed, started>>

Next ==
  \/ OpenIntact \/ OpenRepaired \/ HeaderTorn \/ Boot \/ BootFails \/ BootRefused
  \/ \E k \in CampaignIds : PutCampaign(k)
  \/ \E k \in AttemptIds : PutAttempt(k)
  \/ AppendProvenance \/ AppendDecision \/ PutTicket
  \/ \E e \in 1..MaxEpoch : SetEpoch(e)
  \/ Note \/ Close
  \/ CompactWrite \/ CompactClose \/ CompactReplace \/ CompactReplaceFails
  \/ Crash \/ Rot

Spec == Init /\ [][Next]_vars

-----------------------------------------------------------------------------
(* Properties. *)

RecordTypes == {"boot", "epoch", "campaign", "attempt", "provenance",
                "decision", "ticket", "note", "snapshot", "shutdown"}

\* Every variable has its type; the journal, the maps and the ledger stay
\* within their bounds.
TypeOK ==
  /\ file.header \in {"none", "torn", "ok"}
  /\ \A j \in DOMAIN file.frames :
       file.frames[j].record.type \in RecordTypes /\ file.frames[j].whole \in BOOLEAN
  /\ Len(records) <= MaxRecords
  /\ phase \in Phases
  /\ mem.campaigns \in [CampaignIds -> 0..MaxRevision]
  /\ mem.attempts \in [AttemptIds -> 0..MaxRevision]
  /\ Len(mem.ledger) <= MaxProvenance /\ mem.epoch \in 1..MaxEpoch
  /\ mem.ticket \in 0..MaxRevision
  /\ faults \in 0..MaxFaults /\ failed \in BOOLEAN /\ rotted \in BOOLEAN
  /\ started \subseteq Nat /\ Cardinality(started) <= MaxIncarnation

\* s is what is left of t after dropping entries at the front.
IsTailOf(s, t) == Len(s) <= Len(t) /\ s = SubSeq(t, Len(t) - Len(s) + 1, Len(t))

\* While the store is in service and no write of this process has left bytes
\* behind, a restart at this moment would bring back what is in memory: every
\* map, the ledger and its chain head, the epoch and the incarnation. Of the
\* decisions memory keeps at least the newest max_decisions_per_campaign.
MemoryIsReplay ==
  phase = "up" /\ ~failed =>
    LET m == Recovered(Replayed(file.frames))
    IN /\ ~Damaged(file.frames) /\ records = Replayed(file.frames)
       /\ [mem EXCEPT !.decisions = <<>>] = [m EXCEPT !.decisions = <<>>]
       /\ IsTailOf(mem.decisions, m.decisions)
       /\ faults = 0 => Len(mem.decisions) >= MaxDecisions \/ mem.decisions = m.decisions

\* verify_ledger.
VerifyLedger(l) ==
  \A i \in DOMAIN l :
    LET prev == IF i = 1 THEN <<>> ELSE l[i - 1].chain
    IN /\ i > 1 => l[i].sequence > l[i - 1].sequence
       /\ l[i].previous = prev
       /\ l[i].chain = ComputeChain(prev, l[i].sequence, l[i].incarnation)

\* The provenance ledger verifies in memory, and while no process runs in what
\* a replay would bring back, and the next entry will link to its last one:
\* through restarts, compactions, repairs, failed writes and damaged frames.
LedgerChained ==
  /\ VerifyLedger(mem.ledger)
  /\ phase = "down" => VerifyLedger(Recovered(Replayed(file.frames)).ledger)
  /\ mem.ledger # <<>> => /\ mem.chain = mem.ledger[Len(mem.ledger)].chain
                          /\ mem.sequence = mem.ledger[Len(mem.ledger)].sequence

\* No process comes up with an incarnation an earlier one had, whatever was
\* torn, repaired or compacted between them, unless a frame that was already
\* on disk was damaged there.
IncarnationFresh ==
  [][(phase = "opened" /\ phase' = "up") => rotted \/ mem'.incarnation \notin started]_vars

\* A journal that has reached its record bound stays as it is, in this process
\* and in every later one, until the disk changes it: it takes no boot record, so
\* no process comes up on it again, and compact(), which closes it with a
\* shutdown record before the rename, cannot shorten it unless that record was
\* the one that filled it.
FullIsFinal ==
  [][(Len(file.frames) = MaxRecords /\ ~Damaged(file.frames) /\ ~failed /\ phase # "replace")
       => (started' = started /\ (file' = file \/ Rot))]_vars

-----------------------------------------------------------------------------
(* The store implements StableState: what counts is the state that a replay *)
(* of the file would produce now.                                           *)

DurableCore ==
  LET rs == Replayed(file.frames)
      m == Recovered(rs)
  IN [campaigns |-> m.campaigns, attempts |-> m.attempts, ledger |-> m.ledger,
      epoch |-> m.epoch, incarnation |-> LastBootIncarnation(rs)]

Stable == INSTANCE StableState
            WITH core <- DurableCore,
                 up <- phase \notin {"down", "opened"},
                 trusted <- faults = 0

\* Journal, replay, repair and compaction together implement a state that
\* changes one write at a time and survives every stop.
ImplementsStableState == Stable!Spec
=============================================================================
