------------------------- MODULE DurableStoreProofs -------------------------
(***************************************************************************)
(* The durable store for every set of campaigns and attempts, every        *)
(* journal length and every number of storage faults: the maps in memory   *)
(* are what a replay of the file gives, the ledger is one chain, no        *)
(* incarnation comes up twice, a full journal stays full, and the whole    *)
(* implements StableState.                                                 *)
(***************************************************************************)
EXTENDS DurableStore, SequenceTheorems, FiniteSetTheorems, TLAPS

-----------------------------------------------------------------------------
(***************************************************************************)
(* Induction over numbers. The library's induction theorems range over     *)
(* predicates; these range over sets, which every prover can instantiate.  *)
(***************************************************************************)
LEMMA Least ==
  ASSUME NEW T, T \subseteq Nat, T # {}
  PROVE  \E n \in T : \A m \in T : n <= m
<1> DEFINE R == OpToRel(<, Nat)
<1>1. IsWellFoundedOn(R, Nat)
  BY NatLessThanWellFounded
<1>2. \A m, n \in Nat : <<m, n>> \in R <=> m < n
  BY DEF OpToRel
<1> HIDE DEF R
<1>3. PICK x \in T : \A y \in T : ~ (<<y, x>> \in R)
  BY <1>1, WFMin
<1>4. x \in Nat /\ \A y \in T : y \in Nat /\ ~(y < x)
  BY <1>2, <1>3
<1>5. \A y \in T : x <= y
  BY <1>4
<1> QED BY <1>5

LEMMA Greatest ==
  ASSUME NEW k \in Nat, NEW T, T \subseteq 0..k, T # {}
  PROVE  \E n \in T : \A m \in T : m <= n
<1> DEFINE D == {k - n : n \in T}
<1>1. D \subseteq Nat /\ D # {}
  <2>1. PICK n \in T : TRUE
    OBVIOUS
  <2>2. k - n \in D
    OBVIOUS
  <2>3. \A m \in T : k - m \in Nat
    OBVIOUS
  <2> QED BY <2>2, <2>3
<1>2. PICK d \in D : \A e \in D : d <= e
  <2> HIDE DEF D
  <2> QED BY <1>1, Least
<1>3. PICK n \in T : d = k - n
  OBVIOUS
<1>4. \A m \in T : k - n <= k - m
  BY <1>2, <1>3
<1> QED BY <1>4

LEMMA StepByStep ==
  ASSUME NEW N, 0 \in N, \A n \in Nat : n \in N => n + 1 \in N
  PROVE  \A n \in Nat : n \in N
<1> SUFFICES ASSUME NEW n \in Nat, n \notin N PROVE FALSE
  OBVIOUS
<1> DEFINE T == Nat \ N
<1>1. PICK m \in T : \A k \in T : m <= k
  BY Least, T \subseteq Nat, T # {}
<1>2. m # 0 /\ m - 1 \in Nat /\ m - 1 \in N
  BY <1>1
<1> QED BY <1>1, <1>2

-----------------------------------------------------------------------------
(***************************************************************************)
(* Replay is a fold: the state after a sequence of records is the state    *)
(* after all but the last, with the last applied to it.                    *)
(***************************************************************************)
Folds(m, rs, g) ==
  g = [n \in 0..m |-> IF n = 0 THEN EmptyState ELSE ApplyRecord(g[n - 1], rs[n])]

LEMMA FoldExists ==
  ASSUME NEW rs PROVE \A m \in Nat : \E g : Folds(m, rs, g)
<1> DEFINE N == {m \in Nat : \E g : Folds(m, rs, g)}
<1>1. 0 \in N
  <2>1. Folds(0, rs, [n \in 0..0 |-> EmptyState])
    BY DEF Folds
  <2> QED BY <2>1
<1>2. ASSUME NEW m \in Nat, m \in N PROVE m + 1 \in N
  <2>1. PICK g : Folds(m, rs, g)
    BY <1>2
  <2> DEFINE h == [n \in 0..(m + 1) |->
                     IF n = m + 1 THEN ApplyRecord(g[m], rs[m + 1]) ELSE g[n]]
  <2>2. \A n \in 0..(m + 1) : h[n] = IF n = 0 THEN EmptyState ELSE ApplyRecord(h[n - 1], rs[n])
    BY <2>1 DEF Folds
  <2>3. Folds(m + 1, rs, h)
    BY <2>2 DEF Folds
  <2>4. \E f : Folds(m + 1, rs, f)
    BY <2>3
  <2> QED BY <2>4
<1> HIDE DEF N
<1>3. \A m \in Nat : m \in N
  BY <1>1, <1>2, StepByStep
<1> QED BY <1>3 DEF N

LEMMA FoldAgrees ==
  ASSUME NEW rs, NEW ss, NEW m \in Nat, NEW k \in Nat, NEW g, NEW h,
         Folds(m, rs, g), Folds(k, ss, h),
         NEW l \in 0..m, l <= k, \A i \in 1..l : rs[i] = ss[i]
  PROVE  g[l] = h[l]
<1> DEFINE N == {n \in Nat : n <= l => g[n] = h[n]}
<1>1. 0 \in N
  BY DEF Folds
<1>2. ASSUME NEW n \in Nat, n \in N PROVE n + 1 \in N
  <2> SUFFICES ASSUME n + 1 <= l PROVE g[n + 1] = h[n + 1]
    OBVIOUS
  <2>1. g[n + 1] = ApplyRecord(g[n], rs[n + 1]) /\ h[n + 1] = ApplyRecord(h[n], ss[n + 1])
    BY DEF Folds
  <2>2. g[n] = h[n] /\ rs[n + 1] = ss[n + 1]
    BY <1>2
  <2> QED BY <2>1, <2>2
<1> HIDE DEF N
<1>3. l \in N
  BY <1>1, <1>2, StepByStep
<1> QED BY <1>3 DEF N

LEMMA StateOfFold ==
  ASSUME NEW rs, Len(rs) \in Nat
  PROVE  \E g : Folds(Len(rs), rs, g) /\ StateOf(rs) = g[Len(rs)]
<1> DEFINE a == CHOOSE g : Folds(Len(rs), rs, g)
<1>1. Folds(Len(rs), rs, a)
  BY FoldExists
<1>2. StateOf(rs) = a[Len(rs)]
  BY DEF StateOf, Folds
<1> QED BY <1>1, <1>2

LEMMA StateOfEmpty == StateOf(<<>>) = EmptyState
<1>1. Len(<<>>) = 0
  OBVIOUS
<1>2. PICK g : Folds(0, <<>>, g) /\ StateOf(<<>>) = g[0]
  BY <1>1, StateOfFold
<1>3. g[0] = EmptyState
  BY <1>2 DEF Folds
<1> QED BY <1>2, <1>3

LEMMA StateOfAppend ==
  ASSUME NEW S, NEW rs \in Seq(S), NEW p \in S
  PROVE  StateOf(Append(rs, p)) = ApplyRecord(StateOf(rs), p)
<1> DEFINE L == Len(rs)
           ss == Append(rs, p)
<1>1. L \in Nat /\ Len(ss) = L + 1 /\ ss[L + 1] = p /\ \A i \in 1..L : ss[i] = rs[i]
  BY AppendProperties, LenProperties
<1> HIDE DEF ss, L
<1>2. PICK g : Folds(L, rs, g) /\ StateOf(rs) = g[L]
  BY <1>1, StateOfFold DEF L
<1>3. PICK h : Folds(L + 1, ss, h) /\ StateOf(ss) = h[L + 1]
  <2>1. Len(ss) \in Nat
    BY <1>1
  <2> QED BY <1>1, <2>1, StateOfFold
<1>4. h[L] = g[L]
  BY <1>1, <1>2, <1>3, FoldAgrees
<1>5. h[L + 1] = ApplyRecord(h[L], p)
  BY <1>1, <1>3 DEF Folds
<1> QED BY <1>2, <1>3, <1>4, <1>5 DEF ss

-----------------------------------------------------------------------------
(***************************************************************************)
(* The types of what the journal holds.                                    *)
(***************************************************************************)
Links   == [sequence : Nat, incarnation : Nat]
Entries == [sequence : Nat, incarnation : Nat, previous : Seq(Links), chain : Seq(Links)]

States ==
  [campaigns : [CampaignIds -> 0..MaxRevision], attempts : [AttemptIds -> 0..MaxRevision],
   ledger : Seq(Entries), chain : Seq(Links), sequence : Nat, decisions : Seq(Nat),
   ticket : 0..MaxRevision, epoch : 1..MaxEpoch, incarnation : Nat]

RecordsOfType(t, K, N, B) == [type : {t}, key : K, num : N, body : B]

Records ==
  RecordsOfType("campaign", CampaignIds, 0..MaxRevision, {None})
  \cup RecordsOfType("attempt", AttemptIds, 0..MaxRevision, {None})
  \cup RecordsOfType("provenance", {None}, {0}, Entries)
  \cup RecordsOfType("decision", {None}, Nat, {None})
  \cup RecordsOfType("ticket", {None}, 0..MaxRevision, {None})
  \cup RecordsOfType("epoch", {None}, 1..MaxEpoch, {None})
  \cup RecordsOfType("boot", {None}, Nat, {None})
  \cup RecordsOfType("snapshot", {None}, {0}, States)
  \cup RecordsOfType("note", {None}, {0}, {None})
  \cup RecordsOfType("shutdown", {None}, {0}, {None})

Frames == [record : Records, prev : Nat, whole : BOOLEAN]

\* What a record of each type carries.
LEMMA RecordCases ==
  ASSUME NEW p \in Records
  PROVE  /\ p.type \in RecordTypes
         /\ p.type = "campaign" => p.key \in CampaignIds /\ p.num \in 0..MaxRevision
         /\ p.type = "attempt" => p.key \in AttemptIds /\ p.num \in 0..MaxRevision
         /\ p.type = "provenance" => p.body \in Entries
         /\ p.type = "decision" => p.num \in Nat
         /\ p.type = "ticket" => p.num \in 0..MaxRevision
         /\ p.type = "epoch" => p.num \in 1..MaxEpoch
         /\ p.type = "boot" => p.num \in Nat
         /\ p.type = "snapshot" => p.body \in States
BY DEF Records, RecordsOfType, RecordTypes

LEMMA EmptyTyped == EmptyState \in States
<1>1. <<>> \in Seq(Entries) /\ <<>> \in Seq(Links) /\ <<>> \in Seq(Nat)
  BY EmptySeq
<1> QED BY <1>1, StoreAssumption DEF EmptyState, States

LEMMA TornTyped == Torn \in Frames /\ ~Torn.whole
BY DEF Torn, Frames, Record, Records, RecordsOfType

LEMMA FrameTyped ==
  ASSUME NEW p \in Records, NEW n \in Nat
  PROVE  /\ Frame(p, n) \in Frames /\ Frame(p, n).whole
         /\ Frame(p, n).prev = n /\ Frame(p, n).record = p
BY DEF Frame, Frames

LEMMA ApplyTyped ==
  ASSUME NEW m \in States, NEW p \in Records
  PROVE  ApplyRecord(m, p) \in States
<1> USE RecordCases
<1>1. CASE p.type = "campaign"
  BY <1>1 DEF ApplyRecord, States
<1>2. CASE p.type = "attempt"
  BY <1>2 DEF ApplyRecord, States
<1>3. CASE p.type = "provenance"
  <2>1. p.body \in Entries /\ m.ledger \in Seq(Entries)
    BY <1>3 DEF States
  <2>2. Append(m.ledger, p.body) \in Seq(Entries)
    BY <2>1, AppendProperties
  <2>3. p.body.chain \in Seq(Links) /\ p.body.sequence \in Nat
    BY <2>1 DEF Entries
  <2>4. ApplyRecord(m, p) = [m EXCEPT !.ledger = Append(m.ledger, p.body), !.chain = p.body.chain,
                                      !.sequence = p.body.sequence]
    BY <1>3 DEF ApplyRecord
  <2> QED BY <2>2, <2>3, <2>4 DEF States
<1>4. CASE p.type = "decision"
  <2>1. Append(m.decisions, p.num) \in Seq(Nat)
    BY <1>4, AppendProperties DEF States
  <2>2. ApplyRecord(m, p) = [m EXCEPT !.decisions = Append(m.decisions, p.num)]
    BY <1>4 DEF ApplyRecord
  <2> QED BY <2>1, <2>2 DEF States
<1>5. CASE p.type = "ticket"
  BY <1>5 DEF ApplyRecord, States
<1>6. CASE p.type = "epoch"
  BY <1>6 DEF ApplyRecord, States
<1>7. CASE p.type = "boot"
  BY <1>7 DEF ApplyRecord, States
<1>8. CASE p.type = "snapshot"
  <2>1. p.body \in States /\ <<>> \in Seq(Nat)
    BY <1>8, EmptySeq
  <2> QED BY <1>8, <2>1 DEF ApplyRecord, States
<1>9. CASE p.type \in {"note", "shutdown"}
  BY <1>9 DEF ApplyRecord
<1> QED BY <1>1, <1>2, <1>3, <1>4, <1>5, <1>6, <1>7, <1>8, <1>9 DEF RecordTypes

-----------------------------------------------------------------------------
(***************************************************************************)
(* The valid part of a file, and what one more frame makes of it.          *)
(***************************************************************************)
IsValidLength(fs, n) ==
  /\ n \in 0..Len(fs)
  /\ \A j \in 1..n : FrameValid(fs, j)
  /\ n = Len(fs) \/ ~FrameValid(fs, n + 1)

LEMMA ValidLengthIs ==
  ASSUME NEW fs, Len(fs) \in Nat
  PROVE  IsValidLength(fs, ValidLength(fs))
<1> DEFINE T == {n \in 0..Len(fs) : n = Len(fs) \/ ~FrameValid(fs, n + 1)}
<1>1. PICK n \in T : \A k \in T : n <= k
  <2>1. T \subseteq Nat /\ Len(fs) \in T
    OBVIOUS
  <2> HIDE DEF T
  <2> QED BY <2>1, Least
<1>2. ASSUME NEW j \in 1..n PROVE FrameValid(fs, j)
  <2>1. n \in 0..Len(fs)
    OBVIOUS
  <2>2. j - 1 \in 0..Len(fs) /\ ~(n <= j - 1) /\ (j - 1) + 1 = j /\ j - 1 # Len(fs)
    BY <2>1
  <2>3. j - 1 \notin T
    BY <1>1, <2>2
  <2> QED BY <2>2, <2>3
<1>3. IsValidLength(fs, n)
  BY <1>1, <1>2 DEF IsValidLength
<1> QED BY <1>3 DEF IsValidLength, ValidLength

LEMMA ValidLengthOnly ==
  ASSUME NEW fs, Len(fs) \in Nat, NEW n, IsValidLength(fs, n)
  PROVE  ValidLength(fs) = n
<1> DEFINE v == ValidLength(fs)
<1>1. IsValidLength(fs, v)
  BY ValidLengthIs
<1> HIDE DEF v
<1>2. ~(v < n) /\ ~(n < v)
  <2>1. CASE v < n
    <3>1. v + 1 \in 1..n /\ v # Len(fs)
      BY <1>1, <2>1 DEF IsValidLength
    <3> QED BY <1>1, <3>1 DEF IsValidLength
  <2>2. CASE n < v
    <3>1. n + 1 \in 1..v /\ n # Len(fs)
      BY <1>1, <2>2 DEF IsValidLength
    <3> QED BY <1>1, <3>1 DEF IsValidLength
  <2> QED BY <2>1, <2>2
<1> QED BY <1>1, <1>2 DEF IsValidLength, v

LEMMA RecordsOfTyped ==
  ASSUME NEW fs \in Seq(Frames), NEW n \in 0..Len(fs)
  PROVE  /\ RecordsOf(fs, n) \in Seq(Records)
         /\ Len(RecordsOf(fs, n)) = n
         /\ \A j \in 1..n : RecordsOf(fs, n)[j] = fs[j].record
<1>1. \A j \in 1..n : fs[j] \in Frames
  BY ElementOfSeq, LenProperties
<1>2. \A j \in 1..n : fs[j].record \in Records
  BY <1>1 DEF Frames
<1>3. n \in Nat
  BY LenProperties
<1> QED BY <1>2, <1>3 DEF RecordsOf

LEMMA RecordsOfSame ==
  ASSUME NEW fs, NEW gs, NEW n \in Nat, \A j \in 1..n : fs[j] = gs[j]
  PROVE  RecordsOf(fs, n) = RecordsOf(gs, n)
BY DEF RecordsOf

LEMMA ReplayedTyped ==
  ASSUME NEW fs \in Seq(Frames)
  PROVE  /\ ValidLength(fs) \in 0..Len(fs)
         /\ Replayed(fs) \in Seq(Records)
         /\ Len(Replayed(fs)) = ValidLength(fs)
<1>1. Len(fs) \in Nat
  BY LenProperties
<1>2. ValidLength(fs) \in 0..Len(fs)
  BY <1>1, ValidLengthIs DEF IsValidLength
<1> QED BY <1>2, RecordsOfTyped DEF Replayed

\* A whole frame that links to the last one of an intact file.
LEMMA AppendValid ==
  ASSUME NEW fs \in Seq(Frames), NEW x \in Frames,
         ~Damaged(fs), x.whole, x.prev = Len(fs)
  PROVE  /\ ~Damaged(Append(fs, x))
         /\ ValidLength(fs) = Len(fs)
         /\ ValidLength(Append(fs, x)) = Len(fs) + 1
         /\ Replayed(Append(fs, x)) = Append(Replayed(fs), x.record)
<1> DEFINE L == Len(fs)
           gs == Append(fs, x)
<1>1. /\ L \in Nat /\ gs \in Seq(Frames) /\ Len(gs) = L + 1
      /\ gs[L + 1] = x /\ \A j \in 1..L : gs[j] = fs[j]
  BY AppendProperties, LenProperties
<1>2. IsValidLength(fs, ValidLength(fs)) /\ ValidLength(fs) \in 0..L
  BY <1>1, ValidLengthIs, ReplayedTyped
<1>3. ValidLength(fs) = L
  BY <1>1, <1>2 DEF Damaged
<1> HIDE DEF L, gs
<1>4. \A j \in 1..L : FrameValid(fs, j)
  BY <1>2, <1>3 DEF IsValidLength
<1>5. \A j \in 1..(L + 1) : FrameValid(gs, j)
  BY <1>1, <1>4 DEF FrameValid, L
<1>6. IsValidLength(gs, L + 1)
  BY <1>1, <1>5 DEF IsValidLength
<1>7. ValidLength(gs) = L + 1
  BY <1>1, <1>6, ValidLengthOnly
<1>8. Replayed(gs) = Append(Replayed(fs), x.record)
  <2>1. Replayed(fs) \in Seq(Records) /\ Len(Replayed(fs)) = L /\ x.record \in Records
    BY <1>3, ReplayedTyped DEF Frames
  <2>2. /\ Replayed(gs) \in Seq(Records) /\ Len(Replayed(gs)) = L + 1
        /\ \A j \in 1..(L + 1) : Replayed(gs)[j] = gs[j].record
    BY <1>1, <1>7, RecordsOfTyped DEF Replayed
  <2>3. \A j \in 1..L : Replayed(fs)[j] = fs[j].record
    BY <1>1, <1>3, RecordsOfTyped DEF Replayed, L
  <2>4. /\ Append(Replayed(fs), x.record) \in Seq(Records)
        /\ Len(Append(Replayed(fs), x.record)) = L + 1
        /\ \A j \in 1..L : Append(Replayed(fs), x.record)[j] = Replayed(fs)[j]
        /\ Append(Replayed(fs), x.record)[L + 1] = x.record
    BY <2>1, AppendProperties
  <2>5. \A j \in 1..(L + 1) : Replayed(gs)[j] = Append(Replayed(fs), x.record)[j]
    BY <1>1, <2>2, <2>3, <2>4
  <2> QED BY <2>2, <2>4, <2>5, SeqEqual
<1> QED BY <1>1, <1>3, <1>7, <1>8 DEF Damaged, gs, L

\* Any other frame adds nothing to what a replay accepts.
LEMMA AppendInvalid ==
  ASSUME NEW fs \in Seq(Frames), NEW x \in Frames,
         Damaged(fs) \/ ~x.whole \/ x.prev # Len(fs)
  PROVE  /\ Damaged(Append(fs, x))
         /\ ValidLength(Append(fs, x)) = ValidLength(fs)
         /\ Replayed(Append(fs, x)) = Replayed(fs)
<1> DEFINE L == Len(fs)
           gs == Append(fs, x)
           v == ValidLength(fs)
<1>1. /\ L \in Nat /\ Len(gs) = L + 1
      /\ gs[L + 1] = x /\ \A j \in 1..L : gs[j] = fs[j]
  BY AppendProperties, LenProperties
<1>2. IsValidLength(fs, v) /\ v \in 0..L
  BY <1>1, ValidLengthIs, ReplayedTyped
<1>3. Damaged(fs) <=> v < L
  BY DEF Damaged
<1> HIDE DEF L, gs, v
<1>4. \A j \in 1..v : FrameValid(gs, j)
  <2>1. \A j \in 1..v : FrameValid(fs, j) /\ gs[j] = fs[j]
    BY <1>1, <1>2 DEF IsValidLength
  <2> QED BY <2>1 DEF FrameValid
<1>5. ~FrameValid(gs, v + 1)
  <2>1. CASE v < L
    <3>1. ~FrameValid(fs, v + 1)
      BY <1>1, <1>2, <2>1 DEF IsValidLength, L
    <3>2. gs[v + 1] = fs[v + 1]
      BY <1>1, <1>2, <2>1
    <3> QED BY <3>1, <3>2 DEF FrameValid
  <2>2. CASE v = L
    <3>1. gs[v + 1] = x /\ (~x.whole \/ x.prev # L)
      BY <1>1, <1>3, <2>2 DEF L
    <3> QED BY <1>1, <2>2, <3>1 DEF FrameValid
  <2> QED BY <1>1, <1>2, <2>1, <2>2
<1>6. IsValidLength(gs, v)
  BY <1>1, <1>2, <1>4, <1>5 DEF IsValidLength
<1>7. ValidLength(gs) = v
  BY <1>1, <1>6, ValidLengthOnly
<1>8. RecordsOf(gs, v) = RecordsOf(fs, v)
  BY <1>1, <1>2, RecordsOfSame
<1> QED BY <1>1, <1>2, <1>7, <1>8 DEF Damaged, Replayed, gs, L, v

-----------------------------------------------------------------------------
(***************************************************************************)
(* The backward scan: the last boot or snapshot record, the incarnation it *)
(* names, and the epoch that is read from there.                           *)
(***************************************************************************)
Ends(p) == p.type \in {"boot", "snapshot"}

IsLastTerminal(rs, n) ==
  /\ n \in 0..Len(rs)
  /\ n = 0 \/ Ends(rs[n])
  /\ \A j \in (n + 1)..Len(rs) : ~Ends(rs[j])

LEMMA LastTerminalIs ==
  ASSUME NEW rs, Len(rs) \in Nat
  PROVE  IsLastTerminal(rs, LastTerminal(rs))
<1> DEFINE T == {n \in 0..Len(rs) : n = 0 \/ Ends(rs[n])}
<1>1. PICK n \in T : \A k \in T : k <= n
  <2>1. T \subseteq 0..Len(rs) /\ 0 \in T
    OBVIOUS
  <2> HIDE DEF T
  <2> QED BY <2>1, Greatest
<1>2. n \in 0..Len(rs) /\ (n = 0 \/ Ends(rs[n]))
  OBVIOUS
<1>3. ASSUME NEW j \in (n + 1)..Len(rs) PROVE ~Ends(rs[j])
  <2>1. j \in 0..Len(rs) /\ ~(j <= n)
    BY <1>2
  <2>2. j \notin T
    BY <1>1, <2>1
  <2> QED BY <2>1, <2>2
<1>4. IsLastTerminal(rs, n)
  BY <1>2, <1>3 DEF IsLastTerminal
<1> QED BY <1>4 DEF IsLastTerminal, LastTerminal, Ends

LEMMA LastTerminalOnly ==
  ASSUME NEW rs, Len(rs) \in Nat, NEW n, IsLastTerminal(rs, n)
  PROVE  LastTerminal(rs) = n
<1> DEFINE v == LastTerminal(rs)
<1>1. IsLastTerminal(rs, v)
  BY LastTerminalIs
<1> HIDE DEF v
<1>2. ~(v < n) /\ ~(n < v)
  <2>1. CASE v < n
    <3>1. n \in (v + 1)..Len(rs) /\ n # 0
      BY <1>1, <2>1 DEF IsLastTerminal
    <3> QED BY <1>1, <3>1 DEF IsLastTerminal
  <2>2. CASE n < v
    <3>1. v \in (n + 1)..Len(rs) /\ v # 0
      BY <1>1, <2>2 DEF IsLastTerminal
    <3> QED BY <1>1, <3>1 DEF IsLastTerminal
  <2> QED BY <2>1, <2>2
<1> QED BY <1>1, <1>2 DEF IsLastTerminal, v

LEMMA ScanOfEmpty ==
  LastBootIncarnation(<<>>) = 0 /\ LastEpoch(<<>>) = 0
<1>1. Len(<<>>) = 0
  OBVIOUS
<1>2. LastTerminal(<<>>) = 0
  BY <1>1, LastTerminalIs DEF IsLastTerminal
<1>3. {j \in 1..0 : <<>>[j].type = "epoch"} = {}
  OBVIOUS
<1> QED BY <1>1, <1>2, <1>3 DEF LastBootIncarnation, LastEpoch

\* A terminal record is the last one; any other leaves the last one where it is.
LEMMA TerminalOfAppend ==
  ASSUME NEW rs \in Seq(Records), NEW p \in Records
  PROVE  LastTerminal(Append(rs, p)) = IF Ends(p) THEN Len(rs) + 1 ELSE LastTerminal(rs)
<1> DEFINE L == Len(rs)
           ss == Append(rs, p)
           v == LastTerminal(rs)
<1>1. L \in Nat /\ Len(ss) = L + 1 /\ ss[L + 1] = p /\ \A i \in 1..L : ss[i] = rs[i]
  BY AppendProperties, LenProperties
<1>2. IsLastTerminal(rs, v)
  BY <1>1, LastTerminalIs
<1> HIDE DEF L, ss, v
<1>3. CASE Ends(p)
  <2>1. IsLastTerminal(ss, L + 1)
    BY <1>1, <1>3 DEF IsLastTerminal
  <2> QED BY <1>1, <1>3, <2>1, LastTerminalOnly DEF ss, L
<1>4. CASE ~Ends(p)
  <2>1. v \in 0..L /\ (v = 0 \/ Ends(rs[v])) /\ \A j \in (v + 1)..L : ~Ends(rs[j])
    BY <1>2 DEF IsLastTerminal, L
  <2>2. v = 0 \/ Ends(ss[v])
    BY <1>1, <2>1
  <2>3. ASSUME NEW j \in (v + 1)..(L + 1) PROVE ~Ends(ss[j])
    <3>1. CASE j = L + 1
      BY <1>1, <1>4, <3>1
    <3>2. CASE j # L + 1
      <4>1. j \in (v + 1)..L /\ j \in 1..L
        BY <1>1, <2>1, <3>2
      <4> QED BY <1>1, <2>1, <4>1
    <3> QED BY <3>1, <3>2
  <2>4. IsLastTerminal(ss, v)
    BY <1>1, <2>1, <2>2, <2>3 DEF IsLastTerminal
  <2> QED BY <1>1, <1>4, <2>4, LastTerminalOnly DEF ss, v
<1> QED BY <1>3, <1>4

LEMMA BootOfAppend ==
  ASSUME NEW rs \in Seq(Records), NEW p \in Records
  PROVE  LastBootIncarnation(Append(rs, p)) =
           IF p.type = "boot" THEN p.num
           ELSE IF p.type = "snapshot" THEN p.body.incarnation
           ELSE LastBootIncarnation(rs)
<1> DEFINE L == Len(rs)
           ss == Append(rs, p)
           v == LastTerminal(rs)
<1>1. L \in Nat /\ Len(ss) = L + 1 /\ ss[L + 1] = p /\ \A i \in 1..L : ss[i] = rs[i]
  BY AppendProperties, LenProperties
<1>2. v \in 0..L
  BY <1>1, LastTerminalIs DEF IsLastTerminal
<1>3. LastTerminal(ss) = IF Ends(p) THEN L + 1 ELSE v
  BY TerminalOfAppend
<1> HIDE DEF L, ss, v
<1>4. CASE Ends(p)
  BY <1>1, <1>3, <1>4 DEF LastBootIncarnation, Ends, ss
<1>5. CASE ~Ends(p)
  <2>1. LastTerminal(ss) = v /\ (v = 0 \/ ss[v] = rs[v])
    BY <1>1, <1>2, <1>3, <1>5
  <2> QED BY <1>5, <2>1 DEF LastBootIncarnation, Ends, ss, v
<1> QED BY <1>4, <1>5

\* The epoch of a snapshot, none after a boot; an epoch record counts only when
\* it is the first after the terminal one.
LEMMA EpochOfAppend ==
  ASSUME NEW rs \in Seq(Records), NEW p \in Records
  PROVE  /\ p.type = "snapshot" => LastEpoch(Append(rs, p)) = p.body.epoch
         /\ p.type = "boot" => LastEpoch(Append(rs, p)) = 0
         /\ p.type = "epoch" => LastEpoch(Append(rs, p)) \in {LastEpoch(rs), p.num}
         /\ p.type \notin {"snapshot", "boot", "epoch"} => LastEpoch(Append(rs, p)) = LastEpoch(rs)
<1> DEFINE L == Len(rs)
           ss == Append(rs, p)
           v == LastTerminal(rs)
           N == {j \in (v + 1)..L : rs[j].type = "epoch"}
<1>1. L \in Nat /\ Len(ss) = L + 1 /\ ss[L + 1] = p /\ \A i \in 1..L : ss[i] = rs[i]
  BY AppendProperties, LenProperties
<1>2. v \in 0..L
  BY <1>1, LastTerminalIs DEF IsLastTerminal
<1>3. LastTerminal(ss) = IF Ends(p) THEN L + 1 ELSE v
  BY TerminalOfAppend
<1>4. LastEpoch(rs) = IF v > 0 /\ rs[v].type = "snapshot" THEN rs[v].body.epoch
                      ELSE IF N = {} THEN 0
                      ELSE rs[CHOOSE j \in N : \A i \in N : j <= i].num
  BY DEF LastEpoch
<1> HIDE DEF L, ss, v, N
<1>5. CASE Ends(p)
  <2>1. LastTerminal(ss) = L + 1 /\ Len(ss) = L + 1
    BY <1>1, <1>3, <1>5
  <2>2. {j \in ((L + 1) + 1)..(L + 1) : ss[j].type = "epoch"} = {}
    BY <1>1
  <2>3. LastEpoch(ss) = IF p.type = "snapshot" THEN p.body.epoch ELSE 0
    BY <1>1, <2>1, <2>2 DEF LastEpoch
  <2> QED BY <1>5, <2>3 DEF Ends, ss
<1>6. CASE ~Ends(p)
  <2> DEFINE M == {j \in (v + 1)..(L + 1) : ss[j].type = "epoch"}
  <2>1. LastTerminal(ss) = v /\ (v = 0 \/ ss[v] = rs[v])
    BY <1>1, <1>2, <1>3, <1>6
  <2>2. LastEpoch(ss) = IF v > 0 /\ rs[v].type = "snapshot" THEN rs[v].body.epoch
                        ELSE IF M = {} THEN 0
                        ELSE ss[CHOOSE j \in M : \A i \in M : j <= i].num
    BY <1>1, <2>1 DEF LastEpoch
  <2>3. M = IF p.type = "epoch" THEN N \cup {L + 1} ELSE N
    <3>1. \A j \in (v + 1)..L : ss[j] = rs[j]
      BY <1>1, <1>2
    <3> QED BY <1>1, <1>2, <3>1 DEF N
  <2>4. N \subseteq 1..L
    BY <1>1, <1>2 DEF N
  <2> HIDE DEF M
  <2>5. CASE v > 0 /\ rs[v].type = "snapshot"
    BY <1>4, <1>6, <2>2, <2>5 DEF Ends, ss
  <2>6. CASE ~(v > 0 /\ rs[v].type = "snapshot") /\ N = {}
    <3>1. CASE p.type = "epoch"
      <4>1. M = {L + 1}
        BY <2>3, <2>6, <3>1
      <4>2. (CHOOSE j \in M : \A i \in M : j <= i) = L + 1
        BY <1>1, <4>1
      <4>3. LastEpoch(ss) = ss[L + 1].num
        BY <2>2, <2>6, <4>1, <4>2
      <4>4. ss[L + 1] = p
        BY <1>1
      <4>5. LastEpoch(rs) = 0
        BY <1>4, <2>6
      <4> QED BY <1>6, <3>1, <4>3, <4>4, <4>5 DEF Ends, ss
    <3>2. CASE p.type # "epoch"
      <4>1. M = {}
        BY <2>3, <2>6, <3>2
      <4>2. LastEpoch(ss) = 0
        BY <2>2, <2>6, <4>1
      <4>3. LastEpoch(rs) = 0
        BY <1>4, <2>6
      <4> QED BY <1>6, <3>2, <4>2, <4>3 DEF Ends, ss
    <3> QED BY <3>1, <3>2
  <2>7. CASE ~(v > 0 /\ rs[v].type = "snapshot") /\ N # {}
    <3>1. \E n \in N : \A i \in N : n <= i
      <4>1. N \subseteq Nat
        BY <2>4
      <4> QED BY <2>7, <4>1, Least
    <3> DEFINE a == CHOOSE j \in N : \A i \in N : j <= i
               b == CHOOSE j \in M : \A i \in M : j <= i
    <3>2. a \in N /\ \A i \in N : a <= i
      BY <3>1
    <3>3. (\E n \in M : \A i \in M : n <= i) => b \in M /\ \A i \in M : b <= i
      OBVIOUS
    <3>4. LastEpoch(rs) = rs[a].num
      BY <1>4, <2>7
    <3>5. M # {} => LastEpoch(ss) = ss[b].num
      BY <2>2, <2>7
    <3> HIDE DEF a, b
    <3>6. a \in M /\ \A i \in M : a <= i
      <4>1. a \in 1..L /\ a <= L + 1
        BY <1>1, <2>4, <3>2
      <4> QED BY <2>3, <3>2, <4>1
    <3>7. M \subseteq Nat
      BY <1>1, <2>3, <2>4
    <3>8. a = b /\ ss[a] = rs[a]
      <4>1. b \in M /\ \A i \in M : b <= i
        BY <3>3, <3>6
      <4>2. a <= b /\ b <= a /\ a \in Nat /\ b \in Nat
        BY <3>6, <3>7, <4>1
      <4> QED BY <1>1, <2>4, <3>2, <4>2
    <3>9. LastEpoch(ss) = LastEpoch(rs)
      BY <3>4, <3>5, <3>6, <3>8
    <3> QED BY <1>6, <3>9 DEF Ends, ss
  <2> QED BY <2>5, <2>6, <2>7
<1> QED BY <1>5, <1>6

-----------------------------------------------------------------------------
(***************************************************************************)
(* What is true of every sequence of records a process has accepted.       *)
(***************************************************************************)

\* The ledger is one chain within its bound, and the head of the chain is its
\* last entry's.
Good(m) ==
  /\ Len(m.ledger) <= MaxProvenance
  /\ VerifyLedger(m.ledger)
  /\ m.ledger = <<>> => m.chain = <<>>
  /\ m.ledger # <<>> => /\ m.chain = m.ledger[Len(m.ledger)].chain
                        /\ m.sequence = m.ledger[Len(m.ledger)].sequence

\* A replay of rs gives a state of this kind, and recover() does not correct it.
Healthy(rs) ==
  /\ StateOf(rs) \in States /\ Good(StateOf(rs))
  /\ LastEpoch(rs) \in Nat /\ LastEpoch(rs) <= StateOf(rs).epoch
  /\ LastBootIncarnation(rs) \in {0, StateOf(rs).incarnation}

\* A process with memory m may write p.
Follows(p, m) ==
  /\ p \in Records
  /\ p.type = "provenance" =>
       /\ Len(m.ledger) < MaxProvenance
       /\ p.body.sequence > m.sequence /\ p.body.previous = m.chain
       /\ p.body.chain = ComputeChain(m.chain, p.body.sequence, p.body.incarnation)
  /\ p.type = "epoch" => p.num > m.epoch
  /\ p.type = "snapshot" => Good(p.body)

\* Whatever part of the file a replay accepts, it is healthy. Damage only makes
\* that part shorter.
Sound(fs) == \A n \in 0..ValidLength(fs) : Healthy(RecordsOf(fs, n))

SameButDecisions(m, n) ==
  /\ m.campaigns = n.campaigns /\ m.attempts = n.attempts /\ m.ledger = n.ledger
  /\ m.chain = n.chain /\ m.sequence = n.sequence /\ m.ticket = n.ticket
  /\ m.epoch = n.epoch /\ m.incarnation = n.incarnation

\* One more entry, linked to the last one.
LEMMA LedgerAppend ==
  ASSUME NEW l \in Seq(Entries), NEW e \in Entries, NEW c, VerifyLedger(l),
         l = <<>> => c = <<>>,
         l # <<>> => c = l[Len(l)].chain /\ e.sequence > l[Len(l)].sequence,
         e.previous = c, e.chain = ComputeChain(c, e.sequence, e.incarnation)
  PROVE  VerifyLedger(Append(l, e))
<1> DEFINE L == Len(l)
           k == Append(l, e)
<1>1. /\ L \in Nat /\ Len(k) = L + 1 /\ DOMAIN l = 1..L /\ DOMAIN k = 1..(L + 1)
      /\ k[L + 1] = e /\ \A i \in 1..L : k[i] = l[i]
  BY AppendProperties, LenProperties
<1>2. l = <<>> <=> L = 0
  BY EmptySeq
<1> HIDE DEF L, k
<1>3. ASSUME NEW i \in 1..(L + 1)
      PROVE  /\ i > 1 => k[i].sequence > k[i - 1].sequence
             /\ k[i].previous = IF i = 1 THEN <<>> ELSE k[i - 1].chain
             /\ k[i].chain = ComputeChain(IF i = 1 THEN <<>> ELSE k[i - 1].chain,
                                          k[i].sequence, k[i].incarnation)
  <2>1. CASE i \in 1..L
    <3>1. k[i] = l[i] /\ (i # 1 => k[i - 1] = l[i - 1])
      BY <1>1, <2>1
    <3> QED BY <1>1, <2>1, <3>1 DEF VerifyLedger
  <2>2. CASE i = L + 1 /\ L = 0
    BY <1>1, <1>2, <2>2
  <2>3. CASE i = L + 1 /\ L # 0
    <3>1. k[i] = e /\ k[i - 1] = l[L] /\ i # 1
      BY <1>1, <2>3
    <3>2. c = l[L].chain /\ e.sequence > l[L].sequence
      BY <1>2, <2>3 DEF L
    <3> QED BY <3>1, <3>2
  <2> QED BY <1>1, <2>1, <2>2, <2>3
<1> QED BY <1>1, <1>3 DEF VerifyLedger, k

LEMMA GoodApply ==
  ASSUME NEW m \in States, Good(m), NEW p, Follows(p, m)
  PROVE  Good(ApplyRecord(m, p))
<1> p \in Records
  BY DEF Follows
<1>1. CASE p.type = "provenance"
  <2> DEFINE l == m.ledger
             e == p.body
  <2>1. l \in Seq(Entries) /\ e \in Entries
    BY <1>1, RecordCases DEF States
  <2>2. /\ Append(l, e) \in Seq(Entries) /\ Append(l, e) # <<>>
        /\ Len(Append(l, e)) = Len(l) + 1 /\ Append(l, e)[Len(l) + 1] = e
    BY <2>1, AppendProperties, EmptySeq
  <2>3. VerifyLedger(Append(l, e))
    <3>1. e.sequence > m.sequence /\ e.previous = m.chain
          /\ e.chain = ComputeChain(m.chain, e.sequence, e.incarnation)
      BY <1>1 DEF Follows
    <3>2. VerifyLedger(l) /\ (l = <<>> => m.chain = <<>>)
          /\ (l # <<>> => m.chain = l[Len(l)].chain /\ m.sequence = l[Len(l)].sequence)
      BY DEF Good
    <3>3. l # <<>> => m.chain = l[Len(l)].chain /\ e.sequence > l[Len(l)].sequence
      BY <3>1, <3>2
    <3> QED BY <2>1, <3>1, <3>2, <3>3, LedgerAppend
  <2>4. /\ ApplyRecord(m, p).ledger = Append(l, e) /\ ApplyRecord(m, p).chain = e.chain
        /\ ApplyRecord(m, p).sequence = e.sequence
    BY <1>1 DEF ApplyRecord, States
  <2>5. Len(l) + 1 <= MaxProvenance /\ Len(l) \in Nat
    BY <1>1, <2>1, LenProperties, StoreAssumption DEF Follows
  <2> HIDE DEF l, e
  <2> QED BY <2>2, <2>3, <2>4, <2>5 DEF Good
<1>2. CASE p.type = "snapshot"
  <2>1. Good(p.body) /\ p.body \in States
    BY <1>2, RecordCases DEF Follows
  <2>2. /\ ApplyRecord(m, p).ledger = p.body.ledger /\ ApplyRecord(m, p).chain = p.body.chain
        /\ ApplyRecord(m, p).sequence = p.body.sequence
    BY <1>2 DEF ApplyRecord, States
  <2> QED BY <2>1, <2>2 DEF Good
<1>3. CASE p.type \notin {"provenance", "snapshot"}
  <2>1. /\ ApplyRecord(m, p).ledger = m.ledger /\ ApplyRecord(m, p).chain = m.chain
        /\ ApplyRecord(m, p).sequence = m.sequence
    BY <1>3, RecordCases DEF ApplyRecord, States, RecordTypes
  <2> QED BY <2>1 DEF Good
<1> QED BY <1>1, <1>2, <1>3

LEMMA HealthyEmpty == Healthy(<<>>)
<1>1. Good(EmptyState)
  <2>1. EmptyState.ledger = <<>> /\ EmptyState.chain = <<>>
    BY DEF EmptyState
  <2>2. VerifyLedger(<<>>)
    BY DEF VerifyLedger
  <2>3. Len(<<>>) <= MaxProvenance
    BY StoreAssumption
  <2> QED BY <2>1, <2>2, <2>3 DEF Good
<1> QED BY <1>1, StateOfEmpty, EmptyTyped, ScanOfEmpty DEF Healthy, EmptyState

LEMMA HealthyAppend ==
  ASSUME NEW rs \in Seq(Records), Healthy(rs), NEW p, Follows(p, StateOf(rs))
  PROVE  Healthy(Append(rs, p))
<1> DEFINE m == StateOf(rs)
           n == StateOf(Append(rs, p))
<1>1. p \in Records /\ m \in States /\ Good(m)
  BY DEF Follows, Healthy
<1>2. n = ApplyRecord(m, p)
  BY <1>1, StateOfAppend
<1>3. n \in States /\ Good(n)
  BY <1>1, <1>2, ApplyTyped, GoodApply
<1> HIDE DEF m, n
<1>4. LastEpoch(Append(rs, p)) \in Nat /\ LastEpoch(Append(rs, p)) <= n.epoch
  <2>1. LastEpoch(rs) \in Nat /\ LastEpoch(rs) <= m.epoch /\ m.epoch \in Nat /\ n.epoch \in Nat
    BY <1>1, <1>3, StoreAssumption DEF Healthy, States, m
  <2>2. CASE p.type = "snapshot"
    <3>1. n.epoch = p.body.epoch
      BY <1>1, <1>2, <2>2, RecordCases DEF ApplyRecord, States
    <3> QED BY <1>1, <2>1, <2>2, <3>1, EpochOfAppend
  <2>3. CASE p.type = "boot"
    BY <1>1, <2>1, <2>3, EpochOfAppend
  <2>4. CASE p.type = "epoch"
    <3>1. n.epoch = p.num
      BY <1>1, <1>2, <2>4 DEF ApplyRecord, States
    <3>2. p.num > m.epoch
      BY <2>4 DEF Follows, m
    <3> QED BY <1>1, <2>1, <2>4, <3>1, <3>2, EpochOfAppend
  <2>5. CASE p.type \notin {"snapshot", "boot", "epoch"}
    <3>1. n.epoch = m.epoch
      BY <1>1, <1>2, <2>5, RecordCases DEF ApplyRecord, States, RecordTypes
    <3> QED BY <1>1, <2>1, <2>5, <3>1, EpochOfAppend
  <2> QED BY <2>2, <2>3, <2>4, <2>5
<1>5. LastBootIncarnation(Append(rs, p)) \in {0, n.incarnation}
  <2>1. LastBootIncarnation(rs) \in {0, m.incarnation}
    BY DEF Healthy, m
  <2>2. CASE p.type = "snapshot"
    BY <1>1, <1>2, <2>2, BootOfAppend DEF ApplyRecord, States
  <2>3. CASE p.type = "boot"
    BY <1>1, <1>2, <2>3, BootOfAppend DEF ApplyRecord, States
  <2>4. CASE p.type \notin {"snapshot", "boot"}
    <3>1. n.incarnation = m.incarnation
      BY <1>1, <1>2, <2>4, RecordCases DEF ApplyRecord, States, RecordTypes
    <3> QED BY <1>1, <2>1, <2>4, <3>1, BootOfAppend
  <2> QED BY <2>2, <2>3, <2>4
<1> QED BY <1>3, <1>4, <1>5 DEF Healthy, n

LEMMA RecoveredIs ==
  ASSUME NEW rs, Healthy(rs)
  PROVE  Recovered(rs) = StateOf(rs)
<1>1. StateOf(rs) \in States /\ StateOf(rs).epoch \in Nat
  BY StoreAssumption DEF Healthy, States
<1>2. ~(LastEpoch(rs) > StateOf(rs).epoch)
  BY <1>1 DEF Healthy
<1>3. [StateOf(rs) EXCEPT !.epoch = StateOf(rs).epoch] = StateOf(rs)
  BY <1>1 DEF States
<1> QED BY <1>2, <1>3 DEF Recovered

LEMMA FollowsSame ==
  ASSUME NEW m, NEW n, SameButDecisions(m, n), NEW p, Follows(p, m)
  PROVE  Follows(p, n)
BY DEF SameButDecisions, Follows

-----------------------------------------------------------------------------
(***************************************************************************)
(* What the steps do to a file.                                            *)
(***************************************************************************)
LEMMA SoundReplayed ==
  ASSUME NEW fs \in Seq(Frames), Sound(fs)
  PROVE  Healthy(Replayed(fs))
<1>1. ValidLength(fs) \in 0..ValidLength(fs)
  BY ReplayedTyped, LenProperties
<1> QED BY <1>1 DEF Sound, Replayed

\* Less of the same.
LEMMA SoundPrefix ==
  ASSUME NEW fs \in Seq(Frames), NEW gs \in Seq(Frames), Sound(fs),
         ValidLength(gs) <= ValidLength(fs),
         \A j \in 1..ValidLength(gs) : gs[j] = fs[j]
  PROVE  Sound(gs)
<1>1. ValidLength(fs) \in Nat /\ ValidLength(gs) \in Nat
  BY ReplayedTyped, LenProperties
<1>2. ASSUME NEW n \in 0..ValidLength(gs) PROVE Healthy(RecordsOf(gs, n))
  <2>1. n \in 0..ValidLength(fs) /\ n \in Nat /\ \A j \in 1..n : fs[j] = gs[j]
    BY <1>1
  <2>2. RecordsOf(fs, n) = RecordsOf(gs, n)
    BY <2>1, RecordsOfSame
  <2> QED BY <2>1, <2>2 DEF Sound
<1> QED BY <1>2 DEF Sound

\* One more frame, of a process that has accepted rs; lost says that one of its
\* writes has left bytes behind.
LEMMA OneFrame ==
  ASSUME NEW fs \in Seq(Frames), NEW rs \in Seq(Records), NEW lost \in BOOLEAN, NEW p \in Records,
         Sound(fs), ValidLength(fs) <= MaxRecords, Len(rs) < MaxRecords,
         IF lost THEN Damaged(fs) \/ Len(fs) # Len(rs) ELSE ~Damaged(fs) /\ rs = Replayed(fs),
         ~lost => Follows(p, StateOf(rs))
  PROVE  LET gs == Append(fs, Frame(p, Len(rs)))
         IN /\ gs \in Seq(Frames) /\ Len(gs) = Len(fs) + 1
            /\ Sound(gs) /\ ValidLength(gs) <= MaxRecords
            /\ IF lost THEN Damaged(gs) /\ Replayed(gs) = Replayed(fs)
               ELSE ~Damaged(gs) /\ Replayed(gs) = Append(rs, p)
<1> DEFINE x == Frame(p, Len(rs))
           gs == Append(fs, x)
<1>1. Len(rs) \in Nat /\ x \in Frames /\ x.whole /\ x.prev = Len(rs) /\ x.record = p
  BY FrameTyped, LenProperties
<1> HIDE DEF x
<1>2. gs \in Seq(Frames) /\ Len(gs) = Len(fs) + 1 /\ \A j \in 1..Len(fs) : gs[j] = fs[j]
  BY <1>1, AppendProperties
<1>3. ValidLength(fs) \in 0..Len(fs) /\ Len(fs) \in Nat
  BY ReplayedTyped, LenProperties
<1>4. CASE lost
  <2>1. Damaged(gs) /\ ValidLength(gs) = ValidLength(fs) /\ Replayed(gs) = Replayed(fs)
    BY <1>1, <1>4, AppendInvalid
  <2>2. \A j \in 1..ValidLength(gs) : gs[j] = fs[j]
    BY <1>2, <1>3, <2>1
  <2>3. Sound(gs)
    <3>1. ValidLength(gs) <= ValidLength(fs)
      BY <1>3, <2>1
    <3> HIDE DEF gs
    <3> QED BY <1>2, <2>2, <3>1, SoundPrefix
  <2> QED BY <1>2, <1>4, <2>1, <2>3 DEF x
<1>5. CASE ~lost
  <2>1. ~Damaged(fs) /\ rs = Replayed(fs) /\ Follows(p, StateOf(rs))
    BY <1>5
  <2>2. Len(rs) = Len(fs)
    BY <1>3, <2>1, ReplayedTyped DEF Damaged
  <2>3. /\ ~Damaged(gs) /\ ValidLength(gs) = Len(fs) + 1
        /\ ValidLength(fs) = Len(fs) /\ Replayed(gs) = Append(rs, p)
    BY <1>1, <2>1, <2>2, AppendValid
  <2>4. Healthy(Append(rs, p))
    BY <2>1, SoundReplayed, HealthyAppend
  <2>5. ASSUME NEW n \in 0..ValidLength(gs) PROVE Healthy(RecordsOf(gs, n))
    <3>1. CASE n = Len(fs) + 1
      BY <2>3, <2>4, <3>1 DEF Replayed
    <3>2. CASE n \in 0..Len(fs)
      <4>1. n \in Nat /\ \A j \in 1..n : fs[j] = gs[j]
        BY <1>2, <1>3, <3>2
      <4>2. RecordsOf(fs, n) = RecordsOf(gs, n)
        BY <4>1, RecordsOfSame
      <4> QED BY <2>3, <3>2, <4>2 DEF Sound
    <3> QED BY <1>3, <2>3, <3>1, <3>2
  <2>6. Sound(gs)
    BY <2>5 DEF Sound
  <2>7. ValidLength(gs) <= MaxRecords
    <3>1. MaxRecords \in Nat
      BY StoreAssumption
    <3> QED BY <1>3, <2>2, <2>3, <3>1
  <2> QED BY <1>2, <1>5, <2>3, <2>6, <2>7 DEF x
<1> QED BY <1>4, <1>5

\* Part of a frame is never accepted.
LEMMA OneTorn ==
  ASSUME NEW fs \in Seq(Frames), Sound(fs)
  PROVE  LET gs == Append(fs, Torn)
         IN /\ gs \in Seq(Frames) /\ Len(gs) = Len(fs) + 1
            /\ Sound(gs) /\ Damaged(gs)
            /\ ValidLength(gs) = ValidLength(fs) /\ Replayed(gs) = Replayed(fs)
<1> DEFINE gs == Append(fs, Torn)
<1>1. gs \in Seq(Frames) /\ Len(gs) = Len(fs) + 1 /\ \A j \in 1..Len(fs) : gs[j] = fs[j]
  BY TornTyped, AppendProperties
<1>2. Damaged(gs) /\ ValidLength(gs) = ValidLength(fs) /\ Replayed(gs) = Replayed(fs)
  BY TornTyped, AppendInvalid
<1>3. ValidLength(fs) \in 0..Len(fs) /\ Len(fs) \in Nat
  BY ReplayedTyped, LenProperties
<1>4. \A j \in 1..ValidLength(gs) : gs[j] = fs[j]
  BY <1>1, <1>2, <1>3
<1>5. Sound(gs)
  <2>1. ValidLength(gs) <= ValidLength(fs)
    BY <1>2, <1>3
  <2> HIDE DEF gs
  <2> QED BY <1>1, <1>4, <2>1, SoundPrefix
<1> QED BY <1>1, <1>2, <1>5

\* A frame that changes on disk takes itself and what follows from a replay.
LEMMA RotShortens ==
  ASSUME NEW fs \in Seq(Frames), NEW k \in 1..Len(fs), Sound(fs)
  PROVE  LET gs == [fs EXCEPT ![k] = Torn]
         IN /\ gs \in Seq(Frames) /\ gs # <<>>
            /\ Sound(gs) /\ ValidLength(gs) <= ValidLength(fs)
<1> DEFINE gs == [fs EXCEPT ![k] = Torn]
           v == ValidLength(fs)
           w == ValidLength(gs)
<1>1. /\ gs \in Seq(Frames) /\ Len(gs) = Len(fs) /\ Len(fs) \in Nat
      /\ \A j \in 1..Len(fs) : gs[j] = IF j = k THEN Torn ELSE fs[j]
  BY TornTyped, ExceptSeq, LenProperties
<1>2. IsValidLength(fs, v) /\ IsValidLength(gs, w)
  BY <1>1, ValidLengthIs
<1> HIDE DEF gs, v, w
<1>3. ASSUME NEW j \in 1..w PROVE gs[j] = fs[j] /\ FrameValid(fs, j)
  <2>1. FrameValid(gs, j) /\ j \in 1..Len(fs)
    BY <1>1, <1>2 DEF IsValidLength
  <2>2. j # k
    BY <1>1, <2>1, TornTyped DEF FrameValid
  <2>3. gs[j] = fs[j]
    BY <1>1, <2>1, <2>2
  <2> QED BY <2>1, <2>3 DEF FrameValid
<1>4. w <= v
  <2>1. v \in 0..Len(fs) /\ w \in 0..Len(fs)
    BY <1>1, <1>2 DEF IsValidLength
  <2>2. ~(v < w)
    <3>1. SUFFICES ASSUME v < w PROVE FALSE
      OBVIOUS
    <3>2. v + 1 \in 1..w /\ v # Len(fs)
      BY <1>1, <2>1, <3>1
    <3> QED BY <1>2, <1>3, <3>2 DEF IsValidLength
  <2> QED BY <1>1, <2>1, <2>2
<1>5. Sound(gs)
  BY <1>1, <1>3, <1>4, SoundPrefix DEF v, w
<1>6. gs # <<>>
  BY <1>1, EmptySeq
<1> QED BY <1>1, <1>4, <1>5, <1>6 DEF gs, v, w

\* repair_damaged_tail keeps what a replay accepts.
LEMMA RepairKeeps ==
  ASSUME NEW fs \in Seq(Frames), Sound(fs)
  PROVE  LET gs == SubSeq(fs, 1, ValidLength(fs))
         IN /\ gs \in Seq(Frames) /\ Sound(gs) /\ ~Damaged(gs)
            /\ ValidLength(gs) = ValidLength(fs) /\ Replayed(gs) = Replayed(fs)
<1> DEFINE v == ValidLength(fs)
           gs == SubSeq(fs, 1, v)
<1>1. IsValidLength(fs, v) /\ v \in 0..Len(fs) /\ Len(fs) \in Nat
  BY ValidLengthIs, ReplayedTyped, LenProperties
<1>2. gs \in Seq(Frames) /\ Len(gs) = v /\ \A j \in 1..v : gs[j] = fs[j]
  <2>1. \A j \in 1..v : fs[j] \in Frames
    BY <1>1, ElementOfSeq
  <2> HIDE DEF v
  <2>2. /\ gs \in Seq(Frames) /\ Len(gs) = IF 1 <= v THEN v - 1 + 1 ELSE 0
        /\ \A j \in 1..(v - 1 + 1) : gs[j] = fs[1 + j - 1]
    BY <1>1, <2>1, SubSeqProperties
  <2> QED BY <1>1, <2>2
<1> HIDE DEF gs, v
<1>3. IsValidLength(gs, v)
  <2>1. \A j \in 1..v : FrameValid(gs, j)
    BY <1>1, <1>2 DEF FrameValid, IsValidLength
  <2> QED BY <1>1, <1>2, <2>1 DEF IsValidLength
<1>4. ValidLength(gs) = v
  BY <1>1, <1>2, <1>3, ValidLengthOnly
<1>5. RecordsOf(gs, v) = RecordsOf(fs, v)
  BY <1>1, <1>2, RecordsOfSame
<1>6. Sound(gs)
  BY <1>1, <1>2, <1>4, SoundPrefix DEF v
<1> QED BY <1>1, <1>2, <1>4, <1>5, <1>6 DEF Damaged, Replayed, gs, v

-----------------------------------------------------------------------------
(* The inductive invariant. *)

Typed ==
  /\ file \in [header : {"none", "torn", "ok"}, frames : Seq(Frames)]
  /\ temp \in Seq(Frames)
  /\ phase \in Phases
  /\ records \in Seq(Records) /\ Len(records) <= MaxRecords
  /\ mem \in States /\ Good(mem)
  /\ faults \in 0..MaxFaults /\ failed \in BOOLEAN /\ rotted \in BOOLEAN
  /\ started \in SUBSET Nat /\ IsFiniteSet(started)
  /\ Cardinality(started) <= MaxIncarnation
  /\ phase = "opened" => Cardinality(started) < MaxIncarnation

\* The file: what a replay accepts is healthy and within the bound.
Filed ==
  /\ Sound(file.frames)
  /\ ValidLength(file.frames) <= MaxRecords
  /\ file.header # "ok" => file.frames = <<>> /\ phase = "down"

\* The running process has accepted what is in the file, until a write leaves
\* bytes behind: from then on every frame it writes is out of place.
Linked ==
  /\ phase # "down" =>
       IF failed THEN Damaged(file.frames) \/ Len(file.frames) # Len(records)
       ELSE ~Damaged(file.frames) /\ records = Replayed(file.frames)
  /\ phase \in {"down", "opened"} => ~failed
  /\ phase = "down" => records = <<>> /\ mem = EmptyState
  /\ faults = 0 => ~failed

\* Memory is the replay of what the process has accepted.
Mirrored ==
  ~failed =>
    /\ SameButDecisions(mem, StateOf(records))
    /\ IsTailOf(mem.decisions, StateOf(records).decisions)
    /\ faults = 0 => \/ Len(mem.decisions) >= MaxDecisions
                     \/ mem.decisions = StateOf(records).decisions

\* No incarnation that came up is above what the file names, or the process has.
Booted ==
  LET Above(n) == ~rotted => \A s \in started : s <= n
  IN /\ Above(LastBootIncarnation(Replayed(file.frames)))
     /\ phase \notin {"down", "opened"} =>
          /\ Above(mem.incarnation)
          /\ ~failed => mem.incarnation = LastBootIncarnation(records)

\* The file a compaction is about to install.
Staged ==
  phase \in {"swap", "replace"} =>
    temp = <<Frame(SnapshotRecord, 0), Frame(ShutdownRecord, 1)>> /\ MaxRecords >= 2

IInv == Typed /\ Filed /\ Linked /\ Mirrored /\ Booted /\ Staged

-----------------------------------------------------------------------------
(***************************************************************************)
(* The list of decisions in memory.                                        *)
(***************************************************************************)
LEMMA TailElements ==
  ASSUME NEW s \in Seq(Nat), NEW t \in Seq(Nat)
  PROVE  IsTailOf(s, t) <=> /\ Len(s) <= Len(t)
                            /\ \A i \in 1..Len(s) : s[i] = t[Len(t) - Len(s) + i]
<1> DEFINE a == Len(s)
           b == Len(t)
           u == SubSeq(t, b - a + 1, b)
<1>1. a \in Nat /\ b \in Nat
  BY LenProperties
<1> SUFFICES ASSUME a <= b PROVE s = u <=> \A i \in 1..a : s[i] = t[b - a + i]
  BY DEF IsTailOf
<1>2. u \in Seq(Nat) /\ Len(u) = a /\ \A i \in 1..a : u[i] = t[b - a + i]
  <2>1. \A i \in (b - a + 1)..b : t[i] \in Nat
    <3>1. \A i \in (b - a + 1)..b : i \in 1..b
      BY <1>1
    <3> QED BY <3>1, ElementOfSeq
  <2>2. b - a + 1 \in Int /\ b \in Int
    BY <1>1
  <2> HIDE DEF a, b
  <2>3. /\ u \in Seq(Nat) /\ Len(u) = IF b - a + 1 <= b THEN b - (b - a + 1) + 1 ELSE 0
        /\ \A i \in 1..(b - (b - a + 1) + 1) : u[i] = t[(b - a + 1) + i - 1]
    BY <2>1, <2>2, SubSeqProperties
  <2>4. b - (b - a + 1) + 1 = a /\ \A i \in 1..a : (b - a + 1) + i - 1 = b - a + i
    BY <1>1
  <2> QED BY <1>1, <2>3, <2>4
<1> HIDE DEF u
<1>3. ASSUME \A i \in 1..a : s[i] = t[b - a + i] PROVE s = u
  <2>1. Len(s) = Len(u) /\ \A i \in 1..Len(s) : s[i] = u[i]
    BY <1>2, <1>3
  <2> QED BY <1>2, <2>1, SeqEqual
<1> QED BY <1>2, <1>3

LEMMA TailAppend ==
  ASSUME NEW s \in Seq(Nat), NEW t \in Seq(Nat), IsTailOf(s, t), NEW x \in Nat
  PROVE  IsTailOf(Append(s, x), Append(t, x))
<1> DEFINE a == Len(s)
           b == Len(t)
           y == Append(s, x)
           z == Append(t, x)
<1>1. a \in Nat /\ b \in Nat
  BY LenProperties
<1>2. y \in Seq(Nat) /\ Len(y) = a + 1 /\ y[a + 1] = x /\ \A i \in 1..a : y[i] = s[i]
  BY AppendProperties
<1>3. z \in Seq(Nat) /\ Len(z) = b + 1 /\ z[b + 1] = x /\ \A i \in 1..b : z[i] = t[i]
  BY AppendProperties
<1>4. a <= b /\ \A i \in 1..a : s[i] = t[b - a + i]
  BY TailElements
<1> HIDE DEF a, b, y, z
<1>5. ASSUME NEW i \in 1..(a + 1) PROVE y[i] = z[(b + 1) - (a + 1) + i]
  <2>1. CASE i \in 1..a
    <3>1. b - a + i \in 1..b /\ (b + 1) - (a + 1) + i = b - a + i
      BY <1>1, <1>4, <2>1
    <3> QED BY <1>2, <1>3, <1>4, <2>1, <3>1
  <2>2. CASE i = a + 1
    <3>1. (b + 1) - (a + 1) + i = b + 1
      BY <1>1, <2>2
    <3> QED BY <1>2, <1>3, <2>2, <3>1
  <2> QED BY <1>1, <2>1, <2>2
<1>6. Len(y) <= Len(z) /\ \A i \in 1..Len(y) : y[i] = z[Len(z) - Len(y) + i]
  BY <1>1, <1>2, <1>3, <1>4, <1>5
<1> QED BY <1>2, <1>3, <1>6, TailElements DEF y, z

LEMMA TailTail ==
  ASSUME NEW s \in Seq(Nat), NEW t \in Seq(Nat), IsTailOf(s, t), s # <<>>
  PROVE  IsTailOf(Tail(s), t)
<1> DEFINE a == Len(s)
           b == Len(t)
           u == Tail(s)
<1>1. a \in Nat \ {0} /\ b \in Nat
  BY EmptySeq, LenProperties
<1>2. u \in Seq(Nat) /\ Len(u) = a - 1 /\ \A i \in 1..(a - 1) : u[i] = s[i + 1]
  BY HeadTailProperties
<1>3. a <= b /\ \A i \in 1..a : s[i] = t[b - a + i]
  BY TailElements
<1> HIDE DEF a, b, u
<1>4. ASSUME NEW i \in 1..(a - 1) PROVE u[i] = t[b - (a - 1) + i]
  <2>1. i + 1 \in 1..a /\ b - a + (i + 1) = b - (a - 1) + i
    BY <1>1
  <2> QED BY <1>2, <1>3, <2>1
<1>5. Len(u) <= Len(t) /\ \A i \in 1..Len(u) : u[i] = t[Len(t) - Len(u) + i]
  BY <1>1, <1>2, <1>3, <1>4 DEF b
<1> QED BY <1>2, <1>5, TailElements DEF u

LEMMA TailEnds ==
  ASSUME NEW t \in Seq(Nat)
  PROVE  IsTailOf(<<>>, t) /\ IsTailOf(t, t)
<1>1. Len(t) \in Nat /\ <<>> \in Seq(Nat) /\ Len(<<>>) = 0
  BY LenProperties, EmptySeq
<1>2. IsTailOf(<<>>, t)
  <2>1. Len(<<>>) <= Len(t) /\ \A i \in 1..Len(<<>>) : <<>>[i] = t[Len(t) - Len(<<>>) + i]
    BY <1>1
  <2> QED BY <1>1, <2>1, TailElements
<1>3. IsTailOf(t, t)
  <2>1. Len(t) <= Len(t) /\ \A i \in 1..Len(t) : Len(t) - Len(t) + i = i
    BY <1>1
  <2> QED BY <2>1, TailElements
<1> QED BY <1>2, <1>3

-----------------------------------------------------------------------------
(***************************************************************************)
(* Writing a record, whether it succeeds or not.                           *)
(***************************************************************************)

\* What a failed write of p may leave: nothing, part of the frame, or all of it.
Strays(p, n) == {<<>>, <<Torn>>, <<Frame(p, n)>>}

LEMMA OneStray ==
  ASSUME NEW fs \in Seq(Frames), NEW rs \in Seq(Records), NEW lost \in BOOLEAN, NEW p \in Records,
         Sound(fs), ValidLength(fs) <= MaxRecords, Len(rs) < MaxRecords,
         IF lost THEN Damaged(fs) \/ Len(fs) # Len(rs) ELSE ~Damaged(fs) /\ rs = Replayed(fs),
         ~lost => Follows(p, StateOf(rs)),
         NEW stray \in Strays(p, Len(rs))
  PROVE  LET gs == fs \o stray
         IN /\ gs \in Seq(Frames)
            /\ Sound(gs) /\ ValidLength(gs) <= MaxRecords
            /\ IF lost \/ stray # <<>> THEN Damaged(gs) \/ Len(gs) # Len(rs) ELSE gs = fs
            /\ Replayed(gs) \in {Replayed(fs), Append(Replayed(fs), p)}
<1> DEFINE gs == fs \o stray
<1>1. CASE stray = <<>>
  <2>1. gs = fs
    BY <1>1, ConcatEmptySeq
  <2> HIDE DEF gs
  <2> QED BY <1>1, <2>1 DEF gs
<1>2. CASE stray = <<Torn>>
  <2>1. gs = Append(fs, Torn)
    BY <1>2, TornTyped, AppendIsConcat
  <2> HIDE DEF gs
  <2>2. /\ gs \in Seq(Frames) /\ Sound(gs) /\ Damaged(gs)
        /\ ValidLength(gs) = ValidLength(fs) /\ Replayed(gs) = Replayed(fs)
    BY <2>1, OneTorn
  <2>3. stray # <<>>
    BY <1>2
  <2> QED BY <2>2, <2>3 DEF gs
<1>3. CASE stray = <<Frame(p, Len(rs))>>
  <2> DEFINE x == Frame(p, Len(rs))
  <2>1. gs = Append(fs, x)
    <3>1. x \in Frames
      BY FrameTyped, LenProperties
    <3> QED BY <1>3, <3>1, AppendIsConcat
  <2> HIDE DEF gs
  <2>2. /\ gs \in Seq(Frames) /\ Len(gs) = Len(fs) + 1
        /\ Sound(gs) /\ ValidLength(gs) <= MaxRecords
        /\ IF lost THEN Damaged(gs) /\ Replayed(gs) = Replayed(fs)
           ELSE ~Damaged(gs) /\ Replayed(gs) = Append(rs, p)
    BY <2>1, OneFrame
  <2>3. ~lost => Len(fs) = Len(rs) /\ Len(rs) \in Nat
    BY ReplayedTyped, LenProperties DEF Damaged
  <2>4. Damaged(gs) \/ Len(gs) # Len(rs)
    BY <2>2, <2>3
  <2>5. stray # <<>>
    BY <1>3
  <2> QED BY <2>2, <2>4, <2>5 DEF gs
<1> QED BY <1>1, <1>2, <1>3 DEF Strays

\* The file and the counters after a write, successful or not.
LEMMA WriteKeeps ==
  ASSUME IInv, phase # "down", NEW p, Follows(p, mem), ~Ends(p),
         Written(p) \/ WriteFails(p)
  PROVE  /\ file' \in [header : {"none", "torn", "ok"}, frames : Seq(Frames)]
         /\ records' \in Seq(Records) /\ Len(records') <= MaxRecords
         /\ faults' \in 0..MaxFaults /\ failed' \in BOOLEAN
         /\ Filed'
         /\ IF failed' THEN Damaged(file'.frames) \/ Len(file'.frames) # Len(records')
            ELSE ~Damaged(file'.frames) /\ records' = Replayed(file'.frames)
         /\ faults' = 0 => ~failed' /\ faults = 0
         /\ failed => failed'
         /\ LastBootIncarnation(Replayed(file'.frames)) = LastBootIncarnation(Replayed(file.frames))
         /\ ~failed => LastBootIncarnation(records') = LastBootIncarnation(records)
<1> DEFINE fs == file.frames
           gs == file'.frames
<1>1. /\ fs \in Seq(Frames) /\ records \in Seq(Records) /\ failed \in BOOLEAN /\ p \in Records
      /\ Sound(fs) /\ ValidLength(fs) <= MaxRecords
      /\ faults \in 0..MaxFaults /\ MaxFaults \in Nat /\ MaxRecords \in Nat /\ Len(records) \in Nat
  BY LenProperties, StoreAssumption DEF IInv, Typed, Filed, Follows
<1>2. IF failed THEN Damaged(fs) \/ Len(fs) # Len(records) ELSE ~Damaged(fs) /\ records = Replayed(fs)
  BY DEF IInv, Linked
<1>3. ~failed => Follows(p, StateOf(records))
  BY FollowsSame DEF IInv, Mirrored
<1>4. Len(records) < MaxRecords
  BY DEF Written, WriteFails, Room
<1>5. file.header = "ok" /\ file \in [header : {"none", "torn", "ok"}, frames : Seq(Frames)]
  BY DEF IInv, Typed, Filed
<1>6. CASE Written(p)
  <2>1. /\ file' = [file EXCEPT !.frames = Append(fs, Frame(p, Len(records)))]
        /\ records' = Append(records, p) /\ failed' = failed /\ faults' = faults
    BY <1>6 DEF Written
  <2>2. gs = Append(fs, Frame(p, Len(records))) /\ file'.header = "ok"
    BY <1>5, <2>1
  <2> HIDE DEF fs, gs
  <2>3. /\ gs \in Seq(Frames) /\ Len(gs) = Len(fs) + 1
        /\ Sound(gs) /\ ValidLength(gs) <= MaxRecords
        /\ IF failed THEN Damaged(gs) /\ Replayed(gs) = Replayed(fs)
           ELSE ~Damaged(gs) /\ Replayed(gs) = Append(records, p)
    BY <1>1, <1>2, <1>3, <1>4, <2>2, OneFrame
  <2>4. file' \in [header : {"none", "torn", "ok"}, frames : Seq(Frames)]
    BY <1>5, <2>1, <2>2, <2>3
  <2>5. records' \in Seq(Records) /\ Len(records') = Len(records) + 1
    BY <1>1, <2>1, AppendProperties
  <2>6. LastBootIncarnation(Append(records, p)) = LastBootIncarnation(records)
    BY <1>1, BootOfAppend DEF Ends
  <2>7. Filed'
    BY <2>2, <2>3 DEF Filed, gs
  <2>8. faults = 0 => ~failed
    BY DEF IInv, Linked
  <2>9. LastBootIncarnation(Replayed(gs)) = LastBootIncarnation(Replayed(fs))
    BY <1>1, <1>2, <2>3, <2>6
  <2>10. Len(records') <= MaxRecords
    BY <1>1, <1>4, <2>5
  <2>11. IF failed' THEN Damaged(gs) \/ Len(gs) # Len(records') ELSE ~Damaged(gs) /\ records' = Replayed(gs)
    BY <1>1, <2>1, <2>3
  <2> QED BY <1>1, <2>1, <2>4, <2>5, <2>6, <2>7, <2>8, <2>9, <2>10, <2>11 DEF gs, fs
<1>7. CASE WriteFails(p)
  <2>1. PICK stray \in Partial(p) :
          /\ file' = [file EXCEPT !.frames = fs \o stray]
          /\ failed' = (failed \/ stray # <<>>)
    BY <1>7 DEF WriteFails
  <2>2. records' = records /\ faults' = faults + 1 /\ faults < MaxFaults
    BY <1>7 DEF WriteFails
  <2>3. gs = fs \o stray /\ file'.header = "ok"
    BY <1>5, <2>1
  <2>4. stray \in Strays(p, Len(records))
    BY DEF Partial, Strays
  <2> HIDE DEF fs, gs
  <2>5. /\ gs \in Seq(Frames)
        /\ Sound(gs) /\ ValidLength(gs) <= MaxRecords
        /\ IF failed \/ stray # <<>> THEN Damaged(gs) \/ Len(gs) # Len(records) ELSE gs = fs
        /\ Replayed(gs) \in {Replayed(fs), Append(Replayed(fs), p)}
    BY <1>1, <1>2, <1>3, <1>4, <2>3, <2>4, OneStray
  <2>6. file' \in [header : {"none", "torn", "ok"}, frames : Seq(Frames)]
    BY <1>5, <2>1, <2>3, <2>5
  <2>7. LastBootIncarnation(Append(Replayed(fs), p)) = LastBootIncarnation(Replayed(fs))
    BY <1>1, ReplayedTyped, BootOfAppend DEF Ends
  <2>8. Filed'
    BY <2>3, <2>5 DEF Filed, gs
  <2>9. faults' \in 0..MaxFaults /\ faults' # 0
    BY <1>1, <2>2
  <2>10. failed' \in BOOLEAN /\ (failed => failed')
    BY <1>1, <2>1
  <2>11. IF failed' THEN Damaged(gs) \/ Len(gs) # Len(records') ELSE ~Damaged(gs) /\ records' = Replayed(gs)
    BY <1>1, <1>2, <2>1, <2>2, <2>5
  <2>12. LastBootIncarnation(Replayed(gs)) = LastBootIncarnation(Replayed(fs))
    BY <2>5, <2>7
  <2> QED BY <1>1, <1>4, <2>2, <2>6, <2>8, <2>9, <2>10, <2>11, <2>12 DEF gs, fs
<1> QED BY <1>6, <1>7

-----------------------------------------------------------------------------
(***************************************************************************)
(* The memory after a write.                                               *)
(***************************************************************************)
LEMMA ApplySame ==
  ASSUME NEW m \in States, NEW n \in States, SameButDecisions(m, n),
         NEW p \in Records, p.type # "snapshot"
  PROVE  /\ SameButDecisions(ApplyRecord(m, p), ApplyRecord(n, p))
         /\ p.type # "decision" => ApplyRecord(m, p).decisions = m.decisions
         /\ p.type = "decision" => ApplyRecord(m, p).decisions = Append(m.decisions, p.num)
         /\ ~Ends(p) => ApplyRecord(m, p).incarnation = m.incarnation
<1>1. CASE p.type \in {"campaign", "attempt"}
  BY <1>1, RecordCases DEF ApplyRecord, States, SameButDecisions
<1>2. CASE p.type \in {"provenance", "ticket"}
  BY <1>2, RecordCases DEF ApplyRecord, States, SameButDecisions
<1>3. CASE p.type = "decision"
  BY <1>3, RecordCases DEF ApplyRecord, States, SameButDecisions
<1>4. CASE p.type \in {"epoch", "note", "shutdown"}
  BY <1>4, RecordCases DEF ApplyRecord, States, SameButDecisions
<1>5. CASE p.type = "boot"
  BY <1>5, RecordCases DEF ApplyRecord, States, SameButDecisions, Ends
<1> QED BY <1>1, <1>2, <1>3, <1>4, <1>5, RecordCases DEF RecordTypes

\* The state of what the process has accepted is one that a replay gives.
LEMMA AcceptedHealthy ==
  ASSUME IInv, ~failed
  PROVE  Healthy(records) /\ StateOf(records) \in States
<1>1. CASE phase = "down"
  BY <1>1, HealthyEmpty DEF IInv, Linked, Healthy
<1>2. CASE phase # "down"
  <2>1. records = Replayed(file.frames) /\ file.frames \in Seq(Frames) /\ Sound(file.frames)
    BY <1>2 DEF IInv, Linked, Typed, Filed
  <2>2. Healthy(records)
    BY <2>1, SoundReplayed
  <2> QED BY <2>2 DEF Healthy
<1> QED BY <1>1, <1>2

\* All of the invariant but what a compaction has staged.
Kept == Typed /\ Filed /\ Linked /\ Mirrored /\ Booted

LEMMA StoreKeeps ==
  ASSUME IInv, phase \notin {"down", "opened"}, phase' \in Phases \ {"down", "opened"},
         NEW p, Follows(p, mem), ~Ends(p), p.type # "decision",
         \/ Written(p) /\ mem' = ApplyRecord(mem, p)
         \/ WriteFails(p) /\ UNCHANGED mem,
         UNCHANGED <<temp, rotted, started>>
  PROVE  Kept'
<1>1. p \in Records /\ mem \in States /\ Good(mem) /\ p.type # "snapshot"
  BY DEF IInv, Typed, Follows, Ends
<1>2. /\ file' \in [header : {"none", "torn", "ok"}, frames : Seq(Frames)]
      /\ records' \in Seq(Records) /\ Len(records') <= MaxRecords
      /\ faults' \in 0..MaxFaults /\ failed' \in BOOLEAN
      /\ Filed'
      /\ IF failed' THEN Damaged(file'.frames) \/ Len(file'.frames) # Len(records')
         ELSE ~Damaged(file'.frames) /\ records' = Replayed(file'.frames)
      /\ faults' = 0 => ~failed' /\ faults = 0
      /\ failed => failed'
      /\ LastBootIncarnation(Replayed(file'.frames)) = LastBootIncarnation(Replayed(file.frames))
      /\ ~failed => LastBootIncarnation(records') = LastBootIncarnation(records)
  BY WriteKeeps
<1>3. mem' \in States /\ Good(mem') /\ mem'.incarnation = mem.incarnation /\ mem'.decisions = mem.decisions
  <2>1. SameButDecisions(mem, mem)
    BY DEF SameButDecisions
  <2> QED BY <1>1, <2>1, ApplyTyped, GoodApply, ApplySame
<1>4. Typed'
  BY <1>2, <1>3 DEF IInv, Typed
<1>5. Linked'
  BY <1>2 DEF Linked
<1>6. Mirrored'
  <2> SUFFICES ASSUME ~failed'
               PROVE  /\ SameButDecisions(mem', StateOf(records'))
                      /\ IsTailOf(mem'.decisions, StateOf(records').decisions)
                      /\ faults' = 0 => \/ Len(mem'.decisions) >= MaxDecisions
                                        \/ mem'.decisions = StateOf(records').decisions
    BY DEF Mirrored
  <2>1. ~failed /\ (faults' = 0 => faults = 0)
    BY <1>2
  <2>2. /\ SameButDecisions(mem, StateOf(records))
        /\ IsTailOf(mem.decisions, StateOf(records).decisions)
        /\ faults = 0 => \/ Len(mem.decisions) >= MaxDecisions
                         \/ mem.decisions = StateOf(records).decisions
    BY <2>1 DEF IInv, Mirrored
  <2>3. StateOf(records) \in States /\ records \in Seq(Records)
    BY <2>1, AcceptedHealthy DEF IInv, Typed
  <2>4. CASE Written(p) /\ mem' = ApplyRecord(mem, p)
    <3>1. StateOf(records') = ApplyRecord(StateOf(records), p)
      BY <1>1, <2>3, <2>4, StateOfAppend DEF Written
    <3>2. SameButDecisions(StateOf(records), StateOf(records))
      BY DEF SameButDecisions
    <3>3. StateOf(records').decisions = StateOf(records).decisions
      BY <1>1, <2>3, <3>1, <3>2, ApplySame
    <3>4. SameButDecisions(mem', StateOf(records'))
      BY <1>1, <2>2, <2>3, <2>4, <3>1, ApplySame
    <3> QED BY <1>3, <2>1, <2>2, <3>3, <3>4
  <2>5. CASE WriteFails(p) /\ UNCHANGED mem
    <3>1. records' = records
      BY <2>5 DEF WriteFails
    <3> QED BY <2>1, <2>2, <2>5, <3>1
  <2> QED BY <2>4, <2>5
<1>7. Booted'
  <2>1. rotted' = rotted /\ started' = started
    OBVIOUS
  <2>2. /\ ~rotted => \A s \in started : s <= LastBootIncarnation(Replayed(file.frames))
        /\ ~rotted => \A s \in started : s <= mem.incarnation
        /\ ~failed => mem.incarnation = LastBootIncarnation(records)
    BY DEF IInv, Booted
  <2> QED BY <1>2, <1>3, <2>1, <2>2 DEF Booted
<1> QED BY <1>2, <1>4, <1>5, <1>6, <1>7 DEF Kept

-----------------------------------------------------------------------------
(***************************************************************************)
(* The records of the operations follow the memory they are written from.  *)
(***************************************************************************)
LEMMA PutsFollow ==
  ASSUME mem \in States
  PROVE  /\ \A k \in CampaignIds : CampaignFits(k) =>
              /\ Follows(CampaignRecord(k), mem)
              /\ ApplyRecord(mem, CampaignRecord(k)) = [mem EXCEPT !.campaigns[k] = @ + 1]
         /\ \A k \in AttemptIds : AttemptFits(k) =>
              /\ Follows(AttemptRecord(k), mem)
              /\ ApplyRecord(mem, AttemptRecord(k)) = [mem EXCEPT !.attempts[k] = @ + 1]
         /\ mem.ticket < MaxRevision =>
              /\ Follows(TicketRecord, mem)
              /\ ApplyRecord(mem, TicketRecord) = [mem EXCEPT !.ticket = @ + 1]
         /\ \A e \in 1..MaxEpoch : e > mem.epoch =>
              /\ Follows(EpochRecord(e), mem)
              /\ ApplyRecord(mem, EpochRecord(e)) = [mem EXCEPT !.epoch = e]
         /\ Follows(DecisionRecord, mem)
         /\ Follows(NoteRecord, mem) /\ ApplyRecord(mem, NoteRecord) = mem
         /\ Follows(ShutdownRecord, mem) /\ ApplyRecord(mem, ShutdownRecord) = mem
<1>0. MaxRevision \in Nat /\ MaxEpoch \in Nat
  BY StoreAssumption
<1>1. ASSUME NEW k \in CampaignIds, CampaignFits(k)
      PROVE  /\ Follows(CampaignRecord(k), mem)
             /\ ApplyRecord(mem, CampaignRecord(k)) = [mem EXCEPT !.campaigns[k] = @ + 1]
  <2>1. mem.campaigns[k] \in 0..MaxRevision /\ mem.campaigns[k] < MaxRevision
    BY <1>1 DEF CampaignFits, States
  <2>2. mem.campaigns[k] + 1 \in 0..MaxRevision
    BY <1>0, <2>1
  <2>3. CampaignRecord(k) \in Records
    BY <2>2 DEF CampaignRecord, Record, Records, RecordsOfType
  <2> QED BY <2>3 DEF Follows, CampaignRecord, Record, ApplyRecord
<1>2. ASSUME NEW k \in AttemptIds, AttemptFits(k)
      PROVE  /\ Follows(AttemptRecord(k), mem)
             /\ ApplyRecord(mem, AttemptRecord(k)) = [mem EXCEPT !.attempts[k] = @ + 1]
  <2>1. mem.attempts[k] \in 0..MaxRevision /\ mem.attempts[k] < MaxRevision
    BY <1>2 DEF AttemptFits, States
  <2>2. mem.attempts[k] + 1 \in 0..MaxRevision
    BY <1>0, <2>1
  <2>3. AttemptRecord(k) \in Records
    BY <2>2 DEF AttemptRecord, Record, Records, RecordsOfType
  <2> QED BY <2>3 DEF Follows, AttemptRecord, Record, ApplyRecord
<1>3. ASSUME mem.ticket < MaxRevision
      PROVE  /\ Follows(TicketRecord, mem)
             /\ ApplyRecord(mem, TicketRecord) = [mem EXCEPT !.ticket = @ + 1]
  <2>1. mem.ticket + 1 \in 0..MaxRevision
    BY <1>0, <1>3 DEF States
  <2>2. TicketRecord \in Records
    BY <2>1 DEF TicketRecord, Record, Records, RecordsOfType
  <2> QED BY <2>2 DEF Follows, TicketRecord, Record, ApplyRecord
<1>4. ASSUME NEW e \in 1..MaxEpoch, e > mem.epoch
      PROVE  /\ Follows(EpochRecord(e), mem)
             /\ ApplyRecord(mem, EpochRecord(e)) = [mem EXCEPT !.epoch = e]
  <2>1. EpochRecord(e) \in Records
    BY DEF EpochRecord, Record, Records, RecordsOfType
  <2> QED BY <1>4, <2>1 DEF Follows, EpochRecord, Record, ApplyRecord
<1>5. Follows(DecisionRecord, mem)
  <2> DEFINE d == mem.decisions
             x == IF Len(d) = 0 THEN 1 ELSE d[Len(d)] + 1
  <2>1. d \in Seq(Nat) /\ Len(d) \in Nat
    BY LenProperties DEF States
  <2>2. Len(d) # 0 => d[Len(d)] \in Nat
    <3>1. Len(d) # 0 => Len(d) \in 1..Len(d)
      BY <2>1
    <3> QED BY <2>1, <3>1, ElementOfSeq
  <2>3. x \in Nat
    BY <2>2
  <2>4. DecisionRecord = Record("decision", None, x, None)
    BY DEF DecisionRecord
  <2> HIDE DEF x
  <2>5. DecisionRecord \in Records
    BY <2>3, <2>4 DEF Record, Records, RecordsOfType
  <2> QED BY <2>4, <2>5 DEF Follows, Record
<1>6. Follows(NoteRecord, mem) /\ ApplyRecord(mem, NoteRecord) = mem
  BY DEF NoteRecord, Record, Records, RecordsOfType, Follows, ApplyRecord
<1>7. Follows(ShutdownRecord, mem) /\ ApplyRecord(mem, ShutdownRecord) = mem
  BY DEF ShutdownRecord, Record, Records, RecordsOfType, Follows, ApplyRecord
<1> QED BY <1>1, <1>2, <1>3, <1>4, <1>5, <1>6, <1>7

LEMMA EntryFollows ==
  ASSUME mem \in States, ProvenanceFits
  PROVE  /\ Follows(ProvenanceRecord, mem)
         /\ ApplyRecord(mem, ProvenanceRecord)
              = [mem EXCEPT !.ledger = Append(@, LedgerEntry), !.chain = LedgerEntry.chain,
                            !.sequence = LedgerEntry.sequence]
<1>1. mem.chain \in Seq(Links) /\ mem.sequence \in Nat /\ mem.incarnation \in Nat
  BY DEF States
<1>2. ComputeChain(mem.chain, mem.sequence + 1, mem.incarnation) \in Seq(Links)
  <2>1. [sequence |-> mem.sequence + 1, incarnation |-> mem.incarnation] \in Links
    BY <1>1 DEF Links
  <2> QED BY <1>1, <2>1, AppendProperties DEF ComputeChain
<1>3. /\ LedgerEntry \in Entries
      /\ LedgerEntry.sequence = mem.sequence + 1 /\ LedgerEntry.previous = mem.chain
      /\ LedgerEntry.chain = ComputeChain(mem.chain, LedgerEntry.sequence, LedgerEntry.incarnation)
  BY <1>1, <1>2 DEF LedgerEntry, Entries
<1>4. /\ ProvenanceRecord.type = "provenance" /\ ProvenanceRecord.body = LedgerEntry
      /\ ProvenanceRecord \in Records
  BY <1>3 DEF ProvenanceRecord, Record, Records, RecordsOfType
<1>5. LedgerEntry.sequence > mem.sequence
  BY <1>1, <1>3
<1>6. Follows(ProvenanceRecord, mem)
  BY <1>3, <1>4, <1>5 DEF Follows, ProvenanceFits
<1> QED BY <1>4, <1>6 DEF ApplyRecord

-----------------------------------------------------------------------------
(***************************************************************************)
(* Every step keeps the invariant.                                         *)
(***************************************************************************)
LEMMA InitKeeps == Init => IInv
<1> SUFFICES ASSUME Init PROVE IInv
  OBVIOUS
<1>1. <<>> \in Seq(Frames) /\ <<>> \in Seq(Records) /\ Len(<<>>) = 0
  BY EmptySeq
<1>2. ValidLength(<<>>) = 0 /\ Replayed(<<>>) = <<>>
  <2>1. ValidLength(<<>>) \in 0..0 /\ Replayed(<<>>) \in Seq(Records)
        /\ Len(Replayed(<<>>)) = ValidLength(<<>>)
    BY <1>1, ReplayedTyped
  <2> QED BY <2>1, EmptySeq
<1>3. Healthy(<<>>) /\ StateOf(<<>>) = EmptyState /\ EmptyState \in States
  BY HealthyEmpty, StateOfEmpty, EmptyTyped
<1>4. IsFiniteSet({}) /\ Cardinality({}) = 0
  BY FS_EmptySet
<1>5. Typed
  <2>1. Good(EmptyState)
    BY <1>3 DEF Healthy
  <2>2. Len(records) <= MaxRecords /\ Cardinality(started) <= MaxIncarnation
    BY <1>1, <1>4, StoreAssumption DEF Init
  <2>3. faults \in 0..MaxFaults
    BY StoreAssumption DEF Init
  <2> QED BY <1>1, <1>3, <1>4, <2>1, <2>2, <2>3 DEF Init, Typed, Phases
<1>6. Filed
  <2>1. \A n \in 0..0 : RecordsOf(<<>>, n) = <<>>
    BY <1>2 DEF Replayed
  <2>2. Sound(<<>>)
    BY <1>2, <1>3, <2>1 DEF Sound
  <2>3. 0 <= MaxRecords
    BY StoreAssumption
  <2>4. file.frames = <<>> /\ phase = "down"
    BY DEF Init
  <2> QED BY <1>2, <2>2, <2>3, <2>4 DEF Filed
<1>7. Mirrored
  <2>1. SameButDecisions(EmptyState, EmptyState) /\ IsTailOf(EmptyState.decisions, EmptyState.decisions)
    BY <1>3, TailEnds DEF SameButDecisions, States
  <2> QED BY <1>3, <2>1 DEF Init, Mirrored
<1> QED BY <1>5, <1>6, <1>7 DEF Init, IInv, Linked, Booted, Staged

\* The process is gone: what is left is the file.
LEMMA StopKeeps ==
  ASSUME IInv, phase' = "down", MemoryLost, temp' \in {temp, <<>>}, faults' \in 0..MaxFaults,
         rotted' \in BOOLEAN, started' = started,
         file' \in [header : {"none", "torn", "ok"}, frames : Seq(Frames)], Filed',
         ~rotted' => \A s \in started : s <= LastBootIncarnation(Replayed(file'.frames))
  PROVE  IInv'
<1>1. StateOf(<<>>) = EmptyState /\ EmptyState \in States /\ Good(EmptyState)
  BY StateOfEmpty, EmptyTyped, HealthyEmpty DEF Healthy
<1>2. records' = <<>> /\ mem' = EmptyState /\ failed' = FALSE
  BY DEF MemoryLost
<1>3. <<>> \in Seq(Frames) /\ <<>> \in Seq(Records) /\ Len(<<>>) = 0
  BY EmptySeq
<1>4. Typed'
  <2>1. temp' \in Seq(Frames)
    BY <1>3 DEF IInv, Typed
  <2>2. Len(records') <= MaxRecords
    BY <1>2, <1>3, StoreAssumption
  <2> QED BY <1>1, <1>2, <1>3, <2>1, <2>2 DEF IInv, Typed, Phases
<1>5. Mirrored'
  <2>1. SameButDecisions(EmptyState, EmptyState) /\ IsTailOf(EmptyState.decisions, EmptyState.decisions)
    BY <1>1, TailEnds DEF SameButDecisions, States
  <2> QED BY <1>1, <1>2, <2>1 DEF Mirrored
<1> QED BY <1>2, <1>4, <1>5 DEF IInv, Linked, Booted, Staged

LEMMA OpenKeeps ==
  ASSUME IInv, OpenIntact \/ OpenRepaired
  PROVE  IInv' /\ Replayed(file'.frames) = Replayed(file.frames)
<1> DEFINE fs == file.frames
           gs == file'.frames
<1>1. /\ fs \in Seq(Frames) /\ Sound(fs) /\ ValidLength(fs) <= MaxRecords
      /\ phase = "down" /\ Cardinality(started) < MaxIncarnation
  BY DEF IInv, Typed, Filed, OpenIntact, OpenRepaired
<1>2. PICK hs : /\ Load(hs)
                /\ hs \in Seq(Frames) /\ Sound(hs) /\ ~Damaged(hs)
                /\ ValidLength(hs) = ValidLength(fs) /\ Replayed(hs) = Replayed(fs)
  <2>1. CASE OpenIntact
    <3>1. Load(fs) /\ ~Damaged(fs)
      BY <2>1 DEF OpenIntact
    <3> QED BY <1>1, <3>1
  <2>2. CASE OpenRepaired
    <3>1. Load(SubSeq(fs, 1, ValidLength(fs)))
      BY <2>2 DEF OpenRepaired
    <3> QED BY <1>1, <3>1, RepairKeeps
  <2> QED BY <2>1, <2>2
<1>3. /\ file' = [header |-> "ok", frames |-> hs] /\ records' = Replayed(hs)
      /\ mem' = Recovered(Replayed(hs)) /\ failed' = FALSE /\ phase' = "opened"
      /\ temp' = temp /\ faults' = faults /\ rotted' = rotted /\ started' = started
  BY <1>2 DEF Load
<1>4. gs = hs
  BY <1>3
<1> HIDE DEF fs, gs
<1>5. Healthy(Replayed(hs)) /\ mem' = StateOf(records')
  BY <1>2, <1>3, SoundReplayed, RecoveredIs
<1>6. mem' \in States /\ Good(mem') /\ mem'.decisions \in Seq(Nat)
  BY <1>3, <1>5 DEF Healthy, States
<1>7. records' \in Seq(Records) /\ Len(records') <= MaxRecords
  BY <1>1, <1>2, <1>3, ReplayedTyped
<1>8. Typed'
  BY <1>1, <1>2, <1>3, <1>6, <1>7 DEF IInv, Typed, Phases
<1>9. Filed'
  BY <1>1, <1>2, <1>3, <1>4 DEF Filed, gs
<1>10. Linked'
  BY <1>2, <1>3, <1>4 DEF Linked, gs
<1>11. Mirrored'
  <2>1. SameButDecisions(mem', mem') /\ IsTailOf(mem'.decisions, mem'.decisions)
    BY <1>6, TailEnds DEF SameButDecisions
  <2> QED BY <1>5, <2>1 DEF Mirrored
<1>12. Booted'
  BY <1>2, <1>3, <1>4 DEF IInv, Booted, gs, fs
<1>13. Staged'
  BY <1>3 DEF Staged
<1> QED BY <1>2, <1>4, <1>8, <1>9, <1>10, <1>11, <1>12, <1>13 DEF IInv, gs, fs

LEMMA HeaderTornKeeps ==
  ASSUME IInv, HeaderTorn
  PROVE  IInv' /\ file'.frames = file.frames
<1>1. /\ phase = "down" /\ file.header = "none" /\ file' = [file EXCEPT !.header = "torn"]
      /\ UNCHANGED <<temp, phase, records, mem, faults, failed, rotted, started>>
  BY DEF HeaderTorn
<1>2. file \in [header : {"none", "torn", "ok"}, frames : Seq(Frames)]
  BY DEF IInv, Typed
<1>3. file'.frames = file.frames /\ file'.header = "torn"
      /\ file' \in [header : {"none", "torn", "ok"}, frames : Seq(Frames)]
  BY <1>1, <1>2
<1>4. Typed' /\ Filed'
  BY <1>1, <1>3 DEF IInv, Typed, Filed
<1>5. Linked' /\ Mirrored' /\ Booted' /\ Staged'
  BY <1>1, <1>3 DEF IInv, Linked, Mirrored, Booted, Staged
<1> QED BY <1>3, <1>4, <1>5 DEF IInv

\* The next incarnation is above every one that came up, and its record follows.
LEMMA NextIsFresh ==
  ASSUME IInv, phase = "opened"
  PROVE  /\ NextIncarnation \in Nat /\ NextIncarnation = LastBootIncarnation(records) + 1
         /\ LastBootIncarnation(records) \in Nat
         /\ BootRecord(NextIncarnation) \in Records
         /\ BootRecord(NextIncarnation).type = "boot" /\ BootRecord(NextIncarnation).num = NextIncarnation
         /\ Follows(BootRecord(NextIncarnation), StateOf(records))
         /\ ~failed /\ ~Damaged(file.frames) /\ records = Replayed(file.frames)
         /\ ~rotted => \A s \in started : s <= LastBootIncarnation(records)
<1>1. ~failed /\ ~Damaged(file.frames) /\ records = Replayed(file.frames)
  BY DEF IInv, Linked
<1>2. StateOf(records) \in States /\ LastBootIncarnation(records) \in {0, StateOf(records).incarnation}
  BY <1>1, AcceptedHealthy DEF Healthy
<1>3. LastBootIncarnation(records) \in Nat
  BY <1>2 DEF States
<1>4. NextIncarnation \in Nat /\ NextIncarnation = LastBootIncarnation(records) + 1
  BY <1>3 DEF NextIncarnation
<1>5. /\ BootRecord(NextIncarnation) \in Records
      /\ BootRecord(NextIncarnation).type = "boot" /\ BootRecord(NextIncarnation).num = NextIncarnation
  BY <1>4 DEF BootRecord, Record, Records, RecordsOfType
<1>6. Follows(BootRecord(NextIncarnation), StateOf(records))
  BY <1>5 DEF Follows
<1> QED BY <1>1, <1>3, <1>4, <1>5, <1>6 DEF IInv, Booted

\* The boot record is what a replay then ends with.
LEMMA BootFile ==
  ASSUME IInv, phase = "opened", Room
  PROVE  LET gs == Append(file.frames, Frame(BootRecord(NextIncarnation), Len(records)))
             rs == Append(records, BootRecord(NextIncarnation))
         IN /\ gs \in Seq(Frames) /\ Sound(gs) /\ ValidLength(gs) <= MaxRecords
            /\ ~Damaged(gs) /\ Replayed(gs) = rs
            /\ StateOf(rs) = ApplyRecord(StateOf(records), BootRecord(NextIncarnation))
            /\ LastBootIncarnation(rs) = NextIncarnation
<1> DEFINE p == BootRecord(NextIncarnation)
<1>1. /\ p \in Records /\ p.type = "boot" /\ p.num = NextIncarnation
      /\ Follows(p, StateOf(records))
      /\ ~failed /\ ~Damaged(file.frames) /\ records = Replayed(file.frames)
  BY NextIsFresh
<1>2. /\ file.frames \in Seq(Frames) /\ records \in Seq(Records)
      /\ Sound(file.frames) /\ ValidLength(file.frames) <= MaxRecords /\ Len(records) < MaxRecords
  BY DEF IInv, Typed, Filed, Room
<1> HIDE DEF p
<1>3. LET gs == Append(file.frames, Frame(p, Len(records)))
      IN /\ gs \in Seq(Frames) /\ Sound(gs) /\ ValidLength(gs) <= MaxRecords
         /\ ~Damaged(gs) /\ Replayed(gs) = Append(records, p)
  <2> DEFINE lost == FALSE
  <2>1. IF lost THEN Damaged(file.frames) \/ Len(file.frames) # Len(records)
        ELSE ~Damaged(file.frames) /\ records = Replayed(file.frames)
    BY <1>1
  <2>2. lost \in BOOLEAN /\ (~lost => Follows(p, StateOf(records))) /\ ~lost
    BY <1>1
  <2> HIDE DEF lost
  <2> QED BY <1>1, <1>2, <2>1, <2>2, OneFrame
<1>4. StateOf(Append(records, p)) = ApplyRecord(StateOf(records), p)
  BY <1>1, <1>2, StateOfAppend
<1>5. LastBootIncarnation(Append(records, p)) = NextIncarnation
  BY <1>1, <1>2, BootOfAppend
<1> QED BY <1>3, <1>4, <1>5 DEF p

LEMMA BootKeeps ==
  ASSUME IInv, Boot
  PROVE  /\ IInv'
         /\ records' = Append(records, BootRecord(NextIncarnation))
         /\ StateOf(records') = ApplyRecord(StateOf(records), BootRecord(NextIncarnation))
<1> DEFINE p == BootRecord(NextIncarnation)
           fs == file.frames
           gs == file'.frames
<1>1. /\ phase = "opened" /\ phase' = "up" /\ Room
      /\ file' = [file EXCEPT !.frames = Append(@, Frame(p, Len(records)))]
      /\ records' = Append(records, p) /\ faults' = faults /\ failed' = failed
      /\ mem' = [mem EXCEPT !.incarnation = NextIncarnation]
      /\ started' = started \cup {NextIncarnation} /\ temp' = temp /\ rotted' = rotted
  BY DEF Boot, Written
<1>2. /\ p \in Records /\ p.type = "boot" /\ p.num = NextIncarnation /\ NextIncarnation \in Nat
      /\ NextIncarnation = LastBootIncarnation(records) + 1 /\ LastBootIncarnation(records) \in Nat
      /\ Follows(p, StateOf(records)) /\ ~failed
      /\ ~rotted => \A s \in started : s <= LastBootIncarnation(records)
  BY <1>1, NextIsFresh
<1>3. /\ fs \in Seq(Frames) /\ records \in Seq(Records) /\ mem \in States /\ Good(mem)
      /\ file \in [header : {"none", "torn", "ok"}, frames : Seq(Frames)] /\ file.header = "ok"
      /\ started \in SUBSET Nat /\ IsFiniteSet(started) /\ Cardinality(started) < MaxIncarnation
  BY <1>1 DEF IInv, Typed, Filed
<1>4. gs = Append(fs, Frame(p, Len(records))) /\ file'.header = "ok"
  BY <1>1, <1>3
<1>5. /\ gs \in Seq(Frames) /\ Sound(gs) /\ ValidLength(gs) <= MaxRecords
      /\ ~Damaged(gs) /\ Replayed(gs) = records'
      /\ StateOf(records') = ApplyRecord(StateOf(records), p)
      /\ LastBootIncarnation(records') = NextIncarnation
  BY <1>1, <1>4, BootFile
<1> HIDE DEF p, fs, gs
<1>6. mem' = ApplyRecord(mem, p) /\ p.type # "snapshot"
  BY <1>1, <1>2 DEF ApplyRecord
<1>7. /\ mem' \in States /\ Good(mem') /\ mem'.decisions = mem.decisions
      /\ mem'.incarnation = NextIncarnation
  <2>1. SameButDecisions(mem, mem) /\ Follows(p, mem)
    BY <1>2 DEF SameButDecisions, Follows
  <2>2. mem'.incarnation = NextIncarnation
    BY <1>1, <1>3 DEF States
  <2> QED BY <1>2, <1>3, <1>6, <2>1, <2>2, ApplyTyped, GoodApply, ApplySame
<1>8. Typed'
  <2>1. /\ IsFiniteSet(started') /\ started' \in SUBSET Nat
        /\ Cardinality(started') <= MaxIncarnation
    <3>1. /\ IsFiniteSet(started \cup {NextIncarnation})
          /\ Cardinality(started \cup {NextIncarnation}) \in {Cardinality(started), Cardinality(started) + 1}
      BY <1>3, FS_AddElement
    <3>2. Cardinality(started) \in Nat /\ MaxIncarnation \in Nat
      BY <1>3, FS_CardinalityType, StoreAssumption
    <3>3. Cardinality(started) < MaxIncarnation
      BY <1>3
    <3>4. Cardinality(started') <= MaxIncarnation
      BY <1>1, <3>1, <3>2, <3>3
    <3> QED BY <1>1, <1>2, <1>3, <3>1, <3>4
  <2>2. records' \in Seq(Records) /\ Len(records') <= MaxRecords
    <3>1. MaxRecords \in Nat /\ Len(records) \in Nat /\ Len(records) < MaxRecords
      BY <1>1, <1>3, LenProperties, StoreAssumption DEF Room
    <3>2. Append(records, p) \in Seq(Records) /\ Len(Append(records, p)) = Len(records) + 1
      BY <1>2, <1>3, AppendProperties
    <3>3. Len(records') <= MaxRecords
      BY <1>1, <3>1, <3>2
    <3> QED BY <1>1, <3>2, <3>3
  <2>3. file' \in [header : {"none", "torn", "ok"}, frames : Seq(Frames)]
    BY <1>1, <1>3, <1>4, <1>5 DEF fs
  <2> QED BY <1>1, <1>7, <2>1, <2>2, <2>3 DEF IInv, Typed, Phases
<1>9. Filed'
  BY <1>4, <1>5 DEF Filed, gs
<1>10. Linked'
  BY <1>1, <1>2, <1>5 DEF IInv, Linked, gs
<1>11. Mirrored'
  <2>1. /\ SameButDecisions(mem, StateOf(records))
        /\ IsTailOf(mem.decisions, StateOf(records).decisions)
        /\ faults = 0 => \/ Len(mem.decisions) >= MaxDecisions
                         \/ mem.decisions = StateOf(records).decisions
    BY <1>2 DEF IInv, Mirrored
  <2>2. StateOf(records) \in States
    BY <1>2, AcceptedHealthy
  <2>3. SameButDecisions(mem', StateOf(records'))
    BY <1>2, <1>3, <1>5, <1>6, <2>1, <2>2, ApplySame
  <2>4. StateOf(records').decisions = StateOf(records).decisions
    BY <1>2, <1>5, <2>2 DEF ApplyRecord, States
  <2> QED BY <1>1, <1>7, <2>1, <2>3, <2>4 DEF Mirrored
<1>12. Booted'
  <2>1. ~rotted => \A s \in started' : s <= NextIncarnation
    BY <1>1, <1>2, <1>3
  <2> QED BY <1>1, <1>5, <1>7, <2>1 DEF Booted, gs
<1>13. Staged'
  BY <1>1 DEF Staged
<1> QED BY <1>1, <1>5, <1>8, <1>9, <1>10, <1>11, <1>12, <1>13 DEF IInv, p

LEMMA ShutdownFollows ==
  /\ ShutdownRecord \in Records /\ ShutdownRecord.type = "shutdown" /\ ~Ends(ShutdownRecord)
  /\ \A m : Follows(ShutdownRecord, m)
BY DEF ShutdownRecord, Record, Records, RecordsOfType, Follows, Ends

LEMMA BootFailsKeeps ==
  ASSUME IInv, BootFails
  PROVE  /\ IInv' /\ faults' # 0
<1> DEFINE p == BootRecord(NextIncarnation)
           fs == file.frames
           gs == file'.frames
           q == ShutdownRecord
<1>1. PICK stray \in Partial(p) :
        file' = [file EXCEPT !.frames = @ \o stray \o <<Frame(ShutdownRecord, Len(records))>>]
  BY DEF BootFails
<1>2. /\ phase = "opened" /\ Room /\ faults < MaxFaults /\ faults' = faults + 1
      /\ phase' = "down" /\ MemoryLost /\ temp' = temp /\ rotted' = rotted /\ started' = started
  BY DEF BootFails
<1>3. /\ p \in Records /\ p.type = "boot" /\ p.num = NextIncarnation /\ NextIncarnation \in Nat
      /\ NextIncarnation = LastBootIncarnation(records) + 1 /\ LastBootIncarnation(records) \in Nat
      /\ Follows(p, StateOf(records)) /\ ~failed /\ ~Damaged(fs) /\ records = Replayed(fs)
      /\ ~rotted => \A s \in started : s <= LastBootIncarnation(records)
  BY <1>2, NextIsFresh
<1>4. /\ fs \in Seq(Frames) /\ records \in Seq(Records) /\ Len(records) < MaxRecords
      /\ Sound(fs) /\ ValidLength(fs) <= MaxRecords
      /\ file \in [header : {"none", "torn", "ok"}, frames : Seq(Frames)] /\ file.header = "ok"
      /\ started \in SUBSET Nat /\ faults \in 0..MaxFaults /\ MaxFaults \in Nat
      /\ rotted \in BOOLEAN
  BY <1>2, StoreAssumption DEF IInv, Typed, Filed, Room
<1>5. stray \in Strays(p, Len(records))
  BY DEF Partial, Strays
<1> DEFINE hs == fs \o stray
<1>6. gs = hs \o <<Frame(q, Len(records))>> /\ file'.header = "ok"
      /\ file' = [file EXCEPT !.frames = gs]
  BY <1>1, <1>4
<1> HIDE DEF p, gs, q
<1>7. /\ hs \in Seq(Frames) /\ Sound(hs) /\ ValidLength(hs) <= MaxRecords
      /\ IF stray # <<>> THEN Damaged(hs) \/ Len(hs) # Len(records) ELSE hs = fs
      /\ Replayed(hs) \in {Replayed(fs), Append(Replayed(fs), p)}
  <2> DEFINE lost == FALSE
  <2>1. IF lost THEN Damaged(fs) \/ Len(fs) # Len(records) ELSE ~Damaged(fs) /\ records = Replayed(fs)
    BY <1>3
  <2>2. lost \in BOOLEAN /\ (~lost => Follows(p, StateOf(records))) /\ ~lost
    BY <1>3
  <2> HIDE DEF lost, fs
  <2> QED BY <1>3, <1>4, <1>5, <2>1, <2>2, OneStray
<1> HIDE DEF fs, hs
<1>8. /\ gs \in Seq(Frames) /\ Sound(gs) /\ ValidLength(gs) <= MaxRecords
      /\ Replayed(gs) \in {Replayed(hs), Append(records, q)}
  <2> DEFINE lost == (stray # <<>>)
  <2>1. IF lost THEN Damaged(hs) \/ Len(hs) # Len(records) ELSE ~Damaged(hs) /\ records = Replayed(hs)
    BY <1>3, <1>7
  <2>2. q \in Records /\ Follows(q, StateOf(records)) /\ lost \in BOOLEAN
    BY ShutdownFollows DEF q
  <2>3. gs = Append(hs, Frame(q, Len(records)))
    <3>1. Frame(q, Len(records)) \in Frames
      BY <1>4, <2>2, FrameTyped, LenProperties
    <3> QED BY <1>6, <1>7, <3>1, AppendIsConcat
  <2> HIDE DEF lost
  <2> QED BY <1>4, <1>7, <2>1, <2>2, <2>3, OneFrame
<1>9. LastBootIncarnation(Replayed(gs)) \in {LastBootIncarnation(records), NextIncarnation}
  <2>1. LastBootIncarnation(Append(records, p)) = NextIncarnation
    BY <1>3, <1>4, BootOfAppend
  <2>2. LastBootIncarnation(Append(records, q)) = LastBootIncarnation(records)
    BY <1>4, ShutdownFollows, BootOfAppend DEF q
  <2> QED BY <1>3, <1>7, <1>8, <2>1, <2>2
<1>10. Filed'
  BY <1>6, <1>8 DEF Filed, gs
<1>11. file' \in [header : {"none", "torn", "ok"}, frames : Seq(Frames)]
  BY <1>4, <1>6, <1>8
<1>12. ~rotted' => \A s \in started : s <= LastBootIncarnation(Replayed(gs))
  <2> SUFFICES ASSUME ~rotted, NEW s \in started PROVE s <= LastBootIncarnation(Replayed(gs))
    BY <1>2
  <2>1. s \in Nat /\ s <= LastBootIncarnation(records)
    BY <1>3, <1>4
  <2> QED BY <1>3, <1>9, <2>1
<1>13. faults' \in 0..MaxFaults /\ faults' # 0
  BY <1>2, <1>4
<1> QED BY <1>2, <1>4, <1>10, <1>11, <1>12, <1>13, StopKeeps DEF gs

\* The file of a process that stops: as it is, or with a shutdown record, or
\* with part of one.
LEMMA ShutdownFile ==
  ASSUME IInv, phase # "down", Room, NEW gs,
         \/ gs = Append(file.frames, Frame(ShutdownRecord, Len(records)))
         \/ \E stray \in Partial(ShutdownRecord) : gs = file.frames \o stray
  PROVE  /\ gs \in Seq(Frames) /\ Sound(gs) /\ ValidLength(gs) <= MaxRecords
         /\ Replayed(gs) \in {Replayed(file.frames), Append(Replayed(file.frames), ShutdownRecord)}
         /\ LastBootIncarnation(Replayed(gs)) = LastBootIncarnation(Replayed(file.frames))
<1> DEFINE fs == file.frames
           q == ShutdownRecord
<1>1. /\ fs \in Seq(Frames) /\ records \in Seq(Records) /\ Len(records) < MaxRecords
      /\ Sound(fs) /\ ValidLength(fs) <= MaxRecords /\ failed \in BOOLEAN
  BY DEF IInv, Typed, Filed, Room
<1>2. IF failed THEN Damaged(fs) \/ Len(fs) # Len(records) ELSE ~Damaged(fs) /\ records = Replayed(fs)
  BY DEF IInv, Linked
<1>3. q \in Records /\ ~Ends(q) /\ (~failed => Follows(q, StateOf(records)))
  BY ShutdownFollows
<1> HIDE DEF q
<1>4. /\ gs \in Seq(Frames) /\ Sound(gs) /\ ValidLength(gs) <= MaxRecords
      /\ Replayed(gs) \in {Replayed(fs), Append(Replayed(fs), q)}
  <2>1. CASE gs = Append(fs, Frame(q, Len(records)))
    <3> HIDE DEF fs
    <3>1. /\ gs \in Seq(Frames) /\ Sound(gs) /\ ValidLength(gs) <= MaxRecords
          /\ IF failed THEN Damaged(gs) /\ Replayed(gs) = Replayed(fs)
             ELSE ~Damaged(gs) /\ Replayed(gs) = Append(records, q)
      BY <1>1, <1>2, <1>3, <2>1, OneFrame
    <3> QED BY <1>2, <3>1
  <2>2. CASE \E stray \in Partial(q) : gs = fs \o stray
    <3>1. PICK stray \in Partial(q) : gs = fs \o stray
      BY <2>2
    <3>2. stray \in Strays(q, Len(records))
      BY DEF Partial, Strays
    <3> HIDE DEF fs
    <3> QED BY <1>1, <1>2, <1>3, <3>1, <3>2, OneStray
  <2> QED BY <2>1, <2>2 DEF q
<1>5. LastBootIncarnation(Append(Replayed(fs), q)) = LastBootIncarnation(Replayed(fs))
  BY <1>1, <1>3, ReplayedTyped, BootOfAppend DEF Ends
<1> QED BY <1>4, <1>5 DEF q

LEMMA CloseKeeps ==
  ASSUME IInv, Close
  PROVE  IInv'
<1> DEFINE gs == file'.frames
<1>1. /\ phase = "up" /\ phase' = "down" /\ MemoryLost
      /\ temp' = temp /\ rotted' = rotted /\ started' = started
  BY DEF Close
<1>2. /\ file \in [header : {"none", "torn", "ok"}, frames : Seq(Frames)] /\ file.header = "ok"
      /\ faults \in 0..MaxFaults /\ MaxFaults \in Nat /\ rotted \in BOOLEAN
      /\ Filed
      /\ ~rotted => \A s \in started : s <= LastBootIncarnation(Replayed(file.frames))
  BY <1>1, StoreAssumption DEF IInv, Typed, Filed, Booted
<1>3. faults' \in 0..MaxFaults
  BY <1>2 DEF Close
<1>4. CASE file' = file
  BY <1>1, <1>2, <1>3, <1>4, StopKeeps DEF Filed
<1>5. CASE Room /\ file' = [file EXCEPT !.frames = gs]
           /\ \/ gs = Append(file.frames, Frame(ShutdownRecord, Len(records)))
              \/ \E stray \in Partial(ShutdownRecord) : gs = file.frames \o stray
  <2> HIDE DEF gs
  <2>1. /\ gs \in Seq(Frames) /\ Sound(gs) /\ ValidLength(gs) <= MaxRecords
        /\ LastBootIncarnation(Replayed(gs)) = LastBootIncarnation(Replayed(file.frames))
    BY <1>1, <1>5, ShutdownFile
  <2>2. /\ file' \in [header : {"none", "torn", "ok"}, frames : Seq(Frames)]
        /\ file'.frames = gs /\ file'.header = "ok"
    BY <1>2, <1>5, <2>1
  <2>3. Filed'
    BY <2>1, <2>2 DEF Filed
  <2> QED BY <1>1, <1>2, <1>3, <2>1, <2>2, <2>3, StopKeeps
<1> QED BY <1>2, <1>4, <1>5 DEF Close

LEMMA BootRefusedKeeps ==
  ASSUME IInv, BootRefused
  PROVE  IInv'
<1>1. /\ phase' = "down" /\ MemoryLost
      /\ UNCHANGED <<file, temp, faults, rotted, started>>
  BY DEF BootRefused
<1>2. /\ file \in [header : {"none", "torn", "ok"}, frames : Seq(Frames)]
      /\ faults \in 0..MaxFaults /\ rotted \in BOOLEAN /\ Filed
      /\ ~rotted => \A s \in started : s <= LastBootIncarnation(Replayed(file.frames))
  BY DEF IInv, Typed, Booted
<1>3. Filed'
  BY <1>1, <1>2 DEF Filed
<1> QED BY <1>1, <1>2, <1>3, StopKeeps

\* put_campaign, put_attempt, append_provenance, put_ticket, set_epoch, note.
LEMMA PutKeeps ==
  ASSUME IInv, NEW p, NEW m, Store(p, m), Follows(p, mem), m = ApplyRecord(mem, p),
         ~Ends(p), p.type # "decision"
  PROVE  IInv'
<1>1. /\ phase = "up" /\ phase' = "up" /\ UNCHANGED <<temp, rotted, started>>
      /\ \/ Written(p) /\ mem' = ApplyRecord(mem, p)
         \/ WriteFails(p) /\ UNCHANGED mem
  BY DEF Store
<1>2. Kept'
  BY <1>1, StoreKeeps DEF Phases
<1>3. Staged'
  BY <1>1 DEF Staged
<1> QED BY <1>2, <1>3 DEF Kept, IInv

LEMMA PutsKeep ==
  ASSUME IInv,
         \/ \E k \in CampaignIds : PutCampaign(k)
         \/ \E k \in AttemptIds : PutAttempt(k)
         \/ AppendProvenance
         \/ PutTicket
         \/ \E e \in 1..MaxEpoch : SetEpoch(e)
         \/ Note
  PROVE  IInv'
<1>0. mem \in States
  BY DEF IInv, Typed
<1>1. ASSUME NEW k \in CampaignIds, PutCampaign(k) PROVE IInv'
  <2>1. /\ Follows(CampaignRecord(k), mem) /\ CampaignRecord(k).type = "campaign"
        /\ ApplyRecord(mem, CampaignRecord(k)) = [mem EXCEPT !.campaigns[k] = @ + 1]
    BY <1>0, <1>1, PutsFollow DEF PutCampaign, CampaignRecord, Record
  <2> QED BY <1>1, <2>1, PutKeeps DEF PutCampaign, Ends
<1>2. ASSUME NEW k \in AttemptIds, PutAttempt(k) PROVE IInv'
  <2>1. /\ Follows(AttemptRecord(k), mem) /\ AttemptRecord(k).type = "attempt"
        /\ ApplyRecord(mem, AttemptRecord(k)) = [mem EXCEPT !.attempts[k] = @ + 1]
    BY <1>0, <1>2, PutsFollow DEF PutAttempt, AttemptRecord, Record
  <2> QED BY <1>2, <2>1, PutKeeps DEF PutAttempt, Ends
<1>3. CASE AppendProvenance
  <2>1. ProvenanceFits /\ ProvenanceRecord.type = "provenance"
    BY <1>3 DEF AppendProvenance, ProvenanceRecord, Record
  <2> QED BY <1>0, <1>3, <2>1, EntryFollows, PutKeeps DEF AppendProvenance, Ends
<1>4. CASE PutTicket
  <2>1. mem.ticket < MaxRevision /\ TicketRecord.type = "ticket"
    BY <1>4 DEF PutTicket, TicketRecord, Record
  <2> QED BY <1>0, <1>4, <2>1, PutsFollow, PutKeeps DEF PutTicket, Ends
<1>5. ASSUME NEW e \in 1..MaxEpoch, SetEpoch(e) PROVE IInv'
  <2>1. e > mem.epoch /\ EpochRecord(e).type = "epoch"
    BY <1>5 DEF SetEpoch, EpochRecord, Record
  <2> QED BY <1>0, <1>5, <2>1, PutsFollow, PutKeeps DEF SetEpoch, Ends
<1>6. CASE Note
  <2>1. NoteRecord.type = "note"
    BY DEF NoteRecord, Record
  <2> QED BY <1>0, <1>6, <2>1, PutsFollow, PutKeeps DEF Note, Ends
<1> QED BY <1>1, <1>2, <1>3, <1>4, <1>5, <1>6

LEMMA DecisionKeeps ==
  ASSUME IInv, AppendDecision
  PROVE  IInv'
<1> DEFINE d == mem.decisions
           p == DecisionRecord
           kept == IF Len(d) >= MaxDecisions THEN Tail(d) ELSE d
<1>1. /\ phase = "up" /\ phase' = "up" /\ UNCHANGED <<temp, rotted, started>>
      /\ \/ Written(p) /\ mem' = [mem EXCEPT !.decisions = Append(kept, p.num)]
         \/ WriteFails(p) /\ mem' = [mem EXCEPT !.decisions = kept]
  BY DEF AppendDecision
<1>2. mem \in States /\ Good(mem) /\ d \in Seq(Nat) /\ records \in Seq(Records)
  BY DEF IInv, Typed, States
<1>3. p.type = "decision" /\ Follows(p, mem) /\ p \in Records /\ ~Ends(p) /\ p.num \in Nat
  <2>1. p.type = "decision" /\ Follows(p, mem)
    BY <1>2, PutsFollow DEF DecisionRecord, Record
  <2> QED BY <2>1, RecordCases DEF Follows, Ends
<1> HIDE DEF p, d
<1>4. MaxDecisions \in Nat \ {0} /\ Len(d) \in Nat
  BY <1>2, LenProperties, StoreAssumption
<1>5. /\ kept \in Seq(Nat)
      /\ Len(d) >= MaxDecisions => d # <<>> /\ Len(kept) = Len(d) - 1
      /\ ~(Len(d) >= MaxDecisions) => kept = d
  <2>1. CASE Len(d) >= MaxDecisions
    <3>1. d # <<>>
      BY <1>4, <2>1, EmptySeq
    <3> QED BY <1>2, <2>1, <3>1, HeadTailProperties
  <2>2. CASE ~(Len(d) >= MaxDecisions)
    BY <1>2, <2>2
  <2> QED BY <2>1, <2>2
<1> DEFINE more == Append(kept, p.num)
<1>6. more \in Seq(Nat) /\ Len(more) = Len(kept) + 1
  BY <1>3, <1>5, AppendProperties
<1>7. /\ file' \in [header : {"none", "torn", "ok"}, frames : Seq(Frames)]
      /\ records' \in Seq(Records) /\ Len(records') <= MaxRecords
      /\ faults' \in 0..MaxFaults /\ failed' \in BOOLEAN
      /\ Filed'
      /\ IF failed' THEN Damaged(file'.frames) \/ Len(file'.frames) # Len(records')
         ELSE ~Damaged(file'.frames) /\ records' = Replayed(file'.frames)
      /\ faults' = 0 => ~failed' /\ faults = 0
      /\ failed => failed'
      /\ LastBootIncarnation(Replayed(file'.frames)) = LastBootIncarnation(Replayed(file.frames))
      /\ ~failed => LastBootIncarnation(records') = LastBootIncarnation(records)
  BY <1>1, <1>3, WriteKeeps
<1>8. /\ mem' \in States /\ SameButDecisions(mem', mem) /\ Good(mem')
      /\ \/ Written(p) /\ mem'.decisions = more
         \/ WriteFails(p) /\ mem'.decisions = kept
  <2>1. PICK c \in Seq(Nat) : /\ mem' = [mem EXCEPT !.decisions = c]
                              /\ \/ Written(p) /\ c = more
                                 \/ WriteFails(p) /\ c = kept
    <3> HIDE DEF kept
    <3>1. CASE Written(p) /\ mem' = [mem EXCEPT !.decisions = more]
      <4> HIDE DEF more
      <4> QED BY <1>6, <3>1
    <3>2. CASE WriteFails(p) /\ mem' = [mem EXCEPT !.decisions = kept]
      BY <1>5, <3>2
    <3> QED BY <1>1, <3>1, <3>2
  <2> HIDE DEF kept, more
  <2>2. mem' \in States /\ SameButDecisions(mem', mem) /\ mem'.decisions = c
    BY <1>2, <2>1 DEF States, SameButDecisions
  <2>3. Good(mem')
    BY <1>2, <2>2 DEF SameButDecisions, Good
  <2> QED BY <2>1, <2>2, <2>3
<1> HIDE DEF kept
<1>9. Typed'
  BY <1>1, <1>7, <1>8 DEF IInv, Typed, Phases
<1>10. Linked'
  BY <1>1, <1>7 DEF Linked
<1>11. Mirrored'
  <2> DEFINE t == StateOf(records).decisions
  <2> SUFFICES ASSUME ~failed'
               PROVE  /\ SameButDecisions(mem', StateOf(records'))
                      /\ IsTailOf(mem'.decisions, StateOf(records').decisions)
                      /\ faults' = 0 => \/ Len(mem'.decisions) >= MaxDecisions
                                        \/ mem'.decisions = StateOf(records').decisions
    BY DEF Mirrored
  <2>1. ~failed
    BY <1>7
  <2>2. /\ SameButDecisions(mem, StateOf(records)) /\ IsTailOf(d, t)
        /\ faults = 0 => Len(d) >= MaxDecisions \/ d = t
    BY <2>1 DEF IInv, Mirrored, d
  <2>3. StateOf(records) \in States /\ t \in Seq(Nat)
    BY <2>1, AcceptedHealthy DEF States
  <2>4. SameButDecisions(mem', StateOf(records))
    BY <1>8, <2>2 DEF SameButDecisions
  <2> HIDE DEF t, more
  <2>5. IsTailOf(kept, t)
    BY <1>2, <1>5, <2>2, <2>3, TailTail DEF kept
  <2>6. CASE Written(p) /\ mem'.decisions = more
    <3>1. StateOf(records') = ApplyRecord(StateOf(records), p)
      BY <1>2, <1>3, <2>6, StateOfAppend DEF Written
    <3>2. SameButDecisions(StateOf(records), StateOf(records))
      BY DEF SameButDecisions
    <3>3. /\ SameButDecisions(StateOf(records'), StateOf(records))
          /\ StateOf(records').decisions = Append(t, p.num)
      <4>1. /\ ApplyRecord(StateOf(records), p).decisions = Append(t, p.num)
        BY <1>3, <2>3, <3>2, ApplySame DEF t
      <4>2. SameButDecisions(ApplyRecord(StateOf(records), p), StateOf(records))
        BY <1>3, <2>3 DEF ApplyRecord, States, SameButDecisions
      <4> QED BY <3>1, <4>1, <4>2
    <3>4. SameButDecisions(mem', StateOf(records'))
      BY <2>4, <3>3 DEF SameButDecisions
    <3>5. IsTailOf(more, Append(t, p.num))
      BY <1>3, <1>5, <2>3, <2>5, TailAppend DEF more
    <3>6. ASSUME faults' = 0 PROVE Len(more) >= MaxDecisions \/ more = Append(t, p.num)
      <4>1. CASE Len(d) >= MaxDecisions
        BY <1>4, <1>5, <1>6, <4>1
      <4>2. CASE ~(Len(d) >= MaxDecisions)
        BY <1>5, <1>7, <2>2, <3>6, <4>2 DEF more
      <4> QED BY <4>1, <4>2
    <3> QED BY <2>6, <3>3, <3>4, <3>5, <3>6
  <2>7. CASE WriteFails(p) /\ mem'.decisions = kept
    <3>1. records' = records /\ faults' = faults + 1 /\ faults \in 0..MaxFaults
      BY <2>7 DEF WriteFails, IInv, Typed
    <3>2. faults' # 0
      BY <3>1, StoreAssumption
    <3> QED BY <2>4, <2>5, <2>7, <3>1, <3>2 DEF t
  <2> QED BY <1>8, <2>6, <2>7
<1>12. Booted'
  <2>1. /\ ~rotted => \A s \in started : s <= LastBootIncarnation(Replayed(file.frames))
        /\ ~rotted => \A s \in started : s <= mem.incarnation
        /\ ~failed => mem.incarnation = LastBootIncarnation(records)
    BY <1>1 DEF IInv, Booted
  <2>2. mem'.incarnation = mem.incarnation
    BY <1>8 DEF SameButDecisions
  <2> QED BY <1>1, <1>7, <2>1, <2>2 DEF Booted
<1>13. Staged'
  BY <1>1 DEF Staged
<1> QED BY <1>7, <1>9, <1>10, <1>11, <1>12, <1>13 DEF IInv

LEMMA SnapshotFollows ==
  ASSUME mem \in States, Good(mem)
  PROVE  /\ SnapshotRecord \in Records /\ SnapshotRecord.type = "snapshot" /\ SnapshotRecord.body = mem
         /\ \A m : Follows(SnapshotRecord, m)
<1>1. /\ SnapshotRecord \in Records /\ SnapshotRecord.type = "snapshot" /\ SnapshotRecord.body = mem
  BY DEF SnapshotRecord, Record, Records, RecordsOfType
<1> QED BY <1>1 DEF Follows

LEMMA CompactWriteKeeps ==
  ASSUME IInv, CompactWrite
  PROVE  IInv'
<1>1. /\ phase = "up" /\ MaxRecords >= 2 /\ phase' = "swap"
      /\ temp' = <<Frame(SnapshotRecord, 0), Frame(ShutdownRecord, 1)>>
      /\ UNCHANGED <<file, records, mem, faults, failed, rotted, started>>
  BY DEF CompactWrite
<1>2. mem \in States /\ Good(mem)
  BY DEF IInv, Typed
<1>3. Frame(SnapshotRecord, 0) \in Frames /\ Frame(ShutdownRecord, 1) \in Frames
  BY <1>2, SnapshotFollows, ShutdownFollows, FrameTyped
<1>4. temp' \in Seq(Frames)
  BY <1>1, <1>3
<1>5. Typed'
  BY <1>1, <1>4 DEF IInv, Typed, Phases
<1>6. Filed' /\ Linked' /\ Mirrored' /\ Booted'
  BY <1>1 DEF IInv, Filed, Linked, Mirrored, Booted
<1>7. Staged'
  <2>1. SnapshotRecord' = SnapshotRecord /\ ShutdownRecord' = ShutdownRecord
    BY <1>1 DEF SnapshotRecord, ShutdownRecord
  <2> QED BY <1>1, <2>1 DEF Staged
<1> QED BY <1>5, <1>6, <1>7 DEF IInv

LEMMA CompactCloseKeeps ==
  ASSUME IInv, CompactClose
  PROVE  IInv'
<1> DEFINE q == ShutdownRecord
<1>1. phase = "swap" /\ UNCHANGED <<temp, mem, rotted, started>> /\ phase' \in {"replace", "dead"}
  BY DEF CompactClose
<1>2. mem \in States
  BY DEF IInv, Typed
<1>3. q.type = "shutdown" /\ ~Ends(q) /\ Follows(q, mem) /\ ApplyRecord(mem, q) = mem
  BY <1>2, ShutdownFollows, PutsFollow
<1>4. Staged'
  <2>1. SnapshotRecord' = SnapshotRecord /\ ShutdownRecord' = ShutdownRecord
    BY <1>1 DEF SnapshotRecord, ShutdownRecord
  <2>2. Staged
    BY DEF IInv
  <2> QED BY <1>1, <2>1, <2>2 DEF Staged
<1>5. CASE Written(q) \/ WriteFails(q)
  <2>1. \/ Written(q) /\ mem' = ApplyRecord(mem, q)
        \/ WriteFails(q) /\ UNCHANGED mem
    BY <1>1, <1>3, <1>5
  <2>2. phase \notin {"down", "opened"} /\ phase' \in Phases \ {"down", "opened"}
    BY <1>1 DEF Phases
  <2> HIDE DEF q
  <2>3. Kept'
    BY <1>1, <1>3, <2>1, <2>2, StoreKeeps
  <2> QED BY <1>4, <2>3 DEF IInv, Kept
<1>6. CASE UNCHANGED <<file, records, faults, failed>>
  <2>1. Typed'
    BY <1>1, <1>6 DEF IInv, Typed, Phases
  <2>2. Filed' /\ Linked' /\ Mirrored' /\ Booted'
    BY <1>1, <1>6 DEF IInv, Filed, Linked, Mirrored, Booted
  <2> QED BY <1>4, <2>1, <2>2 DEF IInv
<1> QED BY <1>5, <1>6 DEF CompactClose

\* What a compaction installs replays to the memory it was taken from, without
\* the decisions and the ticket.
LEMMA StagedFile ==
  ASSUME IInv, phase = "replace"
  PROVE  /\ temp \in Seq(Frames) /\ Sound(temp) /\ ValidLength(temp) <= MaxRecords
         /\ ~Damaged(temp) /\ Len(Replayed(temp)) = 2
         /\ StateOf(Replayed(temp)) = ApplyRecord(EmptyState, SnapshotRecord)
         /\ LastBootIncarnation(Replayed(temp)) = mem.incarnation
<1> DEFINE s == SnapshotRecord
           q == ShutdownRecord
           f == Append(<<>>, Frame(s, 0))
           g == Append(f, Frame(q, 1))
<1>1. temp = <<Frame(s, 0), Frame(q, 1)>> /\ MaxRecords >= 2 /\ MaxRecords \in Nat
  BY StoreAssumption DEF IInv, Staged
<1>2. mem \in States /\ Good(mem)
  BY DEF IInv, Typed
<1>3. s \in Records /\ s.type = "snapshot" /\ s.body = mem /\ Follows(s, StateOf(<<>>))
  BY <1>2, SnapshotFollows
<1>4. q \in Records /\ q.type = "shutdown" /\ \A m : Follows(q, m)
  BY ShutdownFollows
<1>5. temp = g
  BY <1>1
<1>6. <<>> \in Seq(Frames) /\ <<>> \in Seq(Records) /\ Len(<<>>) = 0
  BY EmptySeq
<1>7. ValidLength(<<>>) = 0 /\ Replayed(<<>>) = <<>> /\ ~Damaged(<<>>)
  <2>1. ValidLength(<<>>) \in 0..0 /\ Replayed(<<>>) \in Seq(Records)
        /\ Len(Replayed(<<>>)) = ValidLength(<<>>)
    BY <1>6, ReplayedTyped
  <2> QED BY <1>6, <2>1, EmptySeq DEF Damaged
<1>8. Sound(<<>>)
  <2>1. \A n \in 0..0 : RecordsOf(<<>>, n) = <<>>
    BY <1>7 DEF Replayed
  <2> QED BY <1>7, <2>1, HealthyEmpty DEF Sound
<1> DEFINE lost == FALSE
<1>9. lost \in BOOLEAN /\ ~lost
  OBVIOUS
<1> HIDE DEF s, q, f, g, lost
<1>10. /\ f \in Seq(Frames) /\ Sound(f) /\ ValidLength(f) <= MaxRecords
       /\ ~Damaged(f) /\ Replayed(f) = Append(<<>>, s)
  <2>1. IF lost THEN Damaged(<<>>) \/ Len(<<>>) # Len(<<>>) ELSE ~Damaged(<<>>) /\ <<>> = Replayed(<<>>)
    BY <1>7, <1>9
  <2>2. ValidLength(<<>>) <= MaxRecords /\ Len(<<>>) < MaxRecords
    BY <1>1, <1>6, <1>7
  <2>3. LET gs == Append(<<>>, Frame(s, Len(<<>>)))
        IN /\ gs \in Seq(Frames) /\ Len(gs) = Len(<<>>) + 1
           /\ Sound(gs) /\ ValidLength(gs) <= MaxRecords
           /\ IF lost THEN Damaged(gs) /\ Replayed(gs) = Replayed(<<>>)
              ELSE ~Damaged(gs) /\ Replayed(gs) = Append(<<>>, s)
    BY <1>3, <1>6, <1>8, <1>9, <2>1, <2>2, OneFrame
  <2> QED BY <1>6, <1>9, <2>3 DEF f
<1> DEFINE rs == Append(<<>>, s)
<1>11. rs \in Seq(Records) /\ Len(rs) = 1
  BY <1>3, <1>6, AppendProperties
<1> HIDE DEF rs
<1>12. /\ g \in Seq(Frames) /\ Sound(g) /\ ValidLength(g) <= MaxRecords
       /\ ~Damaged(g) /\ Replayed(g) = Append(rs, q)
  <2>1. IF lost THEN Damaged(f) \/ Len(f) # Len(rs) ELSE ~Damaged(f) /\ rs = Replayed(f)
    BY <1>9, <1>10 DEF rs
  <2>2. Len(rs) < MaxRecords
    BY <1>1, <1>11
  <2>3. LET gs == Append(f, Frame(q, Len(rs)))
        IN /\ gs \in Seq(Frames) /\ Len(gs) = Len(f) + 1
           /\ Sound(gs) /\ ValidLength(gs) <= MaxRecords
           /\ IF lost THEN Damaged(gs) /\ Replayed(gs) = Replayed(f)
              ELSE ~Damaged(gs) /\ Replayed(gs) = Append(rs, q)
    BY <1>4, <1>9, <1>10, <1>11, <2>1, <2>2, OneFrame
  <2> QED BY <1>9, <1>11, <2>3 DEF g
<1>13. StateOf(Replayed(g)) = ApplyRecord(EmptyState, s) /\ Len(Replayed(g)) = 2
  <2>1. StateOf(rs) = ApplyRecord(EmptyState, s)
    BY <1>3, <1>6, StateOfAppend, StateOfEmpty DEF rs
  <2>2. StateOf(Append(rs, q)) = ApplyRecord(StateOf(rs), q) /\ Len(Append(rs, q)) = 2
    <3>1. StateOf(Append(rs, q)) = ApplyRecord(StateOf(rs), q)
      BY <1>4, <1>11, StateOfAppend
    <3>2. Len(Append(rs, q)) = Len(rs) + 1
      BY <1>4, <1>11, AppendProperties
    <3> QED BY <1>11, <3>1, <3>2
  <2>3. ApplyRecord(StateOf(rs), q) = StateOf(rs)
    BY <1>4 DEF ApplyRecord
  <2> QED BY <1>12, <2>1, <2>2, <2>3
<1>14. LastBootIncarnation(Replayed(g)) = mem.incarnation
  <2>1. LastBootIncarnation(rs) = mem.incarnation
    BY <1>3, <1>6, BootOfAppend DEF rs
  <2>2. LastBootIncarnation(Append(rs, q)) = LastBootIncarnation(rs)
    BY <1>4, <1>11, BootOfAppend
  <2> QED BY <1>12, <2>1, <2>2
<1> QED BY <1>5, <1>12, <1>13, <1>14 DEF s

LEMMA CompactReplaceKeeps ==
  ASSUME IInv, CompactReplace
  PROVE  /\ IInv'
         /\ Replayed(file'.frames) = Replayed(temp)
         /\ mem' = ApplyRecord(EmptyState, SnapshotRecord)
<1>1. /\ phase = "replace" /\ phase' = "up" /\ failed' = FALSE /\ temp' = <<>>
      /\ file' = [header |-> "ok", frames |-> temp]
      /\ records' = Replayed(temp) /\ mem' = Recovered(Replayed(temp))
      /\ UNCHANGED <<faults, rotted, started>>
  BY DEF CompactReplace
<1>2. /\ temp \in Seq(Frames) /\ Sound(temp) /\ ValidLength(temp) <= MaxRecords
      /\ ~Damaged(temp) /\ Len(Replayed(temp)) = 2
      /\ StateOf(Replayed(temp)) = ApplyRecord(EmptyState, SnapshotRecord)
      /\ LastBootIncarnation(Replayed(temp)) = mem.incarnation
  BY <1>1, StagedFile
<1>3. Healthy(Replayed(temp)) /\ mem' = StateOf(records')
  BY <1>1, <1>2, SoundReplayed, RecoveredIs
<1>4. mem' \in States /\ Good(mem') /\ mem'.decisions \in Seq(Nat)
  BY <1>1, <1>3 DEF Healthy, States
<1>5. file'.frames = temp /\ file'.header = "ok"
      /\ file' \in [header : {"none", "torn", "ok"}, frames : Seq(Frames)]
  BY <1>1, <1>2
<1>6. Typed'
  <2>1. records' \in Seq(Records) /\ Len(records') <= MaxRecords
    BY <1>1, <1>2, ReplayedTyped DEF IInv, Staged
  <2>2. temp' \in Seq(Frames)
    BY <1>1
  <2> QED BY <1>1, <1>4, <1>5, <2>1, <2>2 DEF IInv, Typed, Phases
<1>7. Filed'
  BY <1>2, <1>5 DEF Filed
<1>8. Linked'
  BY <1>1, <1>2, <1>5 DEF Linked
<1>9. Mirrored'
  <2>1. SameButDecisions(mem', mem') /\ IsTailOf(mem'.decisions, mem'.decisions)
    BY <1>4, TailEnds DEF SameButDecisions
  <2> QED BY <1>3, <2>1 DEF Mirrored
<1>10. Booted'
  <2>1. ~rotted => \A n \in started : n <= mem.incarnation
    BY <1>1 DEF IInv, Booted
  <2>2. mem'.incarnation = mem.incarnation
    <3>1. mem' = ApplyRecord(EmptyState, SnapshotRecord)
      BY <1>1, <1>2, <1>3
    <3>2. mem \in States /\ Good(mem)
      BY DEF IInv, Typed
    <3> QED BY <3>1, <3>2, SnapshotFollows, EmptyTyped DEF ApplyRecord, States
  <2> QED BY <1>1, <1>2, <1>5, <2>1, <2>2 DEF Booted
<1>11. Staged'
  BY <1>1 DEF Staged
<1> QED BY <1>1, <1>2, <1>3, <1>5, <1>6, <1>7, <1>8, <1>9, <1>10, <1>11 DEF IInv

LEMMA CompactReplaceFailsKeeps ==
  ASSUME IInv, CompactReplaceFails
  PROVE  IInv'
<1>1. /\ phase = "replace" /\ phase' = "dead" /\ faults < MaxFaults /\ faults' = faults + 1
      /\ UNCHANGED <<file, temp, records, mem, failed, rotted, started>>
  BY DEF CompactReplaceFails
<1>2. faults \in 0..MaxFaults /\ MaxFaults \in Nat
  BY StoreAssumption DEF IInv, Typed
<1>3. faults' \in 0..MaxFaults /\ faults' # 0
  BY <1>1, <1>2
<1>4. Typed'
  BY <1>1, <1>3 DEF IInv, Typed, Phases
<1>5. Filed' /\ Linked' /\ Mirrored' /\ Booted' /\ Staged'
  BY <1>1, <1>3 DEF IInv, Filed, Linked, Mirrored, Booted, Staged
<1> QED BY <1>4, <1>5 DEF IInv

LEMMA CrashKeeps ==
  ASSUME IInv, Crash
  PROVE  IInv' /\ Replayed(file'.frames) = Replayed(file.frames)
<1>1. /\ phase' = "down" /\ MemoryLost /\ temp' = <<>> /\ phase # "down"
      /\ UNCHANGED <<faults, rotted, started>>
  BY DEF Crash
<1>2. /\ file \in [header : {"none", "torn", "ok"}, frames : Seq(Frames)] /\ file.header = "ok"
      /\ faults \in 0..MaxFaults /\ rotted \in BOOLEAN
      /\ Sound(file.frames) /\ ValidLength(file.frames) <= MaxRecords
      /\ ~rotted => \A s \in started : s <= LastBootIncarnation(Replayed(file.frames))
  BY <1>1 DEF IInv, Typed, Filed, Booted
<1>3. PICK gs \in Seq(Frames) :
        /\ Sound(gs) /\ ValidLength(gs) <= MaxRecords /\ Replayed(gs) = Replayed(file.frames)
        /\ file' = [file EXCEPT !.frames = gs]
  <2>1. CASE file' = file
    BY <1>2, <2>1
  <2>2. CASE file' = [file EXCEPT !.frames = Append(@, Torn)]
    BY <1>2, <2>2, OneTorn
  <2> QED BY <2>1, <2>2 DEF Crash
<1>4. file'.frames = gs /\ file'.header = "ok"
      /\ file' \in [header : {"none", "torn", "ok"}, frames : Seq(Frames)]
  BY <1>2, <1>3
<1>5. Filed'
  BY <1>3, <1>4 DEF Filed
<1> QED BY <1>1, <1>2, <1>3, <1>4, <1>5, StopKeeps

LEMMA RotKeeps ==
  ASSUME IInv, Rot
  PROVE  IInv' /\ faults' # 0
<1>1. /\ phase = "down" /\ faults < MaxFaults /\ faults' = faults + 1 /\ rotted' = TRUE
      /\ UNCHANGED <<temp, phase, records, mem, failed, started>>
  BY DEF Rot
<1>2. PICK j \in DOMAIN file.frames : file' = [file EXCEPT !.frames[j] = Torn]
  BY DEF Rot
<1>3. /\ file \in [header : {"none", "torn", "ok"}, frames : Seq(Frames)]
      /\ faults \in 0..MaxFaults /\ MaxFaults \in Nat
      /\ Sound(file.frames) /\ ValidLength(file.frames) <= MaxRecords
      /\ file.header # "ok" => file.frames = <<>>
  BY StoreAssumption DEF IInv, Typed, Filed
<1>4. MemoryLost
  BY <1>1 DEF IInv, Typed, Linked, MemoryLost
<1> DEFINE gs == [file.frames EXCEPT ![j] = Torn]
<1>5. /\ gs \in Seq(Frames) /\ gs # <<>>
      /\ Sound(gs) /\ ValidLength(gs) <= ValidLength(file.frames)
  <2>1. j \in 1..Len(file.frames) /\ file.frames \in Seq(Frames)
    BY <1>3, LenProperties
  <2> QED BY <1>3, <2>1, RotShortens
<1>6. file' = [file EXCEPT !.frames = gs]
  BY <1>2, <1>3
<1> HIDE DEF gs
<1>7. /\ file' \in [header : {"none", "torn", "ok"}, frames : Seq(Frames)]
      /\ file'.frames = gs /\ file'.header = "ok"
  <2>1. file.frames # <<>>
    <3>1. DOMAIN <<>> = {}
      OBVIOUS
    <3> QED BY <3>1
  <2> QED BY <1>3, <1>5, <1>6, <2>1
<1>8. ValidLength(gs) <= MaxRecords
  <2>1. ValidLength(gs) \in Nat /\ ValidLength(file.frames) \in Nat /\ MaxRecords \in Nat
    BY <1>3, <1>5, ReplayedTyped, LenProperties, StoreAssumption
  <2> QED BY <1>3, <1>5, <2>1
<1>9. Filed'
  BY <1>5, <1>7, <1>8 DEF Filed
<1>10. faults' \in 0..MaxFaults /\ faults' # 0
  BY <1>1, <1>3
<1> QED BY <1>1, <1>4, <1>7, <1>9, <1>10, StopKeeps

LEMMA StepKeeps == IInv /\ [Next]_vars => IInv'
<1> SUFFICES ASSUME IInv, [Next]_vars PROVE IInv'
  OBVIOUS
<1>1. CASE OpenIntact \/ OpenRepaired
  BY <1>1, OpenKeeps
<1>2. CASE HeaderTorn
  BY <1>2, HeaderTornKeeps
<1>3. CASE Boot \/ BootFails \/ BootRefused
  BY <1>3, BootKeeps, BootFailsKeeps, BootRefusedKeeps
<1>4. CASE \/ \E k \in CampaignIds : PutCampaign(k)
           \/ \E k \in AttemptIds : PutAttempt(k)
           \/ AppendProvenance \/ PutTicket
           \/ \E e \in 1..MaxEpoch : SetEpoch(e)
           \/ Note
  BY <1>4, PutsKeep
<1>5. CASE AppendDecision
  BY <1>5, DecisionKeeps
<1>6. CASE Close
  BY <1>6, CloseKeeps
<1>7. CASE CompactWrite \/ CompactClose
  BY <1>7, CompactWriteKeeps, CompactCloseKeeps
<1>8. CASE CompactReplace \/ CompactReplaceFails
  BY <1>8, CompactReplaceKeeps, CompactReplaceFailsKeeps
<1>9. CASE Crash \/ Rot
  BY <1>9, CrashKeeps, RotKeeps
<1>10. CASE UNCHANGED vars
  <2>1. UNCHANGED <<file, temp, phase, records, mem, faults, failed, rotted, started>>
    BY <1>10 DEF vars
  <2>2. Typed' /\ Filed' /\ Linked'
    BY <2>1 DEF IInv, Typed, Filed, Linked
  <2>3. Mirrored' /\ Booted' /\ Staged'
    BY <2>1 DEF IInv, Mirrored, Booted, Staged, SnapshotRecord, ShutdownRecord
  <2> QED BY <2>2, <2>3 DEF IInv
<1> QED BY <1>1, <1>2, <1>3, <1>4, <1>5, <1>6, <1>7, <1>8, <1>9, <1>10 DEF Next

THEOREM Invariance == Spec => []IInv
<1>1. Init => IInv
  BY InitKeeps
<1>2. IInv /\ [Next]_vars => IInv'
  BY StepKeeps
<1> QED BY <1>1, <1>2, PTL DEF Spec

-----------------------------------------------------------------------------
(* The theorems. *)

\* The journal, the maps and the ledger stay within their bounds whatever is
\* written, torn, repaired, damaged or compacted, over any number of processes.
THEOREM StoreTypeCorrect == Spec => []TypeOK
<1>1. IInv => TypeOK
  <2> SUFFICES ASSUME IInv PROVE TypeOK
    OBVIOUS
  <2>1. ASSUME NEW j \in DOMAIN file.frames
        PROVE  file.frames[j].record.type \in RecordTypes /\ file.frames[j].whole \in BOOLEAN
    <3>1. file.frames \in Seq(Frames)
      BY DEF IInv, Typed
    <3>2. file.frames[j] \in Frames
      BY <3>1, LenProperties, ElementOfSeq
    <3>3. file.frames[j].record \in Records /\ file.frames[j].whole \in BOOLEAN
      BY <3>2 DEF Frames
    <3> QED BY <3>3, RecordCases
  <2>2. /\ mem.campaigns \in [CampaignIds -> 0..MaxRevision]
        /\ mem.attempts \in [AttemptIds -> 0..MaxRevision]
        /\ Len(mem.ledger) <= MaxProvenance /\ mem.epoch \in 1..MaxEpoch
        /\ mem.ticket \in 0..MaxRevision
    BY DEF IInv, Typed, States, Good
  <2> QED BY <2>1, <2>2 DEF IInv, Typed, TypeOK
<1> QED BY <1>1, Invariance, PTL

\* At every moment a store in service holds what a restart would bring back:
\* every map, the ledger and its head, the epoch, the incarnation, and of the
\* decisions at least the newest.
THEOREM ReplayIsMemory == Spec => []MemoryIsReplay
<1>1. IInv => MemoryIsReplay
  <2> SUFFICES ASSUME IInv, phase = "up", ~failed
               PROVE  LET m == Recovered(Replayed(file.frames))
                      IN /\ ~Damaged(file.frames) /\ records = Replayed(file.frames)
                         /\ [mem EXCEPT !.decisions = <<>>] = [m EXCEPT !.decisions = <<>>]
                         /\ IsTailOf(mem.decisions, m.decisions)
                         /\ faults = 0 => Len(mem.decisions) >= MaxDecisions \/ mem.decisions = m.decisions
    BY DEF MemoryIsReplay
  <2>1. ~Damaged(file.frames) /\ records = Replayed(file.frames)
    BY DEF IInv, Linked
  <2>2. Healthy(records) /\ StateOf(records) \in States /\ mem \in States
    BY AcceptedHealthy DEF IInv, Typed
  <2>3. Recovered(Replayed(file.frames)) = StateOf(records)
    BY <2>1, <2>2, RecoveredIs
  <2>4. /\ SameButDecisions(mem, StateOf(records))
        /\ IsTailOf(mem.decisions, StateOf(records).decisions)
        /\ faults = 0 => \/ Len(mem.decisions) >= MaxDecisions
                         \/ mem.decisions = StateOf(records).decisions
    BY DEF IInv, Mirrored
  <2>5. [mem EXCEPT !.decisions = <<>>] = [StateOf(records) EXCEPT !.decisions = <<>>]
    BY <2>2, <2>4 DEF States, SameButDecisions
  <2> QED BY <2>1, <2>3, <2>4, <2>5
<1> QED BY <1>1, Invariance, PTL

\* The provenance ledger verifies, in memory and in what a replay brings back,
\* and the head of the chain is its last entry's.
THEOREM LedgerIsChained == Spec => []LedgerChained
<1>1. IInv => LedgerChained
  <2> SUFFICES ASSUME IInv PROVE LedgerChained
    OBVIOUS
  <2>1. Healthy(Replayed(file.frames))
    BY SoundReplayed DEF IInv, Typed, Filed
  <2>2. VerifyLedger(Recovered(Replayed(file.frames)).ledger)
    BY <2>1, RecoveredIs DEF Healthy, Good
  <2> QED BY <2>2 DEF IInv, Typed, Good, LedgerChained
<1> QED BY <1>1, Invariance, PTL

LEMMA OnlyBootStarts ==
  ASSUME Next, phase = "opened", phase' = "up"
  PROVE  Boot
<1>1. ASSUME NEW p, NEW m, Store(p, m) PROVE FALSE
  BY <1>1 DEF Store
<1>2. ~(OpenIntact \/ OpenRepaired \/ HeaderTorn \/ BootFails \/ BootRefused)
  BY DEF OpenIntact, OpenRepaired, HeaderTorn, BootFails, BootRefused
<1>3. ~((\E k \in CampaignIds : PutCampaign(k)) \/ (\E k \in AttemptIds : PutAttempt(k)))
  BY <1>1 DEF PutCampaign, PutAttempt
<1>4. ~(AppendProvenance \/ PutTicket \/ (\E e \in 1..MaxEpoch : SetEpoch(e)) \/ Note)
  BY <1>1 DEF AppendProvenance, PutTicket, SetEpoch, Note
<1>5. ~(AppendDecision \/ Close \/ CompactWrite \/ CompactClose)
  BY DEF AppendDecision, Close, CompactWrite, CompactClose
<1>6. ~(CompactReplace \/ CompactReplaceFails \/ Crash \/ Rot)
  BY DEF CompactReplace, CompactReplaceFails, Crash, Rot
<1> QED BY <1>2, <1>3, <1>4, <1>5, <1>6 DEF Next

\* No process comes up with an incarnation an earlier one had, unless a frame
\* that was on disk has been damaged there.
THEOREM IncarnationsAreFresh == Spec => IncarnationFresh
<1>1. IInv /\ [Next]_vars => [(phase = "opened" /\ phase' = "up") => rotted \/ mem'.incarnation \notin started]_vars
  <2> SUFFICES ASSUME IInv, Next, phase = "opened", phase' = "up", ~rotted
               PROVE  mem'.incarnation \notin started
    BY DEF vars
  <2>1. Boot
    BY OnlyBootStarts
  <2>2. mem' = [mem EXCEPT !.incarnation = NextIncarnation] /\ mem \in States
    BY <2>1 DEF Boot, IInv, Typed
  <2>3. /\ NextIncarnation = LastBootIncarnation(records) + 1
        /\ LastBootIncarnation(records) \in Nat
        /\ \A s \in started : s <= LastBootIncarnation(records)
    BY NextIsFresh
  <2>4. mem'.incarnation = NextIncarnation
    BY <2>2 DEF States
  <2>5. NextIncarnation \notin started
    BY <2>3
  <2> QED BY <2>4, <2>5
<1> QED BY <1>1, Invariance, PTL DEF Spec, IncarnationFresh

\* A journal at its record bound is never written again, and no process comes up
\* on it, until the disk changes it.
THEOREM FullStaysFull == Spec => FullIsFinal
<1> DEFINE Full == Len(file.frames) = MaxRecords /\ ~Damaged(file.frames) /\ ~failed /\ phase # "replace"
<1>1. IInv /\ [Next]_vars => [Full => (started' = started /\ (file' = file \/ Rot))]_vars
  <2> SUFFICES ASSUME IInv, Next, Full PROVE started' = started /\ (file' = file \/ Rot)
    BY DEF vars
  <2>1. phase # "down" => ~Room
    <3>1. ASSUME phase # "down" PROVE Len(records) = MaxRecords
      <4>1. records = Replayed(file.frames) /\ file.frames \in Seq(Frames)
        BY <3>1 DEF IInv, Linked, Typed
      <4>2. Len(records) = ValidLength(file.frames)
        BY <4>1, ReplayedTyped
      <4>3. ValidLength(file.frames) \in 0..Len(file.frames) /\ Len(file.frames) \in Nat
        BY <4>1, ReplayedTyped, LenProperties
      <4> QED BY <4>2, <4>3 DEF Damaged
    <3>2. MaxRecords \in Nat
      BY StoreAssumption
    <3> QED BY <3>1, <3>2 DEF Room
  <2>2. file.frames # <<>> /\ file.header = "ok" /\ file = [header |-> "ok", frames |-> file.frames]
    <3>1. Len(file.frames) # 0
      BY StoreAssumption
    <3>2. file.frames # <<>>
      BY <3>1
    <3> QED BY <3>2 DEF IInv, Typed, Filed
  <2>3. ASSUME NEW p, NEW m, Store(p, m) PROVE FALSE
    BY <2>1, <2>3 DEF Store, Written, WriteFails
  <2>4. CASE OpenIntact \/ OpenRepaired \/ HeaderTorn
    BY <2>2, <2>4 DEF OpenIntact, OpenRepaired, HeaderTorn, Load
  <2>5. CASE Boot \/ BootFails \/ BootRefused
    BY <2>1, <2>5 DEF Boot, BootFails, BootRefused, Written
  <2>6. ~((\E k \in CampaignIds : PutCampaign(k)) \/ (\E k \in AttemptIds : PutAttempt(k)))
    BY <2>3 DEF PutCampaign, PutAttempt
  <2>7. ~(AppendProvenance \/ PutTicket \/ (\E e \in 1..MaxEpoch : SetEpoch(e)) \/ Note)
    BY <2>3 DEF AppendProvenance, PutTicket, SetEpoch, Note
  <2>8. CASE AppendDecision \/ Close
    BY <2>1, <2>8 DEF AppendDecision, Close, Written, WriteFails
  <2>9. CASE CompactWrite \/ CompactClose
    BY <2>1, <2>9 DEF CompactWrite, CompactClose, Written, WriteFails
  <2>10. CASE CompactReplace \/ CompactReplaceFails
    BY <2>10 DEF CompactReplace, CompactReplaceFails
  <2>11. CASE Crash
    BY <2>1, <2>11 DEF Crash
  <2>12. CASE Rot
    BY <2>12 DEF Rot
  <2> QED BY <2>4, <2>5, <2>6, <2>7, <2>8, <2>9, <2>10, <2>11, <2>12 DEF Next
<1> QED BY <1>1, Invariance, PTL DEF Spec, FullIsFinal

-----------------------------------------------------------------------------
(***************************************************************************)
(* The refinement of StableState. What counts is what a replay of the file *)
(* gives, so a step is judged by what it does to that.                     *)
(***************************************************************************)
Core(rs) ==
  [campaigns |-> StateOf(rs).campaigns, attempts |-> StateOf(rs).attempts,
   ledger |-> StateOf(rs).ledger, epoch |-> StateOf(rs).epoch,
   incarnation |-> LastBootIncarnation(rs)]

CoreOfFile(fs) ==
  LET rs == Replayed(fs)
      m == Recovered(rs)
  IN [campaigns |-> m.campaigns, attempts |-> m.attempts, ledger |-> m.ledger,
      epoch |-> m.epoch, incarnation |-> LastBootIncarnation(rs)]

LEMMA CoreOfSound ==
  ASSUME NEW fs \in Seq(Frames), Sound(fs)
  PROVE  CoreOfFile(fs) = Core(Replayed(fs))
BY SoundReplayed, RecoveredIs DEF CoreOfFile, Core

LEMMA CoreIs ==
  ASSUME IInv, IInv'
  PROVE  /\ DurableCore = Core(Replayed(file.frames))
         /\ DurableCore' = Core(Replayed(file'.frames))
<1>1. DurableCore = CoreOfFile(file.frames) /\ DurableCore' = CoreOfFile(file'.frames)
  BY DEF DurableCore, CoreOfFile
<1>2. file.frames \in Seq(Frames) /\ Sound(file.frames)
  BY DEF IInv, Typed, Filed
<1>3. file'.frames \in Seq(Frames) /\ Sound(file'.frames)
  BY DEF IInv, Typed, Filed
<1> QED BY <1>1, <1>2, <1>3, CoreOfSound

Up == phase \notin {"down", "opened"}

LEMMA InitMaps == Init => Stable!Init
<1> SUFFICES ASSUME Init PROVE Stable!Init
  OBVIOUS
<1>1. IInv /\ file.frames = <<>>
  BY InitKeeps DEF Init
<1>2. file.frames \in Seq(Frames) /\ Sound(file.frames)
  BY <1>1 DEF IInv, Typed, Filed
<1>3. Replayed(<<>>) = <<>>
  <2>1. <<>> \in Seq(Frames) /\ Len(<<>>) = 0
    BY EmptySeq
  <2>2. ValidLength(<<>>) \in 0..0 /\ Replayed(<<>>) \in Seq(Records)
        /\ Len(Replayed(<<>>)) = ValidLength(<<>>)
    BY <2>1, ReplayedTyped
  <2> QED BY <2>2, EmptySeq
<1>4. DurableCore = Core(<<>>)
  BY <1>1, <1>2, <1>3, CoreOfSound DEF DurableCore, CoreOfFile
<1>5. Core(<<>>) = [campaigns |-> [k \in CampaignIds |-> 0], attempts |-> [k \in AttemptIds |-> 0],
                    ledger |-> <<>>, epoch |-> 1, incarnation |-> 0]
  BY StateOfEmpty, ScanOfEmpty DEF Core, EmptyState
<1> QED BY <1>4, <1>5 DEF Init, Stable!Init

\* A record that is not one of the abstract state leaves it as it is.
LEMMA CoreSame ==
  ASSUME NEW rs \in Seq(Records), StateOf(rs) \in States, NEW p \in Records,
         p.type \in {"decision", "ticket", "note", "shutdown"}
  PROVE  Core(Append(rs, p)) = Core(rs)
<1>1. StateOf(Append(rs, p)) = ApplyRecord(StateOf(rs), p)
  BY StateOfAppend
<1>2. LastBootIncarnation(Append(rs, p)) = LastBootIncarnation(rs)
  BY BootOfAppend
<1>3. /\ ApplyRecord(StateOf(rs), p).campaigns = StateOf(rs).campaigns
      /\ ApplyRecord(StateOf(rs), p).attempts = StateOf(rs).attempts
      /\ ApplyRecord(StateOf(rs), p).ledger = StateOf(rs).ledger
      /\ ApplyRecord(StateOf(rs), p).epoch = StateOf(rs).epoch
  BY DEF ApplyRecord, States
<1> QED BY <1>1, <1>2, <1>3 DEF Core

\* Where no fault has happened the process has accepted the whole file.
LEMMA Trusted ==
  ASSUME IInv, faults = 0
  PROVE  /\ ~failed /\ SameButDecisions(mem, StateOf(records))
         /\ records \in Seq(Records) /\ StateOf(records) \in States /\ mem \in States
         /\ phase # "down" => records = Replayed(file.frames)
<1>1. ~failed
  BY DEF IInv, Linked
<1> QED BY <1>1, AcceptedHealthy DEF IInv, Linked, Mirrored, Typed

LEMMA SuccessfulWrite ==
  ASSUME IInv, phase # "down", faults = 0, faults' = 0, NEW p, Follows(p, mem), ~Ends(p),
         Written(p) \/ WriteFails(p)
  PROVE  Written(p) /\ Replayed(file'.frames) = Append(Replayed(file.frames), p)
<1>1. ~failed' /\ records' = Replayed(file'.frames)
  BY WriteKeeps
<1>2. ~WriteFails(p)
  BY DEF WriteFails
<1>3. records' = Append(records, p) /\ records = Replayed(file.frames)
  BY <1>2, Trusted DEF Written
<1> QED BY <1>1, <1>2, <1>3

\* One write of the store is one write of the abstract state.
LEMMA WriteMaps ==
  ASSUME NEW rs \in Seq(Records), StateOf(rs) \in States, NEW p, Follows(p, StateOf(rs)),
         \/ p.type = "campaign" /\ p.num = StateOf(rs).campaigns[p.key] + 1
         \/ p.type = "attempt" /\ p.num = StateOf(rs).attempts[p.key] + 1
         \/ p.type \in {"provenance", "epoch"}
  PROVE  Stable!Written(Core(rs), Core(Append(rs, p)))
<1> DEFINE m == StateOf(rs)
           n == StateOf(Append(rs, p))
           c == Core(rs)
           d == Core(Append(rs, p))
<1>1. p \in Records /\ m \in States
  BY DEF Follows
<1>2. n = ApplyRecord(m, p)
  BY <1>1, StateOfAppend
<1>3. LastBootIncarnation(Append(rs, p)) = LastBootIncarnation(rs)
  BY <1>1, BootOfAppend
<1>4. c = [campaigns |-> m.campaigns, attempts |-> m.attempts, ledger |-> m.ledger,
           epoch |-> m.epoch, incarnation |-> LastBootIncarnation(rs)]
  BY DEF Core
<1>5. d = [campaigns |-> n.campaigns, attempts |-> n.attempts, ledger |-> n.ledger,
           epoch |-> n.epoch, incarnation |-> LastBootIncarnation(rs)]
  BY <1>3 DEF Core
<1> HIDE DEF m, n, c, d
<1>6. CASE p.type = "campaign" /\ p.num = m.campaigns[p.key] + 1
  <2>1. p.key \in CampaignIds
    BY <1>1, <1>6, RecordCases
  <2>2. n = [m EXCEPT !.campaigns[p.key] = m.campaigns[p.key] + 1]
    BY <1>2, <1>6 DEF ApplyRecord
  <2>3. d = [c EXCEPT !.campaigns[p.key] = @ + 1]
    <3>1. /\ n.campaigns = [m.campaigns EXCEPT ![p.key] = m.campaigns[p.key] + 1]
          /\ n.attempts = m.attempts /\ n.ledger = m.ledger /\ n.epoch = m.epoch
      BY <1>1, <2>2 DEF States
    <3>2. d = [c EXCEPT !.campaigns = n.campaigns]
      BY <1>4, <1>5, <3>1
    <3>3. c.campaigns = m.campaigns
      BY <1>4
    <3> QED BY <3>1, <3>2, <3>3
  <2>4. \E k \in CampaignIds : d = [c EXCEPT !.campaigns[k] = @ + 1]
    BY <2>1, <2>3
  <2>5. Stable!Written(c, d)
    BY <2>4 DEF Stable!Written
  <2> QED BY <2>5 DEF c, d
<1>7. CASE p.type = "attempt" /\ p.num = m.attempts[p.key] + 1
  <2>1. p.key \in AttemptIds
    BY <1>1, <1>7, RecordCases
  <2>2. n = [m EXCEPT !.attempts[p.key] = m.attempts[p.key] + 1]
    BY <1>2, <1>7 DEF ApplyRecord
  <2>3. d = [c EXCEPT !.attempts[p.key] = @ + 1]
    <3>1. /\ n.attempts = [m.attempts EXCEPT ![p.key] = m.attempts[p.key] + 1]
          /\ n.campaigns = m.campaigns /\ n.ledger = m.ledger /\ n.epoch = m.epoch
      BY <1>1, <2>2 DEF States
    <3>2. d = [c EXCEPT !.attempts = n.attempts]
      BY <1>4, <1>5, <3>1
    <3>3. c.attempts = m.attempts
      BY <1>4
    <3> QED BY <3>1, <3>2, <3>3
  <2>4. \E k \in AttemptIds : d = [c EXCEPT !.attempts[k] = @ + 1]
    BY <2>1, <2>3
  <2>5. Stable!Written(c, d)
    BY <2>4 DEF Stable!Written
  <2> QED BY <2>5 DEF c, d
<1>8. CASE p.type = "provenance"
  <2>1. p.body \in Entries /\ m.ledger \in Seq(Entries)
    BY <1>1, <1>8, RecordCases DEF States
  <2>2. /\ n.campaigns = m.campaigns /\ n.attempts = m.attempts /\ n.epoch = m.epoch
        /\ n.ledger = Append(m.ledger, p.body)
    BY <1>1, <1>2, <1>8 DEF ApplyRecord, States
  <2>3. d.ledger = Append(m.ledger, p.body) /\ c.ledger = m.ledger
    BY <1>4, <1>5, <2>2
  <2>4. Len(d.ledger) = Len(c.ledger) + 1
    BY <2>1, <2>3, AppendProperties
  <2>5. SubSeq(d.ledger, 1, Len(c.ledger)) = c.ledger
    <3> DEFINE l == m.ledger
               k == Append(l, p.body)
    <3>1. /\ k \in Seq(Entries) /\ Len(k) = Len(l) + 1 /\ Len(l) \in Nat
          /\ \A i \in 1..Len(l) : k[i] = l[i]
      BY <2>1, AppendProperties, LenProperties
    <3>2. \A i \in 1..Len(l) : k[i] \in Entries
      BY <2>1, <3>1, ElementOfSeq
    <3> HIDE DEF k, l
    <3>3. /\ SubSeq(k, 1, Len(l)) \in Seq(Entries)
          /\ Len(SubSeq(k, 1, Len(l))) = IF 1 <= Len(l) THEN Len(l) - 1 + 1 ELSE 0
          /\ \A i \in 1..(Len(l) - 1 + 1) : SubSeq(k, 1, Len(l))[i] = k[1 + i - 1]
      BY <3>1, <3>2, SubSeqProperties
    <3>4. /\ Len(SubSeq(k, 1, Len(l))) = Len(l)
          /\ \A i \in 1..Len(l) : SubSeq(k, 1, Len(l))[i] = l[i]
      BY <3>1, <3>3
    <3>5. SubSeq(k, 1, Len(l)) = l
      BY <2>1, <3>3, <3>4, SeqEqual DEF l
    <3> QED BY <2>3, <3>5 DEF k, l
  <2>6. d = [c EXCEPT !.ledger = d.ledger]
    <3>1. n.campaigns = m.campaigns /\ n.attempts = m.attempts /\ n.epoch = m.epoch
      BY <2>2
    <3> QED BY <1>4, <1>5, <3>1
  <2>7. Stable!Written(c, d)
    BY <2>4, <2>5, <2>6 DEF Stable!Written
  <2> QED BY <2>7 DEF c, d
<1>9. CASE p.type = "epoch"
  <2>1. p.num > m.epoch
    BY <1>9 DEF Follows, m
  <2>2. /\ n.campaigns = m.campaigns /\ n.attempts = m.attempts /\ n.ledger = m.ledger
        /\ n.epoch = p.num
    BY <1>1, <1>2, <1>9 DEF ApplyRecord, States
  <2>3. d.epoch > c.epoch /\ d = [c EXCEPT !.epoch = d.epoch]
    BY <1>4, <1>5, <2>1, <2>2
  <2> QED BY <2>3 DEF Stable!Written, c, d
<1> QED BY <1>6, <1>7, <1>8, <1>9 DEF m

\* A successful put, of any kind, and of a kind that is not in the abstract state.
LEMMA PutMaps ==
  ASSUME IInv, IInv', faults = 0, faults' = 0, NEW p, NEW m, Store(p, m), Follows(p, mem), ~Ends(p)
  PROVE  /\ Up /\ Up'
         /\ p.type \in {"decision", "ticket", "note", "shutdown"} => DurableCore' = DurableCore
         /\ \/ p.type = "campaign" /\ p.num = mem.campaigns[p.key] + 1
            \/ p.type = "attempt" /\ p.num = mem.attempts[p.key] + 1
            \/ p.type \in {"provenance", "epoch"}
            => Stable!Written(DurableCore, DurableCore')
<1>1. phase = "up" /\ phase' = "up" /\ (Written(p) \/ WriteFails(p))
  BY DEF Store
<1>2. Written(p) /\ Replayed(file'.frames) = Append(Replayed(file.frames), p)
  BY <1>1, SuccessfulWrite
<1>3. /\ records = Replayed(file.frames) /\ records \in Seq(Records) /\ StateOf(records) \in States
      /\ SameButDecisions(mem, StateOf(records))
  BY <1>1, Trusted
<1>4. DurableCore = Core(records) /\ DurableCore' = Core(Append(records, p))
  BY <1>2, <1>3, CoreIs
<1>5. Follows(p, StateOf(records)) /\ p \in Records
  BY <1>3, FollowsSame DEF Follows
<1>6. mem.campaigns = StateOf(records).campaigns /\ mem.attempts = StateOf(records).attempts
  BY <1>3 DEF SameButDecisions
<1> QED BY <1>1, <1>3, <1>4, <1>5, <1>6, CoreSame, WriteMaps DEF Up

LEMMA UpdateMaps ==
  ASSUME IInv, IInv', faults = 0, faults' = 0,
         \/ \E k \in CampaignIds : PutCampaign(k)
         \/ \E k \in AttemptIds : PutAttempt(k)
         \/ AppendProvenance
         \/ PutTicket
         \/ \E e \in 1..MaxEpoch : SetEpoch(e)
         \/ Note
  PROVE  Up /\ Up' /\ (DurableCore' = DurableCore \/ Stable!Written(DurableCore, DurableCore'))
<1>0. mem \in States
  BY DEF IInv, Typed
<1>1. ASSUME NEW k \in CampaignIds, PutCampaign(k)
      PROVE  Up /\ Up' /\ Stable!Written(DurableCore, DurableCore')
  <2> DEFINE p == CampaignRecord(k)
  <2>1. p.type = "campaign" /\ p.key = k /\ p.num = mem.campaigns[k] + 1 /\ Follows(p, mem)
    BY <1>0, <1>1, PutsFollow DEF PutCampaign, CampaignRecord, Record
  <2>2. PICK m : Store(p, m)
    BY <1>1 DEF PutCampaign
  <2> HIDE DEF p
  <2> QED BY <2>1, <2>2, PutMaps DEF Ends
<1>2. ASSUME NEW k \in AttemptIds, PutAttempt(k)
      PROVE  Up /\ Up' /\ Stable!Written(DurableCore, DurableCore')
  <2> DEFINE p == AttemptRecord(k)
  <2>1. p.type = "attempt" /\ p.key = k /\ p.num = mem.attempts[k] + 1 /\ Follows(p, mem)
    BY <1>0, <1>2, PutsFollow DEF PutAttempt, AttemptRecord, Record
  <2>2. PICK m : Store(p, m)
    BY <1>2 DEF PutAttempt
  <2> HIDE DEF p
  <2> QED BY <2>1, <2>2, PutMaps DEF Ends
<1>3. ASSUME AppendProvenance PROVE Up /\ Up' /\ Stable!Written(DurableCore, DurableCore')
  <2> DEFINE p == ProvenanceRecord
  <2>1. p.type = "provenance" /\ Follows(p, mem)
    BY <1>0, <1>3, EntryFollows DEF AppendProvenance, ProvenanceRecord, Record
  <2>2. PICK m : Store(p, m)
    BY <1>3 DEF AppendProvenance
  <2> HIDE DEF p
  <2> QED BY <2>1, <2>2, PutMaps DEF Ends
<1>4. ASSUME PutTicket PROVE Up /\ Up' /\ DurableCore' = DurableCore
  <2> DEFINE p == TicketRecord
  <2>1. p.type = "ticket" /\ Follows(p, mem)
    BY <1>0, <1>4, PutsFollow DEF PutTicket, TicketRecord, Record
  <2>2. PICK m : Store(p, m)
    BY <1>4 DEF PutTicket
  <2> HIDE DEF p
  <2> QED BY <2>1, <2>2, PutMaps DEF Ends
<1>5. ASSUME NEW e \in 1..MaxEpoch, SetEpoch(e)
      PROVE  Up /\ Up' /\ Stable!Written(DurableCore, DurableCore')
  <2> DEFINE p == EpochRecord(e)
  <2>1. p.type = "epoch" /\ Follows(p, mem)
    BY <1>0, <1>5, PutsFollow DEF SetEpoch, EpochRecord, Record
  <2>2. PICK m : Store(p, m)
    BY <1>5 DEF SetEpoch
  <2> HIDE DEF p
  <2> QED BY <2>1, <2>2, PutMaps DEF Ends
<1>6. ASSUME Note PROVE Up /\ Up' /\ DurableCore' = DurableCore
  <2> DEFINE p == NoteRecord
  <2>1. p.type = "note" /\ Follows(p, mem)
    BY <1>0, PutsFollow DEF NoteRecord, Record
  <2>2. PICK m : Store(p, m)
    BY <1>6 DEF Note
  <2> HIDE DEF p
  <2> QED BY <2>1, <2>2, PutMaps DEF Ends
<1> QED BY <1>1, <1>2, <1>3, <1>4, <1>5, <1>6

LEMMA FaultsGrow ==
  ASSUME Next PROVE faults' \in {faults, faults + 1}
<1>1. ASSUME NEW p, NEW m, Store(p, m) PROVE faults' \in {faults, faults + 1}
  BY <1>1 DEF Store, Written, WriteFails
<1>2. CASE OpenIntact \/ OpenRepaired \/ HeaderTorn \/ Boot \/ BootFails \/ BootRefused
  BY <1>2 DEF OpenIntact, OpenRepaired, Load, HeaderTorn, Boot, BootFails, BootRefused, Written
<1>3. CASE (\E k \in CampaignIds : PutCampaign(k)) \/ (\E k \in AttemptIds : PutAttempt(k))
  BY <1>1, <1>3 DEF PutCampaign, PutAttempt
<1>4. CASE AppendProvenance \/ PutTicket \/ (\E e \in 1..MaxEpoch : SetEpoch(e)) \/ Note
  BY <1>1, <1>4 DEF AppendProvenance, PutTicket, SetEpoch, Note
<1>5. CASE AppendDecision \/ Close
  BY <1>5 DEF AppendDecision, Close, Written, WriteFails
<1>6. CASE CompactWrite \/ CompactClose
  BY <1>6 DEF CompactWrite, CompactClose, Written, WriteFails
<1>7. CASE CompactReplace \/ CompactReplaceFails \/ Crash \/ Rot
  BY <1>7 DEF CompactReplace, CompactReplaceFails, Crash, Rot
<1> QED BY <1>2, <1>3, <1>4, <1>5, <1>6, <1>7 DEF Next

\* What is enough for a step of the store to be a step of StableState.
Maps ==
  \/ DurableCore' = DurableCore /\ (Up' => Up)
  \/ Up /\ Up' /\ Stable!Written(DurableCore, DurableCore')
  \/ ~Up /\ Up' /\ Stable!Started(DurableCore, DurableCore')

LEMMA MapsSuffices ==
  ASSUME faults = 0, faults' = 0, Maps
  PROVE  [Stable!Next]_(Stable!vars)
<1>1. (phase \notin {"down", "opened"} <=> Up) /\ (phase' \notin {"down", "opened"} <=> Up')
  BY DEF Up
<1>2. CASE DurableCore' = DurableCore /\ (Up <=> Up')
  BY <1>1, <1>2 DEF Stable!vars
<1>3. CASE DurableCore' = DurableCore /\ Up /\ ~Up'
  <2>1. Stable!Step(DurableCore, DurableCore')
    BY <1>1, <1>3 DEF Stable!Step
  <2> QED BY <2>1 DEF Stable!Next
<1>4. CASE Up /\ Up' /\ Stable!Written(DurableCore, DurableCore')
  <2>1. Stable!Step(DurableCore, DurableCore')
    BY <1>1, <1>4 DEF Stable!Step
  <2> QED BY <2>1 DEF Stable!Next
<1>5. CASE ~Up /\ Up' /\ Stable!Started(DurableCore, DurableCore')
  <2>1. Stable!Step(DurableCore, DurableCore')
    BY <1>1, <1>5 DEF Stable!Step
  <2> QED BY <2>1 DEF Stable!Next
<1> QED BY <1>2, <1>3, <1>4, <1>5 DEF Maps

LEMMA BootMaps ==
  ASSUME IInv, IInv', faults = 0, Boot
  PROVE  ~Up /\ Up' /\ Stable!Started(DurableCore, DurableCore')
<1> DEFINE p == BootRecord(NextIncarnation)
<1>1. phase = "opened" /\ phase' = "up" /\ Room
  BY DEF Boot, Written
<1>2. /\ p \in Records /\ p.type = "boot" /\ p.num = LastBootIncarnation(records) + 1
      /\ records = Replayed(file.frames)
  BY <1>1, NextIsFresh
<1>3. records' = Append(records, p) /\ StateOf(records') = ApplyRecord(StateOf(records), p)
  BY BootKeeps
<1>4. records' = Replayed(file'.frames) /\ records \in Seq(Records) /\ StateOf(records) \in States
  <2>1. failed' = failed /\ ~failed
    BY <1>1, NextIsFresh DEF Boot, Written
  <2>2. phase' # "down" /\ ~failed'
    BY <1>1, <2>1
  <2> QED BY <2>2, Trusted DEF IInv, Linked
<1> HIDE DEF p
<1>5. DurableCore = Core(records) /\ DurableCore' = Core(records')
  BY <1>2, <1>4, CoreIs
<1>6. LastBootIncarnation(records') = LastBootIncarnation(records) + 1
  BY <1>2, <1>3, <1>4, BootOfAppend
<1>7. /\ StateOf(records').campaigns = StateOf(records).campaigns
      /\ StateOf(records').attempts = StateOf(records).attempts
      /\ StateOf(records').ledger = StateOf(records).ledger
      /\ StateOf(records').epoch = StateOf(records).epoch
  BY <1>2, <1>3, <1>4 DEF ApplyRecord, States
<1>8. Core(records') = [Core(records) EXCEPT !.incarnation = @ + 1]
  BY <1>6, <1>7 DEF Core
<1> QED BY <1>1, <1>5, <1>8 DEF Up, Stable!Started

LEMMA ShutdownMaps ==
  ASSUME IInv, IInv', faults = 0, faults' = 0, Close \/ CompactClose
  PROVE  DurableCore' = DurableCore
<1>1. /\ records \in Seq(Records) /\ StateOf(records) \in States
      /\ records = Replayed(file.frames) /\ phase # "down"
  <2>1. phase # "down"
    BY DEF Close, CompactClose
  <2> QED BY <2>1, Trusted
<1>2. /\ DurableCore = Core(Replayed(file.frames))
      /\ DurableCore' = Core(Replayed(file'.frames))
  BY CoreIs
<1>3. file \in [header : {"none", "torn", "ok"}, frames : Seq(Frames)]
  BY DEF IInv, Typed
<1>4. \/ file' = file
      \/ Room /\ \/ file'.frames = Append(file.frames, Frame(ShutdownRecord, Len(records)))
                 \/ \E stray \in Partial(ShutdownRecord) : file'.frames = file.frames \o stray
  <2>1. CASE Close
    BY <1>3, <2>1 DEF Close
  <2>2. CASE CompactClose
    BY <1>3, <2>2 DEF CompactClose, Written, WriteFails
  <2> QED BY <2>1, <2>2
<1>5. Replayed(file'.frames) \in {Replayed(file.frames), Append(Replayed(file.frames), ShutdownRecord)}
  BY <1>1, <1>4, ShutdownFile
<1>6. Core(Append(records, ShutdownRecord)) = Core(records)
  BY <1>1, ShutdownFollows, CoreSame
<1> QED BY <1>1, <1>2, <1>5, <1>6

LEMMA CompactReplaceMaps ==
  ASSUME IInv, IInv', faults = 0, CompactReplace
  PROVE  DurableCore' = DurableCore
<1>1. phase = "replace"
  BY DEF CompactReplace
<1>2. /\ ~failed /\ SameButDecisions(mem, StateOf(records)) /\ mem \in States
      /\ records = Replayed(file.frames)
  BY <1>1, Trusted
<1>3. /\ DurableCore = Core(records)
      /\ DurableCore' = Core(Replayed(temp))
  BY <1>2, CoreIs, CompactReplaceKeeps
<1>4. /\ StateOf(Replayed(temp)) = ApplyRecord(EmptyState, SnapshotRecord)
      /\ LastBootIncarnation(Replayed(temp)) = mem.incarnation
  BY <1>1, StagedFile
<1>5. mem.incarnation = LastBootIncarnation(records)
  BY <1>1, <1>2 DEF IInv, Booted
<1>6. /\ ApplyRecord(EmptyState, SnapshotRecord).campaigns = mem.campaigns
      /\ ApplyRecord(EmptyState, SnapshotRecord).attempts = mem.attempts
      /\ ApplyRecord(EmptyState, SnapshotRecord).ledger = mem.ledger
      /\ ApplyRecord(EmptyState, SnapshotRecord).epoch = mem.epoch
  <2>1. SnapshotRecord.type = "snapshot" /\ SnapshotRecord.body = mem
    BY SnapshotFollows DEF IInv, Typed
  <2> QED BY <2>1, EmptyTyped DEF ApplyRecord, States
<1> QED BY <1>2, <1>3, <1>4, <1>5, <1>6 DEF Core, SameButDecisions

LEMMA StepMaps ==
  ASSUME IInv, IInv', Next
  PROVE  [Stable!Next]_(Stable!vars)
<1>1. CASE faults' # 0
  BY <1>1 DEF Stable!Next
<1>2. CASE faults' = 0
  <2>1. faults = 0
    <3>1. faults \in Nat
      BY StoreAssumption DEF IInv, Typed
    <3> QED BY <1>2, <3>1, FaultsGrow
  <2>2. /\ DurableCore = Core(Replayed(file.frames))
        /\ DurableCore' = Core(Replayed(file'.frames))
    BY CoreIs
  <2>3. CASE OpenIntact \/ OpenRepaired
    <3>1. ~Up'
      BY <2>3 DEF OpenIntact, OpenRepaired, Load, Up
    <3> QED BY <1>2, <2>1, <2>2, <2>3, <3>1, OpenKeeps, MapsSuffices DEF Maps
  <2>4. CASE HeaderTorn
    <3>1. ~Up'
      BY <2>4 DEF HeaderTorn, Up
    <3>2. Replayed(file'.frames) = Replayed(file.frames)
      BY <2>4, HeaderTornKeeps
    <3> QED BY <1>2, <2>1, <2>2, <3>1, <3>2, MapsSuffices DEF Maps
  <2>5. CASE Boot
    BY <1>2, <2>1, <2>5, BootMaps, MapsSuffices DEF Maps
  <2>6. CASE BootFails
    BY <1>2, <2>6, BootFailsKeeps
  <2>7. CASE BootRefused
    BY <1>2, <2>1, <2>2, <2>7, MapsSuffices DEF BootRefused, Up, Maps
  <2>8. CASE \/ \E k \in CampaignIds : PutCampaign(k)
             \/ \E k \in AttemptIds : PutAttempt(k)
             \/ AppendProvenance \/ PutTicket
             \/ \E e \in 1..MaxEpoch : SetEpoch(e)
             \/ Note
    BY <1>2, <2>1, <2>8, UpdateMaps, MapsSuffices DEF Maps
  <2>9. CASE AppendDecision
    <3> DEFINE p == DecisionRecord
    <3>1. /\ phase = "up" /\ phase' = "up" /\ (Written(p) \/ WriteFails(p))
      BY <2>9 DEF AppendDecision
    <3>2. /\ records \in Seq(Records) /\ StateOf(records) \in States /\ mem \in States
          /\ records = Replayed(file.frames)
      BY <2>1, <3>1, Trusted
    <3>3. p.type = "decision" /\ Follows(p, mem)
      BY <3>2, PutsFollow DEF DecisionRecord, Record
    <3> HIDE DEF p
    <3>4. p \in Records /\ ~Ends(p)
      BY <3>3 DEF Follows, Ends
    <3>5. Replayed(file'.frames) = Append(Replayed(file.frames), p)
      BY <1>2, <2>1, <3>1, <3>3, <3>4, SuccessfulWrite
    <3>6. Core(Append(records, p)) = Core(records)
      BY <3>2, <3>3, <3>4, CoreSame
    <3> QED BY <1>2, <2>1, <2>2, <3>1, <3>2, <3>5, <3>6, MapsSuffices DEF Up, Maps
  <2>10. CASE Close \/ CompactClose
    <3>1. Up
      BY <2>10 DEF Close, CompactClose, Up
    <3> QED BY <1>2, <2>1, <2>10, <3>1, ShutdownMaps, MapsSuffices DEF Maps
  <2>11. CASE CompactWrite \/ CompactReplaceFails
    <3>1. Up /\ file' = file
      BY <2>11 DEF CompactWrite, CompactReplaceFails, Up
    <3> QED BY <1>2, <2>1, <2>2, <3>1, MapsSuffices DEF Maps
  <2>12. CASE CompactReplace
    <3>1. Up
      BY <2>12 DEF CompactReplace, Up
    <3> QED BY <1>2, <2>1, <2>12, <3>1, CompactReplaceMaps, MapsSuffices DEF Maps
  <2>13. CASE Crash
    <3>1. ~Up'
      BY <2>13 DEF Crash, Up
    <3> QED BY <1>2, <2>1, <2>2, <2>13, <3>1, CrashKeeps, MapsSuffices DEF Maps
  <2>14. CASE Rot
    BY <1>2, <2>14, RotKeeps
  <2> QED BY <2>3, <2>4, <2>5, <2>6, <2>7, <2>8, <2>9, <2>10, <2>11, <2>12, <2>13, <2>14 DEF Next
<1> QED BY <1>1, <1>2

LEMMA StutterMaps ==
  ASSUME UNCHANGED vars
  PROVE  UNCHANGED Stable!vars
BY DEF vars, Stable!vars, DurableCore

\* Journal, replay, repair and compaction implement a state that changes one
\* write at a time, that every stop keeps, and that starts under a new
\* incarnation, as long as the storage keeps what it has acknowledged.
THEOREM ImplementsStable == Spec => ImplementsStableState
<1>1. Init => Stable!Init
  BY InitMaps
<1>2. IInv /\ IInv' /\ [Next]_vars => [Stable!Next]_(Stable!vars)
  BY StepMaps, StutterMaps
<1> QED BY <1>1, <1>2, Invariance, PTL DEF Spec, Stable!Spec, ImplementsStableState

=============================================================================
