------------------------ MODULE SchemaUpgradeProofs ------------------------
(***************************************************************************)
(* Theorems about SchemaUpgrade and the SearchIndex it opens, for any rows *)
(* and contents, any length of files, batches and chunks, any number of    *)
(* interruptions and any versions that databases may have.                 *)
(*                                                                         *)
(* First what each step of SearchIndex does, then the upgrade and all of   *)
(* it together.                                                            *)
(***************************************************************************)
EXTENDS SchemaUpgrade, SequenceTheorems, FiniteSetTheorems, TLAPS

LEMMA LeastIsNatural ==
    ASSUME NEW S \in SUBSET Nat, S # {}
    PROVE  Min(S) \in S /\ \A y \in S : Min(S) <= y
<1> DEFINE R == OpToRel(<, Nat)
<1>1. IsWellFoundedOn(R, Nat)
    BY NatLessThanWellFounded
<1>2. \A x, y \in Nat : y < x => <<y, x>> \in R
    BY DEF OpToRel
<1> HIDE DEF R
<1>3. \E x \in S : \A y \in S : ~(<<y, x>> \in R)
    BY <1>1, WFMin, Zenon
<1>4. \E x \in S : \A y \in S : x <= y
    <2>1. PICK x \in S : \A y \in S : ~(<<y, x>> \in R)
        BY <1>3
    <2>2. \A y \in S : ~(y < x)
        BY <1>2, <2>1
    <2> QED
        BY <2>2
<1> QED
    BY <1>4 DEF Min

LEMMA FilesTyped == \A f \in Files : f \in Seq(Texts) /\ Len(f) > 0
<1> TAKE f \in Files
<1>1. PICK n \in 1..FileRows : f \in [1..n -> Texts]
    BY DEF Files
<1> QED
    BY <1>1, BoundsAssumption

\* The rows of a batch, as many as it has.
LEMMA InsertedTyped ==
    ASSUME NEW rows \in Seq(Row), NEW batch \in Seq(Texts)
    PROVE  Inserted(rows, batch) \in Seq(Row) /\ Len(Inserted(rows, batch)) = Len(batch)
<1> DEFINE known(k)  == Canonicals(rows, batch[k])
           earlier(k) == {Len(rows) + j : j \in {j \in 1..(k - 1) : batch[j] = batch[k]}}
           owner(k)  == IF known(k) \cup earlier(k) = {} THEN 0 ELSE Min(known(k) \cup earlier(k))
<1>1. DOMAIN batch = 1..Len(batch) /\ Len(batch) \in Nat /\ Len(rows) \in Nat
      /\ DOMAIN rows = 1..Len(rows)
    BY LenProperties
<1>2. \A k \in DOMAIN batch : known(k) \cup earlier(k) \in SUBSET Nat
    BY <1>1 DEF Canonicals
<1>3. \A k \in DOMAIN batch : owner(k) \in Nat
    <2> TAKE k \in DOMAIN batch
    <2>1. CASE known(k) \cup earlier(k) = {}
        BY <2>1
    <2>2. CASE known(k) \cup earlier(k) # {}
        <3> DEFINE S == known(k) \cup earlier(k)
        <3>1. S \in SUBSET Nat /\ S # {}
            BY <1>2, <2>2
        <3> HIDE DEF S
        <3>2. Min(S) \in Nat
            BY <3>1, LeastIsNatural
        <3> QED
            BY <2>2, <3>2 DEF S
    <2> QED
        BY <2>1, <2>2
<1>4. Inserted(rows, batch) = [k \in 1..Len(batch) |-> [text |-> batch[k], owner |-> owner(k)]]
    BY <1>1 DEF Inserted
<1>5. \A k \in 1..Len(batch) : batch[k] \in Texts
    BY ElementOfSeq
<1> HIDE DEF owner
<1>6. \A k \in 1..Len(batch) : [text |-> batch[k], owner |-> owner(k)] \in Row
    BY <1>1, <1>3, <1>5 DEF Row
<1> QED
    BY <1>1, <1>4, <1>6

\* The entries of an index are finitely many.
LEMMA EntriesTyped ==
    ASSUME records \in Seq(Row), NEW above, NEW upTo
    PROVE  /\ Entries(above, upTo) \subseteq Nat \X Texts /\ IsFiniteSet(Entries(above, upTo))
           /\ SearchableRows(above, upTo) \in Nat
<1> DEFINE S == {k \in DOMAIN records : above < k /\ k <= upTo /\ Searchable(k)}
           e == [k \in S |-> <<k, records[k].text>>]
<1>1. DOMAIN records = 1..Len(records) /\ Len(records) \in Nat
      /\ \A k \in 1..Len(records) : records[k] \in Row
    BY LenProperties, ElementOfSeq
<1>2. IsFiniteSet(S)
    <2>1. IsFiniteSet(1..Len(records))
        BY <1>1, FS_Interval
    <2>2. S \in SUBSET (1..Len(records))
        BY <1>1
    <2> HIDE DEF S
    <2> QED
        BY <2>1, <2>2, FS_Subset
<1>3. Entries(above, upTo) = {e[k] : k \in S}
    BY DEF Entries
<1>4. e \in Surjection(S, Entries(above, upTo))
    BY <1>3 DEF Surjection
<1>5. IsFiniteSet(Entries(above, upTo))
    <2> HIDE DEF S, e
    <2> QED
        BY <1>2, <1>4, FS_Surjection
<1>6. Entries(above, upTo) \subseteq Nat \X Texts
    BY <1>1, <1>3 DEF Row
<1> QED
    BY <1>5, <1>6, FS_CardinalityType DEF SearchableRows

LEMMA ChunkEndTyped ==
    ASSUME NEW above \in Nat, NEW upTo \in Nat
    PROVE  ChunkEnd(above, upTo) \in Nat /\ ChunkEnd(above, upTo) <= upTo
BY BoundsAssumption DEF ChunkEnd

LEMMA ResetKeysByPosition ==
    /\ DOMAIN ResetKeys = 1..5 /\ Len(ResetKeys) = 5
    /\ Resetting = {"guard", "targetMax", "targetRows", "cursor", "indexed"}
BY DEF ResetKeys, Resetting, ToSet
----------------------------------------------------------------------------
(* Type correctness.                                                       *)

LEMMA RowsTypedStep ==
    ASSUME TypeOK, Next
    PROVE  /\ records' \in Seq(Row) /\ log' \in Seq(Seq(Texts))
           /\ file' \in Seq(Texts) /\ (pc' = "idle" => file' = <<>>)
           /\ added' \in Seq(Row) /\ (pc' # "import" => added' = <<>>)
           /\ pc' \in Location
<1> USE DEF TypeOK, Goto, AfterIndex, data, index, table
<1>1. CASE \E f \in Files : StartImport(f)
    BY <1>1, FilesTyped DEF StartImport, Location
<1>2. CASE InsertBatch
    <2>1. PICK n \in Len(added) + 1..Len(file) :
             added' = added \o Inserted(records \o added, SubSeq(file, Len(added) + 1, n))
        BY <1>2 DEF InsertBatch
    <2>2. Len(added) \in Nat /\ Len(file) \in Nat /\ \A i \in 1..Len(file) : file[i] \in Texts
        BY LenProperties, ElementOfSeq
    <2>3. SubSeq(file, Len(added) + 1, n) \in Seq(Texts)
        BY <2>2, SubSeqProperties
    <2>4. Inserted(records \o added, SubSeq(file, Len(added) + 1, n)) \in Seq(Row)
        BY <2>3, ConcatProperties, InsertedTyped
    <2>5. added' \in Seq(Row)
        BY <2>1, <2>4, ConcatProperties
    <2> QED
        BY <1>2, <2>5 DEF InsertBatch
<1>3. CASE CommitImport
    BY <1>3, ConcatProperties DEF CommitImport, Location
<1>4. CASE RollbackImport
    BY <1>4 DEF RollbackImport, Location
<1>5. CASE LogImport
    BY <1>5, AppendProperties DEF LogImport, Location
<1>6. CASE Clear
    BY <1>6 DEF Clear
<1>7. CASE \E n \in DOMAIN ResetKeys : ResetKey(n)
    <2>1. PICK n \in 1..5 : ResetKey(n)
        BY <1>7, ResetKeysByPosition
    <2>2. pc = ResetKeys[n] /\ pc' = IF n < 5 THEN ResetKeys[n + 1] ELSE "build"
        BY <2>1, ResetKeysByPosition DEF ResetKey
    <2>3. pc \in Resetting /\ (n < 5 => ResetKeys[n + 1] \in Resetting)
        BY <2>2, ResetKeysByPosition DEF Resetting, ToSet
    <2>4. pc' \in Resetting \cup {"build"} /\ pc \notin {"idle", "import"}
        BY <2>2, <2>3, ResetKeysByPosition
    <2>5. pc' \in Location /\ pc' \notin {"idle", "import"}
        BY <2>4, ResetKeysByPosition DEF Location, Building
    <2>6. UNCHANGED <<records, log, file, added>>
        BY <2>1 DEF ResetKey
    <2> QED
        BY <2>4, <2>5, <2>6
<1>8. CASE CreateTable
    <2>1. pc' = "guard" /\ pc = "create"
        BY <1>8 DEF CreateTable, ResetKeys
    <2>2. pc' \in Location
        BY <2>1, ResetKeysByPosition DEF Location
    <2> QED
        BY <1>8, <2>1, <2>2 DEF CreateTable
<1>9. CASE StartIndex \/ StartRepair \/ ChooseIndex \/ PlanRebuild \/ BuildChunk \/ FinishBuild
             \/ VerifySource \/ Discard \/ FailBuild \/ ForeignCommit
    BY <1>9 DEF StartIndex, StartRepair, ChooseIndex, PlanRebuild, BuildChunk, FinishBuild, VerifySource,
        Discard, FailBuild, ForeignCommit, Location, Building
<1>10. CASE IndexChunk \/ Swap \/ Forget \/ Cancel
    BY <1>10, ResetKeysByPosition DEF IndexChunk, Swap, Forget, Cancel, Location, Building
<1>11. CASE Crash
    BY <1>11 DEF Crash, Location
<1> QED
    BY <1>1, <1>2, <1>3, <1>4, <1>5, <1>6, <1>7, <1>8, <1>9, <1>10, <1>11 DEF Next, Work, Step

LEMMA FreshPlanTyped ==
    ASSUME TypeOK
    PROVE  FreshPlan \in Bookkeeping /\ NothingKept \in Bookkeeping
BY EntriesTyped, LenProperties DEF TypeOK, FreshPlan, NothingKept, Bookkeeping, Guard

LEMMA IndexTypedStep ==
    ASSUME TypeOK, Next
    PROVE  /\ current' \in BOOLEAN /\ watermark' \in Nat
           /\ live' \subseteq Nat \X Texts
           /\ rebuildTable' \in BOOLEAN /\ rebuild' \subseteq Nat \X Texts
           /\ kept' \in Bookkeeping /\ plan' \in Bookkeeping
           /\ sourceChanged' \in BOOLEAN /\ interruptions' \in Nat
<1> USE DEF TypeOK, data, index, table, Interrupt
<1>1. CASE \E n \in DOMAIN ResetKeys : ResetKey(n)
    <2>1. PICK n \in 1..5 : ResetKey(n)
        BY <1>1, ResetKeysByPosition
    <2>2. pc \in {"guard", "targetMax", "targetRows", "cursor", "indexed"}
        BY <2>1 DEF ResetKey, ResetKeys
    <2>3. kept' = [kept EXCEPT ![pc] = plan[pc]]
        BY <2>1 DEF ResetKey
    <2>4. kept' \in Bookkeeping
        BY <2>2, <2>3 DEF Bookkeeping
    <2>5. sourceChanged' \in BOOLEAN
        BY <2>1 DEF ResetKey
    <2>6. UNCHANGED <<index, table, plan, interruptions>>
        BY <2>1 DEF ResetKey
    <2> QED
        BY <2>4, <2>5, <2>6
<1>2. CASE BuildChunk
    <2> DEFINE end == ChunkEnd(plan.cursor, plan.targetMax)
               rows == plan.indexed + SearchableRows(plan.cursor, end)
    <2>1. plan.cursor \in Nat /\ plan.targetMax \in Nat /\ plan.indexed \in Nat
        BY DEF Bookkeeping
    <2>2. end \in Nat /\ rows \in Nat /\ Entries(plan.cursor, end) \subseteq Nat \X Texts
        <3>1. end \in Nat
            BY <2>1, ChunkEndTyped
        <3>2. SearchableRows(plan.cursor, end) \in Nat /\ Entries(plan.cursor, end) \subseteq Nat \X Texts
            BY EntriesTyped
        <3> QED
            BY <2>1, <3>1, <3>2
    <2>3. /\ rebuild' = rebuild \cup Entries(plan.cursor, end)
          /\ kept' = [kept EXCEPT !.cursor = end, !.indexed = rows]
          /\ plan' = [plan EXCEPT !.cursor = end, !.indexed = rows]
          /\ UNCHANGED <<index, rebuildTable, sourceChanged, interruptions>>
        BY <1>2 DEF BuildChunk
    <2> HIDE DEF end, rows
    <2>4. kept' \in Bookkeeping /\ plan' \in Bookkeeping
        BY <2>2, <2>3 DEF Bookkeeping
    <2> QED
        BY <2>2, <2>3, <2>4
<1>3. CASE IndexChunk
    <2>1. Len(records) \in Nat
        BY LenProperties
    <2> QED
        BY <1>3, <2>1, ChunkEndTyped, EntriesTyped DEF IndexChunk
<1>4. CASE PlanRebuild
    BY <1>4, FreshPlanTyped DEF PlanRebuild
<1>5. CASE Swap
    <2>1. plan.targetMax \in Nat
        BY DEF Bookkeeping
    <2> QED
        BY <1>5, <2>1, FreshPlanTyped DEF Swap
<1>6. CASE Forget
    BY <1>6, FreshPlanTyped DEF Forget
<1>7. CASE \/ \E f \in Files : StartImport(f)
           \/ InsertBatch \/ CommitImport \/ LogImport \/ RollbackImport
    BY <1>7 DEF StartImport, InsertBatch, CommitImport, LogImport, RollbackImport
<1>8. CASE StartIndex \/ StartRepair \/ ChooseIndex \/ CreateTable \/ FinishBuild \/ VerifySource \/ Discard
    BY <1>8 DEF StartIndex, StartRepair, ChooseIndex, CreateTable, FinishBuild, VerifySource, Discard
<1>9. CASE FailBuild \/ Cancel \/ ForeignCommit \/ Crash
    <2>1. interruptions' \in Nat
        BY <1>9 DEF FailBuild, Cancel, ForeignCommit, Crash
    <2>2. sourceChanged' \in BOOLEAN
        BY <1>9 DEF FailBuild, Cancel, ForeignCommit, Crash
    <2>3. UNCHANGED <<current, watermark, live, rebuildTable, rebuild, kept, plan>>
        BY <1>9 DEF FailBuild, Cancel, ForeignCommit, Crash
    <2> QED
        BY <2>1, <2>2, <2>3
<1>10. CASE Clear
    BY <1>10 DEF Clear
<1> QED
    BY <1>1, <1>2, <1>3, <1>4, <1>5, <1>6, <1>7, <1>8, <1>9, <1>10 DEF Next, Work, Step

LEMMA NextTyped ==
    ASSUME TypeOK, [Next]_vars
    PROVE  TypeOK'
<1>1. CASE Next
    <2>1. /\ records' \in Seq(Row) /\ log' \in Seq(Seq(Texts))
          /\ file' \in Seq(Texts) /\ (pc' = "idle" => file' = <<>>)
          /\ added' \in Seq(Row) /\ (pc' # "import" => added' = <<>>)
          /\ pc' \in Location
        BY <1>1, RowsTypedStep
    <2>2. /\ current' \in BOOLEAN /\ watermark' \in Nat
          /\ live' \subseteq Nat \X Texts
          /\ rebuildTable' \in BOOLEAN /\ rebuild' \subseteq Nat \X Texts
          /\ kept' \in Bookkeeping /\ plan' \in Bookkeeping
          /\ sourceChanged' \in BOOLEAN /\ interruptions' \in Nat
        BY <1>1, IndexTypedStep
    <2> QED
        BY <2>1, <2>2, Zenon DEF TypeOK, Location, Resetting, Building, Row, Bookkeeping
<1>2. CASE UNCHANGED vars
    BY <1>2 DEF TypeOK, vars, data, index, table
<1> QED
    BY <1>1, <1>2
----------------------------------------------------------------------------
(* The index and the partial rebuild.                                      *)

\* Entries and SearchableRows of given rows.
EntriesOf(rows, above, upTo) ==
    {<<i, rows[i].text>> : i \in {k \in DOMAIN rows : above < k /\ k <= upTo /\ rows[k].owner = 0}}

RowsOf(rows, above, upTo) == Cardinality(EntriesOf(rows, above, upTo))

\* A rebuild with bookkeeping p that holds the entries held: what it holds is right up to its
\* cursor, and its targets are those of the rows that were there when it began.
PartialOf(p, rows, held) ==
    /\ p.guard[1] = p.targetMax /\ p.targetMax <= Len(rows) /\ p.cursor <= p.targetMax
    /\ p.targetRows = RowsOf(rows, 0, p.targetMax)
    /\ held = EntriesOf(rows, 0, p.cursor) /\ p.indexed = RowsOf(rows, 0, p.cursor)

PartialInv == rebuildTable /\ pc \notin Resetting => PartialOf(kept, records, rebuild)

IndexInv == current => live = EntriesOf(records, 0, watermark) /\ watermark <= Len(records)

\* What the write job knows where it stands.
PlanInv ==
    /\ pc = "chunk" => current
    /\ pc \in {"create"} \cup Resetting =>
         /\ plan.guard = Guard /\ plan.targetMax = Len(records)
         /\ plan.targetRows = RowsOf(records, 0, Len(records))
         /\ plan.cursor = 0 /\ plan.indexed = 0 /\ rebuild = {}
    /\ pc \in Resetting => rebuildTable
    /\ pc = "forget" => ~rebuildTable
    /\ \A n \in 1..5 : pc = ResetKeys[n] => \A m \in 1..(n - 1) : kept[ResetKeys[m]] = plan[ResetKeys[m]]
    /\ pc \in Building => plan = kept /\ rebuildTable /\ kept.guard = Guard
    /\ pc \in Building \ {"build"} => plan.cursor = plan.targetMax

SearchInv == PartialInv /\ IndexInv /\ PlanInv

LEMMA EntriesAre ==
    ASSUME NEW above, NEW upTo
    PROVE  /\ Entries(above, upTo) = EntriesOf(records, above, upTo)
           /\ SearchableRows(above, upTo) = RowsOf(records, above, upTo)
BY DEF Entries, EntriesOf, SearchableRows, RowsOf, Searchable

\* Rows at the end add nothing to the entries before them.
LEMMA EntriesOfPrefix ==
    ASSUME NEW rows \in Seq(Row), NEW more \in Seq(Row), NEW above \in Nat, NEW upTo \in Nat,
           upTo <= Len(rows)
    PROVE  /\ EntriesOf(rows \o more, above, upTo) = EntriesOf(rows, above, upTo)
           /\ RowsOf(rows \o more, above, upTo) = RowsOf(rows, above, upTo)
<1> DEFINE all == rows \o more
<1>1. /\ DOMAIN rows = 1..Len(rows) /\ Len(rows) \in Nat /\ Len(more) \in Nat
      /\ all \in Seq(Row) /\ Len(all) = Len(rows) + Len(more) /\ DOMAIN all = 1..Len(all)
      /\ \A i \in 1..Len(rows) : all[i] = rows[i]
    BY LenProperties, ConcatProperties
<1> HIDE DEF all
<1>2. {k \in DOMAIN all : above < k /\ k <= upTo /\ all[k].owner = 0}
        = {k \in DOMAIN rows : above < k /\ k <= upTo /\ rows[k].owner = 0}
    BY <1>1
<1>3. EntriesOf(all, above, upTo) = EntriesOf(rows, above, upTo)
    BY <1>1, <1>2 DEF EntriesOf
<1> QED
    BY <1>3 DEF all, RowsOf

\* A chunk continues what there is.
LEMMA EntriesOfChunk ==
    ASSUME records \in Seq(Row), NEW mid \in Nat, NEW upTo \in Nat, mid <= upTo
    PROVE  /\ EntriesOf(records, 0, upTo) = EntriesOf(records, 0, mid) \cup EntriesOf(records, mid, upTo)
           /\ RowsOf(records, 0, upTo) = RowsOf(records, 0, mid) + RowsOf(records, mid, upTo)
<1> DEFINE A == EntriesOf(records, 0, mid)
           B == EntriesOf(records, mid, upTo)
<1>1. DOMAIN records = 1..Len(records) /\ Len(records) \in Nat
    BY LenProperties
<1>2. EntriesOf(records, 0, upTo) = A \cup B
    BY <1>1 DEF EntriesOf
<1>3. A \cap B = {}
    BY <1>1 DEF EntriesOf
<1>4. IsFiniteSet(A) /\ IsFiniteSet(B) /\ Cardinality(A) \in Nat /\ Cardinality(B) \in Nat
    <2>1. IsFiniteSet(A) /\ IsFiniteSet(B)
        BY EntriesTyped, EntriesAre
    <2> HIDE DEF A, B
    <2> QED
        BY <2>1, FS_CardinalityType
<1>5. Cardinality(A \cup B) = Cardinality(A) + Cardinality(B)
    <2> HIDE DEF A, B
    <2>1. Cardinality(A \cup B) = Cardinality(A) + Cardinality(B) - Cardinality(A \cap B)
        BY <1>4, FS_Union
    <2>2. Cardinality(A \cap B) = 0
        BY <1>3, FS_EmptySet
    <2> QED
        BY <1>4, <2>1, <2>2
<1> QED
    BY <1>2, <1>5 DEF RowsOf

LEMMA NoEntries ==
    ASSUME NEW rows \in Seq(Row)
    PROVE  EntriesOf(rows, 0, 0) = {} /\ RowsOf(rows, 0, 0) = 0
<1>1. EntriesOf(rows, 0, 0) = {}
    BY LenProperties DEF EntriesOf
<1> QED
    BY <1>1, FS_EmptySet DEF RowsOf

LEMMA PartialOfPrefix ==
    ASSUME NEW p \in Bookkeeping, NEW rows \in Seq(Row), NEW more \in Seq(Row), NEW held,
           PartialOf(p, rows, held)
    PROVE  PartialOf(p, rows \o more, held)
<1>1. p.targetMax \in Nat /\ p.cursor \in Nat /\ Len(rows) \in Nat /\ Len(more) \in Nat
      /\ Len(rows \o more) = Len(rows) + Len(more)
    BY LenProperties, ConcatProperties DEF Bookkeeping
<1>2. p.targetMax <= Len(rows) /\ p.cursor <= Len(rows)
    BY <1>1 DEF PartialOf
<1>3. /\ RowsOf(rows \o more, 0, p.targetMax) = RowsOf(rows, 0, p.targetMax)
      /\ RowsOf(rows \o more, 0, p.cursor) = RowsOf(rows, 0, p.cursor)
      /\ EntriesOf(rows \o more, 0, p.cursor) = EntriesOf(rows, 0, p.cursor)
    BY <1>1, <1>2, EntriesOfPrefix
<1> QED
    BY <1>1, <1>2, <1>3 DEF PartialOf

\* The chunk that a rebuild adds, and what it then holds.
LEMMA ChunkOfPartial ==
    ASSUME TypeOK, NEW p \in Bookkeeping, PartialOf(p, records, rebuild), p.cursor < p.targetMax,
           NEW q, q = [p EXCEPT !.cursor  = ChunkEnd(p.cursor, p.targetMax),
                                !.indexed = p.indexed + SearchableRows(p.cursor, ChunkEnd(p.cursor, p.targetMax))]
    PROVE  PartialOf(q, records, rebuild \cup Entries(p.cursor, ChunkEnd(p.cursor, p.targetMax)))
<1> DEFINE end == ChunkEnd(p.cursor, p.targetMax)
<1>1. p.cursor \in Nat /\ p.targetMax \in Nat
    BY DEF Bookkeeping
<1>2. end \in Nat /\ end <= p.targetMax /\ p.cursor <= end
    BY <1>1, BoundsAssumption DEF ChunkEnd
<1> HIDE DEF end
<1>3. /\ EntriesOf(records, 0, end) = EntriesOf(records, 0, p.cursor) \cup EntriesOf(records, p.cursor, end)
      /\ RowsOf(records, 0, end) = RowsOf(records, 0, p.cursor) + RowsOf(records, p.cursor, end)
    BY <1>1, <1>2, EntriesOfChunk DEF TypeOK
<1>4. q = [p EXCEPT !.cursor = end, !.indexed = p.indexed + RowsOf(records, p.cursor, end)]
    BY EntriesAre DEF end
<1>5. /\ q.guard = p.guard /\ q.targetMax = p.targetMax /\ q.targetRows = p.targetRows
      /\ q.cursor = end /\ q.indexed = p.indexed + RowsOf(records, p.cursor, end)
    BY <1>4 DEF Bookkeeping
<1>6. Entries(p.cursor, end) = EntriesOf(records, p.cursor, end)
    BY EntriesAre
<1>7. PartialOf(q, records, rebuild \cup Entries(p.cursor, end))
    BY <1>2, <1>3, <1>5, <1>6 DEF PartialOf
<1> QED
    BY <1>7 DEF end

LEMMA ResetKeysAreDistinct ==
    \A n, m \in 1..5 : ResetKeys[n] = ResetKeys[m] => n = m
BY DEF ResetKeys

\* The five keys that a fresh rebuild has written are those of its plan.
LEMMA ResetIsPlan ==
    ASSUME TypeOK, PlanInv, ResetKey(5)
    PROVE  kept' = plan
<1>1. pc = ResetKeys[5] /\ kept' = [kept EXCEPT !["indexed"] = plan["indexed"]]
    BY DEF ResetKey, ResetKeys
<1>2. \A m \in 1..4 : kept[ResetKeys[m]] = plan[ResetKeys[m]]
    BY <1>1 DEF PlanInv
<1>3. /\ kept["guard"] = plan["guard"] /\ kept["targetMax"] = plan["targetMax"]
      /\ kept["targetRows"] = plan["targetRows"] /\ kept["cursor"] = plan["cursor"]
    <2>1. 1 \in 1..4 /\ 2 \in 1..4 /\ 3 \in 1..4 /\ 4 \in 1..4
        OBVIOUS
    <2>2. ResetKeys[1] = "guard" /\ ResetKeys[2] = "targetMax" /\ ResetKeys[3] = "targetRows"
          /\ ResetKeys[4] = "cursor"
        BY DEF ResetKeys
    <2> QED
        BY <1>2, <2>1, <2>2
<1> QED
    BY <1>1, <1>3 DEF TypeOK, Bookkeeping

LEMMA PartialStep ==
    ASSUME TypeOK, SearchInv, Next, ~InterruptedResets, ~ClearsPartial
    PROVE  PartialInv'
<1> USE DEF SearchInv, PartialInv, data, index, table, Goto
<1>1. CASE \/ \E f \in Files : StartImport(f)
           \/ InsertBatch \/ RollbackImport \/ LogImport \/ StartIndex
           \/ StartRepair \/ ChooseIndex
    <2>1. UNCHANGED <<records, table, kept>> /\ pc \notin Resetting
        BY <1>1, ResetKeysByPosition DEF StartImport, InsertBatch, RollbackImport, LogImport,
            StartIndex, StartRepair, ChooseIndex
    <2> QED
        BY <2>1
<1>2. CASE IndexChunk \/ FinishBuild \/ VerifySource \/ FailBuild \/ Cancel \/ ForeignCommit
    <2>1. UNCHANGED <<records, table, kept>> /\ pc \notin Resetting
        BY <1>2, ResetKeysByPosition DEF IndexChunk, FinishBuild, VerifySource, FailBuild, Cancel,
            ForeignCommit, Building
    <2> QED
        BY <2>1
<1>3. CASE CommitImport
    <2>1. records' = records \o added /\ UNCHANGED <<table, kept>> /\ pc = "import"
        BY <1>3 DEF CommitImport
    <2>2. rebuildTable => PartialOf(kept, records, rebuild)
        BY <2>1, ResetKeysByPosition
    <2>3. rebuildTable => PartialOf(kept, records \o added, rebuild)
        BY <2>2, PartialOfPrefix DEF TypeOK
    <2> QED
        BY <2>1, <2>3
<1>4. CASE PlanRebuild
    <2>1. pc \notin Resetting /\ UNCHANGED <<records, kept>> /\ (rebuildTable' => UNCHANGED table)
        BY <1>4, ResetKeysByPosition DEF PlanRebuild
    <2> QED
        BY <2>1
<1>5. CASE CreateTable
    <2>1. pc' \in Resetting
        BY <1>5, ResetKeysByPosition DEF CreateTable, ResetKeys
    <2> QED
        BY <2>1
<1>6. CASE \E n \in DOMAIN ResetKeys : ResetKey(n)
    <2>1. PICK n \in 1..5 : ResetKey(n)
        BY <1>6, ResetKeysByPosition
    <2>2. CASE n < 5
        <3>1. pc' = ResetKeys[n + 1] /\ n + 1 \in DOMAIN ResetKeys
            BY <2>1, <2>2, ResetKeysByPosition DEF ResetKey
        <3>2. pc' \in Resetting
            BY <3>1 DEF Resetting, ToSet
        <3> QED
            BY <3>2
    <2>3. CASE n = 5
        <3>1. ResetKey(5)
            BY <2>1, <2>3
        <3>2. kept' = plan
            BY <3>1, ResetIsPlan
        <3>3. pc \in Resetting /\ UNCHANGED <<records, table>>
            BY <3>1, ResetKeysByPosition DEF ResetKey, ResetKeys
        <3>4. /\ plan.guard = Guard /\ plan.targetMax = Len(records)
              /\ plan.targetRows = RowsOf(records, 0, Len(records))
              /\ plan.cursor = 0 /\ plan.indexed = 0 /\ rebuild = {}
            BY <3>3 DEF PlanInv
        <3>5. EntriesOf(records, 0, 0) = {} /\ RowsOf(records, 0, 0) = 0 /\ Len(records) \in Nat
            BY NoEntries, LenProperties DEF TypeOK
        <3>6. PartialOf(plan, records, rebuild)
            BY <3>4, <3>5 DEF PartialOf, Guard
        <3> QED
            BY <3>2, <3>3, <3>6
    <2> QED
        BY <2>2, <2>3
<1>7. CASE BuildChunk
    <2> DEFINE end == ChunkEnd(plan.cursor, plan.targetMax)
               q   == [plan EXCEPT !.cursor = end, !.indexed = plan.indexed + SearchableRows(plan.cursor, end)]
    <2>1. pc = "build" /\ plan = kept /\ rebuildTable /\ plan \in Bookkeeping
        BY <1>7 DEF BuildChunk, PlanInv, Building, TypeOK
    <2>2. PartialOf(plan, records, rebuild) /\ plan.cursor < plan.targetMax
        BY <1>7, <2>1, ResetKeysByPosition DEF BuildChunk
    <2>3. PartialOf(q, records, rebuild \cup Entries(plan.cursor, end))
        BY <2>1, <2>2, ChunkOfPartial
    <2>4. kept' = q /\ rebuild' = rebuild \cup Entries(plan.cursor, end) /\ records' = records
        BY <1>7, <2>1 DEF BuildChunk
    <2> HIDE DEF q, end
    <2> QED
        BY <2>3, <2>4
<1>8. CASE Swap \/ Discard
    BY <1>8 DEF Swap, Discard
<1>9. CASE Forget
    BY <1>9 DEF Forget, PlanInv
<1>10. CASE Clear
    BY <1>10 DEF Clear
<1>11. CASE Crash
    <2>1. UNCHANGED <<records, table, kept>> /\ pc \notin Resetting
        BY <1>11 DEF Crash
    <2> QED
        BY <2>1
<1> QED
    BY <1>1, <1>2, <1>3, <1>4, <1>5, <1>6, <1>7, <1>8, <1>9, <1>10, <1>11 DEF Next, Work, Step

LEMMA IndexStep ==
    ASSUME TypeOK, SearchInv, Next
    PROVE  IndexInv'
<1> USE DEF SearchInv, IndexInv, data, index, table, Goto
<1>1. CASE \/ \E f \in Files : StartImport(f)
           \/ InsertBatch \/ RollbackImport \/ LogImport \/ StartIndex
           \/ StartRepair \/ ChooseIndex
    BY <1>1 DEF StartImport, InsertBatch, RollbackImport, LogImport, StartIndex,
        StartRepair, ChooseIndex
<1>2. CASE FinishBuild \/ VerifySource \/ FailBuild \/ Cancel \/ ForeignCommit \/ Discard \/ Forget
    BY <1>2 DEF FinishBuild, VerifySource, FailBuild, Cancel, ForeignCommit, Discard, Forget
<1>3. CASE PlanRebuild \/ CreateTable \/ BuildChunk \/ Crash \/ \E n \in DOMAIN ResetKeys : ResetKey(n)
    BY <1>3 DEF PlanRebuild, CreateTable, BuildChunk, Crash, ResetKey
<1>4. CASE CommitImport
    <2>1. records' = records \o added /\ UNCHANGED index
        BY <1>4 DEF CommitImport
    <2>2. watermark \in Nat /\ Len(records) \in Nat /\ Len(added) \in Nat
          /\ Len(records \o added) = Len(records) + Len(added)
        BY LenProperties, ConcatProperties DEF TypeOK
    <2>3. watermark <= Len(records) =>
            EntriesOf(records \o added, 0, watermark) = EntriesOf(records, 0, watermark)
        BY <2>2, EntriesOfPrefix DEF TypeOK
    <2> QED
        BY <2>1, <2>2, <2>3
<1>5. CASE IndexChunk
    <2> DEFINE end == ChunkEnd(watermark, Len(records))
    <2>1. current /\ UNCHANGED <<current, records>>
        BY <1>5 DEF IndexChunk, PlanInv
    <2>2. CASE watermark >= Len(records)
        BY <1>5, <2>1, <2>2 DEF IndexChunk
    <2>3. CASE ~(watermark >= Len(records))
        <3>1. watermark \in Nat /\ Len(records) \in Nat
            BY LenProperties DEF TypeOK
        <3>2. end \in Nat /\ watermark <= end /\ end <= Len(records)
            BY <2>3, <3>1, BoundsAssumption DEF ChunkEnd
        <3>3. live' = live \cup Entries(watermark, end) /\ watermark' = end
            BY <1>5, <2>3 DEF IndexChunk
        <3> HIDE DEF end
        <3>4. EntriesOf(records, 0, end) = EntriesOf(records, 0, watermark) \cup EntriesOf(records, watermark, end)
            BY <3>1, <3>2, EntriesOfChunk DEF TypeOK
        <3>5. live' = EntriesOf(records, 0, end)
            BY <2>1, <3>3, <3>4, EntriesAre
        <3> QED
            BY <2>1, <3>2, <3>3, <3>5
    <2> QED
        BY <2>2, <2>3
<1>6. CASE Swap
    <2>1. CASE sourceChanged
        BY <1>6, <2>1 DEF Swap
    <2>2. CASE ~sourceChanged
        <3>1. /\ plan = kept /\ rebuildTable /\ kept.guard = Guard /\ plan.cursor = plan.targetMax
              /\ pc \notin Resetting
            BY <1>6, ResetKeysByPosition DEF Swap, PlanInv, Building
        <3>2. rebuild = EntriesOf(records, 0, plan.targetMax) /\ plan.targetMax = Len(records)
            BY <3>1 DEF PartialInv, PartialOf, Guard
        <3>3. /\ live' = rebuild /\ watermark' = plan.targetMax /\ current' = TRUE
              /\ records' = records
            BY <1>6, <2>2 DEF Swap
        <3>4. Len(records) \in Nat
            BY LenProperties DEF TypeOK
        <3> QED
            BY <3>2, <3>3, <3>4
    <2> QED
        BY <2>1, <2>2
<1>7. CASE Clear
    <2>1. records' = <<>> /\ live' = {} /\ watermark' = 0
        BY <1>7 DEF Clear
    <2>2. EntriesOf(<<>>, 0, 0) = {}
        BY DEF EntriesOf
    <2> QED
        BY <2>1, <2>2
<1> QED
    BY <1>1, <1>2, <1>3, <1>4, <1>5, <1>6, <1>7 DEF Next, Work, Step

LEMMA PlanStep ==
    ASSUME TypeOK, SearchInv, Next
    PROVE  PlanInv'
<1> USE DEF SearchInv, data, index, table, Goto
<1>1. Resetting = {ResetKeys[n] : n \in 1..5}
    BY ResetKeysByPosition DEF Resetting, ToSet
<1>2. ASSUME pc' \in {"idle", "import", "index", "log", "repair"}
      PROVE  PlanInv'
    <2>1. pc' \notin Building /\ pc' \notin Resetting /\ pc' # "chunk"
          /\ pc' # "forget" /\ pc' # "create"
        BY <1>2, ResetKeysByPosition DEF Building
    <2>2. \A n \in 1..5 : pc' # ResetKeys[n]
        BY <1>1, <2>1
    <2> QED
        BY <2>1, <2>2 DEF PlanInv
<1>3. CASE \/ \E f \in Files : StartImport(f)
           \/ InsertBatch \/ CommitImport \/ RollbackImport \/ LogImport \/ StartIndex
           \/ StartRepair \/ Clear \/ Crash
    <2>1. pc' \in {"idle", "import", "index", "log", "repair"}
        BY <1>3 DEF StartImport, InsertBatch, CommitImport, RollbackImport, LogImport, StartIndex,
            StartRepair, Clear, Crash
    <2> QED
        BY <1>2, <2>1
<1>4. CASE Swap \/ Forget \/ Cancel
    <2>1. pc' \in {"idle", "log"}
        BY <1>4 DEF Swap, Forget, Cancel, AfterIndex
    <2> QED
        BY <1>2, <2>1
<1>5. CASE ChooseIndex
    <2>1. pc' = IF current THEN "chunk" ELSE "repair"
        BY <1>5 DEF ChooseIndex
    <2>2. current' = current
        BY <1>5 DEF ChooseIndex
    <2>3. pc' \notin Building /\ pc' \notin Resetting
        BY <2>1, <2>2, ResetKeysByPosition DEF Building
    <2>4. \A n \in 1..5 : pc' # ResetKeys[n]
        BY <1>1, <2>3
    <2> QED
        BY <2>1, <2>2, <2>3, <2>4 DEF PlanInv
<1>6. CASE IndexChunk
    <2>1. pc' \in {"idle", "log"} \/ (pc' = pc /\ pc = "chunk" /\ current' = current)
        BY <1>6 DEF IndexChunk, AfterIndex
    <2>2. CASE pc' = pc /\ pc = "chunk" /\ current' = current
        <3>1. pc' \notin Building /\ pc' \notin Resetting
            BY <2>2, ResetKeysByPosition DEF Building
        <3>2. \A n \in 1..5 : pc' # ResetKeys[n]
            BY <1>1, <3>1
        <3> QED
            BY <2>2, <3>1, <3>2 DEF PlanInv
    <2> QED
        BY <1>2, <2>1, <2>2
<1>7. CASE PlanRebuild
    <2>1. pc = "repair" /\ UNCHANGED <<current, records, log, kept>>
        BY <1>7 DEF PlanRebuild
    <2>2. CASE CanResume
        <3>1. pc' = "build" /\ plan' = kept /\ rebuildTable' = rebuildTable /\ rebuildTable /\ kept.guard = Guard
            BY <1>7, <2>2 DEF PlanRebuild, CanResume
        <3>2. Guard' = Guard
            BY <2>1 DEF Guard
        <3>3. pc' \notin Resetting /\ \A n \in 1..5 : pc' # ResetKeys[n]
            BY <1>1, <3>1, ResetKeysByPosition
        <3> QED
            BY <2>1, <3>1, <3>2, <3>3 DEF PlanInv
    <2>3. CASE ~CanResume
        <3>1. pc' = "create" /\ plan' = FreshPlan /\ rebuild' = {}
            BY <1>7, <2>3 DEF PlanRebuild
        <3>2. Guard' = Guard
            BY <2>1 DEF Guard
        <3>3. pc' \notin Resetting \cup Building /\ \A n \in 1..5 : pc' # ResetKeys[n]
            BY <1>1, <3>1, ResetKeysByPosition DEF Building
        <3>4. /\ plan'.guard = Guard /\ plan'.targetMax = Len(records)
              /\ plan'.targetRows = RowsOf(records, 0, Len(records))
              /\ plan'.cursor = 0 /\ plan'.indexed = 0
            BY <3>1, EntriesAre DEF FreshPlan
        <3> QED
            BY <2>1, <3>1, <3>2, <3>3, <3>4 DEF PlanInv
    <2> QED
        BY <2>2, <2>3
<1>8. CASE CreateTable
    <2>1. /\ pc = "create" /\ pc' = ResetKeys[1] /\ rebuildTable' = TRUE
          /\ UNCHANGED <<current, records, log, rebuild, plan>>
        BY <1>8 DEF CreateTable
    <2>2. pc \in {"create"} \cup Resetting
        BY <2>1
    <2>3. pc' \notin Building \cup {"forget", "chunk"}
        BY <2>1 DEF ResetKeys, Building
    <2>4. ASSUME NEW n \in 1..5, pc' = ResetKeys[n] PROVE n = 1
        BY <2>1, <2>4 DEF ResetKeys
    <2>5. Guard' = Guard
        BY <2>1 DEF Guard
    <2>6. pc' \in Resetting
        BY <2>1, ResetKeysByPosition DEF ResetKeys
    <2>7. /\ plan'.guard = Guard' /\ plan'.targetMax = Len(records')
          /\ plan'.targetRows = RowsOf(records', 0, Len(records'))
          /\ plan'.cursor = 0 /\ plan'.indexed = 0 /\ rebuild' = {}
        BY <2>1, <2>2, <2>5 DEF PlanInv
    <2>8. \A n \in 1..5 : pc' = ResetKeys[n] => \A m \in 1..(n - 1) : kept'[ResetKeys[m]] = plan'[ResetKeys[m]]
        BY <2>4
    <2> QED
        BY <2>1, <2>2, <2>3, <2>6, <2>7, <2>8 DEF PlanInv
<1>9. CASE \E n \in DOMAIN ResetKeys : ResetKey(n)
    <2>1. PICK n \in 1..5 : ResetKey(n)
        BY <1>9, ResetKeysByPosition
    <2>2. /\ pc = ResetKeys[n] /\ kept' = [kept EXCEPT ![pc] = plan[pc]]
          /\ UNCHANGED <<current, records, log, rebuildTable, rebuild, plan>>
        BY <2>1 DEF ResetKey
    <2>3. pc \in Resetting
        BY <1>1, <2>2
    <2>4. /\ rebuildTable
          /\ plan.guard = Guard /\ plan.targetMax = Len(records)
          /\ plan.targetRows = RowsOf(records, 0, Len(records))
          /\ plan.cursor = 0 /\ plan.indexed = 0 /\ rebuild = {}
        BY <2>3 DEF PlanInv
    <2>5. Guard' = Guard
        BY <2>2 DEF Guard
    <2>6. CASE n < 5
        <3>1. pc' = ResetKeys[n + 1] /\ n + 1 \in 1..5
            BY <2>1, <2>6, ResetKeysByPosition DEF ResetKey
        <3>2. pc' \in Resetting
            BY <1>1, <3>1
        <3>3. pc' \notin Building \cup {"forget", "chunk"}
            BY <3>2, ResetKeysByPosition DEF Building
        <3>4. pc \in DOMAIN kept
            BY <2>3, ResetKeysByPosition DEF TypeOK, Bookkeeping
        <3>5. ASSUME NEW m \in 1..n PROVE kept'[ResetKeys[m]] = plan[ResetKeys[m]]
            <4>1. CASE m = n
                BY <2>2, <3>4, <4>1
            <4>2. CASE m # n
                <5>1. m \in 1..(n - 1) /\ ResetKeys[m] # pc
                    BY <2>2, <4>2, ResetKeysAreDistinct
                <5>2. kept[ResetKeys[m]] = plan[ResetKeys[m]]
                    BY <2>2, <5>1 DEF PlanInv
                <5>3. ResetKeys[m] \in DOMAIN kept
                    <6>1. ResetKeys[m] \in {"guard", "targetMax", "targetRows", "cursor", "indexed"}
                        BY <1>1, ResetKeysByPosition
                    <6> QED
                        BY <6>1 DEF TypeOK, Bookkeeping
                <5> QED
                    BY <2>2, <5>1, <5>2, <5>3
            <4> QED
                BY <4>1, <4>2
        <3>6. \A k \in 1..5 : pc' = ResetKeys[k] => \A m \in 1..(k - 1) : kept'[ResetKeys[m]] = plan'[ResetKeys[m]]
            <4>1. \A k \in 1..5 : pc' = ResetKeys[k] => k = n + 1
                BY <3>1, ResetKeysAreDistinct
            <4> QED
                BY <2>2, <3>5, <4>1
        <3> QED
            BY <2>2, <2>4, <2>5, <3>2, <3>3, <3>6 DEF PlanInv
    <2>7. CASE n = 5
        <3>1. ResetKey(5)
            BY <2>1, <2>7
        <3>2. kept' = plan
            BY <3>1, ResetIsPlan
        <3>3. pc' = "build"
            BY <3>1, ResetKeysByPosition DEF ResetKey
        <3>4. pc' \notin Resetting /\ \A k \in 1..5 : pc' # ResetKeys[k]
            BY <1>1, <3>3, ResetKeysByPosition
        <3> QED
            BY <2>2, <2>4, <2>5, <3>2, <3>3, <3>4 DEF PlanInv
    <2> QED
        BY <2>6, <2>7
<1>10. CASE BuildChunk \/ FinishBuild \/ VerifySource \/ ForeignCommit
    <2>1. /\ pc \in Building /\ pc' \in Building \cup {"discard"}
          /\ UNCHANGED <<current, records, log, rebuildTable>>
        BY <1>10 DEF BuildChunk, FinishBuild, VerifySource, ForeignCommit, Building
    <2>2. plan = kept /\ rebuildTable /\ kept.guard = Guard
        BY <2>1 DEF PlanInv
    <2>3. Guard' = Guard
        BY <2>1 DEF Guard
    <2>4. plan' = kept' /\ kept'.guard = kept.guard
        BY <1>10, <2>2 DEF BuildChunk, FinishBuild, VerifySource, ForeignCommit, TypeOK, Bookkeeping
    <2>5. pc' \in Building \ {"build"} => plan'.cursor = plan'.targetMax
        <3>1. CASE BuildChunk
            BY <3>1 DEF BuildChunk
        <3>2. CASE FinishBuild
            <4>1. pc = "build" /\ plan.cursor >= plan.targetMax /\ plan' = plan
                BY <3>2 DEF FinishBuild
            <4>2. PartialOf(plan, records, rebuild)
                BY <2>2, <4>1, ResetKeysByPosition DEF PartialInv
            <4>3. plan.cursor <= plan.targetMax /\ plan.cursor \in Nat /\ plan.targetMax \in Nat
                BY <4>2 DEF PartialOf, TypeOK, Bookkeeping
            <4> QED
                BY <4>1, <4>3
        <3>3. CASE VerifySource \/ ForeignCommit
            <4>1. plan' = plan /\ (pc' \in Building \ {"build"} => pc \in Building \ {"build"})
                BY <2>1, <3>3 DEF VerifySource, ForeignCommit, Building
            <4> QED
                BY <4>1 DEF PlanInv
        <3> QED
            BY <1>10, <3>1, <3>2, <3>3
    <2>6. pc' \notin Resetting \cup {"chunk", "forget", "create"} /\ \A n \in 1..5 : pc' # ResetKeys[n]
        BY <1>1, <2>1, ResetKeysByPosition DEF Building
    <2> QED
        BY <2>1, <2>2, <2>3, <2>4, <2>5, <2>6 DEF PlanInv, Building
<1>11. CASE FailBuild \/ Discard
    <2>1. /\ pc' \in {"discard", "forget"}
          /\ (pc' = "forget" => ~rebuildTable')
        BY <1>11 DEF FailBuild, Discard
    <2>2. pc' \notin Resetting \cup Building /\ \A n \in 1..5 : pc' # ResetKeys[n]
        BY <1>1, <2>1, ResetKeysByPosition DEF Building
    <2> QED
        BY <2>1, <2>2 DEF PlanInv
<1> QED
    BY <1>3, <1>4, <1>5, <1>6, <1>7, <1>8, <1>9, <1>10, <1>11 DEF Next, Work, Step

LEMMA NextSearched ==
    ASSUME TypeOK, SearchInv, [Next]_vars, ~InterruptedResets, ~ClearsPartial
    PROVE  SearchInv'
<1>1. CASE Next
    BY <1>1, PartialStep, IndexStep, PlanStep DEF SearchInv
<1>2. CASE UNCHANGED vars
    BY <1>2 DEF SearchInv, PartialInv, IndexInv, PlanInv, Guard, vars, data, index, table
<1> QED
    BY <1>1, <1>2

LEMMA SearchedIsExact ==
    ASSUME TypeOK, SearchInv
    PROVE  IndexExact /\ ResumeExact
<1>1. IndexExact
    BY EntriesAre DEF SearchInv, IndexInv, IndexExact
<1>2. ASSUME Resumable PROVE PartialOf(kept, records, rebuild) /\ kept.targetMax = Len(records)
    <2>1. PartialOf(kept, records, rebuild) /\ kept.guard = Guard
        BY <1>2 DEF Resumable, CanResume, SearchInv, PartialInv
    <2> QED
        BY <2>1 DEF PartialOf, Guard
<1>3. ResumeExact
    <2>1. /\ Entries(0, kept.cursor) = EntriesOf(records, 0, kept.cursor)
          /\ SearchableRows(0, Len(records)) = RowsOf(records, 0, Len(records))
        BY EntriesAre
    <2> QED
        BY <1>2, <2>1 DEF ResumeExact, PartialOf, RowsOf
<1> QED
    BY <1>1, <1>3
----------------------------------------------------------------------------
(* The owners of rows.                                                     *)

SameBefore(rows, i) == {k \in 1..(i - 1) : rows[k].text = rows[i].text}

OwnerIn(rows, i) == IF SameBefore(rows, i) = {} THEN 0 ELSE Min(SameBefore(rows, i))

\* The first row of each content is searchable.
Firsts(rows) == \A i \in 1..Len(rows) : SameBefore(rows, i) = {} => rows[i].owner = 0

\* The rows after the n-th have the owner they should have.
OwnedAfter(rows, n) == \A i \in (n + 1)..Len(rows) : rows[i].owner = OwnerIn(rows, i)

OwnersInv ==
    /\ Firsts(records)
    /\ Firsts(records \o added)
    /\ OwnedAfter(records \o added, Len(records))

LEMMA LeastIsUnique ==
    ASSUME NEW S \in SUBSET Nat, NEW m \in S, \A y \in S : m <= y
    PROVE  Min(S) = m
<1>1. Min(S) \in S /\ \A y \in S : Min(S) <= y
    BY LeastIsNatural
<1>2. Min(S) \in Nat /\ m \in Nat /\ Min(S) <= m /\ m <= Min(S)
    BY <1>1
<1> QED
    BY <1>2

\* Rows of the same content keep what is before them when rows are added at the end.
LEMMA SameBeforePrefix ==
    ASSUME NEW rows \in Seq(Row), NEW more \in Seq(Row), NEW i \in 1..Len(rows)
    PROVE  SameBefore(rows \o more, i) = SameBefore(rows, i) /\ (rows \o more)[i] = rows[i]
<1> DEFINE all == rows \o more
<1>1. Len(rows) \in Nat /\ Len(more) \in Nat /\ \A k \in 1..Len(rows) : all[k] = rows[k]
    BY LenProperties, ConcatProperties
<1> HIDE DEF all
<1>2. all[i] = rows[i] /\ \A k \in 1..(i - 1) : all[k] = rows[k]
    BY <1>1
<1>3. SameBefore(all, i) = SameBefore(rows, i)
    BY <1>2 DEF SameBefore
<1> QED
    BY <1>2, <1>3 DEF all

\* The owner that a row of a batch is given.
LEMMA InsertedOwner ==
    ASSUME NEW rows \in Seq(Row), Firsts(rows), NEW batch \in Seq(Texts), NEW k \in 1..Len(batch)
    PROVE  LET all == rows \o Inserted(rows, batch)
               i   == Len(rows) + k
           IN  all[i].owner = OwnerIn(all, i)
<1> DEFINE all    == rows \o Inserted(rows, batch)
           i      == Len(rows) + k
           known  == Canonicals(rows, batch[k])
           earlier == {Len(rows) + j : j \in {j \in 1..(k - 1) : batch[j] = batch[k]}}
           same   == SameBefore(all, i)
           S      == known \cup earlier
<1>1. /\ Len(rows) \in Nat /\ Len(batch) \in Nat /\ k \in Nat
      /\ DOMAIN rows = 1..Len(rows) /\ DOMAIN batch = 1..Len(batch)
    BY LenProperties
<1>2. Inserted(rows, batch) \in Seq(Row) /\ Len(Inserted(rows, batch)) = Len(batch)
    BY InsertedTyped
<1>3. /\ \A j \in 1..Len(rows) : all[j] = rows[j]
      /\ \A j \in 1..Len(batch) : all[Len(rows) + j] = Inserted(rows, batch)[j]
    <2>1. \A j \in 1..Len(rows) + Len(batch) :
            all[j] = IF j <= Len(rows) THEN rows[j] ELSE Inserted(rows, batch)[j - Len(rows)]
        BY <1>2, ConcatProperties
    <2>2. /\ \A j \in 1..Len(rows) : j \in 1..(Len(rows) + Len(batch)) /\ j <= Len(rows)
          /\ \A j \in 1..Len(batch) : /\ Len(rows) + j \in 1..(Len(rows) + Len(batch))
                                      /\ ~(Len(rows) + j <= Len(rows))
                                      /\ (Len(rows) + j) - Len(rows) = j
        BY <1>1
    <2> HIDE DEF all
    <2> QED
        BY <2>1, <2>2
<1>4. \A j \in 1..Len(batch) : all[Len(rows) + j].text = batch[j]
    <2>1. \A j \in 1..Len(batch) : Inserted(rows, batch)[j].text = batch[j]
        BY <1>1 DEF Inserted
    <2> HIDE DEF all
    <2> QED
        BY <1>3, <2>1
<1>5. all[i].owner = IF S = {} THEN 0 ELSE Min(S)
    <2>1. all[i] = Inserted(rows, batch)[k]
        <3> HIDE DEF all
        <3> QED
            BY <1>3
    <2>2. Inserted(rows, batch)[k] = [text |-> batch[k], owner |-> IF S = {} THEN 0 ELSE Min(S)]
        BY <1>1, Zenon DEF Inserted
    <2> HIDE DEF S, all
    <2> QED
        BY <2>1, <2>2
<1>6. all[i].text = batch[k]
    BY <1>4
<1> HIDE DEF all
<1>7. same = {j \in 1..Len(rows) : rows[j].text = batch[k]} \cup earlier
    <2>1. ASSUME NEW j \in 1..(i - 1), all[j].text = all[i].text
          PROVE  (j \in 1..Len(rows) /\ rows[j].text = batch[k]) \/ j \in earlier
        <3>1. CASE j <= Len(rows)
            BY <1>1, <1>3, <1>6, <2>1, <3>1
        <3>2. CASE j > Len(rows)
            <4>1. j - Len(rows) \in 1..(k - 1) /\ j = Len(rows) + (j - Len(rows))
                BY <1>1, <3>2
            <4>2. batch[j - Len(rows)] = batch[k]
                BY <1>1, <1>4, <1>6, <2>1, <4>1
            <4> QED
                BY <4>1, <4>2
        <3> QED
            BY <1>1, <3>1, <3>2
    <2>2. ASSUME NEW j \in 1..Len(rows), rows[j].text = batch[k] PROVE j \in same
        BY <1>1, <1>3, <1>6, <2>2 DEF SameBefore
    <2>3. ASSUME NEW j \in 1..(k - 1), batch[j] = batch[k] PROVE Len(rows) + j \in same
        BY <1>1, <1>4, <1>6, <2>3 DEF SameBefore
    <2>4. same = {j \in 1..(i - 1) : all[j].text = all[i].text}
        BY DEF SameBefore
    <2> QED
        BY <2>1, <2>2, <2>3, <2>4
<1>8. S \subseteq same
    <2>1. \A j \in known : j \in 1..Len(rows) /\ rows[j].text = batch[k]
        BY <1>1 DEF Canonicals
    <2> HIDE DEF same, known, earlier
    <2> QED
        BY <1>7, <2>1
<1>9. CASE same = {}
    <2>1. OwnerIn(all, i) = 0
        BY <1>9 DEF OwnerIn
    <2>2. S = {}
        BY <1>8, <1>9
    <2> HIDE DEF S
    <2> QED
        BY <1>5, <2>1, <2>2 DEF all
<1>10. CASE same # {}
    <2>1. same \in SUBSET Nat
        BY <1>1 DEF SameBefore
    <2> DEFINE m == Min(same)
    <2>2. m \in same /\ \A y \in same : m <= y
        <3> HIDE DEF same
        <3> QED
            BY <1>10, <2>1, LeastIsNatural
    <2> HIDE DEF m
    <2>3. m \in S
        <3>1. CASE m \in earlier
            BY <3>1
        <3>2. CASE m \in 1..Len(rows) /\ rows[m].text = batch[k]
            <4>1. SameBefore(rows, m) = {}
                <5>1. ASSUME NEW j \in 1..(m - 1), rows[j].text = rows[m].text PROVE FALSE
                    <6>1. j \in same /\ j < m /\ j \in Nat /\ m \in Nat
                        BY <1>1, <1>7, <3>2, <5>1
                    <6> QED
                        BY <2>2, <6>1
                <5> QED
                    BY <5>1 DEF SameBefore
            <4>2. rows[m].owner = 0
                BY <3>2, <4>1 DEF Firsts
            <4>3. rows[m] = [text |-> batch[k], owner |-> 0]
                <5>1. rows[m] \in Row
                    BY <3>2, ElementOfSeq
                <5> QED
                    BY <3>2, <4>2, <5>1 DEF Row
            <4> QED
                BY <1>1, <3>2, <4>3 DEF Canonicals
        <3> QED
            BY <1>7, <2>2, <3>1, <3>2
    <2>4. Min(S) = m
        <3>1. S \in SUBSET Nat /\ \A y \in S : m <= y
            BY <1>8, <2>1, <2>2
        <3> HIDE DEF S
        <3> QED
            BY <2>3, <3>1, LeastIsUnique
    <2>5. S # {}
        BY <2>3
    <2>6. OwnerIn(all, i) = m
        BY <1>10 DEF OwnerIn, m
    <2> HIDE DEF S
    <2> QED
        BY <1>5, <2>4, <2>5, <2>6 DEF all
<1> QED
    BY <1>9, <1>10

LEMMA InsertedOwns ==
    ASSUME NEW rows \in Seq(Row), NEW batch \in Seq(Texts), NEW n \in Nat, n <= Len(rows),
           Firsts(rows), OwnedAfter(rows, n)
    PROVE  LET all == rows \o Inserted(rows, batch) IN Firsts(all) /\ OwnedAfter(all, n)
<1> DEFINE more == Inserted(rows, batch)
           all  == rows \o more
<1>1. Len(rows) \in Nat /\ Len(batch) \in Nat /\ more \in Seq(Row) /\ Len(more) = Len(batch)
    BY LenProperties, InsertedTyped
<1>2. Len(all) = Len(rows) + Len(batch)
    BY <1>1, ConcatProperties
<1>3. \A i \in 1..Len(rows) : SameBefore(all, i) = SameBefore(rows, i) /\ all[i] = rows[i]
    BY <1>1, SameBeforePrefix
<1>4. \A k \in 1..Len(batch) : all[Len(rows) + k].owner = OwnerIn(all, Len(rows) + k)
    BY InsertedOwner
<1> HIDE DEF all, more
<1>5. \A i \in (Len(rows) + 1)..Len(all) : all[i].owner = OwnerIn(all, i)
    <2> TAKE i \in (Len(rows) + 1)..Len(all)
    <2>1. i - Len(rows) \in 1..Len(batch) /\ i = Len(rows) + (i - Len(rows))
        BY <1>1, <1>2
    <2> QED
        BY <1>4, <2>1
<1>6. Firsts(all)
    <2>1. ASSUME NEW i \in 1..Len(all), SameBefore(all, i) = {} PROVE all[i].owner = 0
        <3>1. CASE i <= Len(rows)
            BY <1>1, <1>2, <1>3, <2>1, <3>1 DEF Firsts
        <3>2. CASE i > Len(rows)
            BY <1>1, <1>2, <1>5, <2>1, <3>2 DEF OwnerIn
        <3> QED
            BY <1>1, <1>2, <3>1, <3>2
    <2> QED
        BY <2>1 DEF Firsts
<1>7. OwnedAfter(all, n)
    <2>1. ASSUME NEW i \in (n + 1)..Len(all) PROVE all[i].owner = OwnerIn(all, i)
        <3>1. CASE i <= Len(rows)
            <4>1. rows[i].owner = OwnerIn(rows, i) /\ i \in 1..Len(rows)
                BY <1>1, <1>2, <3>1 DEF OwnedAfter
            <4> QED
                BY <1>3, <4>1 DEF OwnerIn
        <3>2. CASE i > Len(rows)
            BY <1>1, <1>2, <1>5, <3>2
        <3> QED
            BY <1>1, <1>2, <3>1, <3>2
    <2> QED
        BY <2>1 DEF OwnedAfter
<1> QED
    BY <1>6, <1>7 DEF all, more

\* Rows appended in two steps are rows appended in one.
LEMMA ConcatOfRows ==
    ASSUME NEW a \in Seq(Row), NEW b \in Seq(Row), NEW c \in Seq(Row)
    PROVE  a \o (b \o c) = (a \o b) \o c
BY ConcatAssociative, SMTT(30)

LEMMA NextOwned ==
    ASSUME TypeOK, OwnersInv, [Next]_vars
    PROVE  OwnersInv'
<1> USE DEF OwnersInv, data, index, table
<1>1. records \in Seq(Row) /\ added \in Seq(Row) /\ Len(records) \in Nat /\ records \o <<>> = records
    BY LenProperties, ConcatEmptySeq DEF TypeOK
<1>2. OwnedAfter(records, Len(records))
    BY <1>1 DEF OwnedAfter
<1>3. CASE UNCHANGED <<records, added>>
    BY <1>3
<1>4. CASE records' = records /\ added' = <<>>
    BY <1>1, <1>2, <1>4
<1>5. CASE InsertBatch
    <2>1. PICK n \in Len(added) + 1..Len(file) :
             added' = added \o Inserted(records \o added, SubSeq(file, Len(added) + 1, n))
        BY <1>5 DEF InsertBatch
    <2> DEFINE rows  == records \o added
               batch == SubSeq(file, Len(added) + 1, n)
    <2>2. Len(added) \in Nat /\ Len(file) \in Nat /\ \A i \in 1..Len(file) : file[i] \in Texts
        BY LenProperties, ElementOfSeq DEF TypeOK
    <2>3. batch \in Seq(Texts)
        BY <2>2, SubSeqProperties
    <2>4. rows \in Seq(Row) /\ Len(records) <= Len(rows)
        BY <1>1, <2>2, ConcatProperties
    <2>5. Inserted(rows, batch) \in Seq(Row)
        BY <2>3, <2>4, InsertedTyped
    <2>6. records \o added' = rows \o Inserted(rows, batch)
        <3>1. added' = added \o Inserted(rows, batch)
            BY <2>1
        <3>2. rows = records \o added
            OBVIOUS
        <3> HIDE DEF rows, batch, OwnersInv
        <3> DEFINE more == Inserted(rows, batch)
        <3>3. more \in Seq(Row)
            BY <2>5
        <3>4. records \o (added \o more) = (records \o added) \o more
            <4> HIDE DEF more
            <4> QED
                BY <1>1, <3>3, ConcatOfRows
        <3> QED
            BY <3>1, <3>2, <3>4
    <2> HIDE DEF batch
    <2>7. Firsts(rows \o Inserted(rows, batch)) /\ OwnedAfter(rows \o Inserted(rows, batch), Len(records))
        <3> HIDE DEF rows
        <3>1. Firsts(rows) /\ OwnedAfter(rows, Len(records))
            BY DEF rows
        <3> QED
            BY <1>1, <2>3, <2>4, <3>1, InsertedOwns
    <2>8. records' = records
        BY <1>5 DEF InsertBatch
    <2> HIDE DEF rows
    <2> QED
        BY <2>6, <2>7, <2>8
<1>6. CASE CommitImport
    <2>1. records' = records \o added /\ added' = <<>>
        BY <1>6 DEF CommitImport
    <2>2. records' \in Seq(Row) /\ Len(records') \in Nat /\ records' \o <<>> = records'
        BY <1>1, <2>1, ConcatProperties, ConcatEmptySeq, LenProperties
    <2>3. OwnedAfter(records', Len(records'))
        BY <2>2 DEF OwnedAfter
    <2> QED
        BY <2>1, <2>2, <2>3
<1>7. CASE Clear
    <2>1. records' = <<>> /\ added' = <<>>
        BY <1>7 DEF Clear, TypeOK
    <2>2. <<>> \in Seq(Row) /\ Len(<<>>) = 0
        OBVIOUS
    <2>3. <<>> \o <<>> = <<>>
        BY <2>2, ConcatEmptySeq
    <2>4. Firsts(<<>>) /\ OwnedAfter(<<>>, 0)
        BY DEF Firsts, OwnedAfter
    <2> QED
        BY <2>1, <2>2, <2>3, <2>4
<1>8. CASE \/ \E f \in Files : StartImport(f)
           \/ LogImport \/ StartIndex \/ StartRepair \/ ChooseIndex \/ IndexChunk
    BY <1>3, <1>8 DEF StartImport, LogImport, StartIndex, StartRepair, ChooseIndex, IndexChunk
<1>9. CASE \/ PlanRebuild \/ CreateTable \/ BuildChunk \/ FinishBuild \/ VerifySource \/ Swap
           \/ Discard \/ Forget \/ FailBuild \/ Cancel \/ ForeignCommit
           \/ \E n \in DOMAIN ResetKeys : ResetKey(n)
    BY <1>3, <1>9 DEF PlanRebuild, CreateTable, BuildChunk, FinishBuild, VerifySource, Swap, Discard,
        Forget, FailBuild, Cancel, ForeignCommit, ResetKey
<1>10. CASE RollbackImport \/ Crash
    BY <1>4, <1>10 DEF RollbackImport, Crash
<1>11. CASE UNCHANGED vars
    BY <1>3, <1>11 DEF vars
<1> QED
    BY <1>5, <1>6, <1>7, <1>8, <1>9, <1>10, <1>11 DEF Next, Work, Step

\* What a step adds to the rows has the owner it should have.
LEMMA OwnedStep ==
    ASSUME TypeOK, OwnersInv, [Next]_vars, NEW i \in DOMAIN records' \ DOMAIN records
    PROVE  LET same == {k \in 1..(i - 1) : records'[k].text = records'[i].text}
           IN  records'[i].owner = IF same = {} THEN 0 ELSE Min(same)
<1>1. CASE CommitImport
    <2>1. records' = records \o added
        BY <1>1 DEF CommitImport
    <2>2. /\ DOMAIN records = 1..Len(records) /\ Len(records) \in Nat
          /\ records' \in Seq(Row) /\ DOMAIN records' = 1..Len(records') /\ Len(records') \in Nat
        <3>1. records \o added \in Seq(Row)
            BY ConcatProperties DEF TypeOK
        <3> QED
            BY <2>1, <3>1, LenProperties DEF TypeOK
    <2>3. i \in (Len(records) + 1)..Len(records')
        BY <2>2
    <2> QED
        BY <2>1, <2>3 DEF OwnersInv, OwnedAfter, OwnerIn, SameBefore
<1>2. ASSUME ~CommitImport PROVE records' = records \/ records' = <<>>
    BY <1>2 DEF Next, Work, Step, StartImport, InsertBatch, LogImport, RollbackImport, StartIndex,
        StartRepair, ChooseIndex, IndexChunk, PlanRebuild, CreateTable, ResetKey, BuildChunk, FailBuild,
        FinishBuild, VerifySource, Swap, Discard, Forget, Cancel, ForeignCommit, Crash, Clear,
        vars, data
<1> QED
    BY <1>1, <1>2
----------------------------------------------------------------------------
(* The import log.  The file of an import is not in the log when it starts *)
(* and nobody else appends; by the time it is logged its rows are there.   *)

\* Every row of file f is among these rows.
Covered(f, rows) == \A k \in 1..Len(f) : \E i \in 1..Len(rows) : rows[i].text = f[k]

LogInv ==
    /\ \A m \in 1..Len(log) : Covered(log[m], records)
    /\ \A m, n \in 1..Len(log) : log[m] = log[n] /\ log[m] # <<>> => m = n
    /\ file # <<>> => \A m \in 1..Len(log) : log[m] # file
    /\ pc = "import" => \A k \in 1..Len(added) : k <= Len(file) /\ added[k].text = file[k]
    /\ pc # "import" => Covered(file, records)
    /\ pc = "log" => file # <<>>

\* Rows that are appended leave a file covered.
LEMMA CoveredPrefix ==
    ASSUME NEW rows \in Seq(Row), NEW more \in Seq(Row), NEW f, Covered(f, rows)
    PROVE  Covered(f, rows \o more)
<1>1. \A i \in 1..Len(rows) : i \in 1..Len(rows \o more) /\ (rows \o more)[i] = rows[i]
    BY ConcatProperties, LenProperties
<1> HIDE DEF Row
<1> QED
    BY <1>1 DEF Covered

\* The rows of a batch have the contents of the file, in order.
LEMMA InsertedTexts ==
    ASSUME NEW rows \in Seq(Row), NEW f \in Seq(Texts), NEW a \in Nat, NEW n \in (a + 1)..Len(f),
           NEW k \in 1..(n - a)
    PROVE  Inserted(rows, SubSeq(f, a + 1, n))[k].text = f[a + k]
<1> DEFINE batch == SubSeq(f, a + 1, n)
<1>1. Len(f) \in Nat /\ \A i \in 1..Len(f) : f[i] \in Texts
    BY LenProperties, ElementOfSeq
<1>2. batch \in Seq(Texts) /\ Len(batch) = n - a /\ batch[k] = f[a + k]
    BY <1>1, SubSeqProperties
<1>3. k \in DOMAIN batch
    BY <1>1, <1>2, LenProperties
<1> HIDE DEF batch
<1>4. Inserted(rows, batch)[k].text = batch[k]
    BY <1>3 DEF Inserted
<1> QED
    BY <1>2, <1>4 DEF batch

LEMMA NextLogged ==
    ASSUME TypeOK, LogInv, [Next]_vars
    PROVE  LogInv'
<1> USE DEF data, index, table
<1>1. /\ records \in Seq(Row) /\ added \in Seq(Row) /\ file \in Seq(Texts) /\ log \in Seq(Seq(Texts))
      /\ Len(records) \in Nat /\ Len(added) \in Nat /\ Len(file) \in Nat /\ Len(log) \in Nat
      /\ DOMAIN log = 1..Len(log)
      /\ pc = "idle" => file = <<>>
      /\ pc # "import" => added = <<>>
    BY LenProperties DEF TypeOK
\* Steps of an index and its rebuild.
<1>2. CASE UNCHANGED <<records, log, file, added>> /\ pc # "import" /\ pc' # "import"
           /\ (pc' = "log" => file # <<>>)
    BY <1>2 DEF LogInv
\* The job ends.
<1>3. CASE UNCHANGED <<records, log>> /\ file' = <<>> /\ pc' \notin {"import", "log"}
    <2>1. Covered(<<>>, records)
        BY DEF Covered
    <2> QED
        BY <1>3, <2>1 DEF LogInv
<1>4. ASSUME NEW f \in Files, StartImport(f) PROVE LogInv'
    <2>1. \A m \in 1..Len(log) : log[m] # f
        <3>1. f \notin ToSet(log)
            BY <1>4 DEF StartImport, Known
        <3> QED
            BY <1>1, <3>1 DEF ToSet
    <2>2. UNCHANGED <<records, log>> /\ file' = f /\ added' = <<>> /\ pc' = "import"
        BY <1>1, <1>4 DEF StartImport, Goto
    <2> QED
        BY <2>1, <2>2 DEF LogInv
<1>5. CASE InsertBatch
    <2>1. PICK n \in Len(added) + 1..Len(file) :
             added' = added \o Inserted(records \o added, SubSeq(file, Len(added) + 1, n))
        BY <1>5 DEF InsertBatch
    <2> DEFINE rows == records \o added
               new  == Inserted(rows, SubSeq(file, Len(added) + 1, n))
    <2>2. rows \in Seq(Row)
        BY <1>1, ConcatProperties
    <2>3. SubSeq(file, Len(added) + 1, n) \in Seq(Texts) /\ Len(SubSeq(file, Len(added) + 1, n)) = n - Len(added)
        <3>1. \A i \in 1..Len(file) : file[i] \in Texts
            BY <1>1, ElementOfSeq
        <3> QED
            BY <1>1, <3>1, SubSeqProperties
    <2>4. new \in Seq(Row) /\ Len(new) = n - Len(added)
        BY <2>2, <2>3, InsertedTyped
    <2>5. \A k \in 1..(n - Len(added)) : new[k].text = file[Len(added) + k]
        <3>1. Len(added) \in Nat /\ n \in (Len(added) + 1)..Len(file) /\ file \in Seq(Texts)
            BY <1>1
        <3> HIDE DEF rows
        <3> QED
            BY <2>2, <3>1, InsertedTexts
    <2> HIDE DEF new, rows
    <2>6. /\ Len(added \o new) = n
          /\ \A k \in 1..n : (added \o new)[k] = IF k <= Len(added) THEN added[k] ELSE new[k - Len(added)]
        <3>1. added \in Seq(Row) /\ Len(added) \in Nat /\ n \in Nat /\ Len(added) + Len(new) = n
            BY <1>1, <2>1, <2>4
        <3> QED
            BY <2>4, <3>1, ConcatProperties
    <2>7. pc = "import" /\ UNCHANGED <<records, log, file, pc>> /\ added' = added \o new
        BY <1>5, <2>1 DEF InsertBatch, new, rows
    <2>8. \A k \in 1..Len(added') : k <= Len(file) /\ added'[k].text = file[k]
        <3> SUFFICES ASSUME NEW k \in 1..n PROVE k <= Len(file) /\ (added \o new)[k].text = file[k]
            BY <2>6, <2>7
        <3>1. CASE k <= Len(added)
            BY <1>1, <2>6, <2>7, <3>1 DEF LogInv
        <3>2. CASE k > Len(added)
            <4>1. k - Len(added) \in 1..(n - Len(added)) /\ Len(added) + (k - Len(added)) = k
                BY <1>1, <3>2
            <4> QED
                BY <1>1, <2>5, <2>6, <3>2, <4>1
        <3>3. k <= Len(added) \/ k > Len(added)
            <4>1. Len(added) \in Nat /\ k \in Nat
                BY <1>1
            <4> QED
                BY <4>1
        <3> QED
            BY <3>1, <3>2, <3>3
    <2> QED
        BY <2>7, <2>8 DEF LogInv
<1>6. CASE CommitImport
    <2>1. pc = "import" /\ Len(added) = Len(file) /\ records' = records \o added /\ added' = <<>>
          /\ UNCHANGED <<log, file>> /\ pc' = "index"
        BY <1>6 DEF CommitImport, Goto
    <2>2. \A m \in 1..Len(log) : Covered(log[m], records')
        <3> HIDE DEF Row
        <3> QED
            BY <1>1, <2>1, CoveredPrefix DEF LogInv
    <2>3. Covered(file, records')
        <3> SUFFICES ASSUME NEW k \in 1..Len(file)
                     PROVE  \E i \in 1..Len(records \o added) : (records \o added)[i].text = file[k]
            BY <2>1 DEF Covered
        <3>1. added[k].text = file[k]
            BY <2>1 DEF LogInv
        <3>2. /\ Len(records) + k \in 1..Len(records \o added)
              /\ (records \o added)[Len(records) + k] = added[k]
            BY <1>1, <2>1, ConcatProperties
        <3> QED
            BY <3>1, <3>2
    <2> QED
        BY <2>1, <2>2, <2>3 DEF LogInv
<1>7. CASE LogImport
    <2>1. pc = "log" /\ log' = Append(log, file) /\ file' = <<>> /\ pc' = "idle" /\ UNCHANGED records
        BY <1>7 DEF LogImport, Goto
    <2>2. /\ Len(log') = Len(log) + 1
          /\ \A m \in 1..Len(log') : log'[m] = IF m <= Len(log) THEN log[m] ELSE file
        BY <1>1, <2>1, AppendProperties
    <2>3. Covered(file, records) /\ Covered(<<>>, records)
        BY <2>1 DEF LogInv, Covered
    <2> QED
        BY <1>1, <2>1, <2>2, <2>3 DEF LogInv
<1>8. CASE Clear
    <2>1. log' = <<>> /\ file' = <<>> /\ pc' = "idle"
        BY <1>1, <1>8 DEF Clear
    <2>2. Covered(<<>>, records')
        BY DEF Covered
    <2> QED
        BY <2>1, <2>2 DEF LogInv
<1>9. CASE RollbackImport \/ Crash
    BY <1>3, <1>9 DEF RollbackImport, Crash, Goto
<1>10. CASE StartIndex \/ StartRepair \/ ChooseIndex \/ PlanRebuild \/ CreateTable \/ FailBuild \/ FinishBuild
            \/ VerifySource \/ Discard
    BY <1>2, <1>10 DEF StartIndex, StartRepair, ChooseIndex, PlanRebuild, CreateTable, FailBuild, FinishBuild,
        VerifySource, Discard, Goto, ResetKeys
<1>11. CASE IndexChunk \/ Swap \/ Forget \/ Cancel
    BY <1>2, <1>11 DEF IndexChunk, Swap, Forget, Cancel, Goto, AfterIndex, Building
<1>12. CASE BuildChunk \/ ForeignCommit
    BY <1>2, <1>12 DEF BuildChunk, ForeignCommit, Building
<1>13. ASSUME NEW n \in DOMAIN ResetKeys, ResetKey(n) PROVE LogInv'
    <2>1. pc = ResetKeys[n] /\ pc' \in {"build", ResetKeys[n + 1]} /\ (n >= Len(ResetKeys) => pc' = "build")
          /\ UNCHANGED <<records, log, file, added>>
        BY <1>13 DEF ResetKey, Goto, ResetKeys
    <2>2. pc \in {"guard", "targetMax", "targetRows", "cursor", "indexed"}
          /\ pc' \in {"build", "guard", "targetMax", "targetRows", "cursor", "indexed"}
        BY <2>1 DEF ResetKeys
    <2> QED
        BY <1>2, <2>1, <2>2
<1>14. CASE UNCHANGED vars
    BY <1>14 DEF vars, LogInv
<1> QED
    BY <1>4, <1>5, <1>6, <1>7, <1>8, <1>9, <1>10, <1>11, <1>12, <1>13, <1>14 DEF Next, Work, Step

LEMMA LoggedIsHonest == TypeOK /\ LogInv => LogIsHonest
<1> SUFFICES ASSUME TypeOK, LogInv PROVE LogIsHonest
    OBVIOUS
<1>1. log \in Seq(Seq(Texts)) /\ records \in Seq(Row)
    BY DEF TypeOK
<1>2. DOMAIN log = 1..Len(log) /\ DOMAIN records = 1..Len(records)
    BY <1>1, LenProperties
<1>3. ASSUME NEW m \in 1..Len(log), NEW c \in ToSet(log[m])
      PROVE  c \in {records[i].text : i \in DOMAIN records}
    <2>1. log[m] \in Seq(Texts)
        BY <1>1, ElementOfSeq
    <2>2. DOMAIN log[m] = 1..Len(log[m])
        BY <2>1, LenProperties
    <2>3. PICK k \in 1..Len(log[m]) : c = log[m][k]
        BY <2>2 DEF ToSet
    <2>4. Covered(log[m], records)
        BY DEF LogInv
    <2> QED
        BY <1>2, <2>3, <2>4 DEF Covered
<1>4. \A f \in ToSet(log) : \E m \in 1..Len(log) : f = log[m]
    BY <1>2 DEF ToSet
<1>5. \A f \in ToSet(log) : ToSet(f) \subseteq {records[i].text : i \in DOMAIN records}
    <2> SUFFICES ASSUME NEW f \in ToSet(log), NEW c \in ToSet(f)
                 PROVE  c \in {records[i].text : i \in DOMAIN records}
        OBVIOUS
    <2>1. PICK m \in 1..Len(log) : f = log[m]
        BY <1>4
    <2>2. c \in ToSet(log[m])
        BY <2>1
    <2> QED
        BY <1>3, <2>2
<1>6. \A m, n \in DOMAIN log : log[m] = log[n] /\ log[m] # <<>> => m = n
    BY <1>2 DEF LogInv
<1> QED
    BY <1>5, <1>6 DEF LogIsHonest
----------------------------------------------------------------------------
(* The upgrade.                                                            *)

\* Nothing of the migration is left to do for the rows.
Complete == schema.columns = "all" /\ ~schema.pending /\ schema.stale = {} /\ schema.untyped = {}

Forgotten == ToSet(log) \subseteq {<<>>}

\* What holds of the table, whatever open is doing.
TableInv ==
    /\ schema.version = CurrentVersion => Complete
    /\ schema.table = "none" => Complete /\ log = <<>>
    /\ schema.columns # "legacy" /\ ~schema.pending => schema.stale = {}
    /\ schema.columns = "legacy" => schema.version < 2
    /\ schema.columns # "legacy" /\ schema.version >= 5 => schema.untyped = {}
    /\ stage # "open" /\ before.schema.version # CurrentVersion /\ schema.version = CurrentVersion
         => Forgotten

\* What each stage of the migration has done.
ProgressInv ==
    /\ stage \in {"layout", "fingerprints", "hashes", "watermark", "typing", "mark"}
         => schema.version # CurrentVersion
    /\ stage \in {"hashes", "watermark", "typing", "mark"} => schema.columns = "all" /\ ~schema.pending
    /\ stage \in {"tables", "layout", "hashes", "watermark"} => attempt.cursor = 0
    /\ stage = "fingerprints" =>
         schema.columns = "all" /\ \A i \in schema.stale : i > attempt.cursor
    /\ stage = "typing" /\ BackfillRequired => \A i \in schema.untyped : i > attempt.cursor
    /\ stage \in {"watermark", "typing", "mark"} => Forgotten
    /\ stage = "mark" => Complete
    /\ stage \in {"creating", "checking", "open"} => schema.version = CurrentVersion
    /\ stage \in {"checking", "open"} => schema.table = "records"
    /\ stage = "open" => marker = 0

Unsaved == before.schema.table = "none"

\* What the backup, its marker and the local variables of open have to do with each other.
BackupInv ==
    /\ stage # "open" /\ marker = 0 => Unsaved \/ Database = before
    /\ stage # "open" /\ marker # 0 => Unsaved \/ backups[marker] = "before"
    /\ stage \in {"closed", "resuming", "preflight", "open"} => attempt = NoAttempt
    /\ stage = "resuming" => marker # 0
    /\ stage \in {"preflight", "copying", "verifying"} => marker = 0
    /\ stage \in {"copying", "verifying"} => attempt \in [backup : Backups, legacy : {FALSE}, cursor : {0}]
    /\ stage = "verifying" => Unsaved \/ backups[attempt.backup] = "before"
    /\ stage \in {"tables", "layout", "fingerprints", "hashes", "watermark", "typing", "mark",
                  "creating", "checking"} =>
         /\ attempt.backup = marker
         /\ marker = 0 =>
              /\ attempt = NoAttempt /\ stage \in {"tables", "mark", "creating"}
              /\ stage = "tables" => schema.table = "none" \/ schema.version = CurrentVersion
              /\ stage = "mark" => Unsaved

UpgradeInv == UpgradeTypeOK /\ TableInv /\ ProgressInv /\ BackupInv
----------------------------------------------------------------------------
LEMMA RowsStep ==
    ASSUME UpgradeInv, [UpgradeNext]_allVars
    PROVE  TypeOK'
<1>1. TypeOK
    BY DEF UpgradeInv, UpgradeTypeOK
<1>2. CASE WorkOpen \/ StopWork
    BY <1>1, <1>2, NextTyped DEF WorkOpen, StopWork, Next
<1>3. CASE UNCHANGED vars
    BY <1>1, <1>3, NextTyped
<1>4. CASE ForgetHashes
    <2>1. log' = [i \in DOMAIN log |-> <<>>]
          /\ UNCHANGED <<records, index, unread, interruptions>>
        BY <1>4 DEF ForgetHashes
    <2>2. log' \in Seq(Seq(Texts))
        <3>1. log \in Seq(Seq(Texts)) /\ <<>> \in Seq(Texts)
            BY <1>1 DEF TypeOK
        <3>2. DOMAIN log = 1..Len(log) /\ Len(log) \in Nat
            BY <3>1, LenProperties
        <3>3. \A i \in 1..Len(log) : <<>> \in Seq(Texts)
            BY <3>1
        <3> QED
            BY <2>1, <3>2, <3>3
    <2> QED
        BY <1>1, <2>1, <2>2 DEF TypeOK, index, unread, table
<1>5. CASE SettleTables \/ CopyLegacyTable \/ ResetWatermark
    <2>1. /\ UNCHANGED <<data, current, unread, interruptions>>
          /\ (live' = live \/ live' = {}) /\ (watermark' = watermark \/ watermark' = 0)
        BY <1>5 DEF SettleTables, CopyLegacyTable, ResetWatermark
    <2> QED
        BY <1>1, <2>1 DEF TypeOK, data, unread, table
<1>6. CASE FailBackup \/ StopOpening
    <2>1. UNCHANGED <<data, index, unread>> /\ interruptions' = interruptions + 1
        BY <1>6 DEF FailBackup, StopOpening, Abort, Interrupt
    <2> QED
        BY <1>1, <2>1 DEF TypeOK, data, index, unread, table
<1>7. ASSUME Opening, ~ForgetHashes, ~SettleTables, ~CopyLegacyTable, ~ResetWatermark
      PROVE  UNCHANGED vars
    BY <1>7 DEF Opening, CheckVersion, ReuseBackup, StartBackup, FinishBackup, RecordBackup,
        AddColumns, RebuildChunk, FinishFingerprints, BackfillChunk, FinishTyping, MarkVersion,
        CreateTables, FinishUpgrade
<1> QED
    BY <1>2, <1>3, <1>4, <1>5, <1>6, <1>7 DEF UpgradeNext, allVars

LEMMA TypeStep ==
    ASSUME UpgradeInv, [UpgradeNext]_allVars
    PROVE  UpgradeTypeOK'
<1>0. TypeOK'
    BY RowsStep
<1> USE <1>0, VersionsAssumption, BoundsAssumption DEF UpgradeInv, UpgradeTypeOK, Stages,
        vars, data, unread, backupVars, Reach, Abort, Interrupt, NoAttempt, Rows, Backups
<1>1. CASE CheckVersion
    BY <1>1 DEF CheckVersion
<1>2. CASE ReuseBackup
    BY <1>2 DEF ReuseBackup
<1>3. CASE StartBackup
    BY <1>3 DEF StartBackup
<1>4. CASE FinishBackup
    BY <1>4 DEF FinishBackup
<1>5. CASE RecordBackup
    BY <1>5 DEF RecordBackup
<1>6. CASE SettleTables
    <2>1. schema' \in [version : {0, CurrentVersion} \cup OldVersions,
                       table : {"none", "records", "records_v2", "both"},
                       columns : {"legacy", "known", "all"},
                       pending : BOOLEAN, stale : SUBSET Rows, untyped : SUBSET Rows]
        <3>1. schema' = schema \/ schema' = [schema EXCEPT !.table = "records"]
            BY <1>6 DEF SettleTables
        <3> QED
            BY <3>1
    <2>2. stage' \in {"mark", "layout"} /\ stage # "open"
        BY <1>6 DEF SettleTables, Reach
    <2> QED
        BY <1>6, <2>1, <2>2 DEF SettleTables, data, unread, backupVars, Rows
<1>7. CASE CopyLegacyTable
    BY <1>7 DEF CopyLegacyTable
<1>8. CASE AddColumns
    BY <1>8 DEF AddColumns
<1>9. CASE RebuildChunk
    <2>1. schema' \in [version : {0, CurrentVersion} \cup OldVersions,
                       table : {"none", "records", "records_v2", "both"},
                       columns : {"legacy", "known", "all"},
                       pending : BOOLEAN, stale : SUBSET Rows, untyped : SUBSET Rows]
        BY <1>9 DEF RebuildChunk
    <2>2. attempt.cursor + ChunkRows \in Nat
        OBVIOUS
    <2>3. attempt' \in [backup : {0} \cup Backups, legacy : BOOLEAN, cursor : Nat]
        BY <1>9, <2>2 DEF RebuildChunk
    <2> QED
        BY <1>9, <2>1, <2>3 DEF RebuildChunk, vars, data, unread, backupVars, Rows
<1>10. CASE FinishFingerprints
    BY <1>10 DEF FinishFingerprints
<1>11. CASE ForgetHashes
    BY <1>11 DEF ForgetHashes
<1>12. CASE ResetWatermark
    BY <1>12 DEF ResetWatermark
<1>13. CASE BackfillChunk
    <2>1. schema' \in [version : {0, CurrentVersion} \cup OldVersions,
                       table : {"none", "records", "records_v2", "both"},
                       columns : {"legacy", "known", "all"},
                       pending : BOOLEAN, stale : SUBSET Rows, untyped : SUBSET Rows]
        BY <1>13 DEF BackfillChunk
    <2>2. attempt.cursor + ChunkRows \in Nat
        OBVIOUS
    <2>3. attempt' \in [backup : {0} \cup Backups, legacy : BOOLEAN, cursor : Nat]
        BY <1>13, <2>2 DEF BackfillChunk
    <2> QED
        BY <1>13, <2>1, <2>3 DEF BackfillChunk, vars, data, unread, backupVars, Rows
<1>14. CASE FinishTyping
    BY <1>14 DEF FinishTyping
<1>15. CASE MarkVersion
    BY <1>15 DEF MarkVersion
<1>16. CASE CreateTables
    BY <1>16 DEF CreateTables
<1>17. CASE FinishUpgrade
    BY <1>17 DEF FinishUpgrade
<1>18. CASE FailBackup
    BY <1>18 DEF FailBackup
<1>19. CASE StopOpening
    BY <1>19 DEF StopOpening
<1>20. CASE WorkOpen
    <2>1. stage = "open" /\ schema.stale = {} /\ schema.untyped = {}
        BY <1>20 DEF WorkOpen, TableInv, ProgressInv, Complete
    <2>2. UNCHANGED upgradeVars
        BY <1>20 DEF WorkOpen
    <2> QED
        BY <2>1, <2>2 DEF upgradeVars
<1>21. CASE StopWork
    <2>1. stage = "open" /\ schema.stale = {} /\ schema.untyped = {}
        BY <1>21 DEF StopWork, TableInv, ProgressInv, Complete
    <2>2. UNCHANGED <<schema, marker, backups, attempt>> /\ stage' = "closed" /\ pc' = "idle"
        BY <1>21 DEF StopWork, Crash, Reach, Goto
    <2> QED
        BY <2>1, <2>2
<1>22. CASE UNCHANGED allVars
    BY <1>22 DEF allVars, upgradeVars, vars, data, index, unread, table, Rows
<1> QED
    BY <1>1, <1>2, <1>3, <1>4, <1>5, <1>6, <1>7, <1>8, <1>9, <1>10, <1>11, <1>12, <1>13, <1>14, <1>15, <1>16, <1>17, <1>18, <1>19, <1>20, <1>21, <1>22 DEF UpgradeNext, Opening

LEMMA ChunksEnd ==
    ASSUME TypeOK, attempt.cursor \in Nat, Chunk = {}, NEW i \in Rows
    PROVE  i <= attempt.cursor
<1>1. Rows = 1..Len(records) /\ Len(records) \in Nat /\ i \in Nat
    BY LenProperties DEF TypeOK, Rows
<1>2. SUFFICES ASSUME attempt.cursor < i PROVE FALSE
    BY <1>1
<1>3. attempt.cursor + 1 \in Rows /\ attempt.cursor + 1 <= attempt.cursor + ChunkRows
    BY <1>1, <1>2, BoundsAssumption
<1>4. attempt.cursor + 1 \in Chunk
    BY <1>3 DEF Chunk
<1> QED
    BY <1>4

LEMMA VersionsNatural == {0, CurrentVersion} \cup OldVersions \subseteq Nat
BY VersionsAssumption DEF CurrentVersion

LEMMA VersionsAtLeast ==
    ASSUME NEW v \in {0, CurrentVersion} \cup OldVersions, ~(v < 5)
    PROVE  v >= 5
<1>1. OldVersions \subseteq 0..6
    BY VersionsAssumption DEF CurrentVersion
<1> QED
    BY <1>1 DEF CurrentVersion

LEMMA RowsArePositive ==
    ASSUME TypeOK
    PROVE  \A i \in Rows : i \in Nat /\ i > 0
BY LenProperties DEF TypeOK, Rows

LEMMA TableStep ==
    ASSUME UpgradeInv, [UpgradeNext]_allVars
    PROVE  TableInv'
<1> USE VersionsAssumption, BoundsAssumption DEF UpgradeInv, UpgradeTypeOK, TableInv,
        vars, data, unread, backupVars, Reach, Abort, Interrupt, NoAttempt, Rows, Backups,
        ProgressInv, Complete, Forgotten, Database, UpgradeRequired, MigrationRequired,
        Unsaved, Opened, CurrentVersion
<1>1. CASE CheckVersion
    BY <1>1 DEF CheckVersion
<1>2. CASE ReuseBackup
    BY <1>2 DEF ReuseBackup
<1>3. CASE StartBackup
    BY <1>3 DEF StartBackup
<1>4. CASE FinishBackup
    BY <1>4 DEF FinishBackup
<1>5. CASE RecordBackup
    BY <1>5 DEF RecordBackup
<1>6. CASE SettleTables
    <2>1. CASE schema.table = "none"
        <3>1. schema' = schema /\ log' = log /\ before' = before
            BY <1>6, <2>1 DEF SettleTables
        <3> QED
            BY <3>1, <1>6 DEF SettleTables
    <2>2. CASE schema.table # "none"
        <3>1. schema' = [schema EXCEPT !.table = "records"] /\ log' = log /\ before' = before
            BY <1>6, <2>2 DEF SettleTables
        <3> QED
            BY <3>1, <1>6, <2>2 DEF SettleTables
    <2> QED
        BY <2>1, <2>2
<1>7. CASE CopyLegacyTable
    <2>1. /\ schema.version < 2 /\ stage' = "fingerprints" /\ log' = log /\ before' = before
          /\ schema'.version = schema.version /\ schema'.table = schema.table
          /\ schema'.columns = "all" /\ schema'.pending
        BY <1>7 DEF CopyLegacyTable
    <2>2. schema.table # "none"
        BY <1>7 DEF CopyLegacyTable
    <2>3. schema.version \in Nat
        <3>1. schema.version \in {0, CurrentVersion} \cup OldVersions
            OBVIOUS
        <3> QED
            BY <3>1, VersionsNatural
    <2>4. schema'.version # CurrentVersion /\ ~(schema'.version >= 5)
        BY <2>1, <2>3
    <2> QED
        BY <2>1, <2>2, <2>4
<1>8. CASE AddColumns
    BY <1>8 DEF AddColumns
<1>9. CASE RebuildChunk
    BY <1>9 DEF RebuildChunk
<1>10. CASE FinishFingerprints
    <2>1. \A i \in schema.stale : i <= attempt.cursor /\ ~(i > attempt.cursor)
        BY <1>10, ChunksEnd, RowsArePositive DEF FinishFingerprints
    <2>2. schema.stale = {} /\ schema.version # CurrentVersion
        BY <1>10, <2>1 DEF FinishFingerprints, ProgressInv
    <2> QED
        BY <1>10, <2>2 DEF FinishFingerprints, Complete, vars, data, backupVars, Forgotten
<1>11. CASE ForgetHashes
    BY <1>11 DEF ForgetHashes
<1>12. CASE ResetWatermark
    BY <1>12 DEF ResetWatermark
<1>13. CASE BackfillChunk
    BY <1>13 DEF BackfillChunk
<1>14. CASE FinishTyping
    BY <1>14 DEF FinishTyping
<1>15. CASE MarkVersion
    BY <1>15 DEF MarkVersion
<1>16. CASE CreateTables
    BY <1>16 DEF CreateTables
<1>17. CASE FinishUpgrade
    BY <1>17 DEF FinishUpgrade
<1>18. CASE FailBackup
    BY <1>18 DEF FailBackup
<1>19. CASE StopOpening
    BY <1>19 DEF StopOpening
<1>20. CASE WorkOpen
    <2>1. stage = "open" /\ schema.table = "records" /\ UNCHANGED <<schema, stage>>
        BY <1>20 DEF WorkOpen, upgradeVars, ProgressInv
    <2> QED
        BY <2>1 DEF Complete
<1>21. CASE StopWork
    BY <1>21 DEF StopWork
<1>22. CASE UNCHANGED allVars
    BY <1>22 DEF allVars, upgradeVars, vars, data, index, unread, table, Complete, Forgotten, Database, Rows, BackfillRequired, Unsaved, Opened, NoAttempt
<1> QED
    BY <1>1, <1>2, <1>3, <1>4, <1>5, <1>6, <1>7, <1>8, <1>9, <1>10, <1>11, <1>12, <1>13, <1>14, <1>15, <1>16, <1>17, <1>18, <1>19, <1>20, <1>21, <1>22 DEF UpgradeNext, Opening

LEMMA ProgressStep ==
    ASSUME UpgradeInv, [UpgradeNext]_allVars
    PROVE  ProgressInv'
<1> USE VersionsAssumption, BoundsAssumption DEF UpgradeInv, UpgradeTypeOK, ProgressInv,
        vars, data, unread, backupVars, Reach, Abort, Interrupt, NoAttempt, Rows, Backups,
        ProgressInv, Complete, Forgotten, Database, UpgradeRequired, MigrationRequired,
        Unsaved, Opened, CurrentVersion, TableInv
<1>1. CASE CheckVersion
    <2>1. stage = "closed" /\ stage' \in {"resuming", "preflight", "tables"}
        BY <1>1 DEF CheckVersion, Reach
    <2>2. attempt'.cursor = 0
        BY <1>1, <2>1 DEF CheckVersion, BackupInv, NoAttempt
    <2> QED
        BY <2>1, <2>2
<1>2. CASE ReuseBackup
    <2>1. stage = "resuming" /\ stage' = "tables"
        BY <1>2 DEF ReuseBackup, Reach
    <2>2. attempt'.cursor = 0
        BY <1>2, <2>1 DEF ReuseBackup, BackupInv, NoAttempt
    <2> QED
        BY <2>1, <2>2
<1>3. CASE StartBackup
    BY <1>3 DEF StartBackup
<1>4. CASE FinishBackup
    BY <1>4 DEF FinishBackup
<1>5. CASE RecordBackup
    <2>1. stage = "verifying" /\ stage' = "tables"
        BY <1>5 DEF RecordBackup, Reach
    <2>2. attempt'.cursor = 0
        BY <1>5, <2>1 DEF RecordBackup, BackupInv
    <2> QED
        BY <2>1, <2>2
<1>6. CASE SettleTables
    <2>1. schema.version # CurrentVersion /\ schema.version' = schema.version /\ log' = log
          /\ attempt' = attempt /\ stage = "tables"
        BY <1>6 DEF SettleTables, MigrationRequired, TableInv, Complete, data, backupVars
    <2>2. CASE schema.table = "none"
        <3>1. Complete /\ log = <<>> /\ schema' = schema /\ stage' = "mark"
            BY <1>6, <2>2 DEF SettleTables, TableInv, Reach
        <3>2. Forgotten
            BY <3>1 DEF Forgotten, ToSet
        <3> QED
            BY <2>1, <3>1, <3>2 DEF Complete, Forgotten
    <2>3. CASE schema.table # "none"
        <3>1. stage' = "layout"
            BY <1>6, <2>3 DEF SettleTables, Reach
        <3> QED
            BY <2>1, <3>1
    <2> QED
        BY <2>2, <2>3
<1>7. CASE CopyLegacyTable
    <2>1. stage = "layout" /\ stage' = "fingerprints" /\ attempt.cursor = 0
        BY <1>7 DEF CopyLegacyTable, Reach
    <2>2. /\ schema'.columns = "all" /\ schema'.version = schema.version /\ schema'.stale = schema.stale
          /\ attempt'.cursor = 0
        BY <1>7, <2>1 DEF CopyLegacyTable
    <2> QED
        BY <2>1, <2>2, RowsArePositive
<1>8. CASE AddColumns
    <2>1. /\ stage = "layout" /\ stage' = (IF schema.pending THEN "fingerprints" ELSE "hashes")
          /\ attempt.cursor = 0
        BY <1>8 DEF AddColumns, Reach
    <2>2. /\ schema'.columns = "all" /\ schema'.version = schema.version /\ schema'.stale = schema.stale
          /\ schema'.pending = schema.pending /\ attempt' = attempt
        BY <1>8, <2>1 DEF AddColumns, backupVars
    <2> QED
        BY <2>1, <2>2, RowsArePositive
<1>9. CASE RebuildChunk
    <2>1. stage = "fingerprints" /\ stage' = "fingerprints"
        BY <1>9 DEF RebuildChunk
    <2>2. /\ schema'.columns = schema.columns /\ schema'.version = schema.version
          /\ schema'.stale = schema.stale \ Chunk /\ attempt'.cursor = attempt.cursor + ChunkRows
        BY <1>9, <2>1 DEF RebuildChunk
    <2>3. ASSUME NEW i \in schema.stale \ Chunk PROVE i > attempt.cursor + ChunkRows
        BY <2>1, <2>3, RowsArePositive DEF Chunk
    <2> QED
        BY <2>1, <2>2, <2>3
<1>10. CASE FinishFingerprints
    BY <1>10 DEF FinishFingerprints
<1>11. CASE ForgetHashes
    <2>1. stage = "hashes" /\ stage' = "watermark" /\ schema' = schema /\ attempt' = attempt
        BY <1>11 DEF ForgetHashes, Reach, backupVars
    <2>2. Forgotten'
        BY <1>11 DEF ForgetHashes, Forgotten, ToSet
    <2> QED
        BY <2>1, <2>2
<1>12. CASE ResetWatermark
    <2>1. /\ stage = "watermark" /\ stage' = "typing" /\ schema' = schema /\ attempt' = attempt
          /\ log' = log /\ attempt.cursor = 0
        BY <1>12 DEF ResetWatermark, Reach, backupVars, data
    <2> QED
        BY <2>1, RowsArePositive DEF Forgotten
<1>13. CASE BackfillChunk
    <2>1. stage = "typing" /\ stage' = "typing" /\ BackfillRequired /\ log' = log
        BY <1>13 DEF BackfillChunk, vars, data
    <2>2. /\ schema'.columns = schema.columns /\ schema'.version = schema.version
          /\ schema'.pending = schema.pending
          /\ schema'.untyped = schema.untyped \ Chunk /\ attempt'.cursor = attempt.cursor + ChunkRows
        BY <1>13, <2>1 DEF BackfillChunk
    <2>3. ASSUME NEW i \in schema.untyped \ Chunk PROVE i > attempt.cursor + ChunkRows
        BY <2>1, <2>3, RowsArePositive DEF Chunk
    <2> QED
        BY <2>1, <2>2, <2>3 DEF Forgotten
<1>14. CASE FinishTyping
    <2>1. /\ stage = "typing" /\ stage' = "mark" /\ UNCHANGED <<schema, log, attempt>>
          /\ (BackfillRequired => Chunk = {})
        BY <1>14 DEF FinishTyping, Reach, vars, data, backupVars
    <2>2. ASSUME BackfillRequired PROVE schema.untyped = {}
        <3>1. \A i \in schema.untyped : i <= attempt.cursor /\ ~(i <= attempt.cursor)
            BY <2>1, <2>2, ChunksEnd, RowsArePositive
        <3> QED
            BY <3>1
    <2>3. ASSUME ~BackfillRequired PROVE schema.untyped = {}
        <3>1. schema.version \in {0, CurrentVersion} \cup OldVersions
            BY DEF UpgradeTypeOK
        <3>2. schema.version >= 5
            BY <2>3, <3>1, VersionsAtLeast DEF BackfillRequired
        <3> QED
            BY <2>1, <3>2 DEF TableInv
    <2>4. Complete
        BY <2>1, <2>2, <2>3 DEF Complete, TableInv
    <2> QED
        BY <2>1, <2>4 DEF Complete, Forgotten
<1>15. CASE MarkVersion
    BY <1>15 DEF MarkVersion
<1>16. CASE CreateTables
    <2>1. schema.version = CurrentVersion
        BY <1>16 DEF CreateTables, MigrationRequired
    <2>2. schema'.version = schema.version /\ schema'.table = "records"
        BY <1>16 DEF CreateTables
    <2>3. stage' = "checking" \/ (stage' = "open" /\ marker' = marker /\ attempt.backup = 0)
        <3>1. attempt.backup # 0 => stage' = "checking"
            BY <1>16 DEF CreateTables, Reach
        <3>2. attempt.backup = 0 => stage' = "open" /\ marker' = marker
            BY <1>16 DEF CreateTables, Reach
        <3> QED
            BY <3>1, <3>2
    <2>4. attempt.backup = marker
        BY <1>16 DEF CreateTables, BackupInv
    <2> QED
        BY <2>1, <2>2, <2>3, <2>4
<1>17. CASE FinishUpgrade
    BY <1>17 DEF FinishUpgrade
<1>18. CASE FailBackup
    BY <1>18 DEF FailBackup
<1>19. CASE StopOpening
    BY <1>19 DEF StopOpening
<1>20. CASE WorkOpen
    <2>1. stage = "open" /\ UNCHANGED <<schema, stage, marker>>
        BY <1>20 DEF WorkOpen, upgradeVars
    <2> QED
        BY <2>1
<1>21. CASE StopWork
    BY <1>21 DEF StopWork
<1>22. CASE UNCHANGED allVars
    BY <1>22 DEF allVars, upgradeVars, vars, data, index, unread, table, Complete, Forgotten, Database, Rows, BackfillRequired, Unsaved, Opened, NoAttempt
<1> QED
    BY <1>1, <1>2, <1>3, <1>4, <1>5, <1>6, <1>7, <1>8, <1>9, <1>10, <1>11, <1>12, <1>13, <1>14, <1>15, <1>16, <1>17, <1>18, <1>19, <1>20, <1>21, <1>22 DEF UpgradeNext, Opening

LEMMA BackupStep ==
    ASSUME UpgradeInv, [UpgradeNext]_allVars
    PROVE  BackupInv'
<1> USE VersionsAssumption, BoundsAssumption DEF UpgradeInv, UpgradeTypeOK, BackupInv,
        vars, data, unread, backupVars, Reach, Abort, Interrupt, NoAttempt, Rows, Backups,
        ProgressInv, Complete, Forgotten, Database, UpgradeRequired, MigrationRequired,
        Unsaved, Opened, CurrentVersion, TableInv
<1>1. CASE CheckVersion
    <2>1. stage = "closed" /\ attempt = NoAttempt /\ UNCHANGED <<schema, before, marker, backups, attempt>>
        BY <1>1 DEF CheckVersion
    <2>2. Database' = Database
        BY <1>1 DEF CheckVersion, Database, vars, data, index
    <2>3. \/ stage' = "resuming" /\ marker # 0
          \/ stage' = "preflight" /\ marker = 0
          \/ stage' = "tables" /\ marker = 0 /\ ~UpgradeRequired
        BY <1>1 DEF CheckVersion, Reach
    <2> QED
        BY <2>1, <2>2, <2>3 DEF UpgradeRequired, NoAttempt, Unsaved
<1>2. CASE ReuseBackup
    BY <1>2 DEF ReuseBackup
<1>3. CASE StartBackup
    <2>1. stage = "preflight" /\ stage' = "copying" /\ UNCHANGED <<schema, before, marker>> /\ marker = 0
        BY <1>3 DEF StartBackup, Reach
    <2>2. Database' = Database
        BY <1>3 DEF StartBackup, Database, vars, data, index
    <2>3. attempt' \in [backup : Backups, legacy : {FALSE}, cursor : {0}]
        <3>1. PICK b \in Backups : attempt' = [attempt EXCEPT !.backup = b]
            BY <1>3 DEF StartBackup
        <3>2. attempt = [backup |-> 0, legacy |-> FALSE, cursor |-> 0]
            BY <2>1 DEF NoAttempt
        <3> QED
            BY <3>1, <3>2
    <2> QED
        BY <2>1, <2>2, <2>3 DEF Unsaved, Backups
<1>4. CASE FinishBackup
    <2>1. stage = "copying" /\ stage' = "verifying" /\ UNCHANGED <<schema, before, marker, attempt>>
          /\ marker = 0
        BY <1>4 DEF FinishBackup, Reach
    <2>2. Database' = Database
        BY <1>4 DEF FinishBackup, Database, vars, data, index
    <2>3. Unsaved \/ backups'[attempt.backup] = "before"
        BY <1>4, <2>1 DEF FinishBackup
    <2> QED
        BY <2>1, <2>2, <2>3 DEF Unsaved, Backups
<1>5. CASE RecordBackup
    BY <1>5 DEF RecordBackup
<1>6. CASE SettleTables
    <2>1. stage = "tables" /\ stage' \in {"mark", "layout"} /\ UNCHANGED <<before, marker, backups, attempt>>
        BY <1>6 DEF SettleTables, Reach, backupVars
    <2>2. CASE marker # 0
        BY <2>1, <2>2 DEF Unsaved
    <2>3. CASE marker = 0
        <3>1. schema.table = "none"
            BY <1>6, <2>1, <2>3 DEF SettleTables, MigrationRequired, TableInv, Complete
        <3>2. Unsaved /\ stage' = "mark"
            BY <1>6, <2>1, <2>3, <3>1 DEF SettleTables, Unsaved, Database, Reach
        <3> QED
            BY <2>1, <2>3, <3>2 DEF Unsaved
    <2> QED
        BY <2>2, <2>3
<1>7. CASE CopyLegacyTable
    BY <1>7 DEF CopyLegacyTable
<1>8. CASE AddColumns
    BY <1>8 DEF AddColumns
<1>9. CASE RebuildChunk
    BY <1>9 DEF RebuildChunk
<1>10. CASE FinishFingerprints
    BY <1>10 DEF FinishFingerprints
<1>11. CASE ForgetHashes
    BY <1>11 DEF ForgetHashes
<1>12. CASE ResetWatermark
    BY <1>12 DEF ResetWatermark
<1>13. CASE BackfillChunk
    BY <1>13 DEF BackfillChunk
<1>14. CASE FinishTyping
    BY <1>14 DEF FinishTyping
<1>15. CASE MarkVersion
    BY <1>15 DEF MarkVersion
<1>16. CASE CreateTables
    BY <1>16 DEF CreateTables
<1>17. CASE FinishUpgrade
    BY <1>17 DEF FinishUpgrade
<1>18. CASE FailBackup
    <2>1. stage \in {"copying", "verifying"} /\ stage' = "closed" /\ attempt' = NoAttempt
        BY <1>18 DEF FailBackup, Reach, Abort
    <2>2. Database' = Database /\ UNCHANGED <<before, marker, schema>>
        BY <1>18 DEF FailBackup, Database, data, index, backupVars
    <2> QED
        BY <2>1, <2>2 DEF Unsaved
<1>19. CASE StopOpening
    <2>1. stage \in Stages \ {"closed", "open"} /\ stage' = "closed" /\ attempt' = NoAttempt
        BY <1>19 DEF StopOpening, Reach, Abort, Stages
    <2>2. Database' = Database /\ UNCHANGED <<before, marker, schema>>
        BY <1>19 DEF StopOpening, Database, data, index, backupVars
    <2>3. backups' = backups
        BY <1>19 DEF StopOpening, backupVars
    <2> QED
        BY <2>1, <2>2, <2>3 DEF Unsaved
<1>20. CASE WorkOpen
    <2>1. stage = "open" /\ UNCHANGED <<schema, stage, marker, attempt>>
        BY <1>20 DEF WorkOpen, upgradeVars
    <2> QED
        BY <2>1
<1>21. CASE StopWork
    <2>1. /\ stage = "open" /\ stage' = "closed" /\ marker = 0 /\ UNCHANGED <<schema, marker, attempt>>
          /\ before' = Database
        BY <1>21 DEF StopWork, Reach, ProgressInv
    <2>2. Database' = Database
        BY <1>21 DEF StopWork, Crash, Database, data, index
    <2> QED
        BY <2>1, <2>2
<1>22. CASE UNCHANGED allVars
    BY <1>22 DEF allVars, upgradeVars, vars, data, index, unread, table, Complete, Forgotten, Database, Rows, BackfillRequired, Unsaved, Opened, NoAttempt
<1> QED
    BY <1>1, <1>2, <1>3, <1>4, <1>5, <1>6, <1>7, <1>8, <1>9, <1>10, <1>11, <1>12, <1>13, <1>14, <1>15, <1>16, <1>17, <1>18, <1>19, <1>20, <1>21, <1>22 DEF UpgradeNext, Opening

\* The index that a database has before it is opened.
IndexAtFirst ==
    \/ OutdatedIndex
    \/ current = TRUE /\ watermark = Len(records) /\ live = Entries(0, Len(records))

LEMMA IndexAtFirstTyped ==
    ASSUME records \in Seq(Row), IndexAtFirst
    PROVE  current \in BOOLEAN /\ watermark \in Nat /\ live \subseteq Nat \X Texts
<1>1. Len(records) \in Nat
    BY LenProperties
<1>2. CASE OutdatedIndex
    <2>1. PICK w \in 0..Len(records) :
             watermark = w /\ live \in {Entries(0, w), {<<i, records[i].text>> : i \in 1..w}}
        BY <1>2 DEF OutdatedIndex
    <2>2. Entries(0, w) \subseteq Nat \X Texts
        BY <1>1, <2>1, EntriesTyped
    <2>3. \A i \in 1..w : i \in Nat /\ records[i] \in Row
        BY <1>1, <2>1, ElementOfSeq
    <2>4. {<<i, records[i].text>> : i \in 1..w} \subseteq Nat \X Texts
        BY <2>3 DEF Row
    <2>5. live \subseteq Nat \X Texts
        BY <2>1, <2>2, <2>4, Zenon
    <2>6. watermark = w /\ w \in Nat
        <3>1. watermark = w
            BY <2>1, Zenon
        <3>2. w \in Nat
            BY <1>1
        <3> QED
            BY <3>1, <3>2
    <2>7. current \in BOOLEAN
        BY <1>2, Zenon DEF OutdatedIndex
    <2> QED
        BY <2>5, <2>6, <2>7
<1>3. CASE current = TRUE /\ watermark = Len(records) /\ live = Entries(0, Len(records))
    BY <1>1, <1>3, EntriesTyped
<1> QED
    BY <1>2, <1>3 DEF IndexAtFirst

LEMMA InitUpgrade ==
    ASSUME UpgradeInit
    PROVE  UpgradeInv
<1> USE VersionsAssumption, BoundsAssumption DEF UpgradeInit
<1>1. TypeOK
    <2>1. records \in Seq(Row) /\ log \in Seq(Seq(Texts))
        <3>1. ASSUME NEW f \in Files PROVE <<f>> \in Seq(Seq(Texts))
            BY FilesTyped
        <3>2. CASE records = <<>> /\ log = <<>>
            BY <3>2
        <3>3. ASSUME NEW f \in Files, records = Inserted(<<>>, f), log = <<f>>
              PROVE  records \in Seq(Row) /\ log \in Seq(Seq(Texts))
            <4>1. <<>> \in Seq(Row) /\ f \in Seq(Texts)
                BY FilesTyped
            <4> QED
                BY <3>1, <3>3, <4>1, InsertedTyped
        <3>4. ASSUME NEW f \in Files, records = [i \in DOMAIN f |-> [text |-> f[i], owner |-> 0]], log = <<f>>
              PROVE  records \in Seq(Row) /\ log \in Seq(Seq(Texts))
            <4>1. f \in Seq(Texts)
                BY FilesTyped
            <4>2. DOMAIN f = 1..Len(f) /\ Len(f) \in Nat /\ \A i \in 1..Len(f) : f[i] \in Texts
                BY <4>1, LenProperties, ElementOfSeq
            <4>3. \A i \in 1..Len(f) : [text |-> f[i], owner |-> 0] \in Row
                BY <4>2 DEF Row
            <4> QED
                BY <3>1, <3>4, <4>2, <4>3
        <3> QED
            BY <3>2, <3>3, <3>4 DEF InitRows, CollapsedRows
    <2>2. Len(records) \in Nat
        BY <2>1, LenProperties
    <2>3. current \in BOOLEAN /\ watermark \in Nat /\ live \subseteq Nat \X Texts
        <3>1. IndexAtFirst
            BY DEF IndexAtFirst
        <3> QED
            BY <2>1, <3>1, IndexAtFirstTyped
    <2>4. NothingKept \in Bookkeeping
        BY DEF NothingKept, Bookkeeping
    <2>5. /\ rebuildTable \in BOOLEAN /\ rebuild \subseteq Nat \X Texts
          /\ kept \in Bookkeeping /\ plan \in Bookkeeping
          /\ pc = "idle" /\ pc \in Location
          /\ file = <<>> /\ added = <<>> /\ sourceChanged \in BOOLEAN /\ interruptions \in Nat
        BY <2>4 DEF InitWork, Location
    <2> QED
        BY <2>1, <2>3, <2>5 DEF TypeOK
<1>2. /\ schema \in [version : {0, CurrentVersion} \cup OldVersions,
                     table   : {"none", "records", "records_v2", "both"},
                     columns : {"legacy", "known", "all"},
                     pending : {FALSE}, stale : SUBSET Rows, untyped : SUBSET Rows]
      /\ TableInv
    <2>1. CASE schema = NewSchema /\ records = <<>>
        <3>1. \A f \in Files : Inserted(<<>>, f) # <<>>
            <4>1. <<>> \in Seq(Row)
                OBVIOUS
            <4>2. ASSUME NEW f \in Files PROVE Len(Inserted(<<>>, f)) > 0
                BY <4>1, FilesTyped, InsertedTyped
            <4> QED
                BY <4>2
        <3>2. \A f \in Files : [i \in DOMAIN f |-> [text |-> f[i], owner |-> 0]] # <<>>
            BY FilesTyped, LenProperties
        <3>3. log = <<>>
            BY <2>1, <3>1, <3>2 DEF InitRows, CollapsedRows
        <3> QED
            BY <2>1, <3>3 DEF NewSchema, TableInv, Complete, CurrentVersion
    <2>2. CASE schema = CurrentSchema
        <3>1. schema = [version |-> CurrentVersion, table |-> "records", columns |-> "all",
                        pending |-> FALSE, stale |-> {}, untyped |-> {}]
            BY <2>2 DEF CurrentSchema, NewSchema
        <3> QED
            BY <3>1 DEF TableInv, Complete, CurrentVersion, Database
    <2>3. CASE schema \in {Aged(s) : s \in UNION {LeftBy(v) : v \in OldVersions}}
        <3>1. PICK v \in OldVersions : \E r \in LeftBy(v) : schema = Aged(r)
            BY <2>3
        <3>5. PICK s \in LeftBy(v) : schema = Aged(s)
            BY <3>1
        <3>2. v \in 0..6
            BY DEF CurrentVersion
        <3>3. /\ s.version = v /\ s.table \in {"records", "records_v2", "both"}
              /\ s.columns \in {"known", "legacy"} /\ (s.columns = "legacy" => v \in LegacyVersions)
              /\ s.pending = FALSE /\ s.stale = {} /\ s.untyped \in SUBSET Rows
              /\ (v >= 5 => s.untyped = {})
              /\ s = [version |-> v, table |-> s.table, columns |-> s.columns, pending |-> FALSE,
                      stale |-> {}, untyped |-> s.untyped]
            <4>1. s \in [version : {v}, table : {"records", "records_v2", "both"},
                         columns : {"known"} \cup (IF v \in LegacyVersions THEN {"legacy"} ELSE {}),
                         pending : {FALSE}, stale : {{}}, untyped : {IF v < 5 THEN Rows ELSE {}}]
                BY <3>5 DEF LeftBy
            <4>2. s.columns \in {"known"} \cup (IF v \in LegacyVersions THEN {"legacy"} ELSE {})
                BY <4>1
            <4>3. s.untyped = IF v < 5 THEN Rows ELSE {}
                BY <4>1
            <4>4. /\ s.version = v /\ s.table \in {"records", "records_v2", "both"}
                  /\ s.pending = FALSE /\ s.stale = {}
                BY <4>1
            <4>5. s = [version |-> s.version, table |-> s.table, columns |-> s.columns,
                       pending |-> s.pending, stale |-> s.stale, untyped |-> s.untyped]
                BY <4>1
            <4> QED
                BY <3>2, <4>2, <4>3, <4>4, <4>5
        <3>4. schema = [version |-> v, table |-> s.table, columns |-> s.columns, pending |-> FALSE,
                        stale |-> IF s.columns = "legacy" THEN Rows ELSE {}, untyped |-> s.untyped]
            BY <3>3, <3>5 DEF Aged
        <3> QED
            BY <3>2, <3>3, <3>4 DEF TableInv, CurrentVersion
    <2> QED
        BY <2>1, <2>2, <2>3
<1>3. UpgradeTypeOK
    BY <1>1, <1>2 DEF InitWork, UpgradeTypeOK, Stages, NoAttempt, Backups
<1>4. ProgressInv
    BY DEF ProgressInv
<1>5. BackupInv
    BY DEF BackupInv, NoAttempt
<1> QED
    BY <1>2, <1>3, <1>4, <1>5 DEF UpgradeInv

LEMMA NextUpgrade ==
    ASSUME UpgradeInv, [UpgradeNext]_allVars
    PROVE  UpgradeInv'
BY TypeStep, TableStep, ProgressStep, BackupStep DEF UpgradeInv

(* Whatever the rows, the versions and the interruptions, every variable   *)
(* of an upgrade has its type, and nothing works on a database that is     *)
(* still being opened.                                                     *)
THEOREM UpgradeTypeCorrect == UpgradeSpec => []UpgradeTypeOK
<1>1. UpgradeInv => UpgradeTypeOK
    BY DEF UpgradeInv
<1> QED
    BY <1>1, InitUpgrade, NextUpgrade, PTL DEF UpgradeSpec

(* A database that an upgrade has begun to change names a complete backup  *)
(* of what it was, wherever attempts at it have stopped (connection.rs,    *)
(* initialize).                                                            *)
THEOREM AlwaysBackedUp == UpgradeSpec => []BackedUp
<1>1. UpgradeInv => BackedUp
    BY DEF UpgradeInv, BackupInv, BackedUp, Unsaved
<1> QED
    BY <1>1, InitUpgrade, NextUpgrade, PTL DEF UpgradeSpec

(* The version in meta is set only when every step of the migration is     *)
(* done for every row, in one attempt or in several (migrations.rs,        *)
(* migrate_records_schema).                                                *)
THEOREM VersionsAreEarned == UpgradeSpec => []VersionIsEarned
<1>1. UpgradeInv => VersionIsEarned
    BY DEF UpgradeInv, TableInv, ProgressInv, VersionIsEarned, Complete, Forgotten
<1> QED
    BY <1>1, InitUpgrade, NextUpgrade, PTL DEF UpgradeSpec
----------------------------------------------------------------------------
(* The index, across upgrades and the work between them.                   *)

\* Wherever open sets the index back, there is none that searches trust.
OutdatedInv ==
    stage # "open" /\ (schema.columns = "legacy" \/ schema.table = "records_v2" \/ attempt.legacy \/ schema.version < 2)
        => ~current

IndexedInv == UpgradeInv /\ SearchInv /\ OutdatedInv

LEMMA OutdatedStep ==
    ASSUME IndexedInv, [UpgradeNext]_allVars
    PROVE  OutdatedInv'
<1> USE VersionsNatural DEF IndexedInv, UpgradeInv, OutdatedInv, UpgradeTypeOK,
        vars, data, index, unread, backupVars, Reach, Abort, NoAttempt, CurrentVersion
<1>1. CASE CheckVersion \/ ReuseBackup \/ FinishBackup \/ RecordBackup
    BY <1>1 DEF CheckVersion, ReuseBackup, FinishBackup, RecordBackup
<1>2. CASE StartBackup
    BY <1>2 DEF StartBackup
<1>3. CASE SettleTables
    BY <1>3 DEF SettleTables
<1>4. CASE CopyLegacyTable
    BY <1>4 DEF CopyLegacyTable
<1>5. CASE AddColumns \/ FinishFingerprints \/ ForgetHashes \/ ResetWatermark \/ FinishTyping
    BY <1>5 DEF AddColumns, FinishFingerprints, ForgetHashes, ResetWatermark, FinishTyping
<1>6. CASE RebuildChunk \/ BackfillChunk
    BY <1>6 DEF RebuildChunk, BackfillChunk
<1>7. CASE MarkVersion
    BY <1>7 DEF MarkVersion
<1>8. CASE CreateTables
    BY <1>8 DEF CreateTables
<1>9. CASE FinishUpgrade
    BY <1>9 DEF FinishUpgrade
<1>10. CASE FailBackup \/ StopOpening
    BY <1>10 DEF FailBackup, StopOpening
<1>11. CASE WorkOpen
    BY <1>11 DEF WorkOpen, upgradeVars
<1>12. CASE StopWork
    <2>1. stage = "open" /\ UNCHANGED <<schema, attempt>>
        BY <1>12 DEF StopWork
    <2>2. schema.version = 7 /\ schema.table = "records" /\ schema.columns # "legacy" /\ ~attempt.legacy
        BY <2>1 DEF ProgressInv, TableInv, Complete, BackupInv
    <2> QED
        BY <2>1, <2>2
<1>13. CASE UNCHANGED allVars
    BY <1>13 DEF allVars, upgradeVars
<1> QED
    BY <1>1, <1>2, <1>3, <1>4, <1>5, <1>6, <1>7, <1>8, <1>9, <1>10, <1>11, <1>12, <1>13 DEF UpgradeNext, Opening

\* What opening does to the index and to the job that nobody has begun.
LEMMA OpeningKeeps ==
    ASSUME IndexedInv, Opening \/ FailBackup \/ StopOpening
    PROVE  /\ UNCHANGED <<records, current, table, kept, pc>> /\ pc = "idle"
           /\ UNCHANGED <<live, watermark>> \/ (~current /\ (live' = live \/ live' = {}))
<1>1. stage # "open" /\ pc = "idle"
    <2>1. stage # "open"
        BY DEF Opening, CheckVersion, ReuseBackup, StartBackup, FinishBackup, RecordBackup, FailBackup,
            SettleTables, CopyLegacyTable, AddColumns, RebuildChunk, FinishFingerprints, ForgetHashes,
            ResetWatermark, BackfillChunk, FinishTyping, MarkVersion, CreateTables, FinishUpgrade,
            StopOpening
    <2> QED
        BY <2>1 DEF IndexedInv, UpgradeInv, UpgradeTypeOK
<1>2. CASE SettleTables \/ CopyLegacyTable \/ ResetWatermark
    BY <1>1, <1>2 DEF IndexedInv, OutdatedInv, SettleTables, CopyLegacyTable, ResetWatermark,
        data, unread
<1>3. ASSUME ~SettleTables, ~CopyLegacyTable, ~ResetWatermark
      PROVE  UNCHANGED <<records, index, table, kept, pc>>
    BY <1>3 DEF Opening, CheckVersion, ReuseBackup, StartBackup, FinishBackup, RecordBackup,
        AddColumns, RebuildChunk, FinishFingerprints, ForgetHashes, BackfillChunk, FinishTyping,
        MarkVersion, CreateTables, FinishUpgrade, FailBackup, StopOpening, vars, data, unread
<1> QED
    BY <1>1, <1>2, <1>3 DEF index

LEMMA SearchStep ==
    ASSUME IndexedInv, [UpgradeNext]_allVars, ~InterruptedResets, ~ClearsPartial
    PROVE  SearchInv'
<1>1. TypeOK /\ SearchInv
    BY DEF IndexedInv, UpgradeInv, UpgradeTypeOK
<1>2. CASE WorkOpen \/ StopWork \/ UNCHANGED allVars
    BY <1>1, <1>2, NextSearched DEF WorkOpen, StopWork, Next, allVars
<1>3. CASE Opening \/ FailBackup \/ StopOpening
    <2>1. /\ UNCHANGED <<records, current, table, kept, pc>> /\ pc = "idle"
          /\ UNCHANGED <<live, watermark>> \/ (~current /\ (live' = live \/ live' = {}))
        BY <1>3, OpeningKeeps
    <2>2. PartialInv'
        BY <1>1, <2>1 DEF SearchInv, PartialInv, table
    <2>3. IndexInv'
        BY <1>1, <2>1 DEF SearchInv, IndexInv
    <2>4. PlanInv'
        <3>1. pc' \notin Building /\ pc' \notin Resetting /\ pc' = "idle"
            BY <2>1, ResetKeysByPosition DEF Building
        <3>2. \A n \in 1..5 : pc' # ResetKeys[n]
            BY <3>1, ResetKeysByPosition DEF Resetting, ToSet
        <3> QED
            BY <3>1, <3>2 DEF PlanInv
    <2> QED
        BY <2>2, <2>3, <2>4 DEF SearchInv
<1> QED
    BY <1>2, <1>3 DEF UpgradeNext

LEMMA InitIndexed ==
    ASSUME UpgradeInit
    PROVE  IndexedInv
<1>1. UpgradeInv /\ TypeOK
    BY InitUpgrade DEF UpgradeInv, UpgradeTypeOK
<1>2. pc = "idle" /\ rebuildTable = FALSE /\ stage = "closed" /\ attempt = NoAttempt
    BY DEF UpgradeInit, InitWork
<1>3. PartialInv
    BY <1>2 DEF PartialInv
<1>4. PlanInv
    <2>1. pc \notin Building /\ pc \notin Resetting
        BY <1>2, ResetKeysByPosition DEF Building
    <2>2. \A n \in 1..5 : pc # ResetKeys[n]
        BY <2>1, ResetKeysByPosition DEF Resetting, ToSet
    <2> QED
        BY <1>2, <2>1, <2>2 DEF PlanInv
<1>5. Len(records) \in Nat
    BY <1>1, LenProperties DEF TypeOK
<1>6. IndexInv
    BY <1>5, EntriesAre DEF IndexInv, UpgradeInit, OutdatedIndex
<1>7. OutdatedInv
    <2>1. CASE OutdatedIndex
        BY <2>1 DEF OutdatedInv, OutdatedIndex
    <2>2. CASE schema.version >= 2 /\ schema.table = "records"
        <3>1. schema.version \in Nat
            BY <1>1, VersionsNatural DEF UpgradeInv, UpgradeTypeOK
        <3>2. ~(schema.version < 2) /\ schema.columns # "legacy"
            BY <1>1, <2>2, <3>1 DEF UpgradeInv, TableInv
        <3> QED
            BY <1>2, <2>2, <3>2 DEF OutdatedInv, NoAttempt
    <2> QED
        BY <2>1, <2>2 DEF UpgradeInit
<1> QED
    BY <1>1, <1>3, <1>4, <1>6, <1>7 DEF IndexedInv, SearchInv

LEMMA NextIndexed ==
    ASSUME IndexedInv, [UpgradeNext]_allVars, ~InterruptedResets, ~ClearsPartial
    PROVE  IndexedInv'
BY NextUpgrade, SearchStep, OutdatedStep DEF IndexedInv

(* As long as the process does not stop while the bookkeeping of a rebuild *)
(* is reset, and the database is not cleared under a partial rebuild, the  *)
(* index that searches trust is exact (fts_index.rs, index and repair),    *)
(* across any upgrade of the records.                                      *)
THEOREM IndexIsExact ==
    ASSUME ~InterruptedResets, ~ClearsPartial
    PROVE  UpgradeSpec => []IndexExact
<1>1. IndexedInv /\ [UpgradeNext]_allVars => IndexedInv'
    BY NextIndexed
<1>2. IndexedInv => IndexExact
    BY SearchedIsExact DEF IndexedInv, UpgradeInv, UpgradeTypeOK
<1> QED
    BY <1>1, <1>2, InitIndexed, PTL DEF UpgradeSpec

(* Under the same conditions a partial rebuild that the next attempt would *)
(* take over holds exactly the rows up to its cursor (fts_index.rs,        *)
(* repair).                                                                *)
THEOREM ResumesAreExact ==
    ASSUME ~InterruptedResets, ~ClearsPartial
    PROVE  UpgradeSpec => []ResumeExact
<1>1. IndexedInv /\ [UpgradeNext]_allVars => IndexedInv'
    BY NextIndexed
<1>2. IndexedInv => ResumeExact
    BY SearchedIsExact DEF IndexedInv, UpgradeInv, UpgradeTypeOK
<1> QED
    BY <1>1, <1>2, InitIndexed, PTL DEF UpgradeSpec
----------------------------------------------------------------------------
(* The owners of rows.                                                     *)

LEMMA OpeningOwns ==
    ASSUME OwnersInv, Opening \/ FailBackup \/ StopOpening
    PROVE  OwnersInv' /\ records' = records
<1>1. UNCHANGED <<records, added>>
    BY DEF Opening, CheckVersion, ReuseBackup, StartBackup, FinishBackup, RecordBackup, FailBackup,
        SettleTables, CopyLegacyTable, AddColumns, RebuildChunk, FinishFingerprints, ForgetHashes,
        ResetWatermark, BackfillChunk, FinishTyping, MarkVersion, CreateTables, FinishUpgrade,
        StopOpening, vars, data, unread
<1> QED
    BY <1>1 DEF OwnersInv

LEMMA InitOwned ==
    ASSUME UpgradeInit
    PROVE  OwnersInv
<1>1. TypeOK
    BY InitUpgrade DEF UpgradeInv, UpgradeTypeOK
<1>2. records \in Seq(Row) /\ Len(records) \in Nat /\ added = <<>> /\ records \o <<>> = records
    BY <1>1, LenProperties, ConcatEmptySeq DEF TypeOK, UpgradeInit, InitWork
<1>3. OwnedAfter(records, Len(records))
    BY <1>2 DEF OwnedAfter
<1>4. <<>> \in Seq(Row) /\ Firsts(<<>>) /\ OwnedAfter(<<>>, 0)
    BY DEF Firsts, OwnedAfter
<1>5. ASSUME NEW f \in Files PROVE Firsts(Inserted(<<>>, f))
    <2>1. f \in Seq(Texts)
        BY FilesTyped
    <2>2. Inserted(<<>>, f) \in Seq(Row)
        BY <1>4, <2>1, InsertedTyped
    <2>3. <<>> \o Inserted(<<>>, f) = Inserted(<<>>, f)
        BY <2>2, ConcatEmptySeq
    <2>4. Firsts(<<>> \o Inserted(<<>>, f))
        <3>1. 0 \in Nat /\ 0 <= Len(<<>>)
            OBVIOUS
        <3> QED
            BY <1>4, <2>1, <3>1, InsertedOwns
    <2> QED
        BY <2>3, <2>4
<1>6. ASSUME NEW f \in Files PROVE Firsts([i \in DOMAIN f |-> [text |-> f[i], owner |-> 0]])
    <2>1. DOMAIN f = 1..Len(f) /\ Len(f) \in Nat
        BY FilesTyped, LenProperties
    <2> DEFINE r == [i \in 1..Len(f) |-> [text |-> f[i], owner |-> 0]]
    <2>2. Len(r) = Len(f) /\ \A i \in 1..Len(f) : r[i].owner = 0
        BY <2>1
    <2> HIDE DEF r
    <2>3. Firsts(r)
        BY <2>2 DEF Firsts
    <2> QED
        BY <2>1, <2>3 DEF r
<1>7. Firsts(records)
    BY <1>4, <1>5, <1>6 DEF UpgradeInit, InitRows, CollapsedRows
<1> QED
    BY <1>2, <1>3, <1>7 DEF OwnersInv

(* Whatever was in the database before, and however its rows fall into     *)
(* batches, an import gives each row that it commits to the first row of   *)
(* the same content (record_writer.rs, insert_batch_scoped), across any    *)
(* interruption and any upgrade.                                           *)
THEOREM DuplicatesHaveOwners == UpgradeSpec => DuplicatesAreOwned
<1> DEFINE OwnedInv == UpgradeInv /\ OwnersInv
<1>1. UpgradeInit => OwnedInv
    BY InitUpgrade, InitOwned
<1>2. OwnedInv /\ [UpgradeNext]_allVars => OwnedInv'
    <2> SUFFICES ASSUME OwnedInv, [UpgradeNext]_allVars PROVE OwnedInv'
        OBVIOUS
    <2>1. TypeOK
        BY DEF UpgradeInv, UpgradeTypeOK
    <2>2. CASE WorkOpen \/ StopWork \/ UNCHANGED allVars
        BY <2>1, <2>2, NextOwned, NextUpgrade DEF WorkOpen, StopWork, Next, allVars
    <2>3. CASE Opening \/ FailBackup \/ StopOpening
        BY <2>3, OpeningOwns, NextUpgrade
    <2> QED
        BY <2>2, <2>3 DEF UpgradeNext
<1>3. ASSUME OwnedInv, [UpgradeNext]_allVars, NEW i \in DOMAIN records' \ DOMAIN records
      PROVE  LET same == {k \in 1..(i - 1) : records'[k].text = records'[i].text}
             IN  records'[i].owner = IF same = {} THEN 0 ELSE Min(same)
    <2>1. TypeOK
        BY <1>3 DEF UpgradeInv, UpgradeTypeOK
    <2>2. CASE WorkOpen \/ StopWork \/ UNCHANGED allVars
        BY <1>3, <2>1, <2>2, OwnedStep DEF WorkOpen, StopWork, Next, allVars
    <2>3. CASE Opening \/ FailBackup \/ StopOpening
        BY <1>3, <2>3, OpeningOwns
    <2> QED
        BY <1>3, <2>2, <2>3 DEF UpgradeNext
<1>4. OwnedInv /\ [UpgradeNext]_allVars =>
        [\A i \in DOMAIN records' \ DOMAIN records :
           LET same == {k \in 1..(i - 1) : records'[k].text = records'[i].text}
           IN  records'[i].owner = IF same = {} THEN 0 ELSE Min(same)]_vars
    BY <1>3
<1> QED
    BY <1>1, <1>2, <1>4, PTL DEF UpgradeSpec, DuplicatesAreOwned
----------------------------------------------------------------------------
(* What searches find.                                                     *)

\* What an index that held every row would hold.
TextsOf(rows) == {<<i, rows[i].text>> : i \in DOMAIN rows}

\* Where opening has still to set the watermark back of a table of the first versions.
BeforeReset ==
    {"closed", "resuming", "preflight", "copying", "verifying", "tables", "layout",
     "fingerprints", "hashes", "watermark"}

\* An index of whatever version holds rows there are, with the texts they have, and lacks no
\* searchable row up to its watermark.
Held ==
    /\ live \subseteq TextsOf(records)
    /\ watermark <= Len(records)
    /\ EntriesOf(records, 0, watermark) \subseteq live

\* Between the copy of the first layout, which drops the index, and the reset of the watermark
\* it lacks rows; the version tells every later attempt to reset it.
LiveInv ==
    /\ live \subseteq TextsOf(records)
    /\ watermark <= Len(records)
    /\ \/ EntriesOf(records, 0, watermark) \subseteq live
       \/ stage \in BeforeReset /\ schema.version < 2 /\ schema.table # "none"

LEMMA EntriesHaveTexts ==
    ASSUME NEW rows, NEW above, NEW upTo
    PROVE  EntriesOf(rows, above, upTo) \subseteq TextsOf(rows)
BY DEF EntriesOf, TextsOf

LEMMA TextsOfPrefix ==
    ASSUME NEW rows \in Seq(Row), NEW more \in Seq(Row)
    PROVE  TextsOf(rows) \subseteq TextsOf(rows \o more)
<1> DEFINE all == rows \o more
<1>1. /\ DOMAIN rows = 1..Len(rows) /\ Len(rows) \in Nat /\ Len(more) \in Nat
      /\ all \in Seq(Row) /\ Len(all) = Len(rows) + Len(more) /\ DOMAIN all = 1..Len(all)
      /\ \A i \in 1..Len(rows) : all[i] = rows[i]
    BY LenProperties, ConcatProperties
<1> HIDE DEF all
<1>2. \A i \in DOMAIN rows : i \in DOMAIN all /\ all[i].text = rows[i].text
    BY <1>1
<1>3. TextsOf(rows) \subseteq TextsOf(all)
    BY <1>2 DEF TextsOf
<1> QED
    BY <1>3 DEF all

\* Work on the open database: an index that is current is exact, any other changes only with
\* the rows, or when it is replaced by a current one.
LEMMA HeldStep ==
    ASSUME TypeOK, SearchInv, Held, Next, TypeOK', SearchInv'
    PROVE  Held'
<1> USE DEF data, index, table
<1>1. CASE current'
    BY <1>1, EntriesHaveTexts DEF SearchInv, IndexInv, Held
<1>2. CASE ~current' /\ CommitImport
    <2>1. records' = records \o added /\ live' = live /\ watermark' = watermark
        BY <1>2 DEF CommitImport
    <2>2. watermark \in Nat /\ Len(records) \in Nat /\ Len(added) \in Nat
          /\ Len(records \o added) = Len(records) + Len(added)
        BY LenProperties, ConcatProperties DEF TypeOK
    <2>3. EntriesOf(records \o added, 0, watermark) = EntriesOf(records, 0, watermark)
        BY <2>2, EntriesOfPrefix DEF TypeOK, Held
    <2>4. TextsOf(records) \subseteq TextsOf(records \o added)
        BY TextsOfPrefix DEF TypeOK
    <2> QED
        BY <2>1, <2>2, <2>3, <2>4 DEF Held
<1>3. CASE ~current' /\ Clear
    <2>1. records' = <<>> /\ live' = {} /\ watermark' = 0
        BY <1>3 DEF Clear
    <2>2. EntriesOf(<<>>, 0, 0) = {} /\ Len(<<>>) = 0
        BY DEF EntriesOf
    <2> QED
        BY <2>1, <2>2 DEF Held
<1>4. CASE ~current' /\ ~CommitImport /\ ~Clear
    <2>1. UNCHANGED <<records, live, watermark>>
        <3>1. CASE Crash
            BY <3>1 DEF Crash
        <3>2. CASE Swap
            BY <1>4, <3>2 DEF Swap
        <3>3. CASE IndexChunk
            BY <1>4, <3>3 DEF IndexChunk, SearchInv, PlanInv
        <3>4. ASSUME Work, ~Swap, ~IndexChunk PROVE UNCHANGED <<records, live, watermark>>
            BY <1>4, <3>4 DEF Work, Step, StartImport, InsertBatch, LogImport, RollbackImport,
                StartIndex, StartRepair, ChooseIndex, PlanRebuild, CreateTable, ResetKey, BuildChunk,
                FailBuild, FinishBuild, VerifySource, Discard, Forget, Cancel, ForeignCommit
        <3> QED
            BY <3>1, <3>2, <3>3, <3>4 DEF Next
    <2> QED
        BY <2>1 DEF Held
<1> QED
    BY <1>1, <1>2, <1>3, <1>4

\* Opening: the index is dropped only with a table of the first layout, and the watermark is
\* then reset before anyone searches.
LEMMA LiveOpeningStep ==
    ASSUME UpgradeInv, LiveInv, Opening \/ FailBackup \/ StopOpening
    PROVE  LiveInv'
<1> USE DEF LiveInv, BeforeReset, data, index, unread, backupVars, vars, Reach, Abort
<1>1. /\ records \in Seq(Row) /\ watermark \in Nat /\ Len(records) \in Nat
      /\ schema.version \in Nat
    BY LenProperties, VersionsNatural DEF UpgradeInv, UpgradeTypeOK, TypeOK
<1>2. EntriesOf(records, 0, 0) = {}
    BY <1>1, NoEntries
<1>3. CASE SettleTables
    <2>1. /\ UNCHANGED <<records, live>> /\ (watermark' = watermark \/ watermark' = 0)
          /\ schema'.version = schema.version
          /\ \/ schema.table = "none"
             \/ stage' = "layout" /\ schema'.table = "records"
        BY <1>3 DEF SettleTables, UpgradeInv, UpgradeTypeOK
    <2> QED
        BY <1>1, <1>2, <2>1
<1>4. CASE CopyLegacyTable
    <2>1. /\ UNCHANGED <<records, watermark>> /\ live' = {} /\ stage' = "fingerprints"
          /\ schema'.version = schema.version /\ schema'.table = schema.table
          /\ schema.columns = "legacy"
        BY <1>4 DEF CopyLegacyTable, UpgradeInv, UpgradeTypeOK
    <2>2. schema.version < 2 /\ schema.table # "none"
        BY <2>1 DEF UpgradeInv, TableInv, Complete
    <2> QED
        BY <2>1, <2>2
<1>5. CASE ResetWatermark
    <2>1. /\ UNCHANGED <<records, live, schema>>
          /\ watermark' = IF attempt.legacy \/ schema.version < 2 THEN 0 ELSE watermark
        BY <1>5 DEF ResetWatermark
    <2> QED
        BY <1>1, <1>2, <2>1
<1>6. CASE CreateTables
    <2>1. /\ UNCHANGED <<records, live, watermark>> /\ stage \in {"creating", "tables"}
          /\ (stage = "tables" => schema.version = CurrentVersion)
        BY <1>6 DEF CreateTables, MigrationRequired
    <2>2. EntriesOf(records, 0, watermark) \subseteq live
        BY <2>1 DEF CurrentVersion
    <2> QED
        BY <2>1, <2>2
<1>7. CASE FinishTyping \/ MarkVersion \/ FinishUpgrade \/ BackfillChunk
    <2>1. UNCHANGED <<records, live, watermark>> /\ stage \notin BeforeReset
        BY <1>7 DEF FinishTyping, MarkVersion, FinishUpgrade, BackfillChunk
    <2> QED
        BY <2>1
<1>8. CASE AddColumns \/ FinishFingerprints \/ RebuildChunk
    <2>1. /\ UNCHANGED <<records, live, watermark>> /\ stage' \in BeforeReset
          /\ schema'.version = schema.version /\ schema'.table = schema.table
        BY <1>8 DEF AddColumns, FinishFingerprints, RebuildChunk, UpgradeInv, UpgradeTypeOK
    <2> QED
        BY <2>1
<1>9. CASE CheckVersion \/ ReuseBackup \/ StartBackup \/ FinishBackup \/ RecordBackup \/ ForgetHashes
           \/ FailBackup \/ StopOpening
    <2>1. UNCHANGED <<records, live, watermark, schema>> /\ stage' \in BeforeReset
        BY <1>9 DEF CheckVersion, ReuseBackup, StartBackup, FinishBackup, RecordBackup, ForgetHashes,
            FailBackup, StopOpening
    <2> QED
        BY <2>1
<1> QED
    BY <1>3, <1>4, <1>5, <1>6, <1>7, <1>8, <1>9 DEF Opening

LEMMA LiveStep ==
    ASSUME IndexedInv, LiveInv, [UpgradeNext]_allVars, IndexedInv'
    PROVE  LiveInv'
<1>1. /\ TypeOK /\ SearchInv /\ TypeOK' /\ SearchInv'
    BY DEF IndexedInv, UpgradeInv, UpgradeTypeOK
<1>2. CASE WorkOpen \/ StopWork
    <2>1. stage = "open" /\ Next
        BY <1>2 DEF WorkOpen, StopWork, Next
    <2>2. Held
        BY <2>1 DEF LiveInv, Held, BeforeReset
    <2>3. Held'
        BY <1>1, <2>1, <2>2, HeldStep
    <2> QED
        BY <2>3 DEF Held, LiveInv
<1>3. CASE Opening \/ FailBackup \/ StopOpening
    BY <1>3, LiveOpeningStep DEF IndexedInv
<1>4. CASE UNCHANGED allVars
    BY <1>4 DEF LiveInv, allVars, upgradeVars, vars, data, index
<1> QED
    BY <1>2, <1>3, <1>4 DEF UpgradeNext

LEMMA InitLive ==
    ASSUME UpgradeInit
    PROVE  LiveInv
<1>1. records \in Seq(Row) /\ DOMAIN records = 1..Len(records) /\ Len(records) \in Nat
    BY InitUpgrade, LenProperties DEF UpgradeInv, UpgradeTypeOK, TypeOK
<1>2. CASE OutdatedIndex
    <2>1. PICK w \in 0..Len(records) :
             watermark = w /\ live \in {Entries(0, w), {<<i, records[i].text>> : i \in 1..w}}
        BY <1>2 DEF OutdatedIndex
    <2>2. EntriesOf(records, 0, w) \subseteq {<<i, records[i].text>> : i \in 1..w}
        BY <1>1, <2>1 DEF EntriesOf
    <2>3. {<<i, records[i].text>> : i \in 1..w} \subseteq TextsOf(records)
        BY <1>1, <2>1 DEF TextsOf
    <2>4. Entries(0, w) = EntriesOf(records, 0, w)
        BY EntriesAre
    <2> QED
        BY <1>1, <2>1, <2>2, <2>3, <2>4 DEF LiveInv
<1>3. CASE watermark = Len(records) /\ live = Entries(0, Len(records))
    BY <1>1, <1>3, EntriesAre, EntriesHaveTexts DEF LiveInv
<1> QED
    BY <1>2, <1>3 DEF UpgradeInit

\* The first row of a content is searchable, so that every row of it is found.
LEMMA HeldIsFound ==
    ASSUME TypeOK, Held, Firsts(records), NEW t \in Texts
    PROVE  Found(t) = {r \in DOMAIN records : records[r].text = t}
<1>1. /\ records \in Seq(Row) /\ DOMAIN records = 1..Len(records) /\ Len(records) \in Nat
      /\ watermark \in Nat
    BY LenProperties DEF TypeOK
<1> DEFINE indexed == {i \in DOMAIN records : <<i, t>> \in live}
           tail    == {i \in DOMAIN records : watermark < i /\ Searchable(i) /\ records[i].text = t}
<1>2. Found(t) = {r \in DOMAIN records : \E i \in indexed \cup tail : records[i].text = records[r].text}
    BY DEF Found
<1>3. \A i \in indexed \cup tail : records[i].text = t
    BY DEF Held, TextsOf
<1>4. ASSUME NEW r \in DOMAIN records, records[r].text = t
      PROVE  \E i \in indexed \cup tail : records[i].text = records[r].text
    <2> DEFINE S == {k \in 1..Len(records) : records[k].text = t}
               m == Min(S)
    <2>1. S \in SUBSET Nat /\ r \in S
        BY <1>1, <1>4
    <2> HIDE DEF S
    <2>2. m \in S /\ \A y \in S : m <= y
        BY <2>1, LeastIsNatural
    <2> HIDE DEF m
    <2>3. m \in 1..Len(records) /\ records[m].text = t
        BY <2>2 DEF S
    <2>4. SameBefore(records, m) = {}
        <3>1. ASSUME NEW j \in 1..(m - 1), records[j].text = records[m].text PROVE FALSE
            <4>1. j \in S /\ j < m
                BY <1>1, <2>3, <3>1 DEF S
            <4> QED
                BY <1>1, <2>2, <2>3, <3>1, <4>1
        <3> QED
            BY <3>1 DEF SameBefore
    <2>5. records[m].owner = 0
        BY <2>3, <2>4 DEF Firsts
    <2>6. ASSUME m <= watermark PROVE m \in indexed
        <3>1. <<m, records[m].text>> \in EntriesOf(records, 0, watermark)
            BY <1>1, <2>3, <2>5, <2>6 DEF EntriesOf
        <3> QED
            BY <1>1, <1>4, <2>3, <3>1 DEF Held
    <2>7. ASSUME watermark < m PROVE m \in tail
        BY <1>1, <2>3, <2>5, <2>7 DEF Searchable
    <2> HIDE DEF indexed, tail
    <2>8. m \in indexed \cup tail
        BY <1>1, <2>3, <2>6, <2>7
    <2> QED
        BY <1>4, <2>3, <2>8
<1> HIDE DEF indexed, tail
<1> QED
    BY <1>2, <1>3, <1>4

(* Under the same conditions every search on an open database finds the    *)
(* rows that hold its text, and no other, whichever version its index has  *)
(* and whatever has become of the rebuilds of it (query_plan.rs,           *)
(* fts_filter_clause; fts_index.rs, index and repair).                     *)
THEOREM SearchesAreExact ==
    ASSUME ~InterruptedResets, ~ClearsPartial
    PROVE  UpgradeSpec => []SearchIsExact
<1> DEFINE FoundInv == IndexedInv /\ OwnersInv /\ LiveInv
<1>1. UpgradeInit => FoundInv
    BY InitIndexed, InitOwned, InitLive
<1>2. FoundInv /\ [UpgradeNext]_allVars => FoundInv'
    <2> SUFFICES ASSUME FoundInv, [UpgradeNext]_allVars PROVE FoundInv'
        OBVIOUS
    <2>1. IndexedInv'
        BY NextIndexed
    <2>2. LiveInv'
        BY <2>1, LiveStep
    <2>3. OwnersInv'
        <3>1. CASE WorkOpen \/ StopWork \/ UNCHANGED allVars
            BY <3>1, NextOwned DEF WorkOpen, StopWork, Next, allVars, IndexedInv, UpgradeInv, UpgradeTypeOK
        <3>2. CASE Opening \/ FailBackup \/ StopOpening
            BY <3>2, OpeningOwns
        <3> QED
            BY <3>1, <3>2 DEF UpgradeNext
    <2> QED
        BY <2>1, <2>2, <2>3
<1>3. FoundInv => SearchIsExact
    <2> SUFFICES ASSUME FoundInv, stage = "open", NEW t \in Texts
                 PROVE  Found(t) = {r \in Rows : records[r].text = t}
        BY DEF SearchIsExact
    <2>1. TypeOK /\ Firsts(records) /\ Held
        BY DEF IndexedInv, UpgradeInv, UpgradeTypeOK, OwnersInv, LiveInv, Held, BeforeReset
    <2> QED
        BY <2>1, HeldIsFound DEF Rows
<1> HIDE DEF FoundInv
<1> QED
    BY <1>1, <1>2, <1>3, PTL DEF UpgradeSpec
----------------------------------------------------------------------------
(* The import log, across upgrades.                                        *)

\* Opening a database leaves the rows alone, and the log but for the hashes it resets.
LEMMA OpeningLogs ==
    ASSUME UpgradeInv, LogInv, Opening \/ FailBackup \/ StopOpening
    PROVE  LogInv'
<1>1. UNCHANGED <<records, pc, file, added>> /\ (log' = log \/ log' = [m \in DOMAIN log |-> <<>>])
    BY DEF Opening, CheckVersion, ReuseBackup, StartBackup, FinishBackup, RecordBackup, FailBackup,
        SettleTables, CopyLegacyTable, AddColumns, RebuildChunk, FinishFingerprints, ForgetHashes,
        ResetWatermark, BackfillChunk, FinishTyping, MarkVersion, CreateTables, FinishUpgrade,
        StopOpening, vars, data, unread
<1>2. pc = "idle" /\ file = <<>> /\ DOMAIN log = 1..Len(log) /\ Len(log) \in Nat
    <2>1. stage # "open" => pc = "idle"
        BY DEF UpgradeInv, UpgradeTypeOK
    <2>2. stage # "open"
        BY DEF Opening, CheckVersion, ReuseBackup, StartBackup, FinishBackup, RecordBackup, FailBackup,
            SettleTables, CopyLegacyTable, AddColumns, RebuildChunk, FinishFingerprints, ForgetHashes,
            ResetWatermark, BackfillChunk, FinishTyping, MarkVersion, CreateTables, FinishUpgrade,
            StopOpening
    <2> QED
        BY <2>1, <2>2, LenProperties DEF UpgradeInv, UpgradeTypeOK, TypeOK
<1>3. CASE log' = log
    BY <1>1, <1>3 DEF LogInv
<1>4. CASE log' = [m \in DOMAIN log |-> <<>>]
    <2>1. Len(log') = Len(log) /\ \A m \in 1..Len(log) : log'[m] = <<>>
        BY <1>2, <1>4
    <2>2. Covered(<<>>, records)
        BY DEF Covered
    <2> QED
        BY <1>1, <1>2, <2>1, <2>2 DEF LogInv
<1> QED
    BY <1>1, <1>3, <1>4

LEMMA InitLogged ==
    ASSUME UpgradeInit
    PROVE  LogInv
<1>1. Covered(<<>>, records) /\ pc = "idle" /\ file = <<>> /\ added = <<>>
    BY DEF Covered, UpgradeInit, InitWork
<1>2. CASE log = <<>>
    BY <1>1, <1>2 DEF LogInv
<1>3. ASSUME NEW f \in Files, log = <<f>>, Covered(f, records) PROVE LogInv
    <2>1. Len(log) = 1 /\ log[1] = f
        BY <1>3
    <2> QED
        BY <1>1, <1>3, <2>1 DEF LogInv
<1>4. ASSUME NEW f \in Files PROVE Covered(f, Inserted(<<>>, f))
    <2>1. f \in Seq(Texts) /\ DOMAIN f = 1..Len(f) /\ Len(f) \in Nat
        BY FilesTyped, LenProperties
    <2>2. Len(Inserted(<<>>, f)) = Len(f)
        <3>1. <<>> \in Seq(Row)
            OBVIOUS
        <3> QED
            BY <2>1, <3>1, InsertedTyped
    <2>3. \A k \in 1..Len(f) : Inserted(<<>>, f)[k].text = f[k]
        BY <2>1 DEF Inserted
    <2> QED
        BY <2>2, <2>3 DEF Covered
<1>5. ASSUME NEW f \in Files PROVE Covered(f, [i \in DOMAIN f |-> [text |-> f[i], owner |-> 0]])
    <2>1. DOMAIN f = 1..Len(f) /\ Len(f) \in Nat
        BY FilesTyped, LenProperties
    <2> DEFINE r == [i \in 1..Len(f) |-> [text |-> f[i], owner |-> 0]]
    <2>2. Len(r) = Len(f) /\ \A i \in 1..Len(f) : r[i].text = f[i]
        BY <2>1
    <2> HIDE DEF r
    <2>3. Covered(f, r)
        BY <2>2 DEF Covered
    <2> QED
        BY <2>1, <2>3 DEF r
<1> QED
    BY <1>2, <1>3, <1>4, <1>5 DEF UpgradeInit, InitRows, CollapsedRows

(* An import is skipped only when its rows are in the database, and no     *)
(* file is logged twice (import_log), wherever imports, the indexing that  *)
(* follows them, clearing and upgrades are interrupted.                    *)
THEOREM LogStaysHonest == UpgradeSpec => []LogIsHonest
<1> DEFINE LoggedInv == UpgradeInv /\ LogInv
<1>1. UpgradeInit => LoggedInv
    BY InitUpgrade, InitLogged
<1>2. LoggedInv /\ [UpgradeNext]_allVars => LoggedInv'
    <2> SUFFICES ASSUME LoggedInv, [UpgradeNext]_allVars PROVE LoggedInv'
        OBVIOUS
    <2>1. TypeOK
        BY DEF UpgradeInv, UpgradeTypeOK
    <2>2. CASE WorkOpen \/ StopWork \/ UNCHANGED allVars
        BY <2>1, <2>2, NextLogged, NextUpgrade DEF WorkOpen, StopWork, Next, allVars
    <2>3. CASE Opening \/ FailBackup \/ StopOpening
        BY <2>3, OpeningLogs, NextUpgrade
    <2> QED
        BY <2>2, <2>3 DEF UpgradeNext
<1>3. LoggedInv => LogIsHonest
    BY LoggedIsHonest DEF UpgradeInv, UpgradeTypeOK
<1> QED
    BY <1>1, <1>2, <1>3, PTL DEF UpgradeSpec
=============================================================================
