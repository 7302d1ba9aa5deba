------------------------- MODULE MappingReview_proofs -------------------------
(***************************************************************************)
(* Proofs about MappingReview, for any number of imports, lines, products, *)
(* matchers, reviewers and crashes.  Of any behaviour: the tables keep     *)
(* their types and every reference in them leads somewhere.  Of orderly    *)
(* ones, where nobody writes between a read and the write that follows     *)
(* from it: what a session has read is what is there when it writes, and   *)
(* so mappings come from people, decisions are final and every exception   *)
(* is queued.  Of serial ones: approved lines stay quiet and the counters  *)
(* reconcile.                                                              *)
(***************************************************************************)
EXTENDS MappingReview, FiniteSetTheorems, WellFoundedInduction, TLAPS

Working(m) == matcher[m].pc # "idle"
Writing(m) == matcher[m].pc = "write"
Deciding(r) == reviewer[r].pc = "decide"

RowExists(id) == /\ id.job \in Jobs /\ job[id.job].stage # "ABSENT"
                 /\ id.n \in 1 .. Len(file[id.job])

\* Every row, item and working session refers to what exists.
JobsFit ==
    \A j \in Jobs : /\ Len(verdict[j]) = Len(file[j])
                    /\ job[j].stage = "ABSENT" => Len(file[j]) = 0

ItemsFit == \A i \in Items : item[i].status # "ABSENT" => RowExists(item[i].row)

\* A line has a product exactly when it is proposed or approved.
LineFits(l) == l.status \in {"PENDING", "APPROVED"} <=> l.product # None
LinesFit == \A s \in Skus : LineFits(line[s])

MatcherFits(m) ==
    /\ LineFits(matcher[m].line)
    /\ Working(m) =>
         /\ MyJob(m) \in Jobs /\ job[MyJob(m)].stage # "ABSENT"
         /\ matcher[m].copy.stage = "MATCHING"
         /\ matcher[m].next \in 1 .. Len(file[MyJob(m)]) + 1
    /\ Writing(m) =>
         /\ RowsLeft(m)
         /\ Row(m).sku # None /\ matcher[m].line.status # "ABSENT" =>
              line[Row(m).sku].status # "ABSENT"
         /\ matcher[m].open # 0 =>
              /\ matcher[m].item.status = "PENDING"
              /\ matcher[m].item.sku = Row(m).sku /\ Row(m).sku # None
              /\ RowExists(matcher[m].item.row)
              /\ item[matcher[m].open].status # "ABSENT"
         /\ Row(m).sku = None => matcher[m].declined = NoEvidence
    /\ ~Writing(m) => matcher[m].open = 0 /\ matcher[m].declined = NoEvidence

ReviewerFits(r) ==
    Deciding(r) =>
        /\ reviewer[r].item \in Items
        /\ item[reviewer[r].item].status # "ABSENT"
        /\ Seen(r).status = "PENDING"
        /\ RowExists(Seen(r).row)
        /\ LineFits(reviewer[r].line)
        /\ Seen(r).sku = None => reviewer[r].line = AbsentLine

References ==
    /\ JobsFit
    /\ ItemsFit
    /\ LinesFit
    /\ \A m \in Matchers : MatcherFits(m)
    /\ \A r \in Reviewers : ReviewerFits(r)

Sound == TypeOK /\ References

\* One session at a time is between its read and its write.
OneHolder ==
    /\ \A m, n \in Matchers : Writing(m) /\ Writing(n) => m = n
    /\ \A r, s \in Reviewers : Deciding(r) /\ Deciding(s) => r = s
    /\ \A m \in Matchers, r \in Reviewers : ~(Writing(m) /\ Deciding(r))

\* In serial behaviours one session is at work at all.
OneActive ==
    /\ \A m, n \in Matchers : Working(m) /\ Working(n) => m = n
    /\ \A r, s \in Reviewers : Deciding(r) /\ Deciding(s) => r = s
    /\ \A m \in Matchers, r \in Reviewers : ~(Working(m) /\ Deciding(r))

\* What the matcher m has read of its line is what is there.
ChunkIsCurrent(m) ==
    LET s == Row(m).sku IN
    s # None =>
        /\ matcher[m].line = line[s]
        /\ matcher[m].open = 0 => OpenItems(s) = {}
        /\ matcher[m].open # 0 => item[matcher[m].open] = matcher[m].item
        /\ matcher[m].declined # NoEvidence =>
             \E i \in Rejected(s) : Evidence(item[i]) = matcher[m].declined

\* So is what the reviewer r has read.
DecisionIsCurrent(r) ==
    /\ item[reviewer[r].item] = Seen(r)
    /\ Seen(r).sku # None => reviewer[r].line = line[Seen(r).sku]
    /\ reviewer[r].verdict = verdict[Seen(r).row.job][Seen(r).row.n]

CopiesAreCurrent ==
    /\ OneHolder
    /\ discipline = "SERIAL" => OneActive
    /\ \A m \in Matchers : Writing(m) => ChunkIsCurrent(m)
    /\ \A r \in Reviewers : Deciding(r) => DecisionIsCurrent(r)

\* Approvals are on record, in the index of a running stage too, and a decision
\* is recorded of decided items only.
OnRecord ==
    /\ EveryMappingIsAttributed
    /\ \A m \in Matchers : Working(m) => \A s \in Skus : matcher[m].index[s] # None =>
          Person("APPROVED", s, matcher[m].index[s])
    /\ \A d \in audit : item[d.item].status = "APPROVED"

OrderlyInv == Sound /\ (Orderly => CopiesAreCurrent /\ OnRecord)

\* Of serial behaviours: an approved line has nothing open but disagreements.
Quiet ==
    /\ \A i, k \in Items :
         item[i].status = "PENDING" /\ item[k].status = "PENDING"
            /\ item[i].sku # None /\ item[i].sku = item[k].sku => i = k
    /\ \A i \in Items :
        /\ item[i].status = "PENDING"
        /\ item[i].sku # None
        /\ line[item[i].sku].status = "APPROVED"
        => item[i].reason \in {"CONFLICTING_IDENTIFIER", "AMBIGUOUS"}
    /\ \A m \in Matchers : Working(m) => \A s \in Skus : matcher[m].index[s] = Approved(s)

\* And counters count the rows that have been walked.
RowsWith(j, S, n) == {k \in 1 .. n : verdict[j][k].result \in S}
CountedUpTo(j, c, n) ==
    /\ c.matched = Cardinality(RowsWith(j, {"MATCHED"}, n))
    /\ c.exceptions = Cardinality(RowsWith(j, Exceptional, n))

Counters ==
    /\ \A j \in Jobs :
         /\ job[j].stage = "MATCHED" => CountedUpTo(j, job[j], Len(file[j]))
         /\ Len(file[j]) = 0 => job[j].matched = 0 /\ job[j].exceptions = 0
    /\ \A i \in Items : item[i].status # "ABSENT" =>
         verdict[item[i].row.job][item[i].row.n].result # "NONE"
    /\ \A m \in Matchers : Working(m) =>
         /\ matcher[m].copy = job[MyJob(m)]
         /\ CountedUpTo(MyJob(m), matcher[m], matcher[m].next - 1)
         /\ matcher[m].next > 1 => /\ matcher[m].copy.matched = matcher[m].matched
                                   /\ matcher[m].copy.exceptions = matcher[m].exceptions
    /\ \A r \in Reviewers : Deciding(r) => reviewer[r].job = job[Seen(r).row.job]

SerialInv == OrderlyInv /\ (discipline = "SERIAL" => Quiet /\ Counters)

----------------------------------------------------------------------------
(* Numbers and rows *)

LEMMA LeastNat ==
    ASSUME NEW S \in SUBSET Nat, S # {}
    PROVE  \E i \in S : \A k \in S : i <= k
  <1>1. PICK i \in S : \A k \in S : ~ (<<k, i>> \in OpToRel(<, Nat))
    BY NatLessThanWellFounded, WFMin
  <1>2. \A k \in S : ~(k < i)
    BY <1>1 DEF OpToRel
  <1> QED
    BY <1>2

LEMMA LatestItem ==
    ASSUME NEW S \in SUBSET Items, S # {}
    PROVE  \E i \in S : \A k \in S : k <= i
  <1> DEFINE T == {MaxItems - i : i \in S}
  <1>1. \A i \in S : i \in Nat /\ MaxItems - i \in Nat /\ MaxItems \in Nat
    BY BoundsAssumption DEF Items
  <1>2. T \in SUBSET Nat /\ T # {}
    BY <1>1
  <1>3. PICK n \in T : \A k \in T : n <= k
    BY <1>2, LeastNat
  <1>4. PICK i \in S : n = MaxItems - i
    OBVIOUS
  <1>5. \A k \in S : MaxItems - i <= MaxItems - k
    BY <1>3, <1>4
  <1> QED
    BY <1>1, <1>5

\* What an UPDATE leaves of an item: a current copy is replaced as meant.
LEMMA MergedItem ==
    ASSUME NEW a \in QueueItems, NEW b \in QueueItems, NEW c \in QueueItems
    PROVE  /\ Merge(a, b, c) \in QueueItems
           /\ Merge(a, b, c).status = IF c.status = b.status THEN a.status ELSE c.status
           /\ Merge(a, b, c).row = IF c.row = b.row THEN a.row ELSE c.row
           /\ Merge(a, b, c).sku = IF c.sku = b.sku THEN a.sku ELSE c.sku
           /\ a = b => Merge(a, b, c) = c
  <1>1. DOMAIN a = {"status", "sku", "row", "reason", "candidates", "deferred"}
        /\ DOMAIN c = DOMAIN a
    BY DEF QueueItems
  <1>2. /\ Merge(a, b, c) \in QueueItems
        /\ Merge(a, b, c).status = IF c.status = b.status THEN a.status ELSE c.status
        /\ Merge(a, b, c).row = IF c.row = b.row THEN a.row ELSE c.row
        /\ Merge(a, b, c).sku = IF c.sku = b.sku THEN a.sku ELSE c.sku
    BY <1>1 DEF Merge, QueueItems
  <1>3. Merge(a, a, c) = [x \in DOMAIN c |-> c[x]]
    BY <1>1 DEF Merge
  <1>4. Merge(a, a, c) = c
    BY <1>1, <1>3 DEF QueueItems
  <1> QED
    BY <1>2, <1>4

\* Of a line, whose copy may be on its way through SUPERSEDED.
LEMMA MergedLine ==
    ASSUME NEW a \in Lines, NEW b, NEW c \in Lines
    PROVE  /\ Merge(a, b, c) \in Lines
           /\ Merge(a, b, c) =
                [status |-> IF c.status = b.status THEN a.status ELSE c.status,
                 product |-> IF c.product = b.product THEN a.product ELSE c.product]
           /\ a = b => Merge(a, b, c) = c
  <1>1. DOMAIN a = {"status", "product"}
    BY DEF Lines
  <1> QED
    BY <1>1 DEF Merge, Lines

LEMMA MergedVerdict ==
    ASSUME NEW a \in Verdicts, NEW b \in Verdicts, NEW c \in Verdicts
    PROVE  /\ Merge(a, b, c) \in Verdicts
           /\ Merge(a, b, c).result = IF c.result = b.result THEN a.result ELSE c.result
           /\ a = b => Merge(a, b, c) = c
  <1>1. DOMAIN a = {"result", "by", "product"} /\ DOMAIN c = DOMAIN a
    BY DEF Verdicts
  <1>2. /\ Merge(a, b, c) \in Verdicts
        /\ Merge(a, b, c).result = IF c.result = b.result THEN a.result ELSE c.result
    BY <1>1 DEF Merge, Verdicts
  <1>3. Merge(a, a, c) = [x \in DOMAIN c |-> c[x]]
    BY <1>1 DEF Merge
  <1>4. Merge(a, a, c) = c
    BY <1>1, <1>3 DEF Verdicts
  <1> QED
    BY <1>2, <1>4

LEMMA MergedJob ==
    ASSUME NEW a \in JobRows, NEW b \in JobRows, NEW c \in JobRows
    PROVE  /\ Merge(a, b, c) \in JobRows
           /\ Merge(a, b, c).stage = IF c.stage = b.stage THEN a.stage ELSE c.stage
           /\ a = b => Merge(a, b, c) = c
  <1>1. DOMAIN a = {"stage", "matched", "exceptions"} /\ DOMAIN c = DOMAIN a
    BY DEF JobRows
  <1>2. /\ Merge(a, b, c) \in JobRows
        /\ Merge(a, b, c).stage = IF c.stage = b.stage THEN a.stage ELSE c.stage
    BY <1>1 DEF Merge, JobRows
  <1>3. Merge(a, a, c) = [x \in DOMAIN c |-> c[x]]
    BY <1>1 DEF Merge
  <1>4. Merge(a, a, c) = c
    BY <1>1, <1>3 DEF JobRows
  <1> QED
    BY <1>2, <1>4

----------------------------------------------------------------------------
(* The match engine *)

Indexes == [Skus -> Products \union {None}]

\* What the engine may answer.
LEMMA OutcomeFacts ==
    ASSUME NEW row \in FileRows, NEW index \in Indexes
    PROVE  LET o == Outcome(row, index) IN
           /\ o.result \in Results \ {"NONE"} /\ o.by \in Methods
           /\ o.product \in Products \union {None}
           /\ o.candidates \in Candidates
           /\ o.result = "MATCHED" => o.product \in Products
           /\ o.by = "VENDOR_SKU_MAPPING" =>
                 row.sku # None /\ index[row.sku] # None /\ o.product = index[row.sku]
           /\ o.result \in Exceptional =>
                 o.candidates = Outcome(row, NoIndex).candidates
           /\ o.result \in Exceptional /\ o.result # "AMBIGUOUS" =>
                 row.sku = None \/ index[row.sku] = None
           /\ o.result = "MATCHED" => o.by \in {"IDENTIFIER", "VENDOR_SKU_MAPPING"}
           /\ o.result # "MATCHED" => o.by = "NONE"
  <1> DEFINE mapped(x) == IF row.sku = None THEN None ELSE x[row.sku]
             found(result, by, product, candidates) ==
                [result |-> result, by |-> by, product |-> product,
                 candidates |-> candidates]
             o == Outcome(row, index)
  <1>1. /\ row.sku \in Skus \union {None} /\ row.hits \in SUBSET Products
        /\ row.similar \in SUBSET Products
    BY DEF FileRows
  <1>2. IsFiniteSet(row.hits) /\ Cardinality(row.hits) \in Nat
    BY <1>1, ProductsAssumption, FS_Subset, FS_CardinalityType
  <1>3. Cardinality(row.hits) = 0 <=> row.hits = {}
    BY <1>2, FS_EmptySet
  <1>4. NoIndex \in Indexes /\ mapped(NoIndex) = None
    BY <1>1 DEF NoIndex, Indexes
  <1>5. \A rule \in Rules, S \in SUBSET Products : Tagged(rule, S) \in Candidates
    BY DEF Tagged, Candidates
  <1>6. mapped(index) \in Products \union {None}
    BY <1>1 DEF Indexes
  <1>7. CASE Cardinality(row.hits) = 1
    <2>1. o = found("MATCHED", "IDENTIFIER", CHOOSE p \in row.hits : TRUE,
                    Tagged("IDENTIFIER", row.hits))
      BY <1>3, <1>7 DEF Outcome
    <2>2. (CHOOSE p \in row.hits : TRUE) \in Products
      BY <1>1, <1>3, <1>7
    <2>3. Tagged("IDENTIFIER", row.hits) \in Candidates
      BY <1>1, <1>5 DEF Rules
    <2> QED
      BY <2>1, <2>2, <2>3 DEF Results, Methods, Exceptional
  <1>8. CASE Cardinality(row.hits) > 1
    <2>1. o = found("AMBIGUOUS", "NONE", None, Tagged("IDENTIFIER", row.hits))
      BY <1>2, <1>3, <1>8 DEF Outcome
    <2>2. Outcome(row, NoIndex) = found("AMBIGUOUS", "NONE", None, Tagged("IDENTIFIER", row.hits))
      BY <1>2, <1>3, <1>8 DEF Outcome
    <2>3. Tagged("IDENTIFIER", row.hits) \in Candidates
      BY <1>1, <1>5 DEF Rules
    <2> QED
      BY <2>1, <2>2, <2>3 DEF Results, Methods, Exceptional
  <1>9. CASE row.hits = {} /\ mapped(index) # None
    <2>1. o = found("MATCHED", "VENDOR_SKU_MAPPING", mapped(index),
                    Tagged("VENDOR_SKU_MAPPING", {mapped(index)}))
      BY <1>3, <1>9 DEF Outcome
    <2>2. mapped(index) \in Products /\ row.sku # None /\ mapped(index) = index[row.sku]
      BY <1>6, <1>9
    <2>3. Tagged("VENDOR_SKU_MAPPING", {mapped(index)}) \in Candidates
      BY <1>5, <2>2 DEF Rules
    <2> HIDE DEF mapped
    <2> QED
      BY <1>9, <2>1, <2>2, <2>3 DEF Results, Methods, Exceptional
  <1>10. CASE row.hits = {} /\ mapped(index) = None /\ row.similar # {}
    <2>1. o = found("SUGGESTION_ONLY", "NONE", None, Tagged("NAME_SIMILARITY", row.similar))
      BY <1>3, <1>10 DEF Outcome
    <2>2. Outcome(row, NoIndex) =
            found("SUGGESTION_ONLY", "NONE", None, Tagged("NAME_SIMILARITY", row.similar))
      BY <1>3, <1>4, <1>10 DEF Outcome
    <2>3. Tagged("NAME_SIMILARITY", row.similar) \in Candidates
      BY <1>1, <1>5 DEF Rules
    <2> QED
      BY <1>10, <2>1, <2>2, <2>3 DEF Results, Methods, Exceptional
  <1>11. CASE row.hits = {} /\ mapped(index) = None /\ row.similar = {}
    <2>1. o = found("UNMATCHED", "NONE", None, {})
      BY <1>3, <1>11 DEF Outcome
    <2>2. Outcome(row, NoIndex) = found("UNMATCHED", "NONE", None, {})
      BY <1>3, <1>4, <1>11 DEF Outcome
    <2> QED
      BY <1>11, <2>1, <2>2 DEF Results, Methods, Exceptional, Candidates
  <1> QED
    BY <1>2, <1>3, <1>7, <1>8, <1>9, <1>10, <1>11

\* Why a row needs a person: its own verdict, or a line that disagrees.
LEMMA ReasonFacts ==
    ASSUME NEW o, NEW s, NEW l \in Lines, o.result \in Results \ {"NONE"}
    PROVE  LET reason == ReasonFor(o, s, l) IN
           /\ reason \in Reasons
           /\ o.result # "MATCHED" => reason = o.result
           /\ o.result = "MATCHED" /\ s # None /\ l.status = "APPROVED" =>
                reason = IF l.product # o.product THEN "CONFLICTING_IDENTIFIER" ELSE "NONE"
  <1>1. CASE o.result # "MATCHED"
    BY <1>1 DEF ReasonFor, Reasons, Results, Exceptional
  <1>2. CASE o.result = "MATCHED" /\ s # None /\ l.status = "APPROVED"
    BY <1>2 DEF ReasonFor, Reasons
  <1>3. CASE o.result = "MATCHED" /\ s # None /\ l.status # "APPROVED"
    BY <1>3 DEF ReasonFor, Reasons, Exceptional
  <1>4. CASE o.result = "MATCHED" /\ s = None
    BY <1>4 DEF ReasonFor, Reasons
  <1> QED
    BY <1>1, <1>2, <1>3, <1>4

\* A proposal leaves an approval alone, and is none.
LEMMA ProposedFacts ==
    ASSUME NEW o, NEW l \in Lines, o.result = "MATCHED" => o.product \in Products
    PROVE  /\ Proposed(o, l) \in Lines
           /\ l.status = "APPROVED" => Proposed(o, l) = l
           /\ l.status # "APPROVED" => Proposed(o, l).status # "APPROVED"
           /\ Proposed(o, l).status # "ABSENT"
           /\ LineFits(l) => LineFits(Proposed(o, l))
           /\ \/ Proposed(o, l) = l
              \/ l.status = "ABSENT"
              \/ /\ l.status # "APPROVED" /\ Proposed(o, l).product # None
                 /\ Proposed(o, l).status = "PENDING"
  <1>1. CASE l.status = "APPROVED"
    BY <1>1 DEF Proposed, Lines
  <1>2. CASE l.status # "APPROVED"
    BY <1>2, NoneAssumption DEF Proposed, Lines, LineFits
  <1> QED
    BY <1>1, <1>2

----------------------------------------------------------------------------
(* What a step does to the tables *)

\* Imports, items and lines stay, and so does the file of an import.
Grows ==
    /\ \A j \in Jobs : job[j].stage # "ABSENT" => job'[j].stage # "ABSENT" /\ file'[j] = file[j]
    /\ \A i \in Items : item[i].status # "ABSENT" => item'[i].status # "ABSENT"
    /\ \A s \in Skus : line[s].status # "ABSENT" => line'[s].status # "ABSENT"

LEMMA RowKept ==
    ASSUME Grows, NEW id, RowExists(id)
    PROVE  RowExists(id)'
  BY DEF Grows, RowExists

\* A row to work at is there, and typed.
LEMMA ChunkContext ==
    ASSUME Sound, NEW m \in Matchers, Working(m), RowsLeft(m)
    PROVE  /\ Row(m) \in FileRows /\ Row(m).sku \in Skus \union {None}
           /\ matcher[m] \in MatcherStates /\ matcher[m].index \in Indexes
           /\ matcher[m].line \in Lines
           /\ MyJob(m) \in Jobs /\ matcher[m].next \in 1 .. Len(file[MyJob(m)])
           /\ matcher[m].next \in Nat /\ Len(file[MyJob(m)]) \in Nat
           /\ verdict[MyJob(m)] \in Seq(Verdicts)
           /\ Len(verdict[MyJob(m)]) = Len(file[MyJob(m)])
           /\ MyRow(m) \in RowIds /\ RowExists(MyRow(m))
  <1>1. /\ matcher[m] \in MatcherStates /\ matcher[m].next \in Nat
        /\ matcher[m].index \in Indexes /\ matcher[m].line \in Lines
    BY DEF Sound, TypeOK, MatcherStates, Indexes
  <1>2. MyJob(m) \in Jobs /\ job[MyJob(m)].stage # "ABSENT" /\ matcher[m].next >= 1
    BY <1>1 DEF Sound, References, MatcherFits
  <1>3. file[MyJob(m)] \in Seq(FileRows)
    <2>1. file[MyJob(m)] \in Files \union {<<>>}
      BY <1>2 DEF Sound, TypeOK
    <2>2. <<>> \in Seq(FileRows)
      OBVIOUS
    <2> QED
      BY <2>1, <2>2, FilesAssumption
  <1>4. Len(file[MyJob(m)]) \in Nat /\ matcher[m].next \in 1 .. Len(file[MyJob(m)])
    BY <1>1, <1>2, <1>3 DEF RowsLeft
  <1>5. Row(m) \in FileRows
    BY <1>3, <1>4 DEF Row
  <1>6. verdict[MyJob(m)] \in Seq(Verdicts) /\ Len(verdict[MyJob(m)]) = Len(file[MyJob(m)])
    BY <1>2 DEF Sound, TypeOK, References, JobsFit
  <1>7. MyRow(m) \in RowIds
    BY <1>1, <1>2 DEF MyRow, RowIds
  <1>8. RowExists(MyRow(m))
    BY <1>2, <1>4 DEF MyRow, RowExists
  <1>9. Row(m).sku \in Skus \union {None}
    BY <1>5 DEF FileRows
  <1> QED
    BY <1>1, <1>2, <1>4, <1>5, <1>6, <1>7, <1>8, <1>9

\* A session that does nothing still refers to what exists.
LEMMA MatcherFitsKept ==
    ASSUME Sound, Grows, NEW m \in Matchers, matcher'[m] = matcher[m]
    PROVE  MatcherFits(m)'
  <1> USE DEF Sound, References
  <1>1. CASE ~Working(m)
    BY <1>1 DEF MatcherFits, Working, Writing
  <1>2. CASE Working(m)
    <2>1. /\ MyJob(m) \in Jobs /\ MyJob(m)' = MyJob(m)
          /\ file'[MyJob(m)] = file[MyJob(m)] /\ job'[MyJob(m)].stage # "ABSENT"
      BY <1>2 DEF MatcherFits, Grows, MyJob
    <2>2. Row(m)' = Row(m) /\ (RowsLeft(m)' <=> RowsLeft(m))
      BY <2>1 DEF Row, RowsLeft
    <2>3. matcher[m].open \in Items \union {0}
      BY DEF TypeOK, MatcherStates
    <2>4. matcher[m].open # 0 /\ item[matcher[m].open].status # "ABSENT"
            => item'[matcher[m].open].status # "ABSENT"
      BY <2>3 DEF Grows
    <2>5. RowExists(matcher[m].item.row) => RowExists(matcher[m].item.row)'
      BY RowKept
    <2>6. Writing(m) /\ Row(m).sku # None => Row(m).sku \in Skus
      BY <1>2, ChunkContext DEF MatcherFits
    <2>7. Writing(m) /\ Row(m).sku # None /\ line[Row(m).sku].status # "ABSENT"
            => line'[Row(m).sku].status # "ABSENT"
      BY <2>6 DEF Grows
    <2>8. Working(m)' /\ (Writing(m)' <=> Writing(m)) /\ matcher'[m] = matcher[m]
      BY <1>2 DEF Working, Writing
    <2> QED
      BY <1>2, <2>1, <2>2, <2>4, <2>5, <2>7, <2>8 DEF MatcherFits
  <1> QED
    BY <1>1, <1>2

LEMMA ReviewerFitsKept ==
    ASSUME Grows, NEW r \in Reviewers, ReviewerFits(r), reviewer'[r] = reviewer[r]
    PROVE  ReviewerFits(r)'
  <1>1. CASE ~Deciding(r)
    BY <1>1 DEF ReviewerFits, Deciding
  <1>2. CASE Deciding(r)
    <2>1. Seen(r)' = Seen(r)
      BY DEF Seen
    <2>2. RowExists(Seen(r).row)'
      BY <1>2, <2>1 DEF ReviewerFits, RowExists, Grows
    <2> QED
      BY <1>2, <2>1, <2>2 DEF ReviewerFits, Deciding, Grows
  <1> QED
    BY <1>1, <1>2

\* What m is about to write.
OutcomeOf(m) == Outcome(Row(m), matcher[m].index)
ReasonOf(m) == ReasonFor(OutcomeOf(m), Row(m).sku, matcher[m].line)
EvidenceOf(m) == [reason |-> ReasonOf(m), candidates |-> OutcomeOf(m).candidates]
VerdictOf(m) == [result |-> OutcomeOf(m).result, by |-> OutcomeOf(m).by,
                 product |-> OutcomeOf(m).product]

LEMMA OutcomeContext ==
    ASSUME Sound, NEW m \in Matchers, Working(m), RowsLeft(m)
    PROVE  /\ OutcomeOf(m).result \in Results \ {"NONE"}
           /\ OutcomeOf(m).candidates \in Candidates
           /\ OutcomeOf(m).result = "MATCHED" => OutcomeOf(m).product \in Products
           /\ VerdictOf(m) \in Verdicts
           /\ ReasonOf(m) \in Reasons
           /\ Proposed(OutcomeOf(m), matcher[m].line) \in Lines
  <1>1. Row(m) \in FileRows /\ matcher[m].index \in Indexes /\ matcher[m].line \in Lines
    BY ChunkContext
  <1>2. /\ OutcomeOf(m).result \in Results \ {"NONE"}
        /\ OutcomeOf(m).candidates \in Candidates
        /\ OutcomeOf(m).result = "MATCHED" => OutcomeOf(m).product \in Products
        /\ OutcomeOf(m).by \in Methods
        /\ OutcomeOf(m).product \in Products \union {None}
    BY <1>1, OutcomeFacts DEF OutcomeOf
  <1>3. VerdictOf(m) \in Verdicts
    BY <1>2 DEF VerdictOf, Verdicts
  <1>4. ReasonOf(m) \in Reasons
    BY <1>1, <1>2, ReasonFacts DEF ReasonOf
  <1>5. Proposed(OutcomeOf(m), matcher[m].line) \in Lines
    BY <1>1, <1>2, ProposedFacts
  <1> QED
    BY <1>2, <1>3, <1>4, <1>5

\* A chunk is rolled back, or written as a whole.
ChunkWritten(m) ==
    /\ ~Refused(m, OutcomeOf(m))
    /\ line' = IF Row(m).sku = None THEN line
               ELSE [line EXCEPT ![Row(m).sku] = Merge(line[Row(m).sku], matcher[m].line,
                        Proposed(OutcomeOf(m), matcher[m].line))]
    /\ QueueWritten(m, ReasonOf(m), OutcomeOf(m))
    /\ verdict' = [verdict EXCEPT ![MyJob(m)][matcher[m].next] = VerdictOf(m)]
    /\ job' = [job EXCEPT ![MyJob(m)] = Merge(job[MyJob(m)], matcher[m].copy,
                  Counted(m, OutcomeOf(m)))]
    /\ Done(m, Counted(m, OutcomeOf(m)))

LEMMA ChunkCases ==
    ASSUME NEW m \in Matchers, WriteChunk(m)
    PROVE  /\ Writing(m) /\ Working(m) /\ UNCHANGED <<file, audit, reviewer, crashes, discipline>>
           /\ \/ Forget(m) /\ UNCHANGED <<job, verdict, line, item>>
              \/ ChunkWritten(m)
  <1>1. Writing(m) /\ Working(m)
    BY DEF WriteChunk, Writing, Working
  <1>2. UNCHANGED <<file, audit, reviewer, crashes, discipline>>
    BY DEF WriteChunk
  <1>3. \/ Forget(m) /\ UNCHANGED <<job, verdict, line, item>>
        \/ ChunkWritten(m)
    BY DEF WriteChunk, ChunkWritten, OutcomeOf, ReasonOf, VerdictOf
  <1> QED
    BY <1>1, <1>2, <1>3

\* The line's open item with m's evidence, and a new item.
Refreshed(m) == [matcher[m].item EXCEPT !.row = MyRow(m), !.reason = ReasonOf(m),
                                        !.candidates = OutcomeOf(m).candidates]
NewItemOf(m) == NewItem(m, ReasonOf(m), OutcomeOf(m))

\* Nothing to ask, the open item is refreshed, or an item is opened.
QueueKept(m) ==
    /\ item' = item
    /\ \/ ReasonOf(m) = "NONE"
       \/ matcher[m].open = 0 /\ matcher[m].declined = EvidenceOf(m)
       \/ matcher[m].open # 0 /\ Evidence(matcher[m].item) = EvidenceOf(m)
QueueRefreshed(m) ==
    /\ ReasonOf(m) # "NONE" /\ matcher[m].open \in Items
    /\ item' = [item EXCEPT ![matcher[m].open] =
                   Merge(item[matcher[m].open], matcher[m].item, Refreshed(m))]
QueueOpened(m, i) ==
    /\ ReasonOf(m) # "NONE" /\ matcher[m].open = 0 /\ matcher[m].declined # EvidenceOf(m)
    /\ i \in Items /\ item[i].status = "ABSENT"
    /\ item' = [item EXCEPT ![i] = NewItemOf(m)]

LEMMA QueueCases ==
    ASSUME NEW m \in Matchers, matcher[m].open \in Items \union {0},
           QueueWritten(m, ReasonOf(m), OutcomeOf(m))
    PROVE  QueueKept(m) \/ QueueRefreshed(m) \/ \E i \in Items : QueueOpened(m, i)
  <1> DEFINE me == matcher[m]
             evidence == [reason |-> ReasonOf(m), candidates |-> OutcomeOf(m).candidates]
             least == CHOOSE i \in FreeItems : \A k \in FreeItems : i <= k
             quiet == \/ ReasonOf(m) = "NONE"
                      \/ me.open = 0 /\ me.declined = evidence
                      \/ me.open # 0 /\ Evidence(me.item) = evidence
             stale == ReasonOf(m) # "NONE" /\ me.open # 0 /\ Evidence(me.item) # evidence
  <1>1. CASE quiet
    <2>1. item' = item
      BY <1>1 DEF QueueWritten
    <2> QED
      BY <1>1, <2>1 DEF QueueKept, EvidenceOf
  <1>2. CASE stale
    <2>1. item' = [item EXCEPT ![me.open] = Merge(item[me.open], me.item, Refreshed(m))]
      BY <1>2 DEF QueueWritten, Refreshed
    <2>2. ReasonOf(m) # "NONE" /\ matcher[m].open \in Items
      BY <1>2
    <2> QED
      BY <2>1, <2>2 DEF QueueRefreshed
  <1>3. CASE ~quiet /\ ~stale
    <2>1. FreeItems # {} /\ item' = [item EXCEPT ![least] = NewItemOf(m)]
      BY <1>3 DEF QueueWritten, NewItemOf
    <2>2. FreeItems \in SUBSET Items /\ FreeItems \in SUBSET Nat
      BY DEF FreeItems, Items
    <2>3. \E i \in FreeItems : \A k \in FreeItems : i <= k
      BY <2>1, <2>2, LeastNat
    <2>4. least \in FreeItems
      BY <2>3
    <2> HIDE DEF least
    <2>5. QueueOpened(m, least)
      BY <1>3, <2>1, <2>2, <2>4 DEF QueueOpened, EvidenceOf, FreeItems
    <2> QED
      BY <2>2, <2>4, <2>5
  <1> QED
    BY <1>1, <1>2, <1>3

\* Whatever a chunk does to the queue, its items are items of existing rows.
LEMMA QueueTyped ==
    ASSUME Sound, NEW m \in Matchers, Writing(m), ChunkWritten(m)
    PROVE  /\ item' \in [Items -> QueueItems]
           /\ \A i \in Items : item[i].status # "ABSENT" => item'[i].status # "ABSENT"
           /\ \A i \in Items : item'[i].status # "ABSENT" => RowExists(item'[i].row)
  <1> USE DEF Sound
  <1>1. Working(m) /\ RowsLeft(m)
    BY DEF References, MatcherFits, Writing, Working
  <1>2. /\ MyRow(m) \in RowIds /\ RowExists(MyRow(m)) /\ Row(m).sku \in Skus \union {None}
        /\ matcher[m] \in MatcherStates
    BY <1>1, ChunkContext
  <1>3. OutcomeOf(m).candidates \in Candidates /\ ReasonOf(m) \in Reasons
    BY <1>1, OutcomeContext
  <1>4. matcher[m].open \in Items \union {0} /\ matcher[m].item \in QueueItems
    BY <1>2 DEF MatcherStates
  <1>5. \A i \in Items : item[i] \in QueueItems /\ (item[i].status # "ABSENT" => RowExists(item[i].row))
    BY DEF TypeOK, References, ItemsFit
  <1>6. CASE QueueKept(m)
    BY <1>5, <1>6 DEF QueueKept, TypeOK
  <1>7. CASE QueueRefreshed(m)
    <2> DEFINE k == matcher[m].open
               new == Merge(item[k], matcher[m].item, Refreshed(m))
    <2>1. k \in Items /\ item' = [item EXCEPT ![k] = new]
      BY <1>7 DEF QueueRefreshed
    <2>2. Refreshed(m) \in QueueItems /\ Refreshed(m).status = matcher[m].item.status
          /\ Refreshed(m).row = MyRow(m)
      BY <1>2, <1>3, <1>4 DEF Refreshed, QueueItems
    <2>3. /\ new \in QueueItems /\ new.status = item[k].status
          /\ new.row = IF MyRow(m) = matcher[m].item.row THEN item[k].row ELSE MyRow(m)
      BY <1>4, <1>5, <2>1, <2>2, MergedItem
    <2>4. item[k].status # "ABSENT"
      BY <1>7, <2>1 DEF References, MatcherFits, QueueRefreshed, Items
    <2>5. RowExists(new.row)
      BY <1>2, <1>5, <2>1, <2>3, <2>4
    <2> HIDE DEF new, k
    <2> QED
      BY <1>5, <2>1, <2>3, <2>4, <2>5 DEF TypeOK
  <1>8. ASSUME NEW i \in Items, QueueOpened(m, i)
        PROVE  /\ item' \in [Items -> QueueItems]
               /\ \A k \in Items : item[k].status # "ABSENT" => item'[k].status # "ABSENT"
               /\ \A k \in Items : item'[k].status # "ABSENT" => RowExists(item'[k].row)
    <2>1. item' = [item EXCEPT ![i] = NewItemOf(m)]
      BY <1>8 DEF QueueOpened
    <2>2. NewItemOf(m) \in QueueItems /\ NewItemOf(m).row = MyRow(m)
          /\ NewItemOf(m).status = "PENDING"
      BY <1>2, <1>3 DEF NewItemOf, NewItem, AbsentItem, QueueItems
    <2> QED
      BY <1>2, <1>5, <2>1, <2>2 DEF TypeOK
  <1> QED
    BY <1>4, <1>6, <1>7, <1>8, QueueCases DEF ChunkWritten

----------------------------------------------------------------------------
(* Types and references *)

LEMMA IdleTypes ==
    /\ IdleMatcher \in MatcherStates /\ IdleReviewer \in ReviewerStates
    /\ AbsentItem \in QueueItems /\ AbsentLine \in Lines /\ AbsentJob \in JobRows
    /\ NoVerdict \in Verdicts /\ NoIndex \in Indexes
    /\ NoEvidence \in [reason : Reasons, candidates : Candidates]
  <1>1. AbsentItem \in QueueItems
    BY DEF AbsentItem, QueueItems, RowIds, Reasons, Candidates
  <1>2. AbsentLine \in Lines /\ AbsentJob \in JobRows /\ NoVerdict \in Verdicts
    BY DEF AbsentLine, Lines, AbsentJob, JobRows, NoVerdict, Verdicts, Results, Methods
  <1>3. NoIndex \in Indexes /\ NoIndex \in [Skus -> Products \union {None}]
    BY DEF NoIndex, Indexes
  <1>4. NoEvidence \in [reason : Reasons, candidates : Candidates]
    BY DEF NoEvidence, Reasons, Candidates
  <1>5. IdleMatcher \in MatcherStates
    BY <1>1, <1>2, <1>3, <1>4 DEF IdleMatcher, MatcherStates
  <1>6. IdleReviewer \in ReviewerStates
    BY <1>1, <1>2 DEF IdleReviewer, ReviewerStates
  <1> QED
    BY <1>1, <1>2, <1>3, <1>4, <1>5, <1>6

\* The counters a chunk writes.
LEMMA CountedTyped ==
    ASSUME NEW m \in Matchers, matcher[m] \in MatcherStates, NEW o
    PROVE  /\ Counted(m, o) \in JobRows
           /\ Counted(m, o).stage = matcher[m].copy.stage
           /\ Counted(m, o).matched =
                matcher[m].matched + IF o.result = "MATCHED" THEN 1 ELSE 0
           /\ Counted(m, o).exceptions =
                matcher[m].exceptions + IF o.result \in Exceptional THEN 1 ELSE 0
  <1>1. /\ matcher[m].copy \in JobRows /\ matcher[m].matched \in Nat
        /\ matcher[m].exceptions \in Nat
    BY DEF MatcherStates
  <1> DEFINE a == matcher[m].matched + IF o.result = "MATCHED" THEN 1 ELSE 0
             b == matcher[m].exceptions + IF o.result \in Exceptional THEN 1 ELSE 0
  <1>2. a \in Nat /\ b \in Nat
    BY <1>1
  <1>3. Counted(m, o) = [matcher[m].copy EXCEPT !.matched = a, !.exceptions = b]
    BY DEF Counted
  <1> HIDE DEF a, b
  <1>4. /\ Counted(m, o) \in JobRows /\ Counted(m, o).stage = matcher[m].copy.stage
        /\ Counted(m, o).matched = a /\ Counted(m, o).exceptions = b
    BY <1>1, <1>2, <1>3 DEF JobRows
  <1> QED
    BY <1>4 DEF a, b

\* After its chunk the matcher is at the next row.
LEMMA DoneFacts ==
    ASSUME NEW m \in Matchers, matcher \in [Matchers -> MatcherStates], NEW c \in JobRows,
           Done(m, c)
    PROVE  /\ matcher' \in [Matchers -> MatcherStates]
           /\ \A n \in Matchers : n # m => matcher'[n] = matcher[n]
           /\ matcher'[m].pc = "read" /\ matcher'[m].next = matcher[m].next + 1
           /\ matcher'[m].copy = c /\ matcher'[m].job = matcher[m].job
           /\ matcher'[m].matched = c.matched /\ matcher'[m].exceptions = c.exceptions
           /\ matcher'[m].index = matcher[m].index
           /\ matcher'[m].open = 0 /\ matcher'[m].declined = NoEvidence
           /\ matcher'[m].line = AbsentLine
  <1> DEFINE new == [matcher[m] EXCEPT
                 !.pc = "read", !.next = matcher[m].next + 1, !.copy = c,
                 !.matched = c.matched, !.exceptions = c.exceptions,
                 !.line = AbsentLine, !.open = 0, !.item = AbsentItem,
                 !.declined = NoEvidence]
  <1>1. matcher' = [matcher EXCEPT ![m] = new]
    BY DEF Done
  <1>2. matcher[m] \in MatcherStates /\ matcher[m].next + 1 \in Nat
    BY DEF MatcherStates
  <1>3. c.matched \in Nat /\ c.exceptions \in Nat
    BY DEF JobRows
  <1>4. /\ AbsentLine \in Lines /\ AbsentItem \in QueueItems
        /\ NoEvidence \in [reason : Reasons, candidates : Candidates]
    BY IdleTypes
  <1>5. new \in MatcherStates
    BY <1>2, <1>3, <1>4 DEF MatcherStates
  <1>6. /\ new \in MatcherStates
        /\ new.pc = "read" /\ new.next = matcher[m].next + 1
        /\ new.copy = c /\ new.job = matcher[m].job
        /\ new.matched = c.matched /\ new.exceptions = c.exceptions
        /\ new.index = matcher[m].index
        /\ new.open = 0 /\ new.declined = NoEvidence /\ new.line = AbsentLine
    BY <1>2, <1>5 DEF MatcherStates
  <1> HIDE DEF new
  <1> QED
    BY <1>1, <1>6

\* A matcher that forgets is idle.
LEMMA ForgetFacts ==
    ASSUME NEW m \in Matchers, matcher \in [Matchers -> MatcherStates], Forget(m)
    PROVE  /\ matcher' \in [Matchers -> MatcherStates]
           /\ \A n \in Matchers : n # m => matcher'[n] = matcher[n]
           /\ matcher'[m] = IdleMatcher /\ MatcherFits(m)'
           /\ ~Working(m)' /\ ~Writing(m)'
  <1>1. matcher'[m] = IdleMatcher
    BY DEF Forget
  <1>2. /\ ~Working(m)' /\ ~Writing(m)'
        /\ matcher'[m].open = 0 /\ matcher'[m].declined = NoEvidence
        /\ matcher'[m].line = AbsentLine
    BY <1>1 DEF Working, Writing, IdleMatcher
  <1>3. MatcherFits(m)'
    BY <1>2 DEF MatcherFits, LineFits, AbsentLine
  <1> QED
    BY <1>1, <1>2, <1>3, IdleTypes DEF Forget

LEMMA CloseFacts ==
    ASSUME NEW r \in Reviewers, reviewer \in [Reviewers -> ReviewerStates], Close(r)
    PROVE  /\ reviewer' \in [Reviewers -> ReviewerStates]
           /\ \A s \in Reviewers : s # r => reviewer'[s] = reviewer[s]
           /\ reviewer'[r] = IdleReviewer /\ ReviewerFits(r)' /\ ~Deciding(r)'
  <1>1. reviewer'[r] = IdleReviewer
    BY DEF Close
  <1>2. ~Deciding(r)'
    BY <1>1 DEF Deciding, IdleReviewer
  <1>3. ReviewerFits(r)'
    BY <1>2 DEF ReviewerFits
  <1> QED
    BY <1>1, <1>2, <1>3, IdleTypes DEF Close

\* A line a chunk is allowed to write fits, whatever has become of it.
LEMMA ChunkLines ==
    ASSUME Sound, NEW m \in Matchers, Writing(m), ChunkWritten(m)
    PROVE  /\ line' \in [Skus -> Lines] /\ LinesFit'
           /\ \A s \in Skus : s # Row(m).sku => line'[s] = line[s]
           /\ \A s \in Skus : line[s].status # "ABSENT" => line'[s].status # "ABSENT"
           /\ \A s \in Skus : s = Row(m).sku =>
                line'[s] = Merge(line[s], matcher[m].line, Proposed(OutcomeOf(m), matcher[m].line))
  <1>1. Working(m) /\ RowsLeft(m)
    BY DEF Sound, References, MatcherFits, Writing, Working
  <1> DEFINE o == OutcomeOf(m)
             s == Row(m).sku
             copy == matcher[m].line
             new == Proposed(o, copy)
             merged == Merge(line[s], copy, new)
  <1>2. /\ s \in Skus \union {None} /\ copy \in Lines /\ new \in Lines
        /\ o.result = "MATCHED" => o.product \in Products
    BY <1>1, ChunkContext, OutcomeContext
  <1>3. line \in [Skus -> Lines] /\ LinesFit /\ LineFits(copy)
    BY DEF Sound, TypeOK, References, MatcherFits
  <1>4. CASE s = None
    <2>1. line' = line
      BY <1>4 DEF ChunkWritten
    <2> QED
      BY <1>3, <1>4, <2>1, NoneAssumption DEF LinesFit
  <1>5. CASE s # None
    <2>1. s \in Skus /\ line' = [line EXCEPT ![s] = merged]
      BY <1>2, <1>5 DEF ChunkWritten
    <2>2. /\ merged \in Lines
          /\ merged = [status |-> IF new.status = copy.status THEN line[s].status ELSE new.status,
                       product |-> IF new.product = copy.product THEN line[s].product
                                   ELSE new.product]
      BY <1>2, <1>3, <2>1, MergedLine
    <2>3. /\ copy.status = "ABSENT" => line[s].status = "ABSENT"
          /\ copy.status # "ABSENT" => LineAllowed(merged)
      BY <1>5 DEF ChunkWritten, Refused
    <2>4. copy.status # "ABSENT" => line[s].status # "ABSENT"
      BY <1>5 DEF Sound, References, MatcherFits
    <2>5. /\ new.status # "ABSENT" /\ LineFits(new)
          /\ \/ new = copy
             \/ copy.status = "ABSENT"
             \/ copy.status # "APPROVED" /\ new.product # None /\ new.status = "PENDING"
      BY <1>2, <1>3, ProposedFacts
    <2>6. LineFits(line[s]) /\ LineFits(copy) /\ line[s] \in Lines
      BY <1>3, <2>1 DEF LinesFit
    <2> HIDE DEF new, copy, o, s
    <2>7. LineFits(merged)
      <3>1. CASE new = copy
        BY <2>2, <2>6, <3>1 DEF LineFits
      <3>2. CASE copy.status = "ABSENT"
        BY <2>2, <2>3, <2>5, <2>6, <3>2 DEF LineFits
      <3>3. CASE /\ copy.status \notin {"APPROVED", "ABSENT"} /\ new.product # None
                 /\ new.status = "PENDING"
        BY <1>2, <2>2, <2>3, <2>4, <2>6, <3>3 DEF LineFits, LineAllowed, Lines
      <3> QED
        BY <2>5, <3>1, <3>2, <3>3
    <2>8. line[s].status # "ABSENT" => merged.status # "ABSENT"
      BY <2>2, <2>5
    <2> HIDE DEF merged
    <2>9. LinesFit'
      BY <1>3, <2>1, <2>7 DEF LinesFit
    <2>10. line' \in [Skus -> Lines] /\ line'[s] = merged /\ \A t \in Skus : t # s => line'[t] = line[t]
      BY <1>3, <2>1, <2>2
    <2>11. \A t \in Skus : line[t].status # "ABSENT" => line'[t].status # "ABSENT"
      BY <2>8, <2>10
    <2> QED
      BY <2>9, <2>10, <2>11 DEF merged, s, new, copy, o
  <1> QED
    BY <1>4, <1>5

\* What a chunk writes is typed.
LEMMA ChunkTyped ==
    ASSUME Sound, NEW m \in Matchers, Writing(m), ChunkWritten(m),
           UNCHANGED <<file, audit, reviewer, crashes, discipline>>
    PROVE  Sound' /\ Grows
  <1>1. Working(m) /\ RowsLeft(m)
    BY DEF Sound, References, MatcherFits, Writing, Working
  <1> DEFINE j == MyJob(m)
             k == matcher[m].next
             c == Counted(m, OutcomeOf(m))
             o == OutcomeOf(m)
  <1>2. /\ Row(m).sku \in Skus \union {None} /\ matcher[m] \in MatcherStates
        /\ matcher[m].line \in Lines /\ matcher[m].copy \in JobRows
        /\ j \in Jobs /\ k \in 1 .. Len(file[j])
        /\ k \in Nat /\ Len(file[j]) \in Nat
        /\ verdict[j] \in Seq(Verdicts) /\ Len(verdict[j]) = Len(file[j])
    BY <1>1, ChunkContext DEF MatcherStates
  <1>3. VerdictOf(m) \in Verdicts /\ Proposed(o, matcher[m].line) \in Lines
    BY <1>1, OutcomeContext
  <1>4. c \in JobRows /\ c.stage = matcher[m].copy.stage
    BY <1>2, CountedTyped
  <1>5. /\ job' \in [Jobs -> JobRows]
        /\ \A i \in Jobs : job'[i].stage = job[i].stage
    <2> DEFINE new == Merge(job[j], matcher[m].copy, c)
    <2>1. job \in [Jobs -> JobRows] /\ job[j] \in JobRows
      BY <1>2 DEF Sound, TypeOK
    <2>2. new \in JobRows /\ new.stage = job[j].stage
      BY <1>2, <1>4, <2>1, MergedJob
    <2>3. job' = [job EXCEPT ![j] = new]
      BY DEF ChunkWritten
    <2> HIDE DEF new, j
    <2> QED
      BY <2>1, <2>2, <2>3
  <1>6. /\ verdict' \in [Jobs -> Seq(Verdicts)]
        /\ \A i \in Jobs : Len(verdict'[i]) = Len(verdict[i])
    <2>1. verdict' = [verdict EXCEPT ![j] = [verdict[j] EXCEPT ![k] = VerdictOf(m)]]
      BY DEF ChunkWritten
    <2>2. [verdict[j] EXCEPT ![k] = VerdictOf(m)] \in Seq(Verdicts)
          /\ Len([verdict[j] EXCEPT ![k] = VerdictOf(m)]) = Len(verdict[j])
      BY <1>2, <1>3
    <2>3. verdict \in [Jobs -> Seq(Verdicts)]
      BY DEF Sound, TypeOK
    <2> QED
      BY <1>2, <2>1, <2>2, <2>3
  <1>7. /\ line' \in [Skus -> Lines] /\ LinesFit'
        /\ \A s \in Skus : line[s].status # "ABSENT" => line'[s].status # "ABSENT"
    BY ChunkLines
  <1>8. /\ item' \in [Items -> QueueItems]
        /\ \A i \in Items : item[i].status # "ABSENT" => item'[i].status # "ABSENT"
        /\ \A i \in Items : item'[i].status # "ABSENT" => RowExists(item'[i].row)
    BY QueueTyped
  <1>9. /\ matcher' \in [Matchers -> MatcherStates]
        /\ \A n \in Matchers : n # m => matcher'[n] = matcher[n]
        /\ matcher'[m].pc = "read" /\ matcher'[m].next = k + 1
        /\ matcher'[m].copy = c /\ matcher'[m].job = j
        /\ matcher'[m].open = 0 /\ matcher'[m].declined = NoEvidence
        /\ matcher'[m].line = AbsentLine
    <2>1. matcher \in [Matchers -> MatcherStates] /\ Done(m, c)
      BY DEF Sound, TypeOK, ChunkWritten
    <2> QED
      BY <1>4, <2>1, DoneFacts DEF MyJob
  <1>10. Grows
    BY <1>5, <1>7, <1>8 DEF Grows
  <1>11. TypeOK'
    BY <1>5, <1>6, <1>7, <1>8, <1>9 DEF Sound, TypeOK
  <1>12. JobsFit'
    BY <1>5, <1>6 DEF Sound, References, JobsFit
  <1>13. ItemsFit'
    BY <1>5, <1>8 DEF ItemsFit, RowExists
  <1>14. ASSUME NEW n \in Matchers PROVE MatcherFits(n)'
    <2>1. CASE n = m
      <3>1. MyJob(m)' = j /\ ~Writing(m)' /\ matcher'[m].next \in 1 .. Len(file[j]) + 1
        BY <1>2, <1>9 DEF MyJob, Writing
      <3>2. matcher'[m].copy.stage = "MATCHING" /\ job'[j].stage # "ABSENT"
        BY <1>1, <1>2, <1>4, <1>5, <1>9 DEF Sound, References, MatcherFits
      <3> QED
        BY <1>2, <1>9, <2>1, <3>1, <3>2 DEF MatcherFits, LineFits, AbsentLine
    <2>2. CASE n # m
      BY <1>9, <1>10, <2>2, MatcherFitsKept DEF Sound, References
    <2> QED
      BY <2>1, <2>2
  <1>15. \A r \in Reviewers : ReviewerFits(r)'
    BY <1>10, ReviewerFitsKept DEF Sound, References
  <1> QED
    BY <1>7, <1>10, <1>11, <1>12, <1>13, <1>14, <1>15 DEF Sound, References

\* A step of m that writes nothing but m.
LEMMA MatcherSound ==
    ASSUME Sound, NEW m \in Matchers, UNCHANGED <<dbVars, reviewer, discipline>>,
           crashes' \in 0 .. MaxCrashes, matcher' \in [Matchers -> MatcherStates],
           \A n \in Matchers : n # m => matcher'[n] = matcher[n],
           MatcherFits(m)'
    PROVE  Sound' /\ Grows
  <1>1. Grows
    BY DEF Grows, dbVars
  <1>2. TypeOK'
    BY DEF Sound, TypeOK, dbVars
  <1>3. JobsFit' /\ ItemsFit' /\ LinesFit'
    BY DEF Sound, References, JobsFit, ItemsFit, LinesFit, RowExists, dbVars
  <1>4. \A n \in Matchers : MatcherFits(n)'
    BY <1>1, MatcherFitsKept DEF Sound, References
  <1>5. \A r \in Reviewers : ReviewerFits(r)'
    BY <1>1, ReviewerFitsKept DEF Sound, References
  <1> QED
    BY <1>1, <1>2, <1>3, <1>4, <1>5 DEF Sound, References

LEMMA StartTyped ==
    ASSUME Sound, NEW m \in Matchers, NEW j \in Jobs, StartMatching(m, j)
    PROVE  /\ Sound' /\ Grows
           /\ \A n \in Matchers : n # m => matcher'[n] = matcher[n]
           /\ matcher'[m].pc = "read" /\ matcher'[m].job = j /\ matcher'[m].copy = job[j]
           /\ matcher'[m].next = 1 /\ matcher'[m].matched = 0 /\ matcher'[m].exceptions = 0
           /\ matcher'[m].index = [s \in Skus |-> Approved(s)]
  <1> DEFINE index == [s \in Skus |-> Approved(s)]
             new == [IdleMatcher EXCEPT !.pc = "read", !.job = j, !.copy = job[j],
                                        !.index = index]
  <1>1. matcher' = [matcher EXCEPT ![m] = new]
    BY DEF StartMatching
  <1>2. index \in [Skus -> Products \union {None}]
    BY DEF Approved, Sound, TypeOK, Lines
  <1>3. job[j] \in JobRows /\ matcher \in [Matchers -> MatcherStates]
    BY DEF Sound, TypeOK
  <1> HIDE DEF index
  <1>4. /\ new.pc = "read" /\ new.job = j /\ new.copy = job[j] /\ new.index = index
        /\ new.next = 1 /\ new.matched = 0 /\ new.exceptions = 0
        /\ new.open = 0 /\ new.declined = NoEvidence /\ new.line = AbsentLine
    BY DEF IdleMatcher
  <1>5. new \in MatcherStates
    BY <1>2, <1>3, IdleTypes DEF MatcherStates
  <1> HIDE DEF new
  <1>6. matcher'[m] = new /\ \A n \in Matchers : n # m => matcher'[n] = matcher[n]
    BY <1>1, <1>3
  <1>7. job[j].stage = "MATCHING"
    BY DEF StartMatching
  <1>8. Len(file[j]) \in Nat
    <2>1. file[j] \in Files \union {<<>>}
      BY DEF Sound, TypeOK
    <2> QED
      BY <2>1, FilesAssumption
  <1>9. 1 \in 1 .. Len(file[j]) + 1
    BY <1>8
  <1>10. job' = job /\ file' = file
    BY DEF StartMatching, dbVars
  <1>11. MatcherFits(m)'
    BY <1>4, <1>6, <1>7, <1>9, <1>10 DEF MatcherFits, Working, Writing, MyJob, LineFits, AbsentLine
  <1>12. UNCHANGED <<dbVars, reviewer, discipline>> /\ crashes' \in 0 .. MaxCrashes
         /\ matcher' \in [Matchers -> MatcherStates]
    BY <1>1, <1>3, <1>5 DEF StartMatching, Sound, TypeOK
  <1>13. Sound' /\ Grows
    BY <1>6, <1>11, <1>12, MatcherSound
  <1> QED
    BY <1>4, <1>6, <1>13 DEF index

\* The latest rejection is one of the line's.
LEMMA RejectionFacts ==
    ASSUME Sound, NEW s \in Skus
    PROVE  /\ LatestRejection(s) \in [reason : Reasons, candidates : Candidates]
           /\ LatestRejection(s) # NoEvidence =>
                 \E i \in Rejected(s) : Evidence(item[i]) = LatestRejection(s)
  <1>1. CASE Rejected(s) = {}
    BY <1>1, IdleTypes DEF LatestRejection
  <1>2. CASE Rejected(s) # {}
    <2> DEFINE last == CHOOSE i \in Items : Latest(i, Rejected(s))
    <2>1. Rejected(s) \in SUBSET Items
      BY DEF Rejected
    <2>2. \E i \in Items : Latest(i, Rejected(s))
      BY <1>2, <2>1, LatestItem DEF Latest
    <2>3. last \in Rejected(s)
      BY <2>2 DEF Latest
    <2>4. LatestRejection(s) = Evidence(item[last])
      BY <1>2 DEF LatestRejection
    <2> HIDE DEF last
    <2>5. item[last] \in QueueItems
      BY <2>1, <2>3 DEF Sound, TypeOK
    <2> QED
      BY <2>3, <2>4, <2>5 DEF Evidence, QueueItems
  <1> QED
    BY <1>1, <1>2

\* What a matcher has read.
LEMMA ReadFacts ==
    ASSUME Sound, NEW m \in Matchers, ReadChunk(m)
    PROVE  /\ matcher' \in [Matchers -> MatcherStates]
           /\ \A n \in Matchers : n # m => matcher'[n] = matcher[n]
           /\ matcher'[m].pc = "write" /\ matcher'[m].job = matcher[m].job
           /\ matcher'[m].next = matcher[m].next /\ matcher'[m].copy = matcher[m].copy
           /\ matcher'[m].index = matcher[m].index
           /\ matcher'[m].matched = matcher[m].matched
           /\ matcher'[m].exceptions = matcher[m].exceptions
           /\ UNCHANGED <<dbVars, reviewer, crashes, discipline>>
           /\ Row(m).sku = None =>
                /\ matcher'[m].line = matcher[m].line /\ matcher'[m].open = 0
                /\ matcher'[m].declined = NoEvidence
           /\ Row(m).sku # None =>
                /\ Row(m).sku \in Skus
                /\ matcher'[m].line = line[Row(m).sku]
                /\ matcher'[m].open = 0 => OpenItems(Row(m).sku) = {}
                /\ matcher'[m].open # 0 => /\ matcher'[m].open \in OpenItems(Row(m).sku)
                                           /\ matcher'[m].item = item[matcher'[m].open]
                /\ matcher'[m].declined = LatestRejection(Row(m).sku)
  <1> DEFINE s == Row(m).sku
  <1>1. Working(m) /\ RowsLeft(m) /\ ~Writing(m) /\ matcher[m].pc = "read"
    BY DEF ReadChunk, Working, Writing
  <1>2. s \in Skus \union {None} /\ matcher[m] \in MatcherStates
    BY <1>1, ChunkContext
  <1>3. matcher \in [Matchers -> MatcherStates] /\ item \in [Items -> QueueItems]
        /\ line \in [Skus -> Lines]
    BY DEF Sound, TypeOK
  <1>4. matcher[m].open = 0 /\ matcher[m].declined = NoEvidence
    BY <1>1 DEF Sound, References, MatcherFits
  <1>5. UNCHANGED <<dbVars, reviewer, crashes, discipline>>
    BY DEF ReadChunk
  <1>6. CASE s = None
    <2>1. matcher' = [matcher EXCEPT ![m].pc = "write"]
      BY <1>6 DEF ReadChunk
    <2> HIDE DEF s
    <2> QED
      BY <1>2, <1>3, <1>4, <1>5, <1>6, <2>1 DEF MatcherStates, s
  <1>7. CASE s # None
    <2>1. PICK i \in IF OpenItems(s) = {} THEN {0} ELSE OpenItems(s) :
              matcher' = [matcher EXCEPT ![m] = [matcher[m] EXCEPT
                  !.pc = "write", !.line = line[s], !.open = i,
                  !.item = IF i = 0 THEN AbsentItem ELSE item[i],
                  !.declined = LatestRejection(s)]]
      BY <1>7 DEF ReadChunk
    <2> DEFINE it == IF i = 0 THEN AbsentItem ELSE item[i]
               new == [matcher[m] EXCEPT
                  !.pc = "write", !.line = line[s], !.open = i, !.item = it,
                  !.declined = LatestRejection(s)]
    <2>2. s \in Skus /\ line[s] \in Lines
      BY <1>2, <1>3, <1>7
    <2>3. OpenItems(s) \in SUBSET Items /\ 0 \notin Items
      BY DEF OpenItems, Items
    <2>4. i \in Items \union {0} /\ it \in QueueItems
          /\ (i = 0 => OpenItems(s) = {}) /\ (i # 0 => i \in OpenItems(s) /\ it = item[i])
      BY <1>3, <2>3, IdleTypes
    <2>5. LatestRejection(s) \in [reason : Reasons, candidates : Candidates]
      BY <2>2, RejectionFacts
    <2>6. matcher' = [matcher EXCEPT ![m] = new]
      BY <2>1
    <2> HIDE DEF it, s
    <2>7. new \in MatcherStates
      BY <1>2, <2>2, <2>4, <2>5 DEF MatcherStates
    <2>8. /\ new.pc = "write" /\ new.line = line[s] /\ new.open = i /\ new.item = it
          /\ new.declined = LatestRejection(s) /\ new.job = matcher[m].job
          /\ new.next = matcher[m].next /\ new.copy = matcher[m].copy
          /\ new.index = matcher[m].index /\ new.matched = matcher[m].matched
          /\ new.exceptions = matcher[m].exceptions
      BY <1>2 DEF MatcherStates
    <2> HIDE DEF new
    <2>9. matcher'[m] = new /\ \A n \in Matchers : n # m => matcher'[n] = matcher[n]
      BY <1>3, <2>6
    <2>10. matcher' \in [Matchers -> MatcherStates]
      BY <1>3, <2>6, <2>7
    <2> QED
      BY <1>5, <1>7, <2>2, <2>4, <2>8, <2>9, <2>10 DEF s
  <1> QED
    BY <1>6, <1>7

LEMMA ReadTyped ==
    ASSUME Sound, NEW m \in Matchers, ReadChunk(m)
    PROVE  Sound' /\ Grows
  <1> DEFINE s == Row(m).sku
             i == matcher'[m].open
  <1>1. Working(m) /\ RowsLeft(m) /\ Writing(m)' /\ Working(m)'
    BY ReadFacts DEF ReadChunk, Working, Writing
  <1>2. MyJob(m)' = MyJob(m) /\ Row(m)' = Row(m) /\ RowsLeft(m)'
    BY <1>1, ReadFacts DEF MyJob, Row, RowsLeft, dbVars
  <1>3. LineFits(matcher[m].line) /\ LineFits(matcher'[m].line)
    <2>1. LineFits(matcher[m].line)
      BY DEF Sound, References, MatcherFits
    <2>2. CASE s = None
      BY <2>1, <2>2, ReadFacts
    <2>3. CASE s # None
      BY <2>1, <2>3, ReadFacts DEF Sound, References, LinesFit
    <2> QED
      BY <2>1, <2>2, <2>3
  <1>4. ASSUME i # 0
        PROVE  /\ s # None /\ i \in Items /\ matcher'[m].item = item[i]
               /\ item[i].status = "PENDING" /\ item[i].sku = s /\ RowExists(item[i].row)
    <2>1. s # None
      BY <1>4, ReadFacts
    <2>2. i \in OpenItems(s) /\ matcher'[m].item = item[i]
      BY <1>4, <2>1, ReadFacts
    <2>3. i \in Items /\ item[i].status = "PENDING" /\ item[i].sku = s
      BY <2>2 DEF OpenItems
    <2>4. RowExists(item[i].row)
      BY <2>3 DEF Sound, References, ItemsFit
    <2> QED
      BY <2>1, <2>2, <2>3, <2>4
  <1>5. UNCHANGED <<file, job, item, line>>
    BY ReadFacts DEF dbVars
  <1>6. MatcherFits(m)'
    <2>1. /\ MyJob(m)' \in Jobs /\ job'[MyJob(m)'].stage # "ABSENT"
          /\ matcher'[m].copy.stage = "MATCHING"
          /\ matcher'[m].next \in 1 .. Len(file'[MyJob(m)']) + 1
      BY <1>1, <1>2, <1>5, ReadFacts DEF Sound, References, MatcherFits
    <2>2. i # 0 => /\ matcher'[m].item.status = "PENDING"
                   /\ matcher'[m].item.sku = Row(m)'.sku /\ Row(m)'.sku # None
                   /\ RowExists(matcher[m].item.row)'
                   /\ item'[i].status # "ABSENT"
      BY <1>2, <1>4, <1>5 DEF RowExists
    <2>3. Row(m)'.sku = None => matcher'[m].declined = NoEvidence
      BY <1>2, ReadFacts
    <2>4. Row(m)'.sku # None /\ matcher'[m].line.status # "ABSENT"
            => line'[Row(m)'.sku].status # "ABSENT"
      BY <1>2, <1>5, ReadFacts
    <2>5. LineFits(matcher[m].line)'
      BY <1>3 DEF LineFits
    <2> QED
      BY <1>1, <1>2, <2>1, <2>2, <2>3, <2>4, <2>5 DEF MatcherFits
  <1>7. crashes' \in 0 .. MaxCrashes /\ UNCHANGED <<dbVars, reviewer, discipline>>
    BY ReadFacts DEF Sound, TypeOK
  <1> QED
    BY <1>6, <1>7, ReadFacts, MatcherSound

\* A file arrives.
LEMMA ImportTyped ==
    ASSUME Sound, NEW j \in Jobs, NEW f \in Files, Import(j, f)
    PROVE  Sound' /\ Grows
  <1>1. f \in Seq(FileRows) /\ Len(f) \in Nat
    BY FilesAssumption
  <1> DEFINE v == [k \in 1 .. Len(f) |-> NoVerdict]
  <1>2. v \in Seq(Verdicts) /\ Len(v) = Len(f)
    BY <1>1, IdleTypes
  <1>3. /\ file \in [Jobs -> Files \union {<<>>}] /\ job \in [Jobs -> JobRows]
        /\ verdict \in [Jobs -> Seq(Verdicts)]
    BY DEF Sound, TypeOK
  <1> DEFINE new == [job[j] EXCEPT !.stage = "MATCHING"]
  <1>4. new \in JobRows /\ new.stage = "MATCHING"
    BY <1>3 DEF JobRows
  <1>5. /\ file' = [file EXCEPT ![j] = f] /\ job' = [job EXCEPT ![j] = new]
        /\ verdict' = [verdict EXCEPT ![j] = v] /\ job[j].stage = "ABSENT"
        /\ UNCHANGED <<line, item, audit, matcher, reviewer, crashes, discipline>>
    BY DEF Import
  <1> HIDE DEF v, new
  <1>6. /\ file' \in [Jobs -> Files \union {<<>>}] /\ job' \in [Jobs -> JobRows]
        /\ verdict' \in [Jobs -> Seq(Verdicts)]
        /\ \A k \in Jobs : k # j => /\ file'[k] = file[k] /\ job'[k] = job[k]
                                    /\ verdict'[k] = verdict[k]
        /\ file'[j] = f /\ job'[j] = new /\ verdict'[j] = v
    BY <1>2, <1>3, <1>4, <1>5
  <1>7. TypeOK'
    BY <1>5, <1>6 DEF Sound, TypeOK
  <1>8. Grows
    BY <1>5, <1>6 DEF Grows
  <1>9. JobsFit'
    BY <1>2, <1>4, <1>6 DEF Sound, References, JobsFit
  <1>10. ItemsFit'
    BY <1>5, <1>8, RowKept DEF Sound, References, ItemsFit
  <1>11. LinesFit'
    BY <1>5 DEF Sound, References, LinesFit
  <1>12. \A m \in Matchers : MatcherFits(m)'
    BY <1>5, <1>8, MatcherFitsKept DEF Sound, References
  <1>13. \A r \in Reviewers : ReviewerFits(r)'
    BY <1>5, <1>8, ReviewerFitsKept DEF Sound, References
  <1> QED
    BY <1>7, <1>8, <1>9, <1>10, <1>11, <1>12, <1>13 DEF Sound, References

\* The stage ends.
LEMMA FinishTyped ==
    ASSUME Sound, NEW m \in Matchers, FinishMatching(m)
    PROVE  /\ Sound' /\ Grows
           /\ \A j \in Jobs : j # MyJob(m) => job'[j] = job[j]
           /\ job[MyJob(m)] = matcher[m].copy =>
                job'[MyJob(m)] = [matcher[m].copy EXCEPT !.stage = "MATCHED"]
  <1> DEFINE j == MyJob(m)
             copy == matcher[m].copy
             end == [copy EXCEPT !.stage = "MATCHED"]
             new == Merge(job[j], copy, end)
  <1>1. matcher \in [Matchers -> MatcherStates] /\ job \in [Jobs -> JobRows]
    BY DEF Sound, TypeOK
  <1>2. j \in Jobs /\ copy \in JobRows /\ job[j].stage # "ABSENT" /\ Working(m)
    BY <1>1 DEF Sound, References, MatcherFits, FinishMatching, Working, MatcherStates
  <1>3. end \in JobRows /\ end.stage = "MATCHED"
    BY <1>2 DEF JobRows
  <1>4. job' = [job EXCEPT ![j] = new] /\ Forget(m)
        /\ UNCHANGED <<file, verdict, line, item, audit, reviewer, crashes, discipline>>
    BY DEF FinishMatching
  <1> HIDE DEF end, j, copy
  <1>5. new \in JobRows /\ new.stage # "ABSENT" /\ (job[j] = copy => new = end)
    BY <1>1, <1>2, <1>3, MergedJob
  <1> HIDE DEF new
  <1>6. job' \in [Jobs -> JobRows] /\ job'[j] = new /\ \A k \in Jobs : k # j => job'[k] = job[k]
    BY <1>1, <1>2, <1>4, <1>5
  <1>7. Grows
    BY <1>2, <1>4, <1>5, <1>6 DEF Grows
  <1>8. /\ matcher' \in [Matchers -> MatcherStates] /\ MatcherFits(m)'
        /\ \A n \in Matchers : n # m => matcher'[n] = matcher[n]
    BY <1>1, <1>4, ForgetFacts
  <1>9. TypeOK'
    BY <1>4, <1>6, <1>8 DEF Sound, TypeOK
  <1>10. JobsFit'
    BY <1>2, <1>4, <1>5, <1>6 DEF Sound, References, JobsFit
  <1>11. ItemsFit' /\ LinesFit'
    BY <1>4, <1>7, RowKept DEF Sound, References, ItemsFit, LinesFit
  <1>12. \A n \in Matchers : MatcherFits(n)'
    BY <1>7, <1>8, MatcherFitsKept DEF Sound, References
  <1>13. \A r \in Reviewers : ReviewerFits(r)'
    BY <1>4, <1>7, ReviewerFitsKept DEF Sound, References
  <1>14. Sound'
    BY <1>9, <1>10, <1>11, <1>12, <1>13 DEF Sound, References
  <1> QED
    BY <1>5, <1>6, <1>7, <1>14 DEF end, j, copy

LEMMA CrashTyped ==
    ASSUME Sound, NEW m \in Matchers, Crash(m)
    PROVE  Sound' /\ Grows
  <1>1. matcher \in [Matchers -> MatcherStates] /\ Forget(m)
    BY DEF Sound, TypeOK, Crash
  <1>2. UNCHANGED <<dbVars, reviewer, discipline>> /\ crashes' \in 0 .. MaxCrashes
    BY BoundsAssumption DEF Crash, Sound, TypeOK
  <1> QED
    BY <1>1, <1>2, ForgetFacts, MatcherSound

\* A chunk, written or not.
LEMMA WriteTyped ==
    ASSUME Sound, NEW m \in Matchers, WriteChunk(m)
    PROVE  Sound' /\ Grows
  <1>1. CASE ChunkWritten(m)
    BY <1>1, ChunkCases, ChunkTyped
  <1>2. CASE Forget(m) /\ UNCHANGED <<job, verdict, line, item>>
    <2>1. matcher \in [Matchers -> MatcherStates] /\ crashes \in 0 .. MaxCrashes
      BY DEF Sound, TypeOK
    <2>2. UNCHANGED <<dbVars, reviewer, discipline>> /\ crashes' \in 0 .. MaxCrashes
      BY <1>2, <2>1, ChunkCases DEF dbVars
    <2> QED
      BY <1>2, <2>1, <2>2, ForgetFacts, MatcherSound
  <1> QED
    BY <1>1, <1>2, ChunkCases

\* What a decision finds in front of it.
LEMMA DecisionContext ==
    ASSUME Sound, NEW r \in Reviewers, Deciding(r)
    PROVE  /\ reviewer[r] \in ReviewerStates /\ Seen(r) \in QueueItems
           /\ reviewer[r].item \in Items /\ reviewer[r].line \in Lines
           /\ reviewer[r].verdict \in Verdicts /\ reviewer[r].job \in JobRows
           /\ Seen(r).sku \in Skus \union {None} /\ Seen(r).status = "PENDING"
           /\ item[reviewer[r].item].status # "ABSENT"
           /\ Seen(r).row.job \in Jobs
           /\ Seen(r).row.n \in 1 .. Len(verdict[Seen(r).row.job])
           /\ Len(verdict[Seen(r).row.job]) \in Nat
           /\ Len(verdict[Seen(r).row.job]) = Len(file[Seen(r).row.job])
           /\ reviewer[r].line.status # "ABSENT" => Seen(r).sku \in Skus
  <1>1. /\ reviewer[r] \in ReviewerStates /\ Seen(r) \in QueueItems
        /\ reviewer[r].line \in Lines
        /\ reviewer[r].verdict \in Verdicts /\ reviewer[r].job \in JobRows
        /\ Seen(r).sku \in Skus \union {None}
    BY DEF Sound, TypeOK, ReviewerStates, Seen, QueueItems
  <1>2. /\ reviewer[r].item \in Items /\ item[reviewer[r].item].status # "ABSENT"
        /\ Seen(r).status = "PENDING" /\ RowExists(Seen(r).row)
        /\ Seen(r).sku = None => reviewer[r].line = AbsentLine
    BY DEF Sound, References, ReviewerFits
  <1>3. Seen(r).row.job \in Jobs /\ Seen(r).row.n \in 1 .. Len(verdict[Seen(r).row.job])
        /\ Len(verdict[Seen(r).row.job]) = Len(file[Seen(r).row.job])
    BY <1>2 DEF RowExists, Sound, References, JobsFit
  <1>4. Len(verdict[Seen(r).row.job]) \in Nat
    BY <1>3 DEF Sound, TypeOK
  <1>5. reviewer[r].line.status # "ABSENT" => Seen(r).sku \in Skus
    BY <1>1, <1>2 DEF AbsentLine
  <1> QED
    BY <1>1, <1>2, <1>3, <1>4, <1>5

\* The item after a decision.
LEMMA ItemWritten ==
    ASSUME Sound, NEW r \in Reviewers, Deciding(r), NEW new \in QueueItems,
           new.status # "ABSENT", new.row = Seen(r).row, new.sku = Seen(r).sku,
           WriteItem(r, new)
    PROVE  /\ item' \in [Items -> QueueItems]
           /\ \A i \in Items : i # reviewer[r].item => item'[i] = item[i]
           /\ \A i \in Items : /\ item'[i].status # "ABSENT" <=> item[i].status # "ABSENT"
                               /\ item'[i].row = item[i].row /\ item'[i].sku = item[i].sku
           /\ item'[reviewer[r].item].status =
                IF new.status = Seen(r).status THEN item[reviewer[r].item].status ELSE new.status
           /\ item[reviewer[r].item] = Seen(r) => item'[reviewer[r].item] = new
  <1> DEFINE i == reviewer[r].item
             w == Merge(item[i], Seen(r), new)
  <1>1. /\ Seen(r) \in QueueItems /\ i \in Items /\ item[i].status # "ABSENT"
        /\ item \in [Items -> QueueItems]
    BY DecisionContext DEF Sound, TypeOK
  <1>2. /\ w \in QueueItems /\ w.row = item[i].row /\ w.sku = item[i].sku
        /\ w.status = IF new.status = Seen(r).status THEN item[i].status ELSE new.status
        /\ item[i] = Seen(r) => w = new
    BY <1>1, MergedItem
  <1>3. item' = [item EXCEPT ![i] = w]
    BY DEF WriteItem
  <1> HIDE DEF w
  <1> QED
    BY <1>1, <1>2, <1>3

\* A decision that writes its tables by the rules.
LEMMA ReviewerSound ==
    ASSUME Sound, NEW r \in Reviewers, Close(r),
           UNCHANGED <<file, matcher, crashes, discipline>>,
           job' \in [Jobs -> JobRows], \A j \in Jobs : job'[j].stage = job[j].stage,
           verdict' \in [Jobs -> Seq(Verdicts)],
           \A j \in Jobs : Len(verdict'[j]) = Len(verdict[j]),
           line' \in [Skus -> Lines], LinesFit',
           \A s \in Skus : line[s].status # "ABSENT" => line'[s].status # "ABSENT",
           audit' \subseteq Decisions,
           item' \in [Items -> QueueItems],
           \A i \in Items : /\ item'[i].status # "ABSENT" <=> item[i].status # "ABSENT"
                            /\ item'[i].row = item[i].row
    PROVE  Sound' /\ Grows
  <1>1. Grows
    BY DEF Grows
  <1>2. /\ reviewer' \in [Reviewers -> ReviewerStates]
        /\ \A s \in Reviewers : s # r => reviewer'[s] = reviewer[s]
        /\ ReviewerFits(r)'
    BY CloseFacts DEF Sound, TypeOK
  <1>3. TypeOK'
    BY <1>2 DEF Sound, TypeOK
  <1>4. JobsFit'
    BY DEF Sound, References, JobsFit
  <1>5. ItemsFit'
    BY DEF Sound, References, ItemsFit, RowExists
  <1>6. \A m \in Matchers : MatcherFits(m)'
    BY <1>1, MatcherFitsKept DEF Sound, References
  <1>7. \A s \in Reviewers : ReviewerFits(s)'
    BY <1>1, <1>2, ReviewerFitsKept DEF Sound, References
  <1> QED
    BY <1>1, <1>3, <1>4, <1>5, <1>6, <1>7 DEF Sound, References

\* A reviewer has read what is there.
LEMMA OpenTyped ==
    ASSUME Sound, NEW r \in Reviewers, NEW i \in Items, Open(r, i)
    PROVE  /\ Sound' /\ Grows
           /\ \A s \in Reviewers : s # r => reviewer'[s] = reviewer[s]
           /\ UNCHANGED <<dbVars, matcher, crashes, discipline>>
           /\ reviewer'[r].pc = "decide" /\ reviewer'[r].item = i
           /\ reviewer'[r].copy = item[i] /\ item[i].status = "PENDING"
           /\ item[i].sku # None => reviewer'[r].line = line[item[i].sku]
           /\ reviewer'[r].verdict = verdict[item[i].row.job][item[i].row.n]
           /\ reviewer'[r].job = job[item[i].row.job]
  <1> DEFINE l == IF item[i].sku = None THEN AbsentLine ELSE line[item[i].sku]
             v == verdict[item[i].row.job][item[i].row.n]
             jb == job[item[i].row.job]
             new == [pc |-> "decide", item |-> i, copy |-> item[i],
                     line |-> l, verdict |-> v, job |-> jb]
  <1>1. /\ reviewer' = [reviewer EXCEPT ![r] = new] /\ item[i].status = "PENDING"
        /\ UNCHANGED <<dbVars, matcher, crashes, discipline>>
    BY DEF Open
  <1>2. item[i] \in QueueItems /\ RowExists(item[i].row)
    BY <1>1 DEF Sound, TypeOK, References, ItemsFit
  <1>3. item[i].row.job \in Jobs /\ item[i].row.n \in 1 .. Len(verdict[item[i].row.job])
    BY <1>2 DEF RowExists, Sound, References, JobsFit
  <1>4. v \in Verdicts /\ jb \in JobRows
    BY <1>3 DEF Sound, TypeOK
  <1>5. l \in Lines /\ LineFits(l) /\ (item[i].sku = None => l = AbsentLine)
    <2>1. item[i].sku \in Skus \union {None}
      BY <1>2 DEF QueueItems
    <2>2. LineFits(AbsentLine)
      BY DEF LineFits, AbsentLine
    <2> QED
      BY <2>1, <2>2, IdleTypes DEF Sound, TypeOK, References, LinesFit
  <1> HIDE DEF l, v, jb
  <1>6. new \in ReviewerStates
    BY <1>2, <1>4, <1>5 DEF ReviewerStates
  <1>7. /\ new.pc = "decide" /\ new.item = i /\ new.copy = item[i] /\ new.line = l
        /\ new.verdict = v /\ new.job = jb
    OBVIOUS
  <1> HIDE DEF new
  <1>8. /\ reviewer' \in [Reviewers -> ReviewerStates] /\ reviewer'[r] = new
        /\ \A s \in Reviewers : s # r => reviewer'[s] = reviewer[s]
    BY <1>1, <1>6 DEF Sound, TypeOK
  <1>9. Grows
    BY <1>1 DEF Grows, dbVars
  <1>10. TypeOK'
    BY <1>1, <1>8 DEF Sound, TypeOK, dbVars
  <1>11. JobsFit' /\ ItemsFit' /\ LinesFit'
    BY <1>1 DEF Sound, References, JobsFit, ItemsFit, LinesFit, RowExists, dbVars
  <1>12. \A m \in Matchers : MatcherFits(m)'
    BY <1>1, <1>9, MatcherFitsKept DEF Sound, References
  <1>13. ReviewerFits(r)'
    <2>1. Seen(r)' = item[i] /\ item'[i] = item[i] /\ reviewer'[r].item = i
      BY <1>1, <1>7, <1>8 DEF Seen, dbVars
    <2>2. RowExists(Seen(r).row)'
      BY <1>1, <1>2, <2>1 DEF RowExists, dbVars
    <2>3. LineFits(reviewer[r].line)'
      BY <1>5, <1>7, <1>8 DEF LineFits
    <2> QED
      BY <1>1, <1>5, <1>7, <1>8, <2>1, <2>2, <2>3 DEF ReviewerFits
  <1>14. ASSUME NEW s \in Reviewers PROVE ReviewerFits(s)'
    BY <1>8, <1>9, <1>13, ReviewerFitsKept DEF Sound, References
  <1>15. Sound'
    BY <1>10, <1>11, <1>12, <1>14 DEF Sound, References
  <1> QED
    BY <1>1, <1>7, <1>8, <1>9, <1>15 DEF l, v, jb

ApprovedCopy(r) == [Seen(r) EXCEPT !.status = "APPROVED", !.deferred = FALSE]
RejectedCopy(r) == [Seen(r) EXCEPT !.status = "REJECTED", !.deferred = FALSE]
DeferredCopy(r) == [Seen(r) EXCEPT !.deferred = TRUE]

LEMMA DecidedCopies ==
    ASSUME NEW r, Seen(r) \in QueueItems
    PROVE  /\ ApprovedCopy(r) \in QueueItems /\ ApprovedCopy(r).status = "APPROVED"
           /\ RejectedCopy(r) \in QueueItems /\ RejectedCopy(r).status = "REJECTED"
           /\ DeferredCopy(r) \in QueueItems /\ DeferredCopy(r).status = Seen(r).status
           /\ ApprovedCopy(r).row = Seen(r).row /\ ApprovedCopy(r).sku = Seen(r).sku
           /\ RejectedCopy(r).row = Seen(r).row /\ RejectedCopy(r).sku = Seen(r).sku
           /\ DeferredCopy(r).row = Seen(r).row /\ DeferredCopy(r).sku = Seen(r).sku
           /\ RejectedCopy(r).reason = Seen(r).reason
           /\ DeferredCopy(r).reason = Seen(r).reason
  BY DEF QueueItems, ApprovedCopy, RejectedCopy, DeferredCopy

\* An approval is refused, or written as a whole.
ApprovalWritten(r, p) ==
    /\ ApproveLine(r, p)
    /\ WriteItem(r, ApprovedCopy(r))
    /\ ResolveRow(r, p)

LEMMA ApproveCases ==
    ASSUME NEW r \in Reviewers, NEW p \in Products, NEW b \in BOOLEAN, Approve(r, p, b)
    PROVE  /\ Deciding(r) /\ Close(r) /\ UNCHANGED <<file, matcher, crashes, discipline>>
           /\ UNCHANGED <<job, verdict, line, item, audit>> \/ ApprovalWritten(r, p)
  BY DEF Approve, Deciding, ApprovalWritten, ApprovedCopy

\* What an approval makes of the line.
LEMMA MappedFacts ==
    ASSUME NEW r, NEW p \in Products, NEW l \in Lines, reviewer[r].line \in Lines,
           LineAllowed(Mapped(r, p, l)), LineFits(l)
    PROVE  /\ Mapped(r, p, l) \in Lines /\ LineFits(Mapped(r, p, l))
           /\ l.status # "ABSENT" => Mapped(r, p, l).status # "ABSENT"
           /\ Mapped(r, p, l).status = IF reviewer[r].line.status = "APPROVED" /\ ~Superseding(r, p)
                                       THEN l.status ELSE "APPROVED"
           /\ reviewer[r].line.product # p => Mapped(r, p, l).product = p
           /\ l = reviewer[r].line => Mapped(r, p, l) = [status |-> "APPROVED", product |-> p]
           /\ reviewer[r].line.status = "APPROVED" /\ ~Superseding(r, p) => Mapped(r, p, l) = l
  <1> DEFINE b == reviewer[r].line
             c == [status |-> "APPROVED", product |-> p]
             through == IF Superseding(r, p) THEN [b EXCEPT !.status = "SUPERSEDED"] ELSE b
  <1>1. c \in Lines /\ p # None
    BY NoneAssumption DEF Lines
  <1>2. /\ through.product = b.product
        /\ through.status = IF Superseding(r, p) THEN "SUPERSEDED" ELSE b.status
    BY DEF Lines
  <1>3. Mapped(r, p, l) = Merge(l, through, c)
    BY DEF Mapped
  <1> HIDE DEF through, c
  <1>4. /\ Mapped(r, p, l) \in Lines
        /\ Mapped(r, p, l) = [status |-> IF c.status = through.status THEN l.status ELSE c.status,
                              product |-> IF c.product = through.product THEN l.product
                                          ELSE c.product]
    BY <1>1, <1>3, MergedLine
  <1>5. Mapped(r, p, l) = [status |-> IF "APPROVED" = through.status THEN l.status ELSE "APPROVED",
                           product |-> IF p = b.product THEN l.product ELSE p]
    BY <1>2, <1>4 DEF c
  <1>6. CASE Superseding(r, p)
    <2>1. Mapped(r, p, l) = [status |-> "APPROVED", product |-> p]
      BY <1>2, <1>5, <1>6 DEF Superseding
    <2> QED
      BY <1>1, <1>4, <1>6, <2>1 DEF LineFits
  <1>7. CASE ~Superseding(r, p) /\ b.status = "APPROVED"
    <2>1. b.product = p
      BY <1>7 DEF Superseding
    <2>2. Mapped(r, p, l) = l
      BY <1>2, <1>5, <1>7, <2>1 DEF Lines
    <2> QED
      BY <1>7, <2>1, <2>2 DEF Lines
  <1>8. CASE b.status # "APPROVED"
    <2>1. Mapped(r, p, l) = [status |-> "APPROVED", product |-> IF p = b.product THEN l.product ELSE p]
      BY <1>2, <1>5, <1>8 DEF Superseding
    <2>2. Mapped(r, p, l).product # None
      BY <2>1 DEF LineAllowed
    <2> QED
      BY <1>1, <1>4, <1>8, <2>1, <2>2 DEF LineFits
  <1> QED
    BY <1>6, <1>7, <1>8

\* What an approval makes of the row and its job.
LEMMA ResolvedTyped ==
    ASSUME Sound, NEW r \in Reviewers, Deciding(r), NEW p \in Products, ResolveRow(r, p)
    PROVE  /\ job' \in [Jobs -> JobRows]
           /\ \A j \in Jobs : job'[j].stage = job[j].stage
           /\ \A j \in Jobs : j # Seen(r).row.job => job'[j] = job[j] /\ verdict'[j] = verdict[j]
           /\ verdict' \in [Jobs -> Seq(Verdicts)]
           /\ \A j \in Jobs : Len(verdict'[j]) = Len(verdict[j])
           /\ verdict'[Seen(r).row.job] = [verdict[Seen(r).row.job] EXCEPT ![Seen(r).row.n] =
                 Merge(verdict[Seen(r).row.job][Seen(r).row.n], reviewer[r].verdict,
                       [result |-> "MATCHED", by |-> "MANUAL_APPROVAL", product |-> p])]
  <1> DEFINE j == Seen(r).row.job
             k == Seen(r).row.n
             seen == reviewer[r].job
             resolved == [result |-> "MATCHED", by |-> "MANUAL_APPROVAL", product |-> p]
             v == Merge(verdict[j][k], reviewer[r].verdict, resolved)
             left == IF seen.exceptions = 0 THEN 0 ELSE seen.exceptions - 1
             moved == [seen EXCEPT !.matched = seen.matched + 1, !.exceptions = left]
             w == Merge(job[j], seen, moved)
  <1>1. /\ j \in Jobs /\ k \in 1 .. Len(verdict[j]) /\ Len(verdict[j]) \in Nat
        /\ reviewer[r].verdict \in Verdicts /\ seen \in JobRows
    BY DecisionContext
  <1>2. verdict \in [Jobs -> Seq(Verdicts)] /\ job \in [Jobs -> JobRows] /\ verdict[j][k] \in Verdicts
    BY <1>1 DEF Sound, TypeOK
  <1>3. resolved \in Verdicts
    BY DEF Verdicts, Results, Methods
  <1>4. v \in Verdicts
    BY <1>1, <1>2, <1>3, MergedVerdict
  <1>5. moved \in JobRows /\ moved.stage = seen.stage
    <2>1. left \in Nat /\ seen.matched + 1 \in Nat
      BY <1>1 DEF JobRows
    <2> HIDE DEF left
    <2> QED
      BY <1>1, <2>1 DEF JobRows
  <1>6. w \in JobRows /\ w.stage = job[j].stage
    <2> HIDE DEF moved
    <2> QED
      BY <1>1, <1>2, <1>5, MergedJob
  <1>7. /\ verdict' = [verdict EXCEPT ![j] = [verdict[j] EXCEPT ![k] = v]]
        /\ job' = job \/ job' = [job EXCEPT ![j] = w]
    BY DEF ResolveRow
  <1> HIDE DEF v, w, j, k
  <1>8. [verdict[j] EXCEPT ![k] = v] \in Seq(Verdicts)
        /\ Len([verdict[j] EXCEPT ![k] = v]) = Len(verdict[j])
    BY <1>1, <1>2, <1>4
  <1>9. verdict' \in [Jobs -> Seq(Verdicts)] /\ verdict'[j] = [verdict[j] EXCEPT ![k] = v]
        /\ \A i \in Jobs : i # j => verdict'[i] = verdict[i]
    BY <1>1, <1>2, <1>7, <1>8
  <1>10. /\ job' \in [Jobs -> JobRows] /\ \A i \in Jobs : job'[i].stage = job[i].stage
         /\ \A i \in Jobs : i # j => job'[i] = job[i]
    BY <1>1, <1>2, <1>6, <1>7
  <1> QED
    BY <1>8, <1>9, <1>10 DEF v, j, k

\* An approval leaves the line with its SKU's mapping, and a record of it.
LEMMA ApprovedTyped ==
    ASSUME Sound, NEW r \in Reviewers, Deciding(r), NEW p \in Products, ApproveLine(r, p)
    PROVE  /\ line' \in [Skus -> Lines] /\ LinesFit' /\ audit' \subseteq Decisions
           /\ \A s \in Skus : line[s].status # "ABSENT" => line'[s].status # "ABSENT"
           /\ \A s \in Skus : s # Seen(r).sku => line'[s] = line[s]
           /\ Seen(r).sku = None => audit' = audit
           /\ Seen(r).sku # None =>
                /\ Seen(r).sku \in Skus
                /\ line'[Seen(r).sku] = Mapped(r, p, line[Seen(r).sku])
                /\ LineAllowed(Mapped(r, p, line[Seen(r).sku]))
           /\ audit \subseteq audit'
           /\ \A d \in audit' \ audit : d.item = reviewer[r].item
           /\ Seen(r).sku # None => \E d \in audit' :
                 d.kind = "APPROVED" /\ d.sku = Seen(r).sku /\ d.product = p
           /\ Seen(r).sku # None /\ Superseding(r, p) =>
                 [kind |-> "SUPERSEDED", sku |-> Seen(r).sku,
                  product |-> reviewer[r].line.product, item |-> reviewer[r].item] \in audit'
  <1> DEFINE s == Seen(r).sku
             i == reviewer[r].item
             seen == reviewer[r].line
             made == [kind |-> "APPROVED", sku |-> s, product |-> p, item |-> i]
             gone == [kind |-> "SUPERSEDED", sku |-> s, product |-> seen.product, item |-> i]
  <1>1. /\ s \in Skus \union {None} /\ i \in Items /\ seen \in Lines
        /\ line \in [Skus -> Lines] /\ audit \subseteq Decisions /\ LinesFit
        /\ LineFits(seen)
    BY DecisionContext DEF Sound, TypeOK, References, ReviewerFits
  <1>2. CASE s = None
    <2>1. UNCHANGED <<line, audit>>
      BY <1>2 DEF ApproveLine
    <2> QED
      BY <1>1, <1>2, <2>1, NoneAssumption DEF LinesFit
  <1>3. CASE s # None
    <2>1. /\ s \in Skus /\ LineAllowed(Mapped(r, p, line[s]))
          /\ line' = [line EXCEPT ![s] = Mapped(r, p, line[s])]
          /\ audit' = audit \union {made} \union (IF Superseding(r, p) THEN {gone} ELSE {})
      BY <1>1, <1>3 DEF ApproveLine
    <2>2. line[s] \in Lines /\ LineFits(line[s])
      BY <1>1, <2>1 DEF LinesFit
    <2>3. Mapped(r, p, line[s]) \in Lines /\ LineFits(Mapped(r, p, line[s]))
          /\ (line[s].status # "ABSENT" => Mapped(r, p, line[s]).status # "ABSENT")
      BY <1>1, <2>1, <2>2, MappedFacts
    <2>4. line' \in [Skus -> Lines] /\ line'[s] = Mapped(r, p, line[s])
          /\ \A t \in Skus : t # s => line'[t] = line[t]
      BY <1>1, <2>1, <2>3
    <2>5. made \in Decisions
      BY <1>1, <2>1 DEF Decisions
    <2>6. Superseding(r, p) => gone \in Decisions
      BY <1>1, <2>1 DEF Decisions, Superseding, LineFits, Lines
    <2>7. audit' \subseteq Decisions
      BY <1>1, <2>1, <2>5, <2>6
    <2>8. \E d \in audit' : d.kind = "APPROVED" /\ d.sku = s /\ d.product = p
      <3>1. made \in audit' /\ made.kind = "APPROVED" /\ made.sku = s /\ made.product = p
        BY <2>1
      <3> HIDE DEF made
      <3> QED
        BY <3>1
    <2>9. \A d \in audit' \ audit : d.item = i
      BY <2>1
    <2>10. LinesFit'
      BY <1>1, <2>3, <2>4 DEF LinesFit
    <2> QED
      BY <1>3, <2>1, <2>3, <2>4, <2>7, <2>8, <2>9, <2>10
  <1> QED
    BY <1>2, <1>3

LEMMA ApproveTyped ==
    ASSUME Sound, NEW r \in Reviewers, NEW p \in Products, NEW b \in BOOLEAN, Approve(r, p, b)
    PROVE  Sound' /\ Grows
  <1>1. Deciding(r) /\ Close(r) /\ UNCHANGED <<file, matcher, crashes, discipline>>
    BY ApproveCases
  <1>2. CASE UNCHANGED <<job, verdict, line, item, audit>>
    <2>1. /\ job' \in [Jobs -> JobRows] /\ verdict' \in [Jobs -> Seq(Verdicts)]
          /\ line' \in [Skus -> Lines] /\ item' \in [Items -> QueueItems]
          /\ audit' \subseteq Decisions /\ LinesFit'
      BY <1>2 DEF Sound, TypeOK, References, LinesFit
    <2> QED
      BY <1>1, <1>2, <2>1, ReviewerSound
  <1>3. CASE ApprovalWritten(r, p)
    <2>1. Seen(r) \in QueueItems
      BY <1>1, DecisionContext
    <2>2. /\ item' \in [Items -> QueueItems]
          /\ \A i \in Items : /\ item'[i].status # "ABSENT" <=> item[i].status # "ABSENT"
                              /\ item'[i].row = item[i].row
      BY <1>1, <1>3, <2>1, DecidedCopies, ItemWritten DEF ApprovalWritten
    <2>3. /\ line' \in [Skus -> Lines] /\ LinesFit' /\ audit' \subseteq Decisions
          /\ \A s \in Skus : line[s].status # "ABSENT" => line'[s].status # "ABSENT"
      BY <1>1, <1>3, ApprovedTyped DEF ApprovalWritten
    <2>4. /\ job' \in [Jobs -> JobRows] /\ verdict' \in [Jobs -> Seq(Verdicts)]
          /\ \A j \in Jobs : job'[j].stage = job[j].stage
          /\ \A j \in Jobs : Len(verdict'[j]) = Len(verdict[j])
      BY <1>1, <1>3, ResolvedTyped DEF ApprovalWritten
    <2> QED
      BY <1>1, <2>2, <2>3, <2>4, ReviewerSound
  <1> QED
    BY <1>2, <1>3, ApproveCases

\* A rejection withdraws the suggestion on the line.
LEMMA RejectTyped ==
    ASSUME Sound, NEW r \in Reviewers, Reject(r)
    PROVE  /\ Sound' /\ Grows
           /\ \A s \in Skus : \/ line'[s] = line[s]
                              \/ /\ s = Seen(r).sku /\ reviewer[r].line.status = "PENDING"
                                 /\ line'[s] = [status |-> "UNMAPPED", product |-> None]
  <1> DEFINE s == Seen(r).sku
             b == reviewer[r].line
             c == [status |-> "UNMAPPED", product |-> None]
  <1>1. /\ Deciding(r) /\ Close(r) /\ WriteItem(r, RejectedCopy(r))
        /\ UNCHANGED <<file, job, verdict, audit, matcher, crashes, discipline>>
    BY DEF Reject, Deciding, RejectedCopy
  <1>2. /\ Seen(r) \in QueueItems /\ b \in Lines /\ LineFits(b)
        /\ line \in [Skus -> Lines] /\ LinesFit
    BY <1>1, DecisionContext DEF Sound, TypeOK, References, ReviewerFits
  <1>3. /\ item' \in [Items -> QueueItems]
        /\ \A i \in Items : /\ item'[i].status # "ABSENT" <=> item[i].status # "ABSENT"
                            /\ item'[i].row = item[i].row
    BY <1>1, <1>2, DecidedCopies, ItemWritten
  <1>4. /\ line' \in [Skus -> Lines] /\ LinesFit'
        /\ \A t \in Skus : \/ line'[t] = line[t]
                           \/ t = s /\ b.status = "PENDING" /\ line'[t] = c
    <2>1. CASE b.status = "PENDING"
      <3>1. s \in Skus
        BY <1>1, <2>1, DecisionContext
      <3>2. c \in Lines
        BY DEF Lines
      <3>3. line' = [line EXCEPT ![s] = Merge(line[s], b, c)]
        BY <2>1 DEF Reject
      <3>4. Merge(line[s], b, c) = [status |-> IF c.status = b.status THEN line[s].status ELSE c.status,
                                    product |-> IF c.product = b.product THEN line[s].product
                                                ELSE c.product]
        BY <1>2, <3>1, <3>2, MergedLine
      <3>5. b.product # None
        BY <1>2, <2>1 DEF LineFits
      <3>6. Merge(line[s], b, c) = c
        BY <2>1, <3>4, <3>5
      <3>7. LineFits(c)
        BY DEF LineFits
      <3> HIDE DEF c
      <3>8. line' = [line EXCEPT ![s] = c]
        BY <3>3, <3>6
      <3> QED
        BY <1>2, <2>1, <3>1, <3>2, <3>7, <3>8 DEF LinesFit
    <2>2. CASE b.status # "PENDING"
      <3>1. line' = line
        BY <2>2 DEF Reject
      <3> QED
        BY <1>2, <3>1 DEF LinesFit
    <2> QED
      BY <2>1, <2>2
  <1>5. /\ job' \in [Jobs -> JobRows] /\ verdict' \in [Jobs -> Seq(Verdicts)]
        /\ audit' \subseteq Decisions
    BY <1>1 DEF Sound, TypeOK
  <1>6. \A t \in Skus : line[t].status # "ABSENT" => line'[t].status # "ABSENT"
    BY <1>4
  <1>7. Sound' /\ Grows
    BY <1>1, <1>3, <1>4, <1>5, <1>6, ReviewerSound
  <1> QED
    BY <1>4, <1>7

LEMMA DeferTyped ==
    ASSUME Sound, NEW r \in Reviewers, Defer(r)
    PROVE  Sound' /\ Grows
  <1>1. /\ Deciding(r) /\ Close(r) /\ WriteItem(r, DeferredCopy(r))
        /\ UNCHANGED <<file, job, verdict, line, audit, matcher, crashes, discipline>>
    BY DEF Defer, Deciding, DeferredCopy
  <1>2. Seen(r) \in QueueItems /\ Seen(r).status = "PENDING"
    BY <1>1, DecisionContext
  <1>3. /\ item' \in [Items -> QueueItems]
        /\ \A i \in Items : /\ item'[i].status # "ABSENT" <=> item[i].status # "ABSENT"
                            /\ item'[i].row = item[i].row
    BY <1>1, <1>2, DecidedCopies, ItemWritten
  <1>4. /\ job' \in [Jobs -> JobRows] /\ verdict' \in [Jobs -> Seq(Verdicts)]
        /\ audit' \subseteq Decisions /\ line' \in [Skus -> Lines] /\ LinesFit'
    BY <1>1 DEF Sound, TypeOK, References, LinesFit
  <1> QED
    BY <1>1, <1>3, <1>4, ReviewerSound

LEMMA SoundStep ==
    ASSUME Sound, [Next]_vars
    PROVE  Sound' /\ Grows
  <1>1. CASE UNCHANGED vars
    <2>1. Grows
      BY <1>1 DEF Grows, vars
    <2>2. TypeOK'
      BY <1>1 DEF vars, Sound, TypeOK
    <2>3. JobsFit' /\ ItemsFit' /\ LinesFit'
      BY <1>1 DEF vars, Sound, References, JobsFit, ItemsFit, LinesFit, RowExists
    <2>4. \A m \in Matchers : MatcherFits(m)'
      BY <1>1, <2>1, MatcherFitsKept DEF vars, Sound, References
    <2>5. \A r \in Reviewers : ReviewerFits(r)'
      BY <1>1, <2>1, ReviewerFitsKept DEF vars, Sound, References
    <2> QED
      BY <2>1, <2>2, <2>3, <2>4, <2>5 DEF Sound, References
  <1>2. ASSUME NEW j \in Jobs, NEW f \in Files, Import(j, f) PROVE Sound' /\ Grows
    BY <1>2, ImportTyped
  <1>3. ASSUME NEW m \in Matchers, MatcherStep(m) PROVE Sound' /\ Grows
    BY <1>3, StartTyped, ReadTyped, WriteTyped, FinishTyped DEF MatcherStep
  <1>4. ASSUME NEW r \in Reviewers, ReviewerStep(r) PROVE Sound' /\ Grows
    BY <1>4, OpenTyped, ApproveTyped, RejectTyped, DeferTyped DEF ReviewerStep
  <1>5. ASSUME NEW m \in Matchers, Crash(m) PROVE Sound' /\ Grows
    BY <1>5, CrashTyped
  <1> QED
    BY <1>1, <1>2, <1>3, <1>4, <1>5 DEF Next

LEMMA SoundInit ==
    ASSUME Init
    PROVE  Sound
  <1>1. TypeOK
    <2>1. \A j \in Jobs : <<>> \in Seq(Verdicts)
      OBVIOUS
    <2>2. 0 \in 0 .. MaxCrashes
      BY BoundsAssumption
    <2> QED
      BY <2>1, <2>2, IdleTypes DEF Init, TypeOK
  <1>2. JobsFit /\ ItemsFit /\ LinesFit
    BY DEF Init, JobsFit, ItemsFit, LinesFit, LineFits, AbsentJob, AbsentItem, AbsentLine
  <1>3. \A m \in Matchers : MatcherFits(m)
    BY DEF Init, MatcherFits, Working, Writing, IdleMatcher, LineFits, AbsentLine
  <1>4. \A r \in Reviewers : ReviewerFits(r)
    BY DEF Init, ReviewerFits, Deciding, IdleReviewer
  <1> QED
    BY <1>1, <1>2, <1>3, <1>4 DEF Sound, References

\* Of every behaviour, orderly or not: types and references.
THEOREM ReferencesHold == Spec => []Sound
  <1>1. Init => Sound
    BY SoundInit
  <1>2. Sound /\ [Next]_vars => Sound'
    BY SoundStep
  <1> QED
    BY <1>1, <1>2, PTL DEF Spec

----------------------------------------------------------------------------
(* Orderly behaviours: what was read is there *)

\* The processes a step of an orderly behaviour may find at work.
LEMMA BeginAlone ==
    ASSUME Sound, MayBegin, MayRead, Orderly
    PROVE  /\ \A m \in Matchers : ~Writing(m)
           /\ \A r \in Reviewers : ~Deciding(r)
           /\ discipline = "SERIAL" => \A m \in Matchers : ~Working(m)
  <1>1. discipline \in {"ATOMIC", "SERIAL"}
    BY DisciplineAssumption DEF Sound, TypeOK, Orderly
  <1>2. CASE discipline = "ATOMIC"
    BY <1>2 DEF MayRead, Holding, Writing, Deciding
  <1>3. CASE discipline = "SERIAL"
    <2>1. \A m \in Matchers : matcher[m].pc = "idle"
      BY <1>3 DEF MayBegin, Active
    <2>2. \A r \in Reviewers : reviewer[r].pc = "idle"
      BY <1>3 DEF MayBegin, Active
    <2> QED
      BY <2>1, <2>2 DEF Writing, Deciding, Working
  <1> QED
    BY <1>1, <1>2, <1>3

LEMMA ReadAlone ==
    ASSUME Sound, CopiesAreCurrent, Orderly, NEW m \in Matchers, ReadChunk(m)
    PROVE  /\ \A n \in Matchers : ~Writing(n)
           /\ \A r \in Reviewers : ~Deciding(r)
  <1>1. discipline \in {"ATOMIC", "SERIAL"} /\ Working(m) /\ ~Writing(m)
    BY DisciplineAssumption DEF Sound, TypeOK, Orderly, ReadChunk, Working, Writing
  <1>2. CASE discipline = "ATOMIC"
    BY <1>2 DEF ReadChunk, MayRead, Holding, Writing, Deciding
  <1>3. CASE discipline = "SERIAL"
    <2>1. \A n \in Matchers : Writing(n) => n = m
      BY <1>1, <1>3 DEF CopiesAreCurrent, OneActive, Writing, Working
    <2> QED
      BY <1>1, <1>3, <2>1 DEF CopiesAreCurrent, OneActive
  <1> QED
    BY <1>1, <1>2, <1>3

\* A copy stays current while its tables stay as they are.
LEMMA ChunkKept ==
    ASSUME Sound, Grows, NEW m \in Matchers, Writing(m), ChunkIsCurrent(m),
           matcher'[m] = matcher[m], line' = line, item' = item
    PROVE  ChunkIsCurrent(m)'
  <1>1. Working(m) /\ MyJob(m) \in Jobs /\ job[MyJob(m)].stage # "ABSENT"
    BY DEF Sound, References, MatcherFits, Writing, Working
  <1>2. MyJob(m)' = MyJob(m) /\ file'[MyJob(m)] = file[MyJob(m)]
    BY <1>1 DEF Grows, MyJob
  <1>3. Row(m)' = Row(m)
    BY <1>2 DEF Row
  <1> QED
    BY <1>3 DEF ChunkIsCurrent, OpenItems, Rejected

LEMMA DecisionKept ==
    ASSUME Sound, NEW r \in Reviewers, Deciding(r), DecisionIsCurrent(r),
           reviewer'[r] = reviewer[r], line' = line, item' = item,
           \A j \in Jobs : job[j].stage # "ABSENT" => verdict'[j] = verdict[j]
    PROVE  DecisionIsCurrent(r)'
  <1>1. Seen(r)' = Seen(r)
    BY DEF Seen
  <1>2. Seen(r).row.job \in Jobs /\ job[Seen(r).row.job].stage # "ABSENT"
    BY DEF Sound, References, ReviewerFits, RowExists
  <1>3. verdict'[Seen(r).row.job] = verdict[Seen(r).row.job]
    BY <1>2
  <1> QED
    BY <1>1, <1>3 DEF DecisionIsCurrent

\* A step of a process that holds nothing before it and nothing after it.
LEMMA CurrentKept ==
    ASSUME Sound, Grows, CopiesAreCurrent, line' = line, item' = item,
           discipline' = discipline,
           \A j \in Jobs : job[j].stage # "ABSENT" => verdict'[j] = verdict[j],
           \A m \in Matchers : Writing(m)' => Writing(m) /\ matcher'[m] = matcher[m],
           \A r \in Reviewers : Deciding(r)' => Deciding(r) /\ reviewer'[r] = reviewer[r],
           (discipline = "SERIAL" => OneActive)'
    PROVE  CopiesAreCurrent'
  <1>1. OneHolder'
    BY DEF CopiesAreCurrent, OneHolder
  <1>2. ASSUME NEW m \in Matchers, Writing(m)' PROVE ChunkIsCurrent(m)'
    BY <1>2, ChunkKept DEF CopiesAreCurrent
  <1>3. ASSUME NEW r \in Reviewers, Deciding(r)' PROVE DecisionIsCurrent(r)'
    BY <1>3, DecisionKept DEF CopiesAreCurrent
  <1> QED
    BY <1>1, <1>2, <1>3 DEF CopiesAreCurrent

\* A write ends what its session had read, and no other session had read anything.
LEMMA NobodyHolds ==
    ASSUME \A m \in Matchers : ~Writing(m)', \A r \in Reviewers : ~Deciding(r)',
           (discipline = "SERIAL" => OneActive)'
    PROVE  CopiesAreCurrent'
  BY DEF CopiesAreCurrent, OneHolder

LEMMA FewerActive ==
    ASSUME CopiesAreCurrent, discipline' = discipline,
           \A m \in Matchers : Working(m)' => Working(m),
           \A r \in Reviewers : Deciding(r)' => Deciding(r)
    PROVE  (discipline = "SERIAL" => OneActive)'
  BY DEF CopiesAreCurrent, OneActive

LEMMA CurrentMatching ==
    ASSUME Sound, CopiesAreCurrent, Orderly, NEW m \in Matchers, MatcherStep(m)
    PROVE  CopiesAreCurrent'
  <1>1. ASSUME NEW j \in Jobs, StartMatching(m, j) PROVE CopiesAreCurrent'
    <2>1. /\ Grows /\ \A n \in Matchers : n # m => matcher'[n] = matcher[n]
          /\ matcher'[m].pc = "read"
      BY <1>1, StartTyped
    <2>2. UNCHANGED <<verdict, line, item, reviewer, discipline>> /\ MayBegin
      BY <1>1 DEF StartMatching, dbVars
    <2>3. \A n \in Matchers : Writing(n)' => Writing(n) /\ matcher'[n] = matcher[n]
      BY <2>1 DEF Writing
    <2>4. \A r \in Reviewers : Deciding(r)' => Deciding(r) /\ reviewer'[r] = reviewer[r]
      BY <2>2 DEF Deciding
    <2>5. (discipline = "SERIAL" => OneActive)'
      <3>1. SUFFICES ASSUME discipline = "SERIAL" PROVE OneActive'
        BY <2>2
      <3>2. /\ \A n \in Matchers : matcher[n].pc = "idle"
            /\ \A r \in Reviewers : reviewer[r].pc = "idle"
        BY <2>2, <3>1 DEF MayBegin, Active
      <3>3. /\ \A n \in Matchers : Working(n)' => n = m
            /\ \A r \in Reviewers : ~Deciding(r)'
        BY <2>1, <2>2, <3>2 DEF Working, Deciding
      <3> QED
        BY <3>3 DEF OneActive
    <2> QED
      BY <2>1, <2>2, <2>3, <2>4, <2>5, CurrentKept
  <1>2. ASSUME ReadChunk(m) PROVE CopiesAreCurrent'
    <2>1. /\ \A n \in Matchers : ~Writing(n)
          /\ \A r \in Reviewers : ~Deciding(r)
      BY <1>2, ReadAlone
    <2>2. /\ \A n \in Matchers : n # m => matcher'[n] = matcher[n]
          /\ UNCHANGED <<dbVars, reviewer, crashes, discipline>>
          /\ Working(m) /\ Working(m)'
      BY <1>2, ReadFacts DEF Working, ReadChunk
    <2>3. /\ \A n \in Matchers : Writing(n)' => n = m
          /\ \A r \in Reviewers : ~Deciding(r)'
          /\ \A n \in Matchers : Working(n)' => Working(n)
      BY <2>1, <2>2 DEF Writing, Deciding, Working
    <2>4. OneHolder'
      BY <2>3 DEF OneHolder
    <2>5. (discipline = "SERIAL" => OneActive)'
      BY <2>2, <2>3, FewerActive
    <2>6. ChunkIsCurrent(m)'
      <3>1. /\ Row(m)' = Row(m) /\ line' = line /\ item' = item
            /\ OpenItems(Row(m).sku)' = OpenItems(Row(m).sku)
            /\ Rejected(Row(m).sku)' = Rejected(Row(m).sku)
        <4>1. UNCHANGED <<file, line, item>>
          BY <2>2 DEF dbVars
        <4>2. Row(m)' = Row(m)
          BY <1>2, <4>1, ReadFacts DEF Row, MyJob
        <4> QED
          BY <4>1, <4>2 DEF OpenItems, Rejected
      <3>2. SUFFICES ASSUME Row(m).sku # None
                     PROVE  /\ matcher'[m].line = line[Row(m).sku]
                            /\ matcher'[m].open = 0 => OpenItems(Row(m).sku) = {}
                            /\ matcher'[m].open # 0 => item[matcher'[m].open] = matcher'[m].item
                            /\ matcher'[m].declined # NoEvidence =>
                                 \E i \in Rejected(Row(m).sku) :
                                     Evidence(item[i]) = matcher'[m].declined
        BY <3>1 DEF ChunkIsCurrent
      <3>3. Row(m).sku \in Skus /\ matcher'[m].declined = LatestRejection(Row(m).sku)
        BY <1>2, <3>2, ReadFacts
      <3>4. matcher'[m].declined # NoEvidence =>
                \E i \in Rejected(Row(m).sku) : Evidence(item[i]) = matcher'[m].declined
        BY <3>3, RejectionFacts
      <3> QED
        BY <1>2, <3>2, <3>4, ReadFacts
    <2> QED
      BY <2>3, <2>4, <2>5, <2>6 DEF CopiesAreCurrent
  <1>3. ASSUME WriteChunk(m) PROVE CopiesAreCurrent'
    <2>1. Writing(m) /\ Working(m) /\ UNCHANGED <<reviewer, discipline>>
      BY <1>3, ChunkCases
    <2>2. /\ \A n \in Matchers : n # m => matcher'[n] = matcher[n]
          /\ ~Writing(m)'
      <3>1. matcher \in [Matchers -> MatcherStates]
        BY DEF Sound, TypeOK
      <3>2. CASE Forget(m)
        BY <3>1, <3>2, ForgetFacts
      <3>3. CASE ChunkWritten(m)
        <4>1. Counted(m, OutcomeOf(m)) \in JobRows
          BY <3>1, CountedTyped
        <4> QED
          BY <3>1, <3>3, <4>1, DoneFacts DEF ChunkWritten, Writing
      <3> QED
        BY <1>3, <3>2, <3>3, ChunkCases
    <2>3. /\ \A n \in Matchers : n # m => ~Writing(n)
          /\ \A r \in Reviewers : ~Deciding(r)
      BY <2>1 DEF CopiesAreCurrent, OneHolder
    <2>4. /\ \A n \in Matchers : ~Writing(n)' /\ (Working(n)' => Working(n))
          /\ \A r \in Reviewers : ~Deciding(r)'
      BY <2>1, <2>2, <2>3 DEF Writing, Working, Deciding
    <2> QED
      BY <2>1, <2>4, FewerActive, NobodyHolds
  <1>4. ASSUME FinishMatching(m) PROVE CopiesAreCurrent'
    <2>1. Forget(m) /\ UNCHANGED <<verdict, line, item, reviewer, discipline>> /\ Grows
      BY <1>4, FinishTyped DEF FinishMatching
    <2>2. /\ \A n \in Matchers : n # m => matcher'[n] = matcher[n]
          /\ ~Writing(m)' /\ ~Working(m)'
      BY <2>1, ForgetFacts DEF Sound, TypeOK
    <2>3. /\ \A n \in Matchers : Writing(n)' => Writing(n) /\ matcher'[n] = matcher[n]
          /\ \A n \in Matchers : Working(n)' => Working(n)
          /\ \A r \in Reviewers : Deciding(r)' => Deciding(r) /\ reviewer'[r] = reviewer[r]
      BY <2>1, <2>2 DEF Writing, Working, Deciding
    <2> QED
      BY <2>1, <2>3, FewerActive, CurrentKept
  <1> QED
    BY <1>1, <1>2, <1>3, <1>4 DEF MatcherStep

LEMMA CurrentDeciding ==
    ASSUME Sound, CopiesAreCurrent, Orderly, NEW r \in Reviewers, ReviewerStep(r)
    PROVE  CopiesAreCurrent'
  <1>1. ASSUME NEW i \in Items, Open(r, i) PROVE CopiesAreCurrent'
    <2>1. /\ \A s \in Reviewers : s # r => reviewer'[s] = reviewer[s]
          /\ UNCHANGED <<dbVars, matcher, crashes, discipline>>
          /\ Seen(r)' = item[i] /\ reviewer'[r].item = i
          /\ item[i].sku # None => reviewer'[r].line = line[item[i].sku]
          /\ reviewer'[r].verdict = verdict[item[i].row.job][item[i].row.n]
      BY <1>1, OpenTyped DEF Seen
    <2>2. /\ \A m \in Matchers : ~Writing(m)
          /\ \A s \in Reviewers : ~Deciding(s)
          /\ discipline = "SERIAL" => \A m \in Matchers : ~Working(m)
      BY <1>1, BeginAlone DEF Open
    <2>3. /\ \A m \in Matchers : ~Writing(m)'
          /\ \A s \in Reviewers : Deciding(s)' => s = r
          /\ discipline = "SERIAL" => \A m \in Matchers : ~Working(m)'
      BY <2>1, <2>2 DEF Writing, Working, Deciding
    <2>4. OneHolder' /\ (discipline = "SERIAL" => OneActive)'
      BY <2>1, <2>3 DEF OneHolder, OneActive
    <2>5. DecisionIsCurrent(r)'
      BY <2>1 DEF DecisionIsCurrent, dbVars
    <2> QED
      BY <2>3, <2>4, <2>5 DEF CopiesAreCurrent
  <1>2. ASSUME Deciding(r), Close(r), UNCHANGED <<matcher, discipline>>
        PROVE  CopiesAreCurrent'
    <2>1. /\ \A s \in Reviewers : s # r => reviewer'[s] = reviewer[s]
          /\ ~Deciding(r)'
      BY <1>2, CloseFacts DEF Sound, TypeOK
    <2>2. /\ \A m \in Matchers : ~Writing(m)
          /\ \A s \in Reviewers : s # r => ~Deciding(s)
      BY <1>2 DEF CopiesAreCurrent, OneHolder
    <2>3. /\ \A m \in Matchers : ~Writing(m)' /\ (Working(m)' => Working(m))
          /\ \A s \in Reviewers : ~Deciding(s)'
      BY <1>2, <2>1, <2>2 DEF Writing, Working, Deciding
    <2> QED
      BY <1>2, <2>3, FewerActive, NobodyHolds
  <1>3. ASSUME NEW p \in Products, NEW b \in BOOLEAN, Approve(r, p, b) PROVE CopiesAreCurrent'
    BY <1>2, <1>3, ApproveCases
  <1>4. ASSUME Reject(r) \/ Defer(r) PROVE CopiesAreCurrent'
    BY <1>2, <1>4 DEF Reject, Defer, Deciding
  <1> QED
    BY <1>1, <1>3, <1>4 DEF ReviewerStep

LEMMA CurrentStep ==
    ASSUME Sound, CopiesAreCurrent, Orderly, [Next]_vars
    PROVE  CopiesAreCurrent'
  <1>1. Grows
    BY SoundStep
  <1>2. CASE UNCHANGED vars
    <2>1. /\ \A n \in Matchers : Writing(n)' => Writing(n) /\ matcher'[n] = matcher[n]
          /\ \A n \in Matchers : Working(n)' => Working(n)
          /\ \A r \in Reviewers : Deciding(r)' => Deciding(r) /\ reviewer'[r] = reviewer[r]
      BY <1>2 DEF vars, Writing, Working, Deciding
    <2> QED
      BY <1>1, <1>2, <2>1, FewerActive, CurrentKept DEF vars
  <1>3. ASSUME NEW j \in Jobs, NEW f \in Files, Import(j, f) PROVE CopiesAreCurrent'
    <2>1. /\ \A n \in Matchers : Writing(n)' => Writing(n) /\ matcher'[n] = matcher[n]
          /\ \A n \in Matchers : Working(n)' => Working(n)
          /\ \A r \in Reviewers : Deciding(r)' => Deciding(r) /\ reviewer'[r] = reviewer[r]
      BY <1>3 DEF Import, Writing, Working, Deciding
    <2>2. \A k \in Jobs : job[k].stage # "ABSENT" => verdict'[k] = verdict[k]
      <3>1. /\ verdict' = [verdict EXCEPT ![j] = [k \in 1 .. Len(f) |-> NoVerdict]]
            /\ job[j].stage = "ABSENT"
        BY <1>3 DEF Import
      <3> QED
        BY <3>1 DEF Sound, TypeOK
    <2>3. UNCHANGED <<line, item, discipline>>
      BY <1>3 DEF Import
    <2> QED
      BY <1>1, <2>1, <2>2, <2>3, FewerActive, CurrentKept
  <1>4. ASSUME NEW m \in Matchers, Crash(m) PROVE CopiesAreCurrent'
    <2>1. Forget(m) /\ UNCHANGED <<verdict, line, item, reviewer, discipline>>
      BY <1>4 DEF Crash, dbVars
    <2>2. /\ \A n \in Matchers : n # m => matcher'[n] = matcher[n]
          /\ ~Writing(m)' /\ ~Working(m)'
      BY <2>1, ForgetFacts DEF Sound, TypeOK
    <2>3. /\ \A n \in Matchers : Writing(n)' => Writing(n) /\ matcher'[n] = matcher[n]
          /\ \A n \in Matchers : Working(n)' => Working(n)
          /\ \A r \in Reviewers : Deciding(r)' => Deciding(r) /\ reviewer'[r] = reviewer[r]
      BY <2>1, <2>2 DEF Writing, Working, Deciding
    <2> QED
      BY <1>1, <2>1, <2>3, FewerActive, CurrentKept
  <1> QED
    BY <1>2, <1>3, <1>4, CurrentMatching, CurrentDeciding DEF Next

----------------------------------------------------------------------------
(* Orderly behaviours: what a write does *)

\* The chunk of a matcher whose copies are current: its line, as proposed.
LEMMA ChunkLineNow ==
    ASSUME Sound, NEW m \in Matchers, Writing(m), ChunkIsCurrent(m), ChunkWritten(m)
    PROVE  \A s \in Skus : \/ line'[s] = line[s]
                           \/ /\ s = Row(m).sku /\ line'[s] = Proposed(OutcomeOf(m), line[s])
                              /\ line[s].status # "APPROVED" /\ line'[s].status # "APPROVED"
  <1>1. Working(m) /\ RowsLeft(m)
    BY DEF Sound, References, MatcherFits, Writing, Working
  <1> SUFFICES ASSUME NEW s \in Skus, s = Row(m).sku
               PROVE  \/ line'[s] = line[s]
                      \/ /\ line'[s] = Proposed(OutcomeOf(m), line[s])
                         /\ line[s].status # "APPROVED" /\ line'[s].status # "APPROVED"
    BY ChunkLines
  <1> DEFINE new == Proposed(OutcomeOf(m), line[s])
  <1>2. s # None
    BY NoneAssumption
  <1>3. matcher[m].line = line[s] /\ line[s] \in Lines
    BY <1>2 DEF ChunkIsCurrent, Sound, TypeOK
  <1>4. /\ OutcomeOf(m).result = "MATCHED" => OutcomeOf(m).product \in Products
        /\ new \in Lines
    BY <1>1, <1>3, OutcomeContext
  <1>5. line'[s] = Merge(line[s], line[s], new)
    BY <1>3, ChunkLines
  <1>6. line'[s] = new
    BY <1>3, <1>4, <1>5, MergedLine
  <1>7. /\ line[s].status = "APPROVED" => new = line[s]
        /\ line[s].status # "APPROVED" => new.status # "APPROVED"
    BY <1>3, <1>4, ProposedFacts
  <1> QED
    BY <1>6, <1>7

\* And its item: opened or refreshed with what m found, and pending.
QueueAsFound(m) ==
    \/ QueueKept(m)
    \/ \E i \in Items :
         /\ ReasonOf(m) # "NONE"
         /\ item' = [item EXCEPT ![i] = item'[i]]
         /\ \/ item[i].status = "ABSENT" /\ matcher[m].open = 0
            \/ /\ item[i].status = "PENDING" /\ item[i].sku = Row(m).sku /\ Row(m).sku # None
               /\ matcher[m].open = i
         /\ item'[i].status = "PENDING" /\ item'[i].sku = Row(m).sku
         /\ item'[i].row = MyRow(m) /\ item'[i].reason = ReasonOf(m)
         /\ item'[i].candidates = OutcomeOf(m).candidates

LEMMA ChunkItemNow ==
    ASSUME Sound, NEW m \in Matchers, Writing(m), ChunkIsCurrent(m), ChunkWritten(m)
    PROVE  QueueAsFound(m)
  <1>1. Working(m) /\ RowsLeft(m)
    BY DEF Sound, References, MatcherFits, Writing, Working
  <1>2. /\ MyRow(m) \in RowIds /\ Row(m).sku \in Skus \union {None}
        /\ matcher[m] \in MatcherStates
    BY <1>1, ChunkContext
  <1>3. OutcomeOf(m).candidates \in Candidates /\ ReasonOf(m) \in Reasons
    BY <1>1, OutcomeContext
  <1>4. matcher[m].open \in Items \union {0} /\ matcher[m].item \in QueueItems
        /\ item \in [Items -> QueueItems]
    BY <1>2 DEF MatcherStates, Sound, TypeOK
  <1>5. CASE QueueRefreshed(m)
    <2> DEFINE i == matcher[m].open
               new == Refreshed(m)
    <2>1. i \in Items /\ ReasonOf(m) # "NONE"
          /\ item' = [item EXCEPT ![i] = Merge(item[i], matcher[m].item, new)]
      BY <1>5 DEF QueueRefreshed
    <2>2. /\ new \in QueueItems /\ new.status = matcher[m].item.status
          /\ new.sku = matcher[m].item.sku
          /\ new.row = MyRow(m) /\ new.reason = ReasonOf(m)
          /\ new.candidates = OutcomeOf(m).candidates
      BY <1>2, <1>3, <1>4 DEF Refreshed, QueueItems
    <2>3. i # 0
      BY <2>1 DEF Items
    <2>4. /\ matcher[m].item.status = "PENDING" /\ matcher[m].item.sku = Row(m).sku
          /\ Row(m).sku # None
      BY <2>3 DEF Sound, References, MatcherFits
    <2>5. item[i] = matcher[m].item
      BY <2>3, <2>4 DEF ChunkIsCurrent
    <2> HIDE DEF new
    <2>6. Merge(item[i], matcher[m].item, new) = new
      BY <1>4, <2>1, <2>2, <2>5, MergedItem
    <2> HIDE DEF i
    <2>7. item' = [item EXCEPT ![i] = new] /\ item'[i] = new
      BY <1>4, <2>1, <2>6
    <2>8. item' = [item EXCEPT ![i] = item'[i]]
      BY <2>7
    <2> QED
      BY <2>1, <2>2, <2>4, <2>5, <2>7, <2>8 DEF QueueAsFound, i
  <1>6. ASSUME NEW i \in Items, QueueOpened(m, i) PROVE QueueAsFound(m)
    <2>1. /\ ReasonOf(m) # "NONE" /\ matcher[m].open = 0 /\ item[i].status = "ABSENT"
          /\ item' = [item EXCEPT ![i] = NewItemOf(m)]
      BY <1>6 DEF QueueOpened
    <2>2. /\ NewItemOf(m).row = MyRow(m) /\ NewItemOf(m).status = "PENDING"
          /\ NewItemOf(m).sku = Row(m).sku /\ NewItemOf(m).reason = ReasonOf(m)
          /\ NewItemOf(m).candidates = OutcomeOf(m).candidates
      BY DEF NewItemOf, NewItem, AbsentItem
    <2>3. item'[i] = NewItemOf(m)
      BY <1>4, <2>1
    <2>4. item' = [item EXCEPT ![i] = item'[i]]
      BY <2>1, <2>3
    <2> QED
      BY <2>1, <2>2, <2>3, <2>4 DEF QueueAsFound
  <1> QED
    BY <1>4, <1>5, <1>6, QueueCases DEF ChunkWritten, QueueAsFound

\* An approval over current copies: the line is mapped, the item is approved and
\* the row is resolved, exactly.
LEMMA ApprovalNow ==
    ASSUME Sound, NEW r \in Reviewers, Deciding(r), DecisionIsCurrent(r),
           NEW p \in Products, ApprovalWritten(r, p)
    PROVE  /\ Seen(r).sku # None => line'[Seen(r).sku] = [status |-> "APPROVED", product |-> p]
           /\ item' = [item EXCEPT ![reviewer[r].item] = ApprovedCopy(r)]
           /\ item[reviewer[r].item].status = "PENDING"
           /\ verdict' = [verdict EXCEPT ![Seen(r).row.job][Seen(r).row.n] =
                 [result |-> "MATCHED", by |-> "MANUAL_APPROVAL", product |-> p]]
  <1>1. /\ Seen(r) \in QueueItems /\ reviewer[r].line \in Lines /\ Seen(r).status = "PENDING"
        /\ reviewer[r].verdict \in Verdicts
        /\ Seen(r).row.job \in Jobs /\ Seen(r).row.n \in 1 .. Len(verdict[Seen(r).row.job])
    BY DecisionContext
  <1>2. /\ item[reviewer[r].item] = Seen(r)
        /\ Seen(r).sku # None => reviewer[r].line = line[Seen(r).sku]
        /\ reviewer[r].verdict = verdict[Seen(r).row.job][Seen(r).row.n]
    BY DEF DecisionIsCurrent
  <1>3. Seen(r).sku # None => line'[Seen(r).sku] = [status |-> "APPROVED", product |-> p]
    <2>1. SUFFICES ASSUME Seen(r).sku # None
                   PROVE  line'[Seen(r).sku] = [status |-> "APPROVED", product |-> p]
      OBVIOUS
    <2>2. /\ Seen(r).sku \in Skus
          /\ line'[Seen(r).sku] = Mapped(r, p, line[Seen(r).sku])
          /\ LineAllowed(Mapped(r, p, line[Seen(r).sku]))
      BY <2>1, ApprovedTyped DEF ApprovalWritten
    <2>3. line[Seen(r).sku] \in Lines /\ LineFits(line[Seen(r).sku])
      BY <2>2 DEF Sound, TypeOK, References, LinesFit
    <2>4. line[Seen(r).sku] = reviewer[r].line
      BY <1>2, <2>1
    <2> DEFINE l == line[Seen(r).sku]
    <2> HIDE DEF l
    <2>5. /\ l \in Lines /\ LineFits(l) /\ LineAllowed(Mapped(r, p, l))
          /\ l = reviewer[r].line /\ reviewer[r].line \in Lines
      BY <1>1, <2>2, <2>3, <2>4 DEF l
    <2>6. Mapped(r, p, l) = [status |-> "APPROVED", product |-> p]
      BY <2>5, MappedFacts
    <2> QED
      BY <2>2, <2>6 DEF l
  <1>4. item' = [item EXCEPT ![reviewer[r].item] = ApprovedCopy(r)]
    <2>1. ApprovedCopy(r) \in QueueItems
      BY <1>1, DecidedCopies
    <2>2. item' = [item EXCEPT ![reviewer[r].item] =
                      Merge(item[reviewer[r].item], Seen(r), ApprovedCopy(r))]
      BY DEF ApprovalWritten, WriteItem
    <2>3. Merge(item[reviewer[r].item], Seen(r), ApprovedCopy(r)) = ApprovedCopy(r)
      BY <1>1, <1>2, <2>1, MergedItem
    <2> QED
      BY <2>2, <2>3
  <1>5. verdict' = [verdict EXCEPT ![Seen(r).row.job][Seen(r).row.n] =
                 [result |-> "MATCHED", by |-> "MANUAL_APPROVAL", product |-> p]]
    <2> DEFINE j == Seen(r).row.job
               k == Seen(r).row.n
               resolved == [result |-> "MATCHED", by |-> "MANUAL_APPROVAL", product |-> p]
    <2>1. resolved \in Verdicts
      BY DEF Verdicts, Results, Methods
    <2>2. verdict' = [verdict EXCEPT ![j] = [verdict[j] EXCEPT ![k] =
                         Merge(verdict[j][k], reviewer[r].verdict, resolved)]]
      BY DEF ApprovalWritten, ResolveRow
    <2>3. Merge(verdict[j][k], reviewer[r].verdict, resolved) = resolved
      BY <1>1, <1>2, <2>1, MergedVerdict
    <2> HIDE DEF resolved
    <2>4. verdict' = [verdict EXCEPT ![j] = [verdict[j] EXCEPT ![k] = resolved]]
      BY <2>2, <2>3
    <2> QED
      BY <2>4 DEF resolved
  <1> QED
    BY <1>1, <1>2, <1>3, <1>4, <1>5

----------------------------------------------------------------------------
(* Orderly behaviours: mappings come from people *)

Attributed(a, s, p) == \E d \in a : d.kind = "APPROVED" /\ d.sku = s /\ d.product = p
LinesOnRecord(a, l) ==
    \A s \in Skus : l[s].status = "APPROVED" => Attributed(a, s, l[s].product)
VerdictOnRecord(a, v, row) == v.by = "VENDOR_SKU_MAPPING" => Attributed(a, row.sku, v.product)
IndexOnRecord(a, index) == \A s \in Skus : index[s] # None => Attributed(a, s, index[s])

LEMMA OnRecordUnfolded ==
    /\ OnRecord <=>
         /\ LinesOnRecord(audit, line)
         /\ \A j \in Jobs : \A k \in DOMAIN verdict[j] :
               VerdictOnRecord(audit, verdict[j][k], file[j][k])
         /\ \A m \in Matchers : Working(m) => IndexOnRecord(audit, matcher[m].index)
         /\ \A d \in audit : item[d.item].status = "APPROVED"
    /\ OnRecord' <=>
         /\ LinesOnRecord(audit', line')
         /\ \A j \in Jobs : \A k \in DOMAIN verdict'[j] :
               VerdictOnRecord(audit', verdict'[j][k], file'[j][k])
         /\ \A m \in Matchers : Working(m)' => IndexOnRecord(audit', matcher'[m].index)
         /\ \A d \in audit' : item'[d.item].status = "APPROVED"
  BY DEF OnRecord, EveryMappingIsAttributed, Person, LinesOnRecord, VerdictOnRecord,
         IndexOnRecord, Attributed

\* Records stay.
LEMMA RecordsKept ==
    ASSUME NEW a, NEW b, a \subseteq b
    PROVE  /\ \A l : LinesOnRecord(a, l) => LinesOnRecord(b, l)
           /\ \A v, row : VerdictOnRecord(a, v, row) => VerdictOnRecord(b, v, row)
           /\ \A x : IndexOnRecord(a, x) => IndexOnRecord(b, x)
  BY DEF LinesOnRecord, VerdictOnRecord, IndexOnRecord, Attributed

\* A step that writes no line, verdict, item or record.
LEMMA RecordKept ==
    ASSUME OnRecord, UNCHANGED <<line, verdict, item, audit, file>>,
           \A m \in Matchers : Working(m)' =>
               \/ Working(m) /\ matcher'[m].index = matcher[m].index
               \/ matcher'[m].index = [s \in Skus |-> Approved(s)]
    PROVE  OnRecord'
  <1>1. ASSUME NEW m \in Matchers, Working(m)'
        PROVE  IndexOnRecord(audit', matcher'[m].index)
    <2>1. CASE Working(m) /\ matcher'[m].index = matcher[m].index
      BY <2>1, OnRecordUnfolded
    <2>2. CASE matcher'[m].index = [s \in Skus |-> Approved(s)]
      <3>1. \A s \in Skus : matcher'[m].index[s] = IF line[s].status = "APPROVED"
                                                   THEN line[s].product ELSE None
        BY <2>2 DEF Approved
      <3>2. LinesOnRecord(audit', line)
        BY OnRecordUnfolded
      <3> QED
        BY <3>1, <3>2 DEF IndexOnRecord, LinesOnRecord
    <2> QED
      BY <1>1, <2>1, <2>2
  <1> QED
    BY <1>1, OnRecordUnfolded

LEMMA RecordChunk ==
    ASSUME Sound, CopiesAreCurrent, OnRecord, NEW m \in Matchers, Writing(m),
           ChunkWritten(m), UNCHANGED <<file, audit>>
    PROVE  OnRecord'
  <1>1. Working(m) /\ RowsLeft(m) /\ ChunkIsCurrent(m)
    BY DEF Sound, References, MatcherFits, Writing, Working, CopiesAreCurrent
  <1>2. /\ Row(m) \in FileRows /\ matcher[m].index \in Indexes /\ MyJob(m) \in Jobs
        /\ matcher[m].next \in 1 .. Len(verdict[MyJob(m)])
        /\ verdict[MyJob(m)] \in Seq(Verdicts)
    BY <1>1, ChunkContext
  <1>3. LinesOnRecord(audit, line')
    <2>1. LinesOnRecord(audit, line)
      BY OnRecordUnfolded
    <2>2. \A s \in Skus : line'[s].status = "APPROVED" => line'[s] = line[s]
      BY <1>1, ChunkLineNow
    <2> QED
      BY <2>1, <2>2 DEF LinesOnRecord
  <1>4. VerdictOnRecord(audit, VerdictOf(m), Row(m))
    <2>1. SUFFICES ASSUME OutcomeOf(m).by = "VENDOR_SKU_MAPPING"
                   PROVE  Attributed(audit, Row(m).sku, OutcomeOf(m).product)
      BY DEF VerdictOnRecord, VerdictOf
    <2>2. /\ Row(m).sku # None /\ matcher[m].index[Row(m).sku] # None
          /\ OutcomeOf(m).product = matcher[m].index[Row(m).sku]
      BY <1>2, <2>1, OutcomeFacts DEF OutcomeOf
    <2>3. Row(m).sku \in Skus
      BY <1>2, <2>2 DEF FileRows
    <2>4. IndexOnRecord(audit, matcher[m].index)
      BY <1>1, OnRecordUnfolded
    <2> QED
      BY <2>2, <2>3, <2>4 DEF IndexOnRecord
  <1>5. \A j \in Jobs : \A k \in DOMAIN verdict'[j] :
           VerdictOnRecord(audit, verdict'[j][k], file[j][k])
    <2> DEFINE jb == MyJob(m)
               n == matcher[m].next
    <2>1. verdict' = [verdict EXCEPT ![jb] = [verdict[jb] EXCEPT ![n] = VerdictOf(m)]]
      BY DEF ChunkWritten
    <2>2. verdict \in [Jobs -> Seq(Verdicts)] /\ jb \in Jobs
      BY <1>2 DEF Sound, TypeOK
    <2>3. \A j \in Jobs : \A k \in DOMAIN verdict[j] :
             VerdictOnRecord(audit, verdict[j][k], file[j][k])
      BY OnRecordUnfolded
    <2>4. Row(m) = file[jb][n]
      BY DEF Row
    <2> HIDE DEF jb, n
    <2> SUFFICES ASSUME NEW j \in Jobs, NEW k \in DOMAIN verdict'[j]
                 PROVE  VerdictOnRecord(audit, verdict'[j][k], file[j][k])
      OBVIOUS
    <2>5. CASE j = jb /\ k = n
      <3>1. verdict'[j] = [verdict[jb] EXCEPT ![n] = VerdictOf(m)]
        BY <2>1, <2>2, <2>5
      <3>2. verdict'[j][k] = VerdictOf(m)
        BY <2>5, <3>1
      <3> QED
        BY <1>4, <2>4, <2>5, <3>2
    <2>6. CASE ~(j = jb /\ k = n)
      <3>1. k \in DOMAIN verdict[j] /\ verdict'[j][k] = verdict[j][k]
        BY <2>1, <2>2, <2>6
      <3> QED
        BY <2>3, <3>1
    <2> QED
      BY <2>5, <2>6
  <1>6. \A n \in Matchers : Working(n)' => IndexOnRecord(audit, matcher'[n].index)
    <2>1. matcher \in [Matchers -> MatcherStates]
      BY DEF Sound, TypeOK
    <2>2. Counted(m, OutcomeOf(m)) \in JobRows
      BY <2>1, CountedTyped
    <2>3. /\ \A n \in Matchers : n # m => matcher'[n] = matcher[n]
          /\ matcher'[m].index = matcher[m].index
      BY <2>1, <2>2, DoneFacts DEF ChunkWritten
    <2>4. \A n \in Matchers : Working(n)' => Working(n) /\ matcher'[n].index = matcher[n].index
      BY <1>1, <2>3 DEF Working
    <2> QED
      BY <2>4, OnRecordUnfolded
  <1>7. \A d \in audit : item'[d.item].status = "APPROVED"
    <2>1. \A d \in audit : item[d.item].status = "APPROVED" /\ d.item \in Items
      BY OnRecordUnfolded DEF Sound, TypeOK, Decisions
    <2>2. item \in [Items -> QueueItems] /\ QueueAsFound(m)
      BY <1>1, ChunkItemNow DEF Sound, TypeOK
    <2>3. CASE QueueKept(m)
      BY <2>1, <2>3 DEF QueueKept
    <2>4. ASSUME NEW i \in Items, item' = [item EXCEPT ![i] = item'[i]],
                 item[i].status # "APPROVED"
          PROVE  \A d \in audit : item'[d.item].status = "APPROVED"
      BY <2>1, <2>2, <2>4
    <2> QED
      BY <2>2, <2>3, <2>4 DEF QueueAsFound
  <1> QED
    BY <1>3, <1>5, <1>6, <1>7, OnRecordUnfolded

LEMMA RecordApproval ==
    ASSUME Sound, CopiesAreCurrent, OnRecord, NEW r \in Reviewers, Deciding(r),
           NEW p \in Products, ApprovalWritten(r, p), UNCHANGED <<file, matcher>>
    PROVE  OnRecord'
  <1> DEFINE s == Seen(r).sku
             i == reviewer[r].item
             j == Seen(r).row.job
             k == Seen(r).row.n
             resolved == [result |-> "MATCHED", by |-> "MANUAL_APPROVAL", product |-> p]
  <1>1. /\ DecisionIsCurrent(r) /\ Seen(r) \in QueueItems
        /\ s \in Skus \union {None} /\ i \in Items /\ j \in Jobs
        /\ item \in [Items -> QueueItems] /\ verdict \in [Jobs -> Seq(Verdicts)]
    BY DecisionContext DEF Sound, TypeOK, CopiesAreCurrent
  <1>2. /\ \A t \in Skus : t # s => line'[t] = line[t]
        /\ audit \subseteq audit' /\ audit' \subseteq Decisions
        /\ \A d \in audit' \ audit : d.item = i
        /\ s # None => Attributed(audit', s, p)
    BY ApprovedTyped DEF ApprovalWritten, Attributed
  <1>3. /\ s # None => line'[s] = [status |-> "APPROVED", product |-> p]
        /\ item' = [item EXCEPT ![i] = ApprovedCopy(r)]
        /\ verdict' = [verdict EXCEPT ![j] = [verdict[j] EXCEPT ![k] = resolved]]
    BY <1>1, ApprovalNow
  <1>4. LinesOnRecord(audit', line')
    <2>1. LinesOnRecord(audit', line)
      BY <1>2, RecordsKept, OnRecordUnfolded
    <2>2. \A t \in Skus : t # None
      BY NoneAssumption
    <2> HIDE DEF s
    <2> QED
      BY <1>2, <1>3, <2>1, <2>2 DEF LinesOnRecord
  <1>5. \A x \in Jobs : \A y \in DOMAIN verdict'[x] :
           VerdictOnRecord(audit', verdict'[x][y], file[x][y])
    <2>1. \A x \in Jobs : \A y \in DOMAIN verdict[x] :
             VerdictOnRecord(audit', verdict[x][y], file[x][y])
      BY <1>2, RecordsKept, OnRecordUnfolded
    <2>2. \A row : VerdictOnRecord(audit', resolved, row)
      BY DEF VerdictOnRecord
    <2> HIDE DEF j, k, resolved
    <2> SUFFICES ASSUME NEW x \in Jobs, NEW y \in DOMAIN verdict'[x]
                 PROVE  VerdictOnRecord(audit', verdict'[x][y], file[x][y])
      OBVIOUS
    <2>3. CASE x = j /\ y = k
      <3>1. verdict'[x] = [verdict[j] EXCEPT ![k] = resolved]
        BY <1>1, <1>3, <2>3
      <3>2. verdict'[x][y] = resolved
        BY <2>3, <3>1
      <3> QED
        BY <2>2, <3>2
    <2>4. CASE ~(x = j /\ y = k)
      <3>1. y \in DOMAIN verdict[x] /\ verdict'[x][y] = verdict[x][y]
        BY <1>1, <1>3, <2>4
      <3> QED
        BY <2>1, <3>1
    <2> QED
      BY <2>3, <2>4
  <1>6. \A m \in Matchers : Working(m)' => IndexOnRecord(audit', matcher'[m].index)
    <2>1. \A m \in Matchers : Working(m)' => Working(m)
      BY DEF Working
    <2> QED
      BY <1>2, <2>1, RecordsKept, OnRecordUnfolded
  <1>7. \A d \in audit' : item'[d.item].status = "APPROVED"
    <2>1. ApprovedCopy(r).status = "APPROVED"
      BY <1>1, DecidedCopies
    <2>2. \A d \in audit : item[d.item].status = "APPROVED" /\ d.item \in Items
      BY OnRecordUnfolded DEF Sound, TypeOK, Decisions
    <2> HIDE DEF i
    <2> QED
      BY <1>1, <1>2, <1>3, <2>1, <2>2
  <1> QED
    BY <1>4, <1>5, <1>6, <1>7, OnRecordUnfolded

\* The item after a rejection or a deferral over current copies.
LEMMA ItemNow ==
    ASSUME Sound, NEW r \in Reviewers, Deciding(r), DecisionIsCurrent(r),
           NEW new \in QueueItems, WriteItem(r, new)
    PROVE  /\ item' = [item EXCEPT ![reviewer[r].item] = new]
           /\ item[reviewer[r].item] = Seen(r) /\ item[reviewer[r].item].status = "PENDING"
           /\ reviewer[r].item \in Items
  <1>1. Seen(r) \in QueueItems /\ Seen(r).status = "PENDING" /\ reviewer[r].item \in Items
    BY DecisionContext
  <1>2. item[reviewer[r].item] = Seen(r)
    BY DEF DecisionIsCurrent
  <1>3. item' = [item EXCEPT ![reviewer[r].item] = Merge(item[reviewer[r].item], Seen(r), new)]
    BY DEF WriteItem
  <1>4. Merge(item[reviewer[r].item], Seen(r), new) = new
    BY <1>1, <1>2, MergedItem
  <1> QED
    BY <1>1, <1>2, <1>3, <1>4

LEMMA RecordOther ==
    ASSUME Sound, CopiesAreCurrent, OnRecord, NEW r \in Reviewers, Reject(r) \/ Defer(r)
    PROVE  OnRecord'
  <1>1. Deciding(r) /\ UNCHANGED <<file, verdict, audit, matcher>>
    BY DEF Reject, Defer, Deciding
  <1>2. DecisionIsCurrent(r) /\ Seen(r) \in QueueItems
    BY <1>1, DecisionContext DEF CopiesAreCurrent
  <1>3. PICK new \in QueueItems : WriteItem(r, new)
    BY <1>2, DecidedCopies DEF Reject, Defer, RejectedCopy, DeferredCopy
  <1>4. /\ item' = [item EXCEPT ![reviewer[r].item] = new]
        /\ item[reviewer[r].item].status = "PENDING" /\ reviewer[r].item \in Items
    BY <1>1, <1>2, <1>3, ItemNow
  <1>5. LinesOnRecord(audit, line')
    <2>1. LinesOnRecord(audit, line)
      BY OnRecordUnfolded
    <2>2. \A s \in Skus : line'[s].status = "APPROVED" => line'[s] = line[s]
      <3>1. CASE Reject(r)
        BY <3>1, RejectTyped
      <3>2. CASE Defer(r)
        BY <3>2 DEF Defer
      <3> QED
        BY <3>1, <3>2
    <2> QED
      BY <2>1, <2>2 DEF LinesOnRecord
  <1>6. \A m \in Matchers : Working(m)' => IndexOnRecord(audit', matcher'[m].index)
    BY <1>1, OnRecordUnfolded DEF Working
  <1>7. \A d \in audit : item'[d.item].status = "APPROVED"
    <2>1. \A d \in audit : item[d.item].status = "APPROVED"
      BY OnRecordUnfolded
    <2>2. item \in [Items -> QueueItems] /\ \A d \in audit : d.item \in Items
      BY DEF Sound, TypeOK, Decisions
    <2> QED
      BY <1>4, <2>1, <2>2
  <1>8. \A j \in Jobs : \A k \in DOMAIN verdict'[j] :
           VerdictOnRecord(audit', verdict'[j][k], file'[j][k])
    BY <1>1, OnRecordUnfolded
  <1> QED
    BY <1>1, <1>5, <1>6, <1>7, <1>8, OnRecordUnfolded

LEMMA RecordImport ==
    ASSUME Sound, OnRecord, NEW j \in Jobs, NEW f \in Files, Import(j, f)
    PROVE  OnRecord'
  <1>1. UNCHANGED <<line, item, audit, matcher>>
    BY DEF Import
  <1>2. \A x \in Jobs : \A y \in DOMAIN verdict'[x] :
           VerdictOnRecord(audit, verdict'[x][y], file'[x][y])
    <2>1. /\ file' = [file EXCEPT ![j] = f]
          /\ verdict' = [verdict EXCEPT ![j] = [k \in 1 .. Len(f) |-> NoVerdict]]
          /\ file \in [Jobs -> Files \union {<<>>}] /\ verdict \in [Jobs -> Seq(Verdicts)]
      BY DEF Import, Sound, TypeOK
    <2>2. \A row : VerdictOnRecord(audit, NoVerdict, row)
      BY DEF VerdictOnRecord, NoVerdict
    <2> SUFFICES ASSUME NEW x \in Jobs, NEW y \in DOMAIN verdict'[x]
                 PROVE  VerdictOnRecord(audit, verdict'[x][y], file'[x][y])
      OBVIOUS
    <2>3. CASE x = j
      <3>1. verdict'[x] = [k \in 1 .. Len(f) |-> NoVerdict]
        BY <2>1, <2>3
      <3>2. verdict'[x][y] = NoVerdict
        BY <3>1
      <3> QED
        BY <2>2, <3>2
    <2>4. CASE x # j
      <3>1. verdict'[x] = verdict[x] /\ file'[x] = file[x]
        BY <2>1, <2>4
      <3> QED
        BY <3>1, OnRecordUnfolded
    <2> QED
      BY <2>3, <2>4
  <1>3. \A m \in Matchers : Working(m)' => IndexOnRecord(audit', matcher'[m].index)
    BY <1>1, OnRecordUnfolded DEF Working
  <1> QED
    BY <1>1, <1>2, <1>3, OnRecordUnfolded

LEMMA RecordMatching ==
    ASSUME Sound, CopiesAreCurrent, OnRecord, NEW m \in Matchers,
           MatcherStep(m) \/ Crash(m)
    PROVE  OnRecord'
  <1>1. matcher \in [Matchers -> MatcherStates]
    BY DEF Sound, TypeOK
  <1>2. ASSUME Forget(m), UNCHANGED <<line, verdict, item, audit, file>>
        PROVE  OnRecord'
    <2>1. \A n \in Matchers : Working(n)' => Working(n) /\ matcher'[n] = matcher[n]
      BY <1>1, <1>2, ForgetFacts DEF Working
    <2> QED
      BY <1>2, <2>1, RecordKept
  <1>3. ASSUME NEW j \in Jobs, StartMatching(m, j) PROVE OnRecord'
    <2>1. UNCHANGED <<line, verdict, item, audit, file>>
      BY <1>3 DEF StartMatching, dbVars
    <2>2. /\ \A n \in Matchers : n # m => matcher'[n] = matcher[n]
          /\ matcher'[m].index = [s \in Skus |-> Approved(s)]
      BY <1>3, StartTyped
    <2>3. \A n \in Matchers : Working(n)' =>
               \/ Working(n) /\ matcher'[n].index = matcher[n].index
               \/ matcher'[n].index = [s \in Skus |-> Approved(s)]
      BY <2>2 DEF Working
    <2> QED
      BY <2>1, <2>3, RecordKept
  <1>4. ASSUME ReadChunk(m) PROVE OnRecord'
    <2>1. UNCHANGED <<line, verdict, item, audit, file>>
      BY <1>4, ReadFacts DEF dbVars
    <2>2. \A n \in Matchers : Working(n)' => Working(n) /\ matcher'[n].index = matcher[n].index
      BY <1>4, ReadFacts DEF Working, ReadChunk
    <2> QED
      BY <2>1, <2>2, RecordKept
  <1>5. ASSUME WriteChunk(m) PROVE OnRecord'
    <2>1. Writing(m) /\ UNCHANGED <<file, audit>>
      BY <1>5, ChunkCases
    <2>2. CASE ChunkWritten(m)
      BY <2>1, <2>2, RecordChunk
    <2>3. CASE Forget(m) /\ UNCHANGED <<job, verdict, line, item>>
      BY <1>2, <2>1, <2>3
    <2> QED
      BY <1>5, <2>2, <2>3, ChunkCases
  <1>6. CASE FinishMatching(m)
    BY <1>2, <1>6 DEF FinishMatching
  <1>7. CASE Crash(m)
    BY <1>2, <1>7 DEF Crash, dbVars
  <1> QED
    BY <1>3, <1>4, <1>5, <1>6, <1>7 DEF MatcherStep

LEMMA RecordDeciding ==
    ASSUME Sound, CopiesAreCurrent, OnRecord, NEW r \in Reviewers, ReviewerStep(r)
    PROVE  OnRecord'
  <1>1. ASSUME UNCHANGED <<line, verdict, item, audit, file, matcher>> PROVE OnRecord'
    BY <1>1, RecordKept DEF Working
  <1>2. ASSUME NEW i \in Items, Open(r, i) PROVE OnRecord'
    BY <1>1, <1>2 DEF Open, dbVars
  <1>3. ASSUME NEW p \in Products, NEW b \in BOOLEAN, Approve(r, p, b) PROVE OnRecord'
    <2>1. Deciding(r) /\ UNCHANGED <<file, matcher>>
      BY <1>3, ApproveCases
    <2>2. CASE ApprovalWritten(r, p)
      BY <2>1, <2>2, RecordApproval
    <2>3. CASE UNCHANGED <<job, verdict, line, item, audit>>
      BY <1>1, <2>1, <2>3
    <2> QED
      BY <1>3, <2>2, <2>3, ApproveCases
  <1> QED
    BY <1>2, <1>3, RecordOther DEF ReviewerStep

LEMMA RecordStep ==
    ASSUME Sound, CopiesAreCurrent, OnRecord, [Next]_vars
    PROVE  OnRecord'
  <1>1. CASE UNCHANGED vars
    BY <1>1, RecordKept DEF vars, Working
  <1> QED
    BY <1>1, RecordImport, RecordMatching, RecordDeciding DEF Next

LEMMA DisciplineKept ==
    ASSUME [Next]_vars
    PROVE  discipline' = discipline
  <1>1. ASSUME NEW m \in Matchers, MatcherStep(m) PROVE discipline' = discipline
    BY <1>1 DEF MatcherStep, StartMatching, ReadChunk, WriteChunk, FinishMatching
  <1>2. ASSUME NEW r \in Reviewers, ReviewerStep(r) PROVE discipline' = discipline
    BY <1>2 DEF ReviewerStep, Open, Approve, Reject, Defer
  <1>3. ASSUME NEW m \in Matchers, Crash(m) PROVE discipline' = discipline
    BY <1>3 DEF Crash
  <1>4. ASSUME NEW j \in Jobs, NEW f \in Files, Import(j, f) PROVE discipline' = discipline
    BY <1>4 DEF Import
  <1> QED
    BY <1>1, <1>2, <1>3, <1>4 DEF Next, vars

LEMMA OrderlyStep ==
    ASSUME OrderlyInv, [Next]_vars
    PROVE  OrderlyInv'
  <1>1. Sound' /\ (Orderly' <=> Orderly)
    BY SoundStep, DisciplineKept DEF OrderlyInv, Orderly
  <1>2. Orderly => CopiesAreCurrent' /\ OnRecord'
    BY CurrentStep, RecordStep DEF OrderlyInv
  <1> QED
    BY <1>1, <1>2 DEF OrderlyInv

LEMMA OrderlyInit ==
    ASSUME Init
    PROVE  OrderlyInv
  <1>1. Sound
    BY SoundInit
  <1>2. /\ \A m \in Matchers : ~Working(m) /\ ~Writing(m)
        /\ \A r \in Reviewers : ~Deciding(r)
    BY DEF Init, Working, Writing, Deciding, IdleMatcher, IdleReviewer
  <1>3. CopiesAreCurrent
    BY <1>2 DEF CopiesAreCurrent, OneHolder, OneActive
  <1>4. OnRecord
    BY <1>2 DEF Init, OnRecord, EveryMappingIsAttributed, AbsentLine
  <1> QED
    BY <1>1, <1>3, <1>4 DEF OrderlyInv

\* Of chunks and decisions that do not overlap: an approved mapping is backed by
\* a person's decision on record, and what a matcher or a reviewer has read of a
\* line or an item is still what the tables say.
THEOREM OrderlyHolds == Spec => []OrderlyInv
  <1> QED
    BY OrderlyInit, OrderlyStep, PTL DEF Spec

\* AC-7.8, of chunks and decisions that do not overlap: an approved mapping, and
\* so every match made by vendor SKU, goes back to a person who approved it.
THEOREM ApprovalsAreOnRecord == Spec => []MappingsComeFromPeople
  <1>1. OrderlyInv => MappingsComeFromPeople
    BY DEF OrderlyInv, OnRecord, MappingsComeFromPeople
  <1> QED
    BY <1>1, OrderlyHolds, PTL

----------------------------------------------------------------------------
(* Orderly behaviours: decisions are final *)

SupersessionRecorded(s) ==
    line[s].status = "APPROVED" /\ line'[s] # line[s] =>
        /\ line'[s].status = "APPROVED"
        /\ \E d \in audit' \ audit :
             d.kind = "SUPERSEDED" /\ d.sku = s /\ d.product = line[s].product

DecisionStands(i) ==
    item[i].status \in {"APPROVED", "REJECTED"} =>
        /\ item'[i].status = item[i].status
        /\ Evidence(item'[i]) = Evidence(item[i])
        /\ item'[i].row = item[i].row

FinalStep == /\ \A s \in Skus : SupersessionRecorded(s)
             /\ \A i \in Items : DecisionStands(i)

LEMMA FinalUntouched ==
    ASSUME UNCHANGED <<line, item>>
    PROVE  FinalStep
  BY DEF FinalStep, SupersessionRecorded, DecisionStands

\* Of the items a step changes one that is not decided.
LEMMA FinalItems ==
    ASSUME Sound, NEW i \in Items, item' = [item EXCEPT ![i] = item'[i]],
           item[i].status \notin {"APPROVED", "REJECTED"}
    PROVE  \A k \in Items : DecisionStands(k)
  <1>1. item \in [Items -> QueueItems]
    BY DEF Sound, TypeOK
  <1>2. \A k \in Items : k # i => item'[k] = item[k]
    BY <1>1
  <1> QED
    BY <1>2 DEF DecisionStands

LEMMA FinalChunk ==
    ASSUME Sound, CopiesAreCurrent, NEW m \in Matchers, Writing(m), ChunkWritten(m)
    PROVE  FinalStep
  <1>1. ChunkIsCurrent(m)
    BY DEF CopiesAreCurrent
  <1>2. \A s \in Skus : SupersessionRecorded(s)
    BY <1>1, ChunkLineNow DEF SupersessionRecorded
  <1>3. \A i \in Items : DecisionStands(i)
    <2>1. QueueAsFound(m)
      BY <1>1, ChunkItemNow
    <2>2. CASE QueueKept(m)
      BY <2>2 DEF QueueKept, DecisionStands
    <2>3. ASSUME NEW i \in Items, item' = [item EXCEPT ![i] = item'[i]],
                 item[i].status \in {"ABSENT", "PENDING"}
          PROVE  \A k \in Items : DecisionStands(k)
      BY <2>3, FinalItems
    <2> QED
      BY <2>1, <2>2, <2>3 DEF QueueAsFound
  <1> QED
    BY <1>2, <1>3 DEF FinalStep

LEMMA FinalApproval ==
    ASSUME Sound, CopiesAreCurrent, OnRecord, NEW r \in Reviewers, Deciding(r),
           NEW p \in Products, ApprovalWritten(r, p)
    PROVE  FinalStep
  <1> DEFINE s == Seen(r).sku
             i == reviewer[r].item
             gone == [kind |-> "SUPERSEDED", sku |-> s,
                      product |-> reviewer[r].line.product, item |-> i]
  <1>1. /\ DecisionIsCurrent(r) /\ i \in Items /\ item \in [Items -> QueueItems]
    BY DecisionContext DEF Sound, TypeOK, CopiesAreCurrent
  <1>2. /\ s # None => line'[s] = [status |-> "APPROVED", product |-> p]
        /\ item' = [item EXCEPT ![i] = ApprovedCopy(r)]
        /\ item[i].status = "PENDING"
    BY <1>1, ApprovalNow
  <1>3. \A k \in Items : DecisionStands(k)
    <2>1. item' = [item EXCEPT ![i] = item'[i]]
      BY <1>1, <1>2
    <2> QED
      BY <1>1, <1>2, <2>1, FinalItems
  <1>4. ASSUME NEW t \in Skus, line[t].status = "APPROVED", line'[t] # line[t]
        PROVE  SupersessionRecorded(t)
    <2>1. t = s /\ s # None
      BY <1>4, NoneAssumption, ApprovedTyped DEF ApprovalWritten
    <2>2. reviewer[r].line = line[s] /\ line[s] \in Lines
      BY <1>1, <1>4, <2>1 DEF DecisionIsCurrent, Sound, TypeOK
    <2>3. line[s].product # p
      BY <1>2, <1>4, <2>1, <2>2 DEF Lines
    <2>4. Superseding(r, p)
      BY <1>4, <2>1, <2>2, <2>3 DEF Superseding
    <2>5. gone \in audit'
      BY <2>1, <2>4, ApprovedTyped DEF ApprovalWritten
    <2>6. gone.item = i /\ gone.kind = "SUPERSEDED" /\ gone.sku = s
          /\ gone.product = line[s].product
      BY <2>2
    <2> HIDE DEF gone, i
    <2>7. gone \notin audit
      BY <1>2, <2>6 DEF OnRecord
    <2> QED
      BY <1>2, <2>1, <2>5, <2>6, <2>7 DEF SupersessionRecorded
  <1>5. \A t \in Skus : SupersessionRecorded(t)
    BY <1>4 DEF SupersessionRecorded
  <1> QED
    BY <1>3, <1>5 DEF FinalStep

LEMMA FinalOther ==
    ASSUME Sound, CopiesAreCurrent, NEW r \in Reviewers, Reject(r) \/ Defer(r)
    PROVE  FinalStep
  <1>1. Deciding(r)
    BY DEF Reject, Defer, Deciding
  <1>2. DecisionIsCurrent(r) /\ Seen(r) \in QueueItems /\ item \in [Items -> QueueItems]
        /\ (reviewer[r].line.status # "ABSENT" => Seen(r).sku \in Skus)
    BY <1>1, DecisionContext DEF CopiesAreCurrent, Sound, TypeOK
  <1>3. PICK new \in QueueItems : WriteItem(r, new)
    BY <1>2, DecidedCopies DEF Reject, Defer, RejectedCopy, DeferredCopy
  <1>4. /\ item' = [item EXCEPT ![reviewer[r].item] = new]
        /\ item[reviewer[r].item].status = "PENDING" /\ reviewer[r].item \in Items
    BY <1>1, <1>2, <1>3, ItemNow
  <1>5. \A k \in Items : DecisionStands(k)
    <2>1. item' = [item EXCEPT ![reviewer[r].item] = item'[reviewer[r].item]]
      BY <1>2, <1>4
    <2> QED
      BY <1>4, <2>1, FinalItems
  <1>6. \A s \in Skus : SupersessionRecorded(s)
    <2>1. CASE Defer(r)
      BY <2>1 DEF Defer, SupersessionRecorded
    <2>2. CASE Reject(r)
      <3>1. SUFFICES ASSUME NEW s \in Skus, line'[s] # line[s]
                     PROVE  line[s].status # "APPROVED"
        BY DEF SupersessionRecorded
      <3>2. s = Seen(r).sku /\ reviewer[r].line.status = "PENDING"
        BY <2>2, <3>1, RejectTyped
      <3>3. reviewer[r].line = line[s]
        BY <1>2, <3>2, NoneAssumption DEF DecisionIsCurrent
      <3> QED
        BY <3>2, <3>3
    <2> QED
      BY <2>1, <2>2
  <1> QED
    BY <1>5, <1>6 DEF FinalStep

LEMMA FinalNext ==
    ASSUME OrderlyInv, Orderly, Next
    PROVE  FinalStep
  <1> USE DEF OrderlyInv
  <1>1. ASSUME NEW j \in Jobs, NEW f \in Files, Import(j, f) PROVE FinalStep
    BY <1>1, FinalUntouched DEF Import
  <1>2. ASSUME NEW m \in Matchers, MatcherStep(m) PROVE FinalStep
    <2>1. CASE WriteChunk(m)
      BY <2>1, ChunkCases, FinalChunk, FinalUntouched
    <2>2. CASE ~WriteChunk(m)
      <3>1. UNCHANGED <<line, item>>
        BY <1>2, <2>2 DEF MatcherStep, StartMatching, ReadChunk, FinishMatching, dbVars
      <3> QED
        BY <3>1, FinalUntouched
    <2> QED
      BY <2>1, <2>2
  <1>3. ASSUME NEW r \in Reviewers, ReviewerStep(r) PROVE FinalStep
    <2>1. ASSUME NEW i \in Items, Open(r, i) PROVE FinalStep
      BY <2>1, FinalUntouched DEF Open, dbVars
    <2>2. ASSUME NEW p \in Products, NEW b \in BOOLEAN, Approve(r, p, b) PROVE FinalStep
      BY <2>2, ApproveCases, FinalApproval, FinalUntouched
    <2>3. CASE Reject(r) \/ Defer(r)
      BY <2>3, FinalOther
    <2> QED
      BY <1>3, <2>1, <2>2, <2>3 DEF ReviewerStep
  <1>4. ASSUME NEW m \in Matchers, Crash(m) PROVE FinalStep
    BY <1>4, FinalUntouched DEF Crash, dbVars
  <1> QED
    BY <1>1, <1>2, <1>3, <1>4 DEF Next

\* AC-8.6, of chunks and decisions that do not overlap: an approved mapping is
\* only superseded, on record, and a decision stands with what it was taken on.
THEOREM DecisionsStand == Spec => DecisionsAreFinal
  <1> DEFINE Final == Orderly =>
         /\ \A s \in Skus : line[s].status = "APPROVED" /\ line'[s] # line[s] =>
              /\ line'[s].status = "APPROVED"
              /\ \E d \in audit' \ audit :
                   d.kind = "SUPERSEDED" /\ d.sku = s /\ d.product = line[s].product
         /\ \A i \in Items : item[i].status \in {"APPROVED", "REJECTED"} =>
              /\ item'[i].status = item[i].status
              /\ Evidence(item'[i]) = Evidence(item[i])
              /\ item'[i].row = item[i].row
  <1>1. OrderlyInv /\ [Next]_vars => [Final]_vars
    <2>1. ASSUME OrderlyInv, Orderly, Next PROVE Final
      BY <2>1, FinalNext DEF FinalStep, SupersessionRecorded, DecisionStands
    <2> QED
      BY <2>1
  <1>2. Spec => [][Final]_vars
    BY <1>1, OrderlyHolds, PTL DEF Spec
  <1> QED
    BY <1>2 DEF DecisionsAreFinal

----------------------------------------------------------------------------
(* Orderly behaviours: every exception is queued *)

\* The item that shows the verdict a chunk gives its row.
Queued(row, result, it) ==
    \E i \in Items :
        /\ it[i].status \in {"PENDING", "REJECTED"}
        /\ it[i].sku = row.sku
        /\ it[i].reason = result
        /\ it[i].candidates = Outcome(row, NoIndex).candidates

LEMMA ChunkQueued ==
    ASSUME Sound, CopiesAreCurrent, NEW m \in Matchers, Writing(m), ChunkWritten(m),
           OutcomeOf(m).result \in Exceptional
    PROVE  Queued(Row(m), OutcomeOf(m).result, item')
  <1>1. Working(m) /\ RowsLeft(m) /\ ChunkIsCurrent(m)
    BY DEF Sound, References, MatcherFits, Writing, Working, CopiesAreCurrent
  <1>2. /\ Row(m) \in FileRows /\ matcher[m].index \in Indexes /\ matcher[m].line \in Lines
        /\ matcher[m].open \in Items \union {0} /\ Row(m).sku \in Skus \union {None}
    BY <1>1, ChunkContext DEF MatcherStates
  <1>3. OutcomeOf(m).candidates = Outcome(Row(m), NoIndex).candidates
    BY <1>2, OutcomeFacts DEF OutcomeOf
  <1>4. ReasonOf(m) = OutcomeOf(m).result /\ ReasonOf(m) # "NONE"
    BY <1>1, <1>2, OutcomeContext, ReasonFacts DEF ReasonOf, Exceptional
  <1>5. CASE QueueKept(m)
    <2>1. CASE matcher[m].open = 0 /\ matcher[m].declined = EvidenceOf(m)
      <3>1. matcher[m].declined # NoEvidence
        BY <1>4, <2>1 DEF EvidenceOf, NoEvidence
      <3>2. Row(m).sku # None
        BY <3>1 DEF Sound, References, MatcherFits
      <3>3. PICK i \in Rejected(Row(m).sku) : Evidence(item[i]) = EvidenceOf(m)
        BY <1>1, <2>1, <3>1, <3>2 DEF ChunkIsCurrent
      <3>4. i \in Items /\ item[i].status = "REJECTED" /\ item[i].sku = Row(m).sku
            /\ item[i].reason = ReasonOf(m)
            /\ item[i].candidates = OutcomeOf(m).candidates
        BY <3>3 DEF Rejected, Evidence, EvidenceOf
      <3> QED
        BY <1>3, <1>4, <1>5, <3>4 DEF Queued, QueueKept
    <2>2. CASE matcher[m].open # 0 /\ Evidence(matcher[m].item) = EvidenceOf(m)
      <3>1. /\ matcher[m].item.status = "PENDING" /\ matcher[m].item.sku = Row(m).sku
            /\ Row(m).sku # None /\ matcher[m].open \in Items
        BY <1>2, <2>2 DEF Sound, References, MatcherFits
      <3>2. item[matcher[m].open] = matcher[m].item
        BY <1>1, <2>2, <3>1 DEF ChunkIsCurrent
      <3>3. matcher[m].item.reason = ReasonOf(m)
            /\ matcher[m].item.candidates = OutcomeOf(m).candidates
        BY <2>2 DEF Evidence, EvidenceOf
      <3> QED
        BY <1>3, <1>4, <1>5, <3>1, <3>2, <3>3 DEF Queued, QueueKept
    <2> QED
      BY <1>4, <1>5, <2>1, <2>2 DEF QueueKept
  <1>6. CASE ~QueueKept(m)
    BY <1>1, <1>3, <1>4, <1>6, ChunkItemNow DEF QueueAsFound, Queued
  <1> QED
    BY <1>5, <1>6

QueuedStep ==
    \A j \in Jobs : \A k \in DOMAIN verdict'[j] :
        /\ k \in DOMAIN verdict[j]
        /\ verdict'[j][k] # verdict[j][k]
        /\ verdict'[j][k].result \in Exceptional
        => Queued(file[j][k], verdict'[j][k].result, item')

LEMMA QueuedNext ==
    ASSUME OrderlyInv, Orderly, Next
    PROVE  QueuedStep
  <1> USE DEF OrderlyInv
  <1>0. verdict \in [Jobs -> Seq(Verdicts)]
    BY DEF Sound, TypeOK
  <1>1. ASSUME verdict' = verdict PROVE QueuedStep
    BY <1>1 DEF QueuedStep
  <1>2. ASSUME NEW j \in Jobs, NEW f \in Files, Import(j, f) PROVE QueuedStep
    <2>1. job[j].stage = "ABSENT" /\ verdict' = [verdict EXCEPT ![j] = [k \in 1 .. Len(f) |-> NoVerdict]]
      BY <1>2 DEF Import
    <2>2. NoVerdict.result \notin Exceptional
      BY DEF NoVerdict, Exceptional
    <2>3. \A x \in Jobs : x # j => verdict'[x] = verdict[x]
      BY <1>0, <2>1
    <2>4. \A k \in DOMAIN verdict'[j] : verdict'[j][k] = NoVerdict
      BY <1>0, <2>1
    <2> QED
      BY <2>2, <2>3, <2>4 DEF QueuedStep
  <1>3. ASSUME NEW m \in Matchers, MatcherStep(m) PROVE QueuedStep
    <2>1. CASE ~WriteChunk(m)
      <3>1. verdict' = verdict
        BY <1>3, <2>1 DEF MatcherStep, StartMatching, ReadChunk, FinishMatching, dbVars
      <3> QED
        BY <1>1, <3>1
    <2>2. CASE WriteChunk(m) /\ ChunkWritten(m)
      <3> DEFINE j == MyJob(m)
                 n == matcher[m].next
      <3>1. Writing(m) /\ Working(m) /\ RowsLeft(m)
        BY <2>2, ChunkCases DEF Sound, References, MatcherFits
      <3>2. verdict' = [verdict EXCEPT ![j] = [verdict[j] EXCEPT ![n] = VerdictOf(m)]]
        BY <2>2 DEF ChunkWritten
      <3>3. j \in Jobs /\ Row(m) = file[j][n]
        BY <3>1, ChunkContext DEF Row
      <3>4. VerdictOf(m).result \in Exceptional =>
               Queued(file[j][n], VerdictOf(m).result, item')
        BY <2>2, <3>1, <3>3, ChunkQueued DEF VerdictOf
      <3> HIDE DEF j, n
      <3> SUFFICES ASSUME NEW x \in Jobs, NEW y \in DOMAIN verdict'[x],
                          y \in DOMAIN verdict[x], verdict'[x][y] # verdict[x][y],
                          verdict'[x][y].result \in Exceptional
                   PROVE  Queued(file[x][y], verdict'[x][y].result, item')
        BY DEF QueuedStep
      <3>5. x = j
        BY <1>0, <3>2
      <3>6. verdict'[x] = [verdict[j] EXCEPT ![n] = VerdictOf(m)]
        BY <1>0, <3>2, <3>3, <3>5
      <3>7. y = n
        BY <3>5, <3>6
      <3>8. verdict'[x][y] = VerdictOf(m)
        BY <3>5, <3>6, <3>7
      <3> QED
        BY <3>4, <3>5, <3>7, <3>8
    <2> QED
      BY <1>1, <1>3, <2>1, <2>2, ChunkCases
  <1>4. ASSUME NEW r \in Reviewers, ReviewerStep(r) PROVE QueuedStep
    <2>1. CASE verdict' = verdict
      BY <1>1, <2>1
    <2>2. ASSUME NEW p \in Products, ApprovalWritten(r, p), Deciding(r) PROVE QueuedStep
      <3> DEFINE j == Seen(r).row.job
                 n == Seen(r).row.n
                 resolved == [result |-> "MATCHED", by |-> "MANUAL_APPROVAL", product |-> p]
      <3>1. DecisionIsCurrent(r) /\ j \in Jobs
        BY <2>2, DecisionContext DEF CopiesAreCurrent
      <3>2. verdict' = [verdict EXCEPT ![j] = [verdict[j] EXCEPT ![n] = resolved]]
        BY <2>2, <3>1, ApprovalNow
      <3>3. resolved.result \notin Exceptional
        BY DEF Exceptional
      <3> HIDE DEF j, n, resolved
      <3> SUFFICES ASSUME NEW x \in Jobs, NEW y \in DOMAIN verdict'[x],
                          y \in DOMAIN verdict[x], verdict'[x][y] # verdict[x][y]
                   PROVE  verdict'[x][y].result \notin Exceptional
        BY DEF QueuedStep
      <3>5. x = j
        BY <1>0, <3>2
      <3>6. verdict'[x] = [verdict[j] EXCEPT ![n] = resolved]
        BY <1>0, <3>1, <3>2, <3>5
      <3>7. y = n
        BY <3>5, <3>6
      <3>8. verdict'[x][y] = resolved
        BY <3>5, <3>6, <3>7
      <3> QED
        BY <3>3, <3>8
    <2>3. ASSUME NEW p \in Products, NEW b \in BOOLEAN, Approve(r, p, b) PROVE QueuedStep
      BY <1>1, <2>2, <2>3, ApproveCases
    <2>4. ASSUME NEW i \in Items, Open(r, i) PROVE QueuedStep
      BY <1>1, <2>4 DEF Open, dbVars
    <2>5. CASE Reject(r) \/ Defer(r)
      BY <1>1, <2>5 DEF Reject, Defer
    <2> QED
      BY <1>4, <2>3, <2>4, <2>5 DEF ReviewerStep
  <1>5. ASSUME NEW m \in Matchers, Crash(m) PROVE QueuedStep
    BY <1>1, <1>5 DEF Crash, dbVars
  <1> QED
    BY <1>2, <1>3, <1>4, <1>5 DEF Next

\* AC-7.7, AC-8.1, of chunks and decisions that do not overlap: a row that ends
\* as an exception has an item showing its evidence, open or declined.
THEOREM ExceptionsAreQueued == Spec => EveryVerdictIsQueued
  <1> DEFINE Asks == Orderly => \A j \in Jobs : \A k \in DOMAIN verdict'[j] :
         LET v == verdict'[j][k]
         IN /\ k \in DOMAIN verdict[j]
            /\ v # verdict[j][k]
            /\ v.result \in Exceptional
            => \E i \in Items :
                  /\ item'[i].status \in {"PENDING", "REJECTED"}
                  /\ item'[i].sku = file[j][k].sku
                  /\ item'[i].reason = v.result
                  /\ item'[i].candidates = Outcome(file[j][k], NoIndex).candidates
  <1>1. OrderlyInv /\ [Next]_vars => [Asks]_vars
    <2>1. ASSUME OrderlyInv, Orderly, Next PROVE Asks
      <3>1. QueuedStep
        BY <2>1, QueuedNext
      <3> QED
        BY <3>1 DEF QueuedStep, Queued
    <2> QED
      BY <2>1
  <1>2. Spec => [][Asks]_vars
    BY <1>1, OrderlyHolds, PTL DEF Spec
  <1> QED
    BY <1>2 DEF EveryVerdictIsQueued

----------------------------------------------------------------------------
(* Serial behaviours: approved lines stay quiet *)

OnePending(it) ==
    \A i, k \in Items :
        it[i].status = "PENDING" /\ it[k].status = "PENDING"
           /\ it[i].sku # None /\ it[i].sku = it[k].sku => i = k

QuietItem(it, l) ==
    /\ it.status = "PENDING"
    /\ it.sku # None
    /\ l[it.sku].status = "APPROVED"
    => it.reason \in {"CONFLICTING_IDENTIFIER", "AMBIGUOUS"}

MappedTo(l) == IF l.status = "APPROVED" THEN l.product ELSE None
IndexIsCurrent(index, l) == \A s \in Skus : index[s] = MappedTo(l[s])

LEMMA QuietUnfolded ==
    /\ Quiet <=> /\ OnePending(item) /\ \A i \in Items : QuietItem(item[i], line)
                 /\ \A m \in Matchers : Working(m) => IndexIsCurrent(matcher[m].index, line)
    /\ Quiet' <=> /\ OnePending(item') /\ \A i \in Items : QuietItem(item'[i], line')
                  /\ \A m \in Matchers : Working(m)' => IndexIsCurrent(matcher'[m].index, line')
  BY DEF Quiet, OnePending, QuietItem, IndexIsCurrent, MappedTo, Approved

\* A step that writes neither lines nor items.
LEMMA QuietKept ==
    ASSUME Quiet, UNCHANGED <<line, item>>,
           \A m \in Matchers : Working(m)' =>
               \/ Working(m) /\ matcher'[m].index = matcher[m].index
               \/ matcher'[m].index = [s \in Skus |-> Approved(s)]
    PROVE  Quiet'
  <1>1. ASSUME NEW m \in Matchers, Working(m)'
        PROVE  IndexIsCurrent(matcher'[m].index, line')
    <2>1. CASE Working(m) /\ matcher'[m].index = matcher[m].index
      BY <2>1, QuietUnfolded
    <2>2. CASE matcher'[m].index = [s \in Skus |-> Approved(s)]
      BY <2>2 DEF IndexIsCurrent, MappedTo, Approved
    <2> QED
      BY <1>1, <2>1, <2>2
  <1> QED
    BY <1>1, QuietUnfolded

\* What a chunk asks of an approved line: its identifiers disagree with the
\* mapping or with each other, for the index would have answered otherwise.
LEMMA AskedOfApproved ==
    ASSUME Sound, Quiet, NEW m \in Matchers, Writing(m), ChunkIsCurrent(m),
           Row(m).sku # None, line[Row(m).sku].status = "APPROVED", ReasonOf(m) # "NONE"
    PROVE  ReasonOf(m) \in {"CONFLICTING_IDENTIFIER", "AMBIGUOUS"}
  <1> DEFINE s == Row(m).sku
             o == OutcomeOf(m)
  <1>1. Working(m) /\ RowsLeft(m)
    BY DEF Sound, References, MatcherFits, Writing, Working
  <1>2. /\ Row(m) \in FileRows /\ matcher[m].index \in Indexes /\ matcher[m].line \in Lines
        /\ s \in Skus
    BY <1>1, ChunkContext
  <1>3. matcher[m].line = line[s]
    BY DEF ChunkIsCurrent
  <1>4. matcher[m].index[s] # None
    <2>1. IndexIsCurrent(matcher[m].index, line) /\ LineFits(line[s])
      BY <1>1, <1>2, QuietUnfolded DEF Sound, References, LinesFit
    <2> QED
      BY <1>2, <2>1 DEF IndexIsCurrent, MappedTo, LineFits
  <1>5. /\ o.result \in Results \ {"NONE"}
        /\ o.result \in Exceptional /\ o.result # "AMBIGUOUS" =>
              s = None \/ matcher[m].index[s] = None
    BY <1>2, OutcomeFacts DEF OutcomeOf
  <1>6. CASE o.result = "MATCHED"
    <2>1. ReasonOf(m) = IF line[s].product # o.product THEN "CONFLICTING_IDENTIFIER" ELSE "NONE"
      BY <1>2, <1>3, <1>5, <1>6, ReasonFacts DEF ReasonOf
    <2> QED
      BY <2>1
  <1>7. CASE o.result # "MATCHED"
    <2>1. ReasonOf(m) = o.result
      BY <1>2, <1>5, <1>7, ReasonFacts DEF ReasonOf
    <2> QED
      BY <1>4, <1>5, <1>7, <2>1 DEF Results, Exceptional
  <1> QED
    BY <1>6, <1>7

LEMMA QuietChunk ==
    ASSUME Sound, CopiesAreCurrent, Quiet, NEW m \in Matchers, Writing(m), ChunkWritten(m)
    PROVE  Quiet'
  <1>1. Working(m) /\ RowsLeft(m) /\ ChunkIsCurrent(m)
    BY DEF Sound, References, MatcherFits, Writing, Working, CopiesAreCurrent
  <1>2. item \in [Items -> QueueItems] /\ Row(m).sku \in Skus \union {None}
    BY <1>1, ChunkContext DEF Sound, TypeOK
  <1>3. \A s \in Skus : MappedTo(line'[s]) = MappedTo(line[s])
                        /\ (line'[s].status = "APPROVED" => line[s].status = "APPROVED")
    BY <1>1, ChunkLineNow DEF MappedTo
  <1>4. \A i \in Items : item[i].sku \in Skus \union {None}
    BY <1>2 DEF QueueItems
  <1>5. \A i \in Items : QuietItem(item[i], line')
    BY <1>3, <1>4, QuietUnfolded DEF QuietItem
  <1>6. OnePending(item') /\ \A i \in Items : QuietItem(item'[i], line')
    <2>1. CASE QueueKept(m)
      BY <1>5, <2>1, QuietUnfolded DEF QueueKept
    <2>2. ASSUME NEW i \in Items, ReasonOf(m) # "NONE",
                 item' = [item EXCEPT ![i] = item'[i]],
                 \/ item[i].status = "ABSENT" /\ matcher[m].open = 0
                 \/ item[i].status = "PENDING" /\ item[i].sku = Row(m).sku,
                 item'[i].status = "PENDING", item'[i].sku = Row(m).sku,
                 item'[i].reason = ReasonOf(m)
          PROVE  OnePending(item') /\ \A k \in Items : QuietItem(item'[k], line')
      <3>1. \A k \in Items : k # i => item'[k] = item[k]
        BY <1>2, <2>2
      <3>2. QuietItem(item'[i], line')
        <4>1. SUFFICES ASSUME Row(m).sku # None, line'[Row(m).sku].status = "APPROVED"
                       PROVE  ReasonOf(m) \in {"CONFLICTING_IDENTIFIER", "AMBIGUOUS"}
          BY <2>2 DEF QuietItem
        <4>2. line[Row(m).sku].status = "APPROVED"
          BY <1>2, <1>3, <4>1
        <4> QED
          BY <1>1, <2>2, <4>1, <4>2, AskedOfApproved
      <3>3. OnePending(item')
        <4>1. SUFFICES ASSUME NEW k \in Items, k # i, item[k].status = "PENDING",
                              item[k].sku # None
                       PROVE  item[k].sku # Row(m).sku
          BY <2>2, <3>1, QuietUnfolded DEF OnePending
        <4>2. CASE item[i].status = "ABSENT" /\ matcher[m].open = 0
          BY <1>1, <4>1, <4>2 DEF ChunkIsCurrent, OpenItems
        <4>3. CASE item[i].status = "PENDING" /\ item[i].sku = Row(m).sku
          BY <4>1, <4>3, QuietUnfolded DEF OnePending
        <4> QED
          BY <2>2, <4>2, <4>3
      <3> QED
        BY <1>5, <3>1, <3>2, <3>3
    <2> QED
      BY <1>1, <2>1, <2>2, ChunkItemNow DEF QueueAsFound
  <1>7. \A n \in Matchers : Working(n)' => IndexIsCurrent(matcher'[n].index, line')
    <2>1. matcher \in [Matchers -> MatcherStates]
      BY DEF Sound, TypeOK
    <2>2. Counted(m, OutcomeOf(m)) \in JobRows
      BY <2>1, CountedTyped
    <2>3. /\ \A n \in Matchers : n # m => matcher'[n] = matcher[n]
          /\ matcher'[m].index = matcher[m].index
      BY <2>1, <2>2, DoneFacts DEF ChunkWritten
    <2>4. \A n \in Matchers : Working(n)' => Working(n) /\ matcher'[n].index = matcher[n].index
      BY <1>1, <2>3 DEF Working
    <2> QED
      BY <1>3, <2>4, QuietUnfolded DEF IndexIsCurrent
  <1> QED
    BY <1>6, <1>7, QuietUnfolded

\* A decision while no stage runs: an item is closed, or only put off, and the
\* line is approved only with the one item that asked.
LEMMA QuietDecision ==
    ASSUME Sound, CopiesAreCurrent, OneActive, Quiet, NEW r \in Reviewers, Deciding(r),
           UNCHANGED matcher, NEW new \in QueueItems, WriteItem(r, new),
           new.sku = Seen(r).sku, new.reason = Seen(r).reason,
           new.status = "PENDING" => line' = line,
           \A s \in Skus : line'[s] = line[s] \/ s = Seen(r).sku
    PROVE  Quiet'
  <1>1. /\ DecisionIsCurrent(r) /\ item \in [Items -> QueueItems]
    BY DEF CopiesAreCurrent, Sound, TypeOK
  <1>2. /\ item' = [item EXCEPT ![reviewer[r].item] = new]
        /\ item[reviewer[r].item] = Seen(r) /\ item[reviewer[r].item].status = "PENDING"
        /\ reviewer[r].item \in Items
    BY <1>1, ItemNow
  <1> DEFINE i == reviewer[r].item
  <1> HIDE DEF i
  <1>3. /\ \A k \in Items : k # i => item'[k] = item[k]
        /\ item'[i] = new /\ item[i] = Seen(r) /\ i \in Items
    BY <1>1, <1>2 DEF i
  <1>4. OnePending(item')
    BY <1>2, <1>3, QuietUnfolded DEF OnePending, i
  <1>5. \A k \in Items : QuietItem(item'[k], line')
    <2>1. ASSUME NEW k \in Items, k # i PROVE QuietItem(item'[k], line')
      <3>1. item'[k] = item[k] /\ item[k].sku \in Skus \union {None}
        BY <1>1, <1>3, <2>1 DEF QueueItems
      <3>2. SUFFICES ASSUME item[k].status = "PENDING", item[k].sku # None
                     PROVE  line'[item[k].sku] = line[item[k].sku]
        BY <3>1, QuietUnfolded DEF QuietItem
      <3>3. item[k].sku # Seen(r).sku
        BY <1>2, <1>3, <2>1, <3>2, QuietUnfolded DEF OnePending, i
      <3> QED
        BY <3>1, <3>2, <3>3
    <2>2. QuietItem(item'[i], line')
      <3>1. SUFFICES ASSUME new.status = "PENDING" PROVE QuietItem(new, line)
        BY <1>3 DEF QuietItem
      <3>2. QuietItem(Seen(r), line) /\ Seen(r).status = "PENDING"
        BY <1>2, <1>3, QuietUnfolded DEF i
      <3> QED
        BY <3>1, <3>2 DEF QuietItem
    <2> QED
      BY <2>1, <2>2
  <1>6. \A m \in Matchers : ~Working(m)'
    BY DEF OneActive, Working
  <1> QED
    BY <1>4, <1>5, <1>6, QuietUnfolded

LEMMA QuietMatching ==
    ASSUME Sound, CopiesAreCurrent, Quiet, NEW m \in Matchers, MatcherStep(m) \/ Crash(m)
    PROVE  Quiet'
  <1>1. matcher \in [Matchers -> MatcherStates]
    BY DEF Sound, TypeOK
  <1>2. ASSUME Forget(m), UNCHANGED <<line, item>> PROVE Quiet'
    <2>1. \A n \in Matchers : Working(n)' => Working(n) /\ matcher'[n] = matcher[n]
      BY <1>1, <1>2, ForgetFacts DEF Working
    <2> QED
      BY <1>2, <2>1, QuietKept
  <1>3. ASSUME NEW j \in Jobs, StartMatching(m, j) PROVE Quiet'
    <2>1. UNCHANGED <<line, item>>
      BY <1>3 DEF StartMatching, dbVars
    <2>2. \A n \in Matchers : Working(n)' =>
               \/ Working(n) /\ matcher'[n].index = matcher[n].index
               \/ matcher'[n].index = [s \in Skus |-> Approved(s)]
      BY <1>3, StartTyped DEF Working
    <2> QED
      BY <2>1, <2>2, QuietKept
  <1>4. ASSUME ReadChunk(m) PROVE Quiet'
    <2>1. UNCHANGED <<line, item>>
      BY <1>4, ReadFacts DEF dbVars
    <2>2. \A n \in Matchers : Working(n)' => Working(n) /\ matcher'[n].index = matcher[n].index
      BY <1>4, ReadFacts DEF Working, ReadChunk
    <2> QED
      BY <2>1, <2>2, QuietKept
  <1>5. ASSUME WriteChunk(m) PROVE Quiet'
    BY <1>2, <1>5, ChunkCases, QuietChunk
  <1>6. CASE FinishMatching(m)
    BY <1>2, <1>6 DEF FinishMatching
  <1>7. CASE Crash(m)
    BY <1>2, <1>7 DEF Crash, dbVars
  <1> QED
    BY <1>3, <1>4, <1>5, <1>6, <1>7 DEF MatcherStep

LEMMA QuietDeciding ==
    ASSUME Sound, CopiesAreCurrent, OneActive, Quiet, NEW r \in Reviewers, ReviewerStep(r)
    PROVE  Quiet'
  <1>1. ASSUME UNCHANGED <<line, item, matcher>> PROVE Quiet'
    BY <1>1, QuietKept DEF Working
  <1>2. ASSUME NEW i \in Items, Open(r, i) PROVE Quiet'
    BY <1>1, <1>2 DEF Open, dbVars
  <1>3. ASSUME NEW p \in Products, NEW b \in BOOLEAN, Approve(r, p, b) PROVE Quiet'
    <2>1. Deciding(r) /\ UNCHANGED matcher /\ Seen(r) \in QueueItems
      BY <1>3, ApproveCases, DecisionContext
    <2>2. CASE ApprovalWritten(r, p)
      <3>1. WriteItem(r, ApprovedCopy(r)) /\ \A s \in Skus : line'[s] = line[s] \/ s = Seen(r).sku
        BY <2>1, <2>2, ApprovedTyped DEF ApprovalWritten
      <3>2. /\ ApprovedCopy(r) \in QueueItems /\ ApprovedCopy(r).sku = Seen(r).sku
            /\ ApprovedCopy(r).status = "APPROVED"
        BY <2>1, DecidedCopies
      <3>3. ApprovedCopy(r).reason = Seen(r).reason
        BY <2>1 DEF QueueItems, ApprovedCopy
      <3> QED
        BY <2>1, <3>1, <3>2, <3>3, QuietDecision
    <2>3. CASE UNCHANGED <<job, verdict, line, item, audit>>
      BY <1>1, <2>1, <2>3
    <2> QED
      BY <1>3, <2>2, <2>3, ApproveCases
  <1>4. ASSUME Reject(r) PROVE Quiet'
    <2>1. Deciding(r) /\ UNCHANGED matcher /\ WriteItem(r, RejectedCopy(r))
      BY <1>4 DEF Reject, Deciding, RejectedCopy
    <2>2. /\ RejectedCopy(r) \in QueueItems /\ RejectedCopy(r).sku = Seen(r).sku
          /\ RejectedCopy(r).status = "REJECTED" /\ RejectedCopy(r).reason = Seen(r).reason
      BY <2>1, DecisionContext, DecidedCopies
    <2>3. \A s \in Skus : line'[s] = line[s] \/ s = Seen(r).sku
      BY <1>4, RejectTyped
    <2> QED
      BY <2>1, <2>2, <2>3, QuietDecision
  <1>5. ASSUME Defer(r) PROVE Quiet'
    <2>1. Deciding(r) /\ UNCHANGED <<line, matcher>> /\ WriteItem(r, DeferredCopy(r))
      BY <1>5 DEF Defer, Deciding, DeferredCopy
    <2>2. /\ DeferredCopy(r) \in QueueItems /\ DeferredCopy(r).sku = Seen(r).sku
          /\ DeferredCopy(r).reason = Seen(r).reason
      BY <2>1, DecisionContext, DecidedCopies
    <2> QED
      BY <2>1, <2>2, QuietDecision
  <1> QED
    BY <1>2, <1>3, <1>4, <1>5 DEF ReviewerStep

LEMMA QuietStep ==
    ASSUME Sound, CopiesAreCurrent, discipline = "SERIAL", Quiet, [Next]_vars
    PROVE  Quiet'
  <1>1. OneActive
    BY DEF CopiesAreCurrent
  <1>2. CASE UNCHANGED vars
    BY <1>2, QuietKept DEF vars, Working
  <1>3. ASSUME NEW j \in Jobs, NEW f \in Files, Import(j, f) PROVE Quiet'
    BY <1>3, QuietKept DEF Import, Working
  <1> QED
    BY <1>1, <1>2, <1>3, QuietMatching, QuietDeciding DEF Next

----------------------------------------------------------------------------
(* Serial behaviours: the counters reconcile *)

\* The rows among the first n whose verdict is one of S, and all but row k.
RowsIn(v, S, n) == {i \in 1 .. n : v[i].result \in S}
RowsBut(v, S, n, k) == {i \in 1 .. n : i # k /\ v[i].result \in S}
In(v, k, S) == IF v[k].result \in S THEN 1 ELSE 0

LEMMA RowsFinite ==
    ASSUME NEW v, NEW S, NEW n \in Nat, NEW k
    PROVE  /\ IsFiniteSet(RowsIn(v, S, n)) /\ Cardinality(RowsIn(v, S, n)) \in Nat
           /\ IsFiniteSet(RowsBut(v, S, n, k)) /\ Cardinality(RowsBut(v, S, n, k)) \in Nat
  <1>1. IsFiniteSet(1 .. n)
    BY FS_Interval
  <1>2. RowsIn(v, S, n) \in SUBSET (1 .. n) /\ RowsBut(v, S, n, k) \in SUBSET (1 .. n)
    BY DEF RowsIn, RowsBut
  <1>3. IsFiniteSet(RowsIn(v, S, n)) /\ IsFiniteSet(RowsBut(v, S, n, k))
    BY <1>1, <1>2, FS_Subset
  <1> QED
    BY <1>3, FS_CardinalityType

LEMMA RowsSplit ==
    ASSUME NEW v, NEW S, NEW n \in Nat, NEW k \in 1 .. n
    PROVE  Cardinality(RowsIn(v, S, n)) = Cardinality(RowsBut(v, S, n, k)) + In(v, k, S)
  <1>1. IsFiniteSet(RowsBut(v, S, n, k)) /\ Cardinality(RowsBut(v, S, n, k)) \in Nat
    BY RowsFinite
  <1>2. k \notin RowsBut(v, S, n, k)
    BY DEF RowsBut
  <1>3. CASE v[k].result \in S
    <2>1. RowsIn(v, S, n) = RowsBut(v, S, n, k) \union {k}
      BY <1>3 DEF RowsIn, RowsBut
    <2>2. Cardinality(RowsBut(v, S, n, k) \union {k}) = Cardinality(RowsBut(v, S, n, k)) + 1
      BY <1>1, <1>2, FS_AddElement
    <2> QED
      BY <1>3, <2>1, <2>2 DEF In
  <1>4. CASE v[k].result \notin S
    <2>1. RowsIn(v, S, n) = RowsBut(v, S, n, k)
      BY <1>4 DEF RowsIn, RowsBut
    <2> QED
      BY <1>1, <1>4, <2>1 DEF In
  <1> QED
    BY <1>3, <1>4

\* One row more, and one row that changes.
LEMMA RowsExtended ==
    ASSUME NEW v, NEW w, NEW S, NEW k \in Nat, k >= 1,
           \A i \in 1 .. k - 1 : w[i] = v[i]
    PROVE  Cardinality(RowsIn(w, S, k)) = Cardinality(RowsIn(v, S, k - 1)) + In(w, k, S)
  <1>1. RowsBut(w, S, k, k) = RowsIn(v, S, k - 1)
    <2>1. \A i \in 1 .. k : i # k <=> i \in 1 .. k - 1
      OBVIOUS
    <2> QED
      BY <2>1 DEF RowsBut, RowsIn
  <1> QED
    BY <1>1, RowsSplit

LEMMA RowsChanged ==
    ASSUME NEW v, NEW w, NEW S, NEW n \in Nat, NEW k \in 1 .. n,
           \A i \in 1 .. n : i # k => w[i] = v[i]
    PROVE  Cardinality(RowsIn(w, S, n)) =
              Cardinality(RowsIn(v, S, n)) - In(v, k, S) + In(w, k, S)
  <1>1. RowsBut(w, S, n, k) = RowsBut(v, S, n, k)
    BY DEF RowsBut
  <1>2. Cardinality(RowsBut(v, S, n, k)) \in Nat
    BY RowsFinite
  <1>3. In(v, k, S) \in Nat /\ In(w, k, S) \in Nat
    BY DEF In
  <1> QED
    BY <1>1, <1>2, <1>3, RowsSplit

LEMMA NoRows ==
    ASSUME NEW v, NEW S
    PROVE  Cardinality(RowsIn(v, S, 0)) = 0
  <1>1. RowsIn(v, S, 0) = {}
    BY DEF RowsIn
  <1> QED
    BY <1>1, FS_EmptySet

CountedIn(v, c, n) == /\ c.matched = Cardinality(RowsIn(v, {"MATCHED"}, n))
                      /\ c.exceptions = Cardinality(RowsIn(v, Exceptional, n))

\* A job, whose file has n rows with the verdicts v, and a working matcher.
JobCounts(jb, v, n) == /\ jb.stage = "MATCHED" => CountedIn(v, jb, n)
                       /\ n = 0 => jb.matched = 0 /\ jb.exceptions = 0
WalkCounts(me, jb, v) == /\ me.copy = jb /\ CountedIn(v, me, me.next - 1)
                         /\ me.next > 1 => /\ me.copy.matched = me.matched
                                           /\ me.copy.exceptions = me.exceptions
ItemJudged(it, v) == it.status # "ABSENT" => v[it.row.job][it.row.n].result # "NONE"

LEMMA CountersUnfolded ==
    /\ Counters <=>
         /\ \A j \in Jobs : JobCounts(job[j], verdict[j], Len(file[j]))
         /\ \A i \in Items : ItemJudged(item[i], verdict)
         /\ \A m \in Matchers : Working(m) =>
               WalkCounts(matcher[m], job[MyJob(m)], verdict[MyJob(m)])
         /\ \A r \in Reviewers : Deciding(r) => reviewer[r].job = job[Seen(r).row.job]
    /\ Counters' <=>
         /\ \A j \in Jobs : JobCounts(job'[j], verdict'[j], Len(file'[j]))
         /\ \A i \in Items : ItemJudged(item'[i], verdict')
         /\ \A m \in Matchers : Working(m)' =>
               WalkCounts(matcher'[m], job'[MyJob(m)'], verdict'[MyJob(m)'])
         /\ \A r \in Reviewers : Deciding(r)' => reviewer'[r].job = job'[Seen(r)'.row.job]
  BY DEF Counters, JobCounts, WalkCounts, ItemJudged, CountedUpTo, CountedIn, RowsWith, RowsIn

\* A step that writes no job, verdict or item, and of the sessions only keeps
\* some, or starts one.
LEMMA CountersKept ==
    ASSUME Counters, UNCHANGED <<file, job, verdict, item>>,
           \A m \in Matchers : Working(m)' =>
               \/ /\ Working(m) /\ MyJob(m)' = MyJob(m) /\ matcher'[m].copy = matcher[m].copy
                  /\ matcher'[m].next = matcher[m].next
                  /\ matcher'[m].matched = matcher[m].matched
                  /\ matcher'[m].exceptions = matcher[m].exceptions
               \/ /\ matcher'[m].copy = job[MyJob(m)'] /\ matcher'[m].next = 1
                  /\ matcher'[m].matched = 0 /\ matcher'[m].exceptions = 0,
           \A r \in Reviewers : Deciding(r)' =>
               \/ Deciding(r) /\ reviewer'[r] = reviewer[r]
               \/ reviewer'[r].job = job[Seen(r)'.row.job]
    PROVE  Counters'
  <1>1. ASSUME NEW m \in Matchers, Working(m)'
        PROVE  WalkCounts(matcher'[m], job[MyJob(m)'], verdict[MyJob(m)'])
    <2>1. CASE /\ Working(m) /\ MyJob(m)' = MyJob(m) /\ matcher'[m].copy = matcher[m].copy
               /\ matcher'[m].next = matcher[m].next
               /\ matcher'[m].matched = matcher[m].matched
               /\ matcher'[m].exceptions = matcher[m].exceptions
      <3>1. WalkCounts(matcher[m], job[MyJob(m)], verdict[MyJob(m)])
        BY <2>1, CountersUnfolded
      <3> QED
        BY <2>1, <3>1 DEF WalkCounts, CountedIn
    <2>2. CASE /\ matcher'[m].copy = job[MyJob(m)'] /\ matcher'[m].next = 1
               /\ matcher'[m].matched = 0 /\ matcher'[m].exceptions = 0
      BY <2>2, NoRows DEF WalkCounts, CountedIn
    <2> QED
      BY <1>1, <2>1, <2>2
  <1>2. ASSUME NEW r \in Reviewers, Deciding(r)'
        PROVE  reviewer'[r].job = job[Seen(r)'.row.job]
    <2>1. CASE Deciding(r) /\ reviewer'[r] = reviewer[r]
      <3>1. Seen(r)' = Seen(r)
        BY <2>1 DEF Seen
      <3> QED
        BY <2>1, <3>1, CountersUnfolded
    <2> QED
      BY <1>2, <2>1
  <1> QED
    BY <1>1, <1>2, CountersUnfolded

LEMMA CountersChunk ==
    ASSUME Sound, CopiesAreCurrent, OneActive, Counters, NEW m \in Matchers, Writing(m),
           ChunkWritten(m), UNCHANGED <<file, reviewer>>
    PROVE  Counters'
  <1> DEFINE j == MyJob(m)
             k == matcher[m].next
             o == OutcomeOf(m)
             c == Counted(m, o)
  <1>1. Working(m) /\ RowsLeft(m) /\ ChunkIsCurrent(m)
    BY DEF Sound, References, MatcherFits, Writing, Working, CopiesAreCurrent
  <1>2. /\ matcher[m] \in MatcherStates /\ matcher[m].copy \in JobRows /\ j \in Jobs
        /\ k \in 1 .. Len(file[j]) /\ k \in Nat /\ Len(file[j]) \in Nat
        /\ verdict[j] \in Seq(Verdicts) /\ Len(verdict[j]) = Len(file[j])
        /\ matcher[m].matched \in Nat /\ matcher[m].exceptions \in Nat
    BY <1>1, ChunkContext DEF MatcherStates
  <1>3. matcher[m].copy.stage = "MATCHING" /\ o.result \in Results \ {"NONE"}
    BY <1>1, OutcomeContext DEF Sound, References, MatcherFits
  <1>4. /\ matcher[m].copy = job[j] /\ CountedIn(verdict[j], matcher[m], k - 1)
    BY <1>1, CountersUnfolded DEF WalkCounts
  <1>5. /\ c \in JobRows /\ c.stage = "MATCHING"
        /\ c.matched = matcher[m].matched + IF o.result = "MATCHED" THEN 1 ELSE 0
        /\ c.exceptions = matcher[m].exceptions + IF o.result \in Exceptional THEN 1 ELSE 0
    BY <1>2, <1>3, CountedTyped
  <1>6. /\ job' = [job EXCEPT ![j] = Merge(job[j], job[j], c)]
        /\ verdict' = [verdict EXCEPT ![j] = [verdict[j] EXCEPT ![k] = VerdictOf(m)]]
    BY <1>4 DEF ChunkWritten
  <1>7. /\ job \in [Jobs -> JobRows] /\ verdict \in [Jobs -> Seq(Verdicts)]
        /\ item \in [Items -> QueueItems]
    BY DEF Sound, TypeOK
  <1>8. Merge(job[j], job[j], c) = c
    BY <1>2, <1>5, <1>7, MergedJob
  <1>9. /\ VerdictOf(m).result = o.result
    BY DEF VerdictOf
  <1>10. MyRow(m) = [job |-> j, n |-> k]
    BY DEF MyRow
  <1>11. /\ \A n \in Matchers : n # m => matcher'[n] = matcher[n]
         /\ matcher'[m].next = k + 1 /\ matcher'[m].copy = c /\ matcher'[m].job = j
         /\ matcher'[m].matched = c.matched /\ matcher'[m].exceptions = c.exceptions
    <2>1. matcher \in [Matchers -> MatcherStates] /\ Done(m, c)
      BY DEF Sound, TypeOK, ChunkWritten
    <2> QED
      BY <1>5, <2>1, DoneFacts DEF MyJob
  <1>12. QueueAsFound(m)
    BY <1>1, ChunkItemNow
  <1> HIDE DEF j, k, o, c
  <1>13. /\ job'[j] = c /\ verdict'[j] = [verdict[j] EXCEPT ![k] = VerdictOf(m)]
         /\ verdict'[j][k].result = o.result
         /\ \A i \in 1 .. Len(file[j]) : i # k => verdict'[j][i] = verdict[j][i]
         /\ \A x \in Jobs : x # j => job'[x] = job[x] /\ verdict'[x] = verdict[x]
    <2>1. /\ job'[j] = c /\ verdict'[j] = [verdict[j] EXCEPT ![k] = VerdictOf(m)]
          /\ \A x \in Jobs : x # j => job'[x] = job[x] /\ verdict'[x] = verdict[x]
      BY <1>2, <1>6, <1>7, <1>8
    <2>2. DOMAIN verdict[j] = 1 .. Len(file[j])
      BY <1>2
    <2> QED
      BY <1>2, <1>9, <2>1, <2>2
  <1>14. CountedIn(verdict'[j], c, k)
    <2>1. k >= 1 /\ \A i \in 1 .. k - 1 : verdict'[j][i] = verdict[j][i]
      BY <1>2, <1>13
    <2> DEFINE v == verdict[j]
               w == verdict'[j]
    <2> HIDE DEF v, w
    <2>2. ASSUME NEW S
          PROVE  Cardinality(RowsIn(w, S, k)) = Cardinality(RowsIn(v, S, k - 1)) + In(w, k, S)
      <3>1. k \in Nat /\ k >= 1 /\ \A i \in 1 .. k - 1 : w[i] = v[i]
        BY <1>2, <2>1 DEF v, w
      <3> QED
        BY <3>1, RowsExtended
    <2>3. /\ In(verdict'[j], k, {"MATCHED"}) = IF o.result = "MATCHED" THEN 1 ELSE 0
          /\ In(verdict'[j], k, Exceptional) = IF o.result \in Exceptional THEN 1 ELSE 0
      BY <1>13 DEF In
    <2> QED
      BY <1>4, <1>5, <2>2, <2>3 DEF CountedIn, v, w
  <1>15. \A x \in Jobs : JobCounts(job'[x], verdict'[x], Len(file'[x]))
    <2>1. JobCounts(c, verdict'[j], Len(file[j]))
      BY <1>2, <1>5 DEF JobCounts
    <2> QED
      BY <1>13, <2>1, CountersUnfolded
  <1>16. \A i \in Items : ItemJudged(item'[i], verdict')
    <2>1. \A x \in Jobs : \A y \in 1 .. Len(file[x]) :
             verdict[x][y].result # "NONE" => verdict'[x][y].result # "NONE"
      BY <1>3, <1>13
    <2>2. \A i \in Items : item[i].status # "ABSENT" =>
             /\ item[i].row.job \in Jobs /\ item[i].row.n \in 1 .. Len(file[item[i].row.job])
             /\ verdict[item[i].row.job][item[i].row.n].result # "NONE"
      BY CountersUnfolded DEF ItemJudged, Sound, References, ItemsFit, RowExists
    <2>3. \A i \in Items : ItemJudged(item[i], verdict')
      BY <2>1, <2>2 DEF ItemJudged
    <2>4. CASE QueueKept(m)
      BY <2>3, <2>4 DEF QueueKept
    <2>5. ASSUME NEW i \in Items, item' = [item EXCEPT ![i] = item'[i]],
                 item'[i].row = MyRow(m)
          PROVE  \A x \in Items : ItemJudged(item'[x], verdict')
      <3>1. \A x \in Items : x # i => item'[x] = item[x]
        BY <1>7, <2>5
      <3>2. ItemJudged(item'[i], verdict')
        <4>1. item'[i].row.job = j /\ item'[i].row.n = k
          BY <1>10, <2>5
        <4>2. verdict'[item'[i].row.job][item'[i].row.n].result # "NONE"
          BY <1>3, <1>13, <4>1
        <4> QED
          BY <4>2 DEF ItemJudged
      <3> QED
        BY <2>3, <3>1, <3>2
    <2> QED
      BY <1>12, <2>4, <2>5 DEF QueueAsFound
  <1>17. ASSUME NEW n \in Matchers, Working(n)'
         PROVE  WalkCounts(matcher'[n], job'[MyJob(n)'], verdict'[MyJob(n)'])
    <2>1. n = m
      BY <1>1, <1>11, <1>17 DEF OneActive, Working
    <2>2. MyJob(n)' = j
      BY <1>11, <2>1 DEF MyJob
    <2>3. WalkCounts(matcher'[m], c, verdict'[j])
      <3>1. matcher'[m].next - 1 = k
        BY <1>2, <1>11
      <3>2. CountedIn(verdict'[j], matcher'[m], k)
        BY <1>11, <1>14 DEF CountedIn
      <3> QED
        BY <1>11, <3>1, <3>2 DEF WalkCounts
    <2> QED
      BY <1>13, <2>1, <2>2, <2>3
  <1>18. \A r \in Reviewers : ~Deciding(r)'
    BY <1>1 DEF OneActive, Deciding
  <1> QED
    BY <1>15, <1>16, <1>17, <1>18, CountersUnfolded

LEMMA CountersFinish ==
    ASSUME Sound, CopiesAreCurrent, OneActive, Counters, NEW m \in Matchers, FinishMatching(m)
    PROVE  Counters'
  <1> DEFINE j == MyJob(m)
             n == Len(file[j])
  <1>1. /\ Working(m) /\ ~RowsLeft(m) /\ Forget(m)
        /\ UNCHANGED <<file, verdict, line, item, audit, reviewer, crashes, discipline>>
    BY DEF FinishMatching, Working
  <1>2. /\ j \in Jobs /\ matcher[m].next \in 1 .. n + 1 /\ matcher[m].copy \in JobRows
    BY <1>1 DEF Sound, References, MatcherFits, TypeOK, MatcherStates
  <1>3. n \in Nat /\ matcher[m].next = n + 1
    <2>1. Len(verdict[j]) = n /\ verdict[j] \in Seq(Verdicts)
      BY <1>2 DEF Sound, References, JobsFit, TypeOK
    <2>2. n \in Nat
      BY <2>1
    <2> QED
      BY <1>1, <1>2, <2>2 DEF RowsLeft
  <1>4. WalkCounts(matcher[m], job[j], verdict[j])
    BY <1>1, CountersUnfolded
  <1> DEFINE end == [matcher[m].copy EXCEPT !.stage = "MATCHED"]
  <1>5. /\ job'[j] = end /\ \A x \in Jobs : x # j => job'[x] = job[x]
    BY <1>4, FinishTyped DEF WalkCounts
  <1>6. end.matched = matcher[m].copy.matched /\ end.exceptions = matcher[m].copy.exceptions
    BY <1>2 DEF JobRows
  <1> HIDE DEF end, n
  <1>7. JobCounts(end, verdict[j], n)
    <2>1. CountedIn(verdict[j], matcher[m], n)
      BY <1>3, <1>4 DEF WalkCounts
    <2>2. CASE n = 0
      <3>1. matcher[m].copy.matched = 0 /\ matcher[m].copy.exceptions = 0
        BY <1>2, <1>4, <2>2, CountersUnfolded DEF JobCounts, WalkCounts, n
      <3> QED
        BY <1>6, <2>2, <3>1, NoRows DEF JobCounts, CountedIn
    <2>3. CASE n # 0
      <3>1. matcher[m].next > 1
        BY <1>3, <2>3
      <3> QED
        BY <1>4, <1>6, <2>1, <2>3, <3>1 DEF JobCounts, CountedIn, WalkCounts
    <2> QED
      BY <2>2, <2>3
  <1>8. \A x \in Jobs : JobCounts(job'[x], verdict'[x], Len(file'[x]))
    BY <1>1, <1>5, <1>7, CountersUnfolded DEF n
  <1>9. \A i \in Items : ItemJudged(item'[i], verdict')
    BY <1>1, CountersUnfolded
  <1>10. \A x \in Matchers : ~Working(x)'
    <2>1. matcher \in [Matchers -> MatcherStates]
      BY DEF Sound, TypeOK
    <2> QED
      BY <1>1, <2>1, ForgetFacts DEF OneActive, Working
  <1>11. \A r \in Reviewers : ~Deciding(r)'
    BY <1>1 DEF OneActive, Deciding
  <1> QED
    BY <1>8, <1>9, <1>10, <1>11, CountersUnfolded

LEMMA CountersImport ==
    ASSUME Sound, Counters, NEW j \in Jobs, NEW f \in Files, Import(j, f)
    PROVE  Counters'
  <1>1. /\ job[j].stage = "ABSENT" /\ file' = [file EXCEPT ![j] = f]
        /\ job' = [job EXCEPT ![j] = [job[j] EXCEPT !.stage = "MATCHING"]]
        /\ verdict' = [verdict EXCEPT ![j] = [k \in 1 .. Len(f) |-> NoVerdict]]
        /\ UNCHANGED <<line, item, audit, matcher, reviewer, crashes, discipline>>
        /\ file \in [Jobs -> Files \union {<<>>}] /\ job \in [Jobs -> JobRows]
        /\ verdict \in [Jobs -> Seq(Verdicts)]
    BY DEF Import, Sound, TypeOK
  <1>2. /\ \A k \in Jobs : k # j => /\ file'[k] = file[k] /\ job'[k] = job[k]
                                    /\ verdict'[k] = verdict[k]
        /\ job'[j].stage = "MATCHING"
        /\ job'[j].matched = job[j].matched /\ job'[j].exceptions = job[j].exceptions
    BY <1>1 DEF JobRows
  <1>3. \A k \in Jobs : JobCounts(job'[k], verdict'[k], Len(file'[k]))
    <2>1. job[j].matched = 0 /\ job[j].exceptions = 0
      BY <1>1, CountersUnfolded DEF JobCounts, Sound, References, JobsFit
    <2>2. JobCounts(job'[j], verdict'[j], Len(file'[j]))
      BY <1>2, <2>1 DEF JobCounts
    <2> QED
      BY <1>2, <2>2, CountersUnfolded
  <1>4. \A i \in Items : ItemJudged(item'[i], verdict')
    <2>1. \A i \in Items : item[i].status # "ABSENT" => item[i].row.job \in Jobs /\ item[i].row.job # j
      BY <1>1 DEF Sound, References, ItemsFit, RowExists
    <2> QED
      BY <1>1, <1>2, <2>1, CountersUnfolded DEF ItemJudged
  <1>5. ASSUME NEW m \in Matchers, Working(m)'
        PROVE  WalkCounts(matcher'[m], job'[MyJob(m)'], verdict'[MyJob(m)'])
    <2>1. Working(m) /\ MyJob(m)' = MyJob(m)
      BY <1>1, <1>5 DEF Working, MyJob
    <2>2. MyJob(m) \in Jobs /\ MyJob(m) # j
      BY <1>1, <2>1 DEF Sound, References, MatcherFits
    <2> QED
      BY <1>1, <1>2, <2>1, <2>2, CountersUnfolded
  <1>6. ASSUME NEW r \in Reviewers, Deciding(r)'
        PROVE  reviewer'[r].job = job'[Seen(r)'.row.job]
    <2>1. Deciding(r) /\ Seen(r)' = Seen(r)
      BY <1>1, <1>6 DEF Deciding, Seen
    <2>2. Seen(r).row.job \in Jobs /\ Seen(r).row.job # j
      BY <1>1, <2>1 DEF Sound, References, ReviewerFits, RowExists
    <2> QED
      BY <1>1, <1>2, <2>1, <2>2, CountersUnfolded
  <1> QED
    BY <1>3, <1>4, <1>5, <1>6, CountersUnfolded

\* An approval moves the counters by the row it resolves: that row has a
\* verdict, so it was an exception, and counted, or it was a match already.
LEMMA CountersApproval ==
    ASSUME Sound, CopiesAreCurrent, OneActive, Counters, NEW r \in Reviewers, Deciding(r),
           NEW p \in Products, ApprovalWritten(r, p), Close(r), UNCHANGED <<file, matcher>>
    PROVE  Counters'
  <1> DEFINE j == Seen(r).row.job
             k == Seen(r).row.n
             v == verdict[j]
             w == verdict'[j]
             n == Len(file[j])
             resolved == [result |-> "MATCHED", by |-> "MANUAL_APPROVAL", product |-> p]
             left == IF job[j].exceptions = 0 THEN 0 ELSE job[j].exceptions - 1
             moved == [job[j] EXCEPT !.matched = job[j].matched + 1, !.exceptions = left]
  <1>1. /\ DecisionIsCurrent(r) /\ j \in Jobs /\ k \in 1 .. n /\ n \in Nat
        /\ Len(v) = n /\ Seen(r) \in QueueItems /\ reviewer[r].item \in Items
        /\ job \in [Jobs -> JobRows] /\ verdict \in [Jobs -> Seq(Verdicts)]
        /\ item \in [Items -> QueueItems]
    BY DecisionContext DEF Sound, TypeOK, CopiesAreCurrent
  <1>2. /\ item[reviewer[r].item] = Seen(r) /\ Seen(r).status = "PENDING"
        /\ reviewer[r].verdict = v[k]
    BY <1>1, DecisionContext DEF DecisionIsCurrent
  <1>3. reviewer[r].job = job[j]
    BY CountersUnfolded
  <1>4. /\ v[k].result # "NONE" /\ v[k] \in Verdicts
    <2>1. ItemJudged(item[reviewer[r].item], verdict)
      BY <1>1, CountersUnfolded
    <2> QED
      BY <1>1, <1>2, <2>1 DEF ItemJudged
  <1>5. v[k].result = "MATCHED" \/ v[k].result \in Exceptional
    BY <1>4 DEF Verdicts, Results, Exceptional
  <1>6. /\ verdict' = [verdict EXCEPT ![j] = [verdict[j] EXCEPT ![k] = resolved]]
        /\ item' = [item EXCEPT ![reviewer[r].item] = ApprovedCopy(r)]
    BY <1>1, ApprovalNow
  <1>7. job' = IF v[k].result \in Exceptional
               THEN [job EXCEPT ![j] = Merge(job[j], job[j], moved)] ELSE job
    BY <1>2, <1>3 DEF ApprovalWritten, ResolveRow
  <1>8. /\ moved \in JobRows /\ moved.matched = job[j].matched + 1 /\ moved.exceptions = left
        /\ moved.stage = job[j].stage /\ job[j].matched \in Nat /\ job[j].exceptions \in Nat
    <2>1. job[j] \in JobRows
      BY <1>1
    <2>2. left \in Nat /\ job[j].matched + 1 \in Nat
      BY <2>1 DEF JobRows
    <2> HIDE DEF left
    <2> QED
      BY <2>1, <2>2 DEF JobRows
  <1>9. Merge(job[j], job[j], moved) = moved
    <2>1. job[j] \in JobRows
      BY <1>1
    <2> HIDE DEF moved
    <2> QED
      BY <1>8, <2>1, MergedJob
  <1>10. /\ job'[j] = IF v[k].result \in Exceptional THEN moved ELSE job[j]
         /\ \A x \in Jobs : x # j => job'[x] = job[x] /\ verdict'[x] = verdict[x]
    <2> HIDE DEF moved, v
    <2> QED
      BY <1>1, <1>6, <1>7, <1>9
  <1>11. w[k] = resolved /\ \A i \in 1 .. n : i # k => w[i] = v[i]
    <2>1. w = [v EXCEPT ![k] = resolved]
      BY <1>1, <1>6
    <2>2. DOMAIN v = 1 .. n
      BY <1>1
    <2> QED
      BY <1>1, <2>1, <2>2
  <1>12. JobCounts(job'[j], w, n)
    <2>1. JobCounts(job[j], v, n) /\ n # 0
      BY <1>1, CountersUnfolded
    <2>2. SUFFICES ASSUME job[j].stage = "MATCHED" PROVE CountedIn(w, job'[j], n)
      BY <1>8, <1>10, <2>1 DEF JobCounts
    <2>3. CountedIn(v, job[j], n)
      BY <2>1, <2>2 DEF JobCounts
    <2> DEFINE M == {"MATCHED"}
               E == Exceptional
    <2>4. /\ In(v, k, M) = (IF v[k].result = "MATCHED" THEN 1 ELSE 0)
          /\ In(v, k, E) = (IF v[k].result \in Exceptional THEN 1 ELSE 0)
          /\ In(w, k, M) = 1 /\ In(w, k, E) = 0
      BY <1>11 DEF In, Exceptional
    <2> HIDE DEF v, w, n, k, M, E, resolved, moved, left
    <2>5. /\ Cardinality(RowsIn(w, M, n)) = Cardinality(RowsIn(v, M, n)) - In(v, k, M) + In(w, k, M)
      BY <1>1, <1>11, RowsChanged
    <2>6. /\ Cardinality(RowsIn(w, E, n)) = Cardinality(RowsIn(v, E, n)) - In(v, k, E) + In(w, k, E)
      BY <1>1, <1>11, RowsChanged
    <2>7. Cardinality(RowsIn(v, E, n)) = Cardinality(RowsBut(v, E, n, k)) + In(v, k, E)
          /\ Cardinality(RowsBut(v, E, n, k)) \in Nat
      BY <1>1, RowsSplit, RowsFinite
    <2>8. /\ job[j].matched = Cardinality(RowsIn(v, M, n))
          /\ job[j].exceptions = Cardinality(RowsIn(v, E, n))
      BY <2>3 DEF CountedIn, M, E
    <2>9. job'[j].matched = Cardinality(RowsIn(w, M, n))
          /\ job'[j].exceptions = Cardinality(RowsIn(w, E, n))
      <3>1. CASE v[k].result \in Exceptional
        <4>1. v[k].result # "MATCHED"
          BY <3>1 DEF Exceptional
        <4>2. job'[j].matched = job[j].matched + 1 /\ job'[j].exceptions = left
          BY <1>8, <1>10, <3>1
        <4>3. job[j].exceptions >= 1 /\ left = job[j].exceptions - 1
          BY <1>8, <2>4, <2>7, <2>8, <3>1 DEF left
        <4> QED
          BY <1>8, <2>4, <2>5, <2>6, <2>8, <3>1, <4>1, <4>2, <4>3
      <3>2. CASE v[k].result \notin Exceptional
        <4>1. v[k].result = "MATCHED" /\ job'[j] = job[j]
          BY <1>5, <1>10, <3>2
        <4> QED
          BY <1>8, <2>4, <2>5, <2>6, <2>8, <3>2, <4>1
      <3> QED
        BY <3>1, <3>2
    <2> QED
      BY <2>9 DEF CountedIn, M, E
  <1>13. \A x \in Jobs : JobCounts(job'[x], verdict'[x], Len(file'[x]))
    BY <1>10, <1>12, CountersUnfolded
  <1>14. \A i \in Items : ItemJudged(item'[i], verdict')
    <2>1. /\ ApprovedCopy(r).row = item[reviewer[r].item].row
          /\ item[reviewer[r].item].status # "ABSENT"
      BY <1>1, <1>2, DecidedCopies
    <2>2. \A i \in Items : item'[i].row = item[i].row
                           /\ (item'[i].status # "ABSENT" => item[i].status # "ABSENT")
      BY <1>1, <1>6, <2>1
    <2>3. \A i \in Items : item[i].status # "ABSENT" =>
             /\ item[i].row.job \in Jobs /\ item[i].row.n \in 1 .. Len(file[item[i].row.job])
             /\ verdict[item[i].row.job][item[i].row.n].result # "NONE"
      BY CountersUnfolded DEF ItemJudged, Sound, References, ItemsFit, RowExists
    <2>4. \A x \in Jobs : \A y \in 1 .. Len(file[x]) :
             verdict[x][y].result # "NONE" => verdict'[x][y].result # "NONE"
      BY <1>10, <1>11
    <2> QED
      BY <2>2, <2>3, <2>4 DEF ItemJudged
  <1>15. \A m \in Matchers : ~Working(m)'
    BY DEF OneActive, Working
  <1>16. \A s \in Reviewers : ~Deciding(s)'
    <2>1. reviewer \in [Reviewers -> ReviewerStates]
      BY DEF Sound, TypeOK
    <2> QED
      BY <2>1, CloseFacts DEF OneActive, Deciding
  <1> QED
    BY <1>13, <1>14, <1>15, <1>16, CountersUnfolded

LEMMA CountersMatching ==
    ASSUME Sound, CopiesAreCurrent, OneActive, Counters, NEW m \in Matchers,
           MatcherStep(m) \/ Crash(m)
    PROVE  Counters'
  <1>1. matcher \in [Matchers -> MatcherStates]
    BY DEF Sound, TypeOK
  <1>2. ASSUME Forget(m), UNCHANGED <<file, job, verdict, item, reviewer>> PROVE Counters'
    <2>1. \A n \in Matchers : Working(n)' => Working(n) /\ matcher'[n] = matcher[n]
      BY <1>1, <1>2, ForgetFacts DEF Working
    <2> QED
      BY <1>2, <2>1, CountersKept DEF MyJob, Deciding
  <1>3. ASSUME NEW j \in Jobs, StartMatching(m, j) PROVE Counters'
    <2>1. UNCHANGED <<file, job, verdict, item, reviewer>>
      BY <1>3 DEF StartMatching, dbVars
    <2>2. /\ \A n \in Matchers : n # m => matcher'[n] = matcher[n]
          /\ MyJob(m)' = j /\ matcher'[m].copy = job[j] /\ matcher'[m].next = 1
          /\ matcher'[m].matched = 0 /\ matcher'[m].exceptions = 0
      BY <1>3, StartTyped DEF MyJob
    <2>3. \A n \in Matchers : n # m /\ Working(n)' => Working(n) /\ MyJob(n)' = MyJob(n)
      BY <2>2 DEF Working, MyJob
    <2> QED
      BY <2>1, <2>2, <2>3, CountersKept DEF Deciding
  <1>4. ASSUME ReadChunk(m) PROVE Counters'
    <2>1. UNCHANGED <<file, job, verdict, item, reviewer>>
      BY <1>4, ReadFacts DEF dbVars
    <2>2. /\ \A n \in Matchers : n # m => matcher'[n] = matcher[n]
          /\ Working(m) /\ MyJob(m)' = MyJob(m)
          /\ matcher'[m].next = matcher[m].next /\ matcher'[m].copy = matcher[m].copy
          /\ matcher'[m].matched = matcher[m].matched
          /\ matcher'[m].exceptions = matcher[m].exceptions
      BY <1>4, ReadFacts DEF Working, ReadChunk, MyJob
    <2>3. \A n \in Matchers : n # m /\ Working(n)' => Working(n) /\ MyJob(n)' = MyJob(n)
      BY <2>2 DEF Working, MyJob
    <2> QED
      BY <2>1, <2>2, <2>3, CountersKept DEF Deciding
  <1>5. ASSUME WriteChunk(m) PROVE Counters'
    <2>1. Writing(m) /\ UNCHANGED <<file, reviewer>>
      BY <1>5, ChunkCases
    <2>2. CASE ChunkWritten(m)
      BY <2>1, <2>2, CountersChunk
    <2>3. CASE Forget(m) /\ UNCHANGED <<job, verdict, line, item>>
      BY <1>2, <2>1, <2>3
    <2> QED
      BY <1>5, <2>2, <2>3, ChunkCases
  <1>6. CASE Crash(m)
    BY <1>2, <1>6 DEF Crash, dbVars
  <1> QED
    BY <1>3, <1>4, <1>5, <1>6, CountersFinish DEF MatcherStep

LEMMA CountersDeciding ==
    ASSUME Sound, CopiesAreCurrent, OneActive, Counters, NEW r \in Reviewers, ReviewerStep(r)
    PROVE  Counters'
  <1>1. reviewer \in [Reviewers -> ReviewerStates]
    BY DEF Sound, TypeOK
  <1>2. ASSUME Close(r), UNCHANGED <<file, job, verdict, item, matcher>> PROVE Counters'
    <2>1. \A s \in Reviewers : Deciding(s)' => Deciding(s) /\ reviewer'[s] = reviewer[s]
      BY <1>1, <1>2, CloseFacts DEF Deciding
    <2> QED
      BY <1>2, <2>1, CountersKept DEF Working, MyJob
  <1>3. ASSUME NEW i \in Items, Open(r, i) PROVE Counters'
    <2>1. UNCHANGED <<file, job, verdict, item, matcher>>
      BY <1>3 DEF Open, dbVars
    <2>2. /\ \A s \in Reviewers : s # r => reviewer'[s] = reviewer[s]
          /\ reviewer'[r].job = job[Seen(r)'.row.job]
      BY <1>3, OpenTyped DEF Seen
    <2>3. \A s \in Reviewers : s # r /\ Deciding(s)' => Deciding(s)
      BY <2>2 DEF Deciding
    <2> QED
      BY <2>1, <2>2, <2>3, CountersKept DEF Working, MyJob
  <1>4. ASSUME NEW p \in Products, NEW b \in BOOLEAN, Approve(r, p, b) PROVE Counters'
    <2>1. Deciding(r) /\ Close(r) /\ UNCHANGED <<file, matcher>>
      BY <1>4, ApproveCases
    <2>2. CASE ApprovalWritten(r, p)
      BY <2>1, <2>2, CountersApproval
    <2>3. CASE UNCHANGED <<job, verdict, line, item, audit>>
      BY <1>2, <2>1, <2>3
    <2> QED
      BY <1>4, <2>2, <2>3, ApproveCases
  <1>5. ASSUME Reject(r) \/ Defer(r) PROVE Counters'
    <2>1. Deciding(r) /\ Close(r) /\ UNCHANGED <<file, job, verdict, matcher>>
      BY <1>5 DEF Reject, Defer, Deciding
    <2>2. Seen(r) \in QueueItems /\ Seen(r).status = "PENDING"
      BY <2>1, DecisionContext
    <2>3. PICK new \in QueueItems : /\ new.status # "ABSENT" /\ new.row = Seen(r).row
                                    /\ new.sku = Seen(r).sku /\ WriteItem(r, new)
      <3>1. CASE Reject(r)
        BY <2>2, <3>1, DecidedCopies DEF Reject, RejectedCopy
      <3>2. CASE Defer(r)
        BY <2>2, <3>2, DecidedCopies DEF Defer, DeferredCopy
      <3> QED
        BY <1>5, <3>1, <3>2
    <2>4. \A i \in Items : /\ item'[i].status # "ABSENT" <=> item[i].status # "ABSENT"
                           /\ item'[i].row = item[i].row
      BY <2>1, <2>3, ItemWritten
    <2>5. \A i \in Items : ItemJudged(item'[i], verdict')
      BY <2>1, <2>4, CountersUnfolded DEF ItemJudged
    <2>6. \A m \in Matchers : ~Working(m)'
      BY <2>1 DEF OneActive, Working
    <2>7. \A s \in Reviewers : ~Deciding(s)'
      BY <1>1, <2>1, CloseFacts DEF OneActive, Deciding
    <2>8. \A j \in Jobs : JobCounts(job'[j], verdict'[j], Len(file'[j]))
      BY <2>1, CountersUnfolded
    <2> QED
      BY <2>5, <2>6, <2>7, <2>8, CountersUnfolded
  <1> QED
    BY <1>3, <1>4, <1>5 DEF ReviewerStep

LEMMA CountersStep ==
    ASSUME Sound, CopiesAreCurrent, discipline = "SERIAL", Counters, [Next]_vars
    PROVE  Counters'
  <1>1. OneActive
    BY DEF CopiesAreCurrent
  <1>2. CASE UNCHANGED vars
    BY <1>2, CountersKept DEF vars, Working, MyJob, Deciding
  <1> QED
    BY <1>1, <1>2, CountersImport, CountersMatching, CountersDeciding DEF Next

\* Of decisions taken between stages: every row a matched job counts as matched
\* or as an exception is one, and an open item is asked by a row it names.
THEOREM SerialHolds == Spec => []SerialInv
  <1>1. Init => SerialInv
    <2>1. SUFFICES ASSUME Init PROVE Quiet /\ Counters
      BY OrderlyInit DEF SerialInv
    <2>2. /\ \A m \in Matchers : ~Working(m)
          /\ \A r \in Reviewers : ~Deciding(r)
      BY <2>1 DEF Init, Working, IdleMatcher, Deciding, IdleReviewer
    <2>3. Quiet
      BY <2>1, <2>2 DEF Init, Quiet, AbsentItem
    <2>4. Counters
      BY <2>1, <2>2 DEF Init, Counters, AbsentItem, AbsentJob
    <2> QED
      BY <2>3, <2>4
  <1>2. SerialInv /\ [Next]_vars => SerialInv'
    <2>1. SUFFICES ASSUME SerialInv, [Next]_vars PROVE SerialInv'
      OBVIOUS
    <2>2. OrderlyInv' /\ discipline' = discipline
      BY <2>1, OrderlyStep, DisciplineKept DEF SerialInv
    <2>3. ASSUME discipline = "SERIAL" PROVE Quiet' /\ Counters'
      BY <2>1, <2>3, QuietStep, CountersStep DEF SerialInv, OrderlyInv, Orderly
    <2> QED
      BY <2>2, <2>3 DEF SerialInv
  <1> QED
    BY <1>1, <1>2, PTL DEF Spec

\* AC-9.4, of decisions taken between stages: the counters of a matched job agree
\* with its rows, decisions included; of every behaviour: the tables' types.
THEOREM CountersAgree == Spec => []CountersReconcile
  <1>1. SerialInv => CountersReconcile
    <2>1. SUFFICES ASSUME SerialInv PROVE CountersReconcile
      OBVIOUS
    <2>2. TypeOK
      BY <2>1 DEF SerialInv, OrderlyInv, Sound
    <2>3. ASSUME discipline = "SERIAL", NEW j \in Jobs, job[j].stage = "MATCHED"
          PROVE  LET rowsWith(S) == {k \in DOMAIN verdict[j] : verdict[j][k].result \in S}
                 IN /\ job[j].matched = Cardinality(rowsWith({"MATCHED"}))
                    /\ job[j].exceptions = Cardinality(rowsWith(Exceptional))
      <3>1. CountedUpTo(j, job[j], Len(file[j]))
        BY <2>1, <2>3 DEF SerialInv, Counters
      <3>2. DOMAIN verdict[j] = 1 .. Len(file[j])
        <4>1. verdict[j] \in Seq(Verdicts) /\ Len(verdict[j]) = Len(file[j])
          BY <2>1 DEF SerialInv, OrderlyInv, Sound, TypeOK, References, JobsFit
        <4> QED
          BY <4>1
      <3> QED
        BY <3>1, <3>2 DEF CountedUpTo, RowsWith
    <2> QED
      BY <2>2, <2>3 DEF CountersReconcile
  <1> QED
    BY <1>1, SerialHolds, PTL

\* AC-8.4, of decisions taken between stages: an approved line asks nothing again,
\* unless its identifiers disagree with the mapping or with each other.
THEOREM ApprovedLinesAreQuiet == Spec => []ApprovedLinesStayQuiet
  <1>1. SerialInv => ApprovedLinesStayQuiet
    BY DEF SerialInv, Quiet, ApprovedLinesStayQuiet
  <1> QED
    BY <1>1, SerialHolds, PTL
=============================================================================
