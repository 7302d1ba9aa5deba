------------------------ MODULE AmazonListings_proofs ------------------------
(***************************************************************************)
(* Proofs about AmazonListings, for any listings, products, runs,          *)
(* reviewers and faults.  Of any behaviour, whoever overlaps whom: the     *)
(* tables keep their types and a listing never has two open items.  Of     *)
(* orderly ones, where nobody maps or decides while another does: what a   *)
(* session has read is what is there when it writes, and so approved       *)
(* mappings stay, follow NineYard's names and are not asked about, and a   *)
(* completed run leaves no listing out.                                    *)
(***************************************************************************)
EXTENDS AmazonListings, FiniteSetTheorems, WellFoundedInduction, TLAPS

Considering(r) == reviewer[r].pc = "decide"
At(m) == mapper[m].pc \in {"map", "queue"}

\* What this code makes of a listing; a person's refusal stays with the item.
Sane(l) == l.status \in {"ABSENT", "UNMAPPED", "PENDING", "APPROVED"}

ListingsFit ==
    \A s \in Skus : /\ Sane(listing[s])
                    /\ named[s] = {} \/ \E p \in Products : named[s] = {p}

\* A transaction touches no listing twice, and no item of a listing to come.
MapperFits(m) ==
    /\ mapper[m].pc # "idle" => mapper[m].no \in 1 .. MaxRuns[m]
    /\ ~Mapping(m) => mapper[m].rows = NoRows /\ mapper[m].items = NoItems
    /\ Sane(mapper[m].copy)
    /\ At(m) => mapper[m].sku \in Skus \ mapper[m].todo
    /\ mapper[m].pc = "map" => ~Written(mapper[m].rows[mapper[m].sku])
    /\ \A s \in Skus : Sane(mapper[m].rows[s]) /\ (Written(mapper[m].rows[s]) => s \notin mapper[m].todo)
    /\ \A i \in Items : Written(mapper[m].items[i]) =>
            i[1] \notin mapper[m].todo /\ (At(m) => i[1] # mapper[m].sku)
    /\ mapper[m].open # 0 => mapper[m].asked.status = "PENDING"

\* An item a transaction opens is the next one of its listing, which has nothing open.
Fresh(i) ==
    /\ ~Written(item[i])
    /\ \A k \in Items : k[1] = i[1] => /\ item[k].status # "PENDING"
                                       /\ k[2] < i[2] => Written(item[k])
OpensFew(m) ==
    /\ \A i, k \in Items :
         Written(mapper[m].items[i]) /\ Written(mapper[m].items[k]) /\ i[1] = k[1] => i = k
    /\ \A i \in Items :
         mapper[m].items[i].status = "PENDING" => item[i].status = "PENDING" \/ Fresh(i)

\* An item is written by one transaction at a time.
ItemsLocked ==
    \A m, k \in Jobs : \A i \in Items :
        Written(mapper[m].items[i]) /\ Written(mapper[k].items[i]) => m = k

ReviewerFits(r) ==
    Considering(r) => /\ reviewer[r].of \in Items /\ Sane(reviewer[r].copy)
                    /\ reviewer[r].asked.status = "PENDING"

OneOpenItem ==
    \A i, k \in Items :
        item[i].status = "PENDING" /\ item[k].status = "PENDING" /\ i[1] = k[1] => i = k

Sound ==
    /\ TypeOK
    /\ ListingsFit
    /\ \A m \in Jobs : MapperFits(m) /\ OpensFew(m)
    /\ ItemsLocked
    /\ \A r \in Reviewers : ReviewerFits(r)
    /\ OneOpenItem

\* In orderly behaviours one session maps or decides at a time.
OneAtWork ==
    /\ \A m, k \in Jobs : Mapping(m) /\ Mapping(k) => m = k
    /\ \A r, q \in Reviewers : Considering(r) /\ Considering(q) => r = q
    /\ \A m \in Jobs, r \in Reviewers : ~(Mapping(m) /\ Considering(r))

\* So what it has read is what is there.
MapperCurrent(m) ==
    LET me == mapper[m] IN
    /\ me.pc = "map" => me.copy = listing[me.sku]
    /\ me.pc = "queue" =>
         /\ Listing(m, me.sku).status = me.verdict.outcome
         /\ me.open # 0 => me.asked = item[<<me.sku, me.open>>]
         /\ me.open = 0 => \A i \in Items : i[1] = me.sku => item[i].status # "PENDING"
ReviewerCurrent(r) ==
    Considering(r) => /\ reviewer[r].copy = listing[reviewer[r].of[1]]
                    /\ reviewer[r].asked = item[reviewer[r].of]

\* What a transaction has written, as what is committed, follows the names,
\* leaves approved mappings as they were and asks of nothing that is approved.
Follows(l, s) == l.approver = "SYSTEM" => named[s] = {l.product}
Keeps(m, s) ==
    Written(mapper[m].rows[s]) =>
        /\ Follows(mapper[m].rows[s], s)
        /\ listing[s].status = "APPROVED" => MappingOf(mapper[m].rows[s]) = MappingOf(listing[s])
Undecided(l) == l.status \in {"UNMAPPED", "PENDING"}
Answering(m, i) ==
    /\ mapper[m].pc = "queue" /\ mapper[m].verdict.outcome = "APPROVED"
    /\ mapper[m].open # 0 /\ i = <<mapper[m].sku, mapper[m].open>>
Asks(m) ==
    \A i \in Items : ItemOf(m, i).status = "PENDING" => Undecided(Listing(m, i[1])) \/ Answering(m, i)
Accounted(m, s) ==
    \/ s \in mapper[m].todo
    \/ At(m) /\ s = mapper[m].sku
    \/ Listing(m, s).status = "APPROVED"
    \/ \E i \in Items : i[1] = s /\ ItemOf(m, i).status = "PENDING"

InOrder ==
    /\ OneAtWork
    /\ \A s \in Skus : Follows(listing[s], s)
    /\ \A i \in Items : item[i].status = "PENDING" => Undecided(listing[i[1]])
    /\ \A r \in Reviewers : ReviewerCurrent(r)
    /\ \A m \in Jobs : Mapping(m) =>
         /\ MapperCurrent(m)
         /\ \A s \in Skus : Keeps(m, s)
         /\ Asks(m)
         /\ \A s \in Skus : mapper[m].read[s] = "ACTIVE" => Accounted(m, s)

IInv == Sound /\ (Orderly => InOrder)

----------------------------------------------------------------------------
(* Items, rows and verdicts *)

LEMMA ItemFacts ==
    /\ \A i \in Items : i[1] \in Skus /\ i[2] \in 1 .. MaxItems /\ i = <<i[1], i[2]>>
    /\ \A s \in Skus, n \in 1 .. MaxItems :
         <<s, n>> \in Items /\ <<s, n>>[1] = s /\ <<s, n>>[2] = n
    /\ \A i, k \in Items : i[1] = k[1] /\ i[2] = k[2] => i = k
  BY DEF Items

LEMMA RunFacts ==
    /\ \A m \in Jobs : \A n \in 1 .. MaxRuns[m] : <<m, n>> \in Runs
    /\ \A r \in Runs : r[1] \in Jobs
  BY DEF Runs

LEMMA Constants == MaxItems \in Nat /\ \A m \in Jobs : MaxRuns[m] \in Nat
  BY BoundsAssumption

\* An UPDATE writes the columns that changed; over an unchanged row, all of them.
LEMMA MergedListing ==
    ASSUME NEW a \in Listings, NEW b \in Listings, NEW c \in Listings
    PROVE  /\ Merge(a, b, c) \in Listings
           /\ Sane(a) /\ Sane(c) => Sane(Merge(a, b, c))
           /\ a = b => Merge(a, b, c) = c
  <1>1. DOMAIN a = {"status", "product", "method", "approver", "live"} /\ DOMAIN c = DOMAIN a
    BY DEF Listings
  <1>2. Merge(a, b, c) \in Listings
    BY <1>1 DEF Merge, Listings
  <1>3. Merge(a, b, c).status \in {a.status, c.status}
    BY <1>1 DEF Merge, Listings
  <1>4. Merge(a, a, c) = c
    <2>1. [x \in DOMAIN a |-> IF c[x] = a[x] THEN a[x] ELSE c[x]] = [x \in DOMAIN c |-> c[x]]
      BY <1>1
    <2>2. [x \in DOMAIN c |-> c[x]] = c
      BY DEF Listings
    <2> QED
      BY <2>1, <2>2 DEF Merge
  <1> QED
    BY <1>2, <1>3, <1>4 DEF Sane

LEMMA MergedItem ==
    ASSUME NEW a \in QueueItems, NEW b \in QueueItems, NEW c \in QueueItems
    PROVE  /\ Merge(a, b, c) \in QueueItems
           /\ Merge(a, b, c).status =
                IF b.status # "ABSENT" /\ c.status = b.status THEN a.status ELSE c.status
           /\ a = b => Merge(a, b, c) = c
  <1>1. DOMAIN a = {"status", "reason", "candidates", "resolved", "resolver"} /\ DOMAIN c = DOMAIN a
    BY DEF QueueItems
  <1>2. /\ Merge(a, b, c) \in QueueItems
        /\ Merge(a, b, c).status =
             IF b.status # "ABSENT" /\ c.status = b.status THEN a.status ELSE c.status
    BY <1>1 DEF Merge, QueueItems
  <1>3. Merge(a, a, c) = c
    <2>1. [x \in DOMAIN a |-> IF c[x] = a[x] THEN a[x] ELSE c[x]] = [x \in DOMAIN c |-> c[x]]
      BY <1>1
    <2>2. [x \in DOMAIN c |-> c[x]] = c
      BY DEF QueueItems
    <2> QED
      BY <2>1, <2>2 DEF Merge
  <1> QED
    BY <1>2, <1>3

\* The chain approves what NineYard's name leads to, and nothing else.
LEMMA ResolveFacts ==
    ASSUME NEW P \in SUBSET Products, NEW Q \in SUBSET Products,
           P = {} \/ \E p \in Products : P = {p}
    PROVE  LET r == resolve_listing(P, Q) IN
           /\ r \in Verdicts
           /\ r.outcome = "APPROVED" => P = {r.product}
  <1>1. IsFiniteSet(Q) /\ Cardinality(Q) \in Nat
    BY FiniteAssumption, FS_Subset, FS_CardinalityType
  <1>2. CASE P = {}
    <2>1. Cardinality(P) = 0
      BY <1>2, FS_EmptySet
    <2>2. Cardinality(Q) = 1 => The(Q) \in Products
      BY <1>1, FS_EmptySet DEF The
    <2>3. \/ resolve_listing(P, Q) = Resolution("PENDING", The(Q), "UPC", "SUGGESTION_ONLY", Q) /\ Cardinality(Q) = 1
          \/ resolve_listing(P, Q) = Unmapped("AMBIGUOUS_MATCH", Q)
          \/ resolve_listing(P, Q) = Unmapped("NO_MATCH", {})
      BY <1>1, <1>2, <2>1 DEF resolve_listing
    <2> QED
      BY <2>2, <2>3 DEF Resolution, Unmapped, Verdicts, Reasons
  <1>3. CASE \E p \in Products : P = {p}
    <2>1. PICK p \in Products : P = {p}
      BY <1>3
    <2>2. Cardinality(P) = 1 /\ The(P) = p
      BY <2>1, FS_Singleton DEF The
    <2>3. \/ resolve_listing(P, Q) = Unmapped("CONFLICTING_IDENTIFIER", P \union Q)
          \/ resolve_listing(P, Q) = Resolution("APPROVED", The(P), "AMAZON_SKU_MAPPING", "NONE", P)
      BY <1>1, <2>1, <2>2 DEF resolve_listing
    <2> QED
      BY <2>1, <2>2, <2>3 DEF Resolution, Unmapped, Verdicts, Reasons
  <1> QED
    BY <1>2, <1>3

----------------------------------------------------------------------------
(* What a session sees, and what it makes of it *)

LEMMA IdleTypes ==
    /\ NoListing \in Listings /\ NoItem \in QueueItems /\ NoVerdict \in Verdicts
    /\ NoRows \in [Skus -> Listings] /\ NoItems \in [Items -> QueueItems]
    /\ IdleMapper \in MapperStates /\ IdleReviewer \in ReviewerStates
  <1>1. NoListing \in Listings /\ NoItem \in QueueItems /\ NoVerdict \in Verdicts
    BY DEF NoListing, Listings, NoItem, QueueItems, Reasons, NoVerdict, Verdicts
  <1>2. NoRows \in [Skus -> Listings] /\ NoItems \in [Items -> QueueItems]
    BY <1>1 DEF NoRows, NoItems
  <1> QED
    BY <1>1, <1>2, Constants DEF IdleMapper, MapperStates, IdleReviewer, ReviewerStates

LEMMA SeenTypes ==
    ASSUME TypeOK, NEW m \in Jobs
    PROVE  /\ mapper[m] \in MapperStates
           /\ \A s \in Skus : Listing(m, s) \in Listings
           /\ \A i \in Items : ItemOf(m, i) \in QueueItems
  BY DEF TypeOK, MapperStates, Listing, ItemOf, Over

LEMMA LeastNat ==
    ASSUME NEW S \in SUBSET Nat, S # {}
    PROVE  \E i \in S : \A k \in S : i <= k
  <1>1. PICK i \in S : \A k \in S : ~ (<<k, i>> \in OpToRel(<, Nat))
    BY NatLessThanWellFounded, WFMin
  <1>2. \A k \in S : ~(k < i)
    BY <1>1 DEF OpToRel
  <1> QED
    BY <1>2

\* The next number of a listing's items: all below are taken.
LEMMA NextItemFacts ==
    ASSUME NEW m \in Jobs, NEW s \in Skus
    PROVE  /\ NextItem(m, s) \in 1 .. MaxItems + 1
           /\ NextItem(m, s) # MaxItems + 1 => ItemOf(m, <<s, NextItem(m, s)>>).status = "ABSENT"
           /\ \A k \in 1 .. NextItem(m, s) - 1 : ItemOf(m, <<s, k>>).status # "ABSENT"
  <1> DEFINE P(n) == /\ n = MaxItems + 1 \/ ItemOf(m, Numbered(s, n)).status = "ABSENT"
                     /\ \A k \in 1 .. n - 1 : ItemOf(m, Numbered(s, k)).status # "ABSENT"
             S == {n \in 1 .. MaxItems + 1 : n = MaxItems + 1 \/ ItemOf(m, Numbered(s, n)).status = "ABSENT"}
  <1>1. S \in SUBSET Nat /\ MaxItems + 1 \in S
    BY Constants
  <1>2. PICK n \in S : \A k \in S : n <= k
    BY <1>1, LeastNat
  <1>3. n \in 1 .. MaxItems + 1 /\ P(n)
    BY <1>2, Constants
  <1>4. NextItem(m, s) = CHOOSE x \in 1 .. MaxItems + 1 : P(x)
    BY DEF NextItem
  <1>5. NextItem(m, s) \in 1 .. MaxItems + 1 /\ P(NextItem(m, s))
    <2> HIDE DEF P
    <2> QED
      BY <1>3, <1>4
  <1> QED
    BY <1>5 DEF Numbered

LEMMA TouchedFacts ==
    ASSUME TypeOK, NEW m \in Jobs, mapper[m].sku \in Skus, Sane(mapper[m].copy)
    PROVE  /\ Touched(m) \in Listings /\ Sane(Touched(m)) /\ Written(Touched(m))
           /\ mapper[m].copy.status # "ABSENT" => Touched(m).status = mapper[m].copy.status
           /\ mapper[m].copy.status # "ABSENT" => MappingOf(Touched(m)) = MappingOf(mapper[m].copy)
           /\ mapper[m].copy.status = "ABSENT" =>
                Touched(m).status = "UNMAPPED" /\ Touched(m).approver = "NONE"
           /\ Touched(m).live = (mapper[m].read[mapper[m].sku] = "ACTIVE")
  <1> DEFINE on == mapper[m].read[mapper[m].sku] = "ACTIVE"
             c == mapper[m].copy
  <1>1. c \in Listings /\ on \in BOOLEAN
    BY SeenTypes DEF MapperStates
  <1>2. Touched(m) = IF c.status = "ABSENT" THEN [NoListing EXCEPT !.status = "UNMAPPED", !.live = on]
                     ELSE [c EXCEPT !.live = on]
    BY DEF Touched
  <1>3. Sane(c)
    OBVIOUS
  <1> HIDE DEF on, c
  <1>4. CASE c.status = "ABSENT"
    <2>1. Touched(m) = [NoListing EXCEPT !.status = "UNMAPPED", !.live = on]
      BY <1>2, <1>4
    <2>2. Touched(m) = [status |-> "UNMAPPED", product |-> None, method |-> "NONE",
                        approver |-> "NONE", live |-> on]
      BY <2>1 DEF NoListing
    <2> QED
      BY <1>1, <1>4, <2>2 DEF Listings, Sane, Written, on, c
  <1>5. CASE c.status # "ABSENT"
    <2>1. Touched(m) = [c EXCEPT !.live = on]
      BY <1>2, <1>5
    <2>2. Touched(m) \in Listings
      BY <1>1, <2>1 DEF Listings
    <2>3. /\ Touched(m).status = c.status /\ Touched(m).product = c.product
          /\ Touched(m).method = c.method /\ Touched(m).approver = c.approver /\ Touched(m).live = on
      BY <1>1, <2>1 DEF Listings
    <2> QED
      BY <1>3, <1>5, <2>2, <2>3 DEF Sane, Written, MappingOf, on, c
  <1> QED
    BY <1>4, <1>5

LEMMA RemappedFacts ==
    ASSUME NEW l \in Listings, NEW r \in Verdicts
    PROVE  /\ Remapped(l, r) \in Listings
           /\ Remapped(l, r).status = r.outcome /\ Remapped(l, r).product = r.product
           /\ Remapped(l, r).approver = IF r.outcome = "APPROVED" THEN "SYSTEM" ELSE "NONE"
           /\ Sane(Remapped(l, r)) /\ Written(Remapped(l, r))
  <1> DEFINE who == IF r.outcome = "APPROVED" THEN "SYSTEM" ELSE "NONE"
  <1>1. /\ r.outcome \in {"UNMAPPED", "PENDING", "APPROVED"} /\ r.product \in Products \union {None}
        /\ r.method \in {"NONE", "UPC", "AMAZON_SKU_MAPPING"} /\ who \in {"NONE", "SYSTEM"}
    BY DEF Verdicts
  <1>2. Remapped(l, r) = [l EXCEPT !.product = r.product, !.status = r.outcome, !.method = r.method,
                                   !.approver = who]
    BY DEF Remapped
  <1>3. who = IF r.outcome = "APPROVED" THEN "SYSTEM" ELSE "NONE"
    OBVIOUS
  <1> HIDE DEF who
  <1>4. Remapped(l, r) = [status |-> r.outcome, product |-> r.product, method |-> r.method,
                          approver |-> who, live |-> l.live]
    BY <1>2 DEF Listings
  <1>5. l.live \in BOOLEAN
    BY DEF Listings
  <1>6. Remapped(l, r) \in Listings
    BY <1>1, <1>4, <1>5 DEF Listings, Settled
  <1> QED
    BY <1>1, <1>3, <1>4, <1>6 DEF Sane, Written

\* What the chain says of the listing in hand.
Said(m) == resolve_listing(named[mapper[m].sku], barcoded[mapper[m].sku])

LEMMA SaidFacts ==
    ASSUME TypeOK, ListingsFit, NEW m \in Jobs, mapper[m].sku \in Skus
    PROVE  /\ Said(m) \in Verdicts
           /\ Said(m).outcome = "APPROVED" => named[mapper[m].sku] = {Said(m).product}
  <1>1. named[mapper[m].sku] \in SUBSET Products /\ barcoded[mapper[m].sku] \in SUBSET Products
    BY DEF TypeOK
  <1>2. named[mapper[m].sku] = {} \/ \E p \in Products : named[mapper[m].sku] = {p}
    BY DEF ListingsFit
  <1> QED
    BY <1>1, <1>2, ResolveFacts DEF Said

LEMMA MappedFacts ==
    ASSUME TypeOK, ListingsFit, NEW m \in Jobs, mapper[m].sku \in Skus, Sane(mapper[m].copy)
    PROVE  /\ Mapped(m) = IF Open(Touched(m)) THEN Remapped(Touched(m), Said(m)) ELSE Touched(m)
           /\ Mapped(m) \in Listings /\ Sane(Mapped(m)) /\ Written(Mapped(m))
  BY TouchedFacts, SaidFacts, RemappedFacts DEF Mapped, Said

LEMMA AnsweredFacts ==
    ASSUME NEW i \in QueueItems, NEW r \in Verdicts
    PROVE  /\ Answered(i, r) \in QueueItems
           /\ Answered(i, r).status = IF r.outcome = "APPROVED" THEN "APPROVED" ELSE i.status
           /\ Opened(r) \in QueueItems /\ Opened(r).status = "PENDING"
  BY IdleTypes DEF Answered, Opened, QueueItems, Verdicts, NoItem

----------------------------------------------------------------------------
(* The tables keep their types *)

\* A step of one job's process that leaves everything else of the tables.
LEMMA MapperTypes ==
    ASSUME TypeOK, NEW m \in Jobs, NEW new \in MapperStates, mapper' = [mapper EXCEPT ![m] = new],
           UNCHANGED <<worldVars, listing, item, snapshots, reviewer>>,
           run' \in [Runs -> {"ABSENT", "RUNNING", "COMPLETED", "COMPLETED_WITH_ERRORS", "FAILED"}],
           looks' \in 0 .. MaxLooks, faults' \in 0 .. MaxFaults
    PROVE  TypeOK'
  BY DEF TypeOK, worldVars

LEMMA MappersAreTyped ==
    ASSUME TypeOK, NEW m \in Jobs
    PROVE  /\ mapper[m] \in MapperStates /\ mapper[m].no \in Nat /\ mapper[m].todo \in SUBSET Skus
           /\ mapper[m].sku \in Skus \union {None} /\ mapper[m].copy \in Listings
           /\ mapper[m].verdict \in Verdicts /\ mapper[m].open \in 0 .. MaxItems
           /\ mapper[m].asked \in QueueItems /\ mapper[m].rows \in [Skus -> Listings]
           /\ mapper[m].items \in [Items -> QueueItems]
           /\ mapper[m].pc \in {"idle", "fetch", "look", "map", "queue"}
  BY DEF TypeOK, MapperStates

LEMMA ReviewersAreTyped ==
    ASSUME TypeOK, NEW r \in Reviewers
    PROVE  /\ reviewer[r] \in ReviewerStates /\ reviewer[r].pc \in {"idle", "decide"}
           /\ reviewer[r].of \in Items \union {None}
           /\ reviewer[r].copy \in Listings /\ reviewer[r].asked \in QueueItems
  BY DEF TypeOK, ReviewerStates

LEMMA WorldTypes ==
    ASSUME TypeOK, NEW s \in Skus,
           Relist(s) \/ \E p \in Products : Name(s, p) \/ Barcode(s, p)
    PROVE  TypeOK'
  <1>1. UNCHANGED <<dbVars, mapper, reviewer, looks, faults>>
    BY DEF Relist, Name, Barcode
  <1>2. changes' \in 0 .. MaxChanges
    BY BoundsAssumption DEF TypeOK, Relist, Name, Barcode, Changes
  <1>3. /\ report' \in [Skus -> {"ABSENT", "ACTIVE", "INACTIVE"}]
        /\ named' \in [Skus -> SUBSET Products] /\ barcoded' \in [Skus -> SUBSET Products]
    <2>1. CASE Relist(s)
      BY <2>1 DEF TypeOK, Relist
    <2>2. ASSUME NEW p \in Products, Name(s, p) PROVE <1>3
      BY <2>2 DEF TypeOK, Name
    <2>3. ASSUME NEW p \in Products, Barcode(s, p) PROVE <1>3
      BY <2>3 DEF TypeOK, Barcode
    <2> QED
      BY <2>1, <2>2, <2>3
  <1> QED
    BY <1>1, <1>2, <1>3 DEF TypeOK, dbVars

LEMMA StartTypes ==
    ASSUME TypeOK, NEW m \in Jobs, Start(m)
    PROVE  TypeOK'
  <1>1. PICK n \in 1 .. MaxRuns[m] :
            /\ run' = [r \in Runs |-> IF r = <<m, n>> THEN "RUNNING"
                                      ELSE IF r[1] = m /\ run[r] = "RUNNING" THEN "FAILED" ELSE run[r]]
            /\ mapper' = [mapper EXCEPT ![m].pc = "fetch", ![m].no = n]
    BY DEF Start
  <1> DEFINE new == [mapper[m] EXCEPT !.pc = "fetch", !.no = n]
  <1>2. new \in MapperStates
    <2>1. mapper[m] \in MapperStates /\ n \in Nat
      BY MappersAreTyped, Constants
    <2> QED
      BY <2>1 DEF MapperStates
  <1>3. mapper' = [mapper EXCEPT ![m] = new]
    BY <1>1 DEF TypeOK
  <1>4. run' \in [Runs -> {"ABSENT", "RUNNING", "COMPLETED", "COMPLETED_WITH_ERRORS", "FAILED"}]
    BY <1>1 DEF TypeOK
  <1>5. UNCHANGED <<worldVars, listing, item, snapshots, reviewer, looks, faults>>
    BY DEF Start
  <1> HIDE DEF new
  <1> QED
    BY <1>2, <1>3, <1>4, <1>5, MapperTypes DEF TypeOK

LEMMA FetchTypes ==
    ASSUME TypeOK, NEW m \in Jobs, Fetch(m)
    PROVE  TypeOK'
  <1> DEFINE on == {s \in Skus : report[s] # "ABSENT"}
             new == [mapper[m] EXCEPT !.pc = "look", !.read = report, !.todo = on]
  <1>1. mapper' = [mapper EXCEPT ![m] = new]
    BY DEF Fetch, TypeOK
  <1>2. new \in MapperStates
    <2>1. /\ mapper[m] \in MapperStates /\ on \in SUBSET Skus
          /\ report \in [Skus -> {"ABSENT", "ACTIVE", "INACTIVE"}]
      BY MappersAreTyped DEF TypeOK
    <2> QED
      BY <2>1 DEF MapperStates
  <1>3. looks' = looks + Cardinality(on) /\ looks' <= MaxLooks
    BY DEF Fetch
  <1>4. Cardinality(on) \in Nat
    BY FiniteAssumption, FS_Subset, FS_CardinalityType
  <1>5. UNCHANGED <<worldVars, dbVars, reviewer, faults>>
    BY DEF Fetch
  <1> HIDE DEF new, on
  <1>6. looks' \in 0 .. MaxLooks
    BY <1>3, <1>4, BoundsAssumption DEF TypeOK
  <1> QED
    BY <1>1, <1>2, <1>5, <1>6, MapperTypes DEF TypeOK, dbVars

LEMMA LookTypes ==
    ASSUME TypeOK, NEW m \in Jobs, NEW s \in Skus, Look(m, s)
    PROVE  TypeOK'
  <1> DEFINE new == [mapper[m] EXCEPT !.pc = "map", !.sku = s, !.copy = Listing(m, s),
                                      !.todo = mapper[m].todo \ {s}]
  <1>1. mapper' = [mapper EXCEPT ![m] = new]
    BY DEF Look, TypeOK
  <1>2. new \in MapperStates
    <2>1. mapper[m] \in MapperStates /\ Listing(m, s) \in Listings
      BY SeenTypes
    <2>2. mapper[m].todo \ {s} \in SUBSET Skus
      BY MappersAreTyped
    <2> QED
      BY <2>1, <2>2 DEF MapperStates
  <1>3. UNCHANGED <<worldVars, dbVars, reviewer, looks, faults>>
    BY DEF Look
  <1> HIDE DEF new
  <1> QED
    BY <1>1, <1>2, <1>3, MapperTypes DEF TypeOK, dbVars

LEMMA EndTypes ==
    ASSUME TypeOK, NEW m \in Jobs, Fail(m) \/ Crash(m)
    PROVE  TypeOK'
  <1>1. mapper' = [mapper EXCEPT ![m] = IdleMapper]
    BY DEF Fail, Crash
  <1>2. faults' \in 0 .. MaxFaults
    BY BoundsAssumption DEF TypeOK, Fail, Crash
  <1>3. run' \in [Runs -> {"ABSENT", "RUNNING", "COMPLETED", "COMPLETED_WITH_ERRORS", "FAILED"}]
    BY DEF TypeOK, Fail, Crash, dbVars
  <1>4. UNCHANGED <<worldVars, listing, item, snapshots, reviewer, looks>>
    BY DEF Fail, Crash, dbVars
  <1> QED
    BY <1>1, <1>2, <1>3, <1>4, IdleTypes, MapperTypes DEF TypeOK

LEMMA CommitTypes ==
    ASSUME TypeOK, NEW m \in Jobs, MapperFits(m), Commit(m)
    PROVE  TypeOK'
  <1> DEFINE active == {s \in Skus : mapper[m].read[s] = "ACTIVE"}
  <1>1. listing' \in [Skus -> Listings] /\ item' \in [Items -> QueueItems]
    BY SeenTypes DEF Commit
  <1>2. run' \in [Runs -> {"ABSENT", "RUNNING", "COMPLETED", "COMPLETED_WITH_ERRORS", "FAILED"}]
    BY DEF TypeOK, Commit
  <1>3. <<m, mapper[m].no>> \in Runs
    BY RunFacts DEF Commit, MapperFits
  <1>4. snapshots' \subseteq [run : Runs, sku : Skus, from : {"fba_inventory", "listings_report"}]
    <2>1. {x \in [run : {<<m, mapper[m].no>>}, sku : active, from : {"fba_inventory", "listings_report"}] :
              x.from \in Placed(x.sku)}
            \subseteq [run : Runs, sku : Skus, from : {"fba_inventory", "listings_report"}]
      BY <1>3
    <2> QED
      BY <2>1 DEF TypeOK, Commit
  <1>5. mapper' \in [Jobs -> MapperStates]
    BY IdleTypes DEF TypeOK, Commit
  <1> QED
    BY <1>1, <1>2, <1>4, <1>5 DEF TypeOK, Commit, worldVars

----------------------------------------------------------------------------
(* One listing mapped, and its item written *)

\* What the step makes of the mapper.
MapsTo(m, new) ==
    LET me == mapper[m] IN
    /\ mapper' = [mapper EXCEPT ![m] = new]
    /\ new.no = me.no /\ new.read = me.read /\ new.todo = me.todo /\ new.sku = me.sku
    /\ new.items = me.items
    /\ new.copy = Mapped(m)
    /\ new.rows = IF Mapped(m) = me.copy THEN me.rows
                  ELSE [me.rows EXCEPT ![me.sku] = Merge(Listing(m, me.sku), me.copy, Mapped(m))]
    /\ ~Open(Touched(m)) => new.pc = "look" /\ new.open = me.open /\ new.asked = me.asked
    /\ Open(Touched(m)) =>
         /\ new.pc = "queue" /\ new.verdict = Said(m)
         /\ IF new.open = 0 THEN Pending(m, me.sku) = {}
            ELSE new.open \in Pending(m, me.sku) /\ new.asked = ItemOf(m, <<me.sku, new.open>>)

LEMMA MapStep ==
    ASSUME TypeOK, ListingsFit, NEW m \in Jobs, MapperFits(m), Map(m)
    PROVE  \E new \in MapperStates : MapsTo(m, new)
  <1> DEFINE me == mapper[m]
             asks == Pending(m, me.sku)
             open == IF asks = {} THEN 0 ELSE CHOOSE n \in asks : TRUE
             asked == IF open = 0 THEN NoItem ELSE ItemOf(m, <<me.sku, open>>)
             row == Merge(Listing(m, me.sku), me.copy, Mapped(m))
             rows == IF Mapped(m) = me.copy THEN me.rows ELSE [me.rows EXCEPT ![me.sku] = row]
             after == IF ~Open(Touched(m)) THEN [me EXCEPT !.pc = "look"]
                      ELSE [me EXCEPT !.pc = "queue", !.open = open, !.verdict = Said(m), !.asked = asked]
             new == [after EXCEPT !.copy = Mapped(m), !.rows = rows]
  <1>1. /\ me \in MapperStates /\ me.sku \in Skus /\ Sane(me.copy) /\ me.copy \in Listings
        /\ me.rows \in [Skus -> Listings]
    BY MappersAreTyped DEF MapperFits, Map, At
  <1>2. /\ Said(m) \in Verdicts /\ Mapped(m) \in Listings /\ Listing(m, me.sku) \in Listings
    BY <1>1, SaidFacts, MappedFacts, SeenTypes
  <1>3. (open = 0 /\ asks = {}) \/ (open \in asks /\ open # 0)
    BY DEF Pending
  <1>4. open \in 0 .. MaxItems /\ (open # 0 => <<me.sku, open>> \in Items)
    BY <1>1, <1>3, Constants, ItemFacts DEF Pending
  <1>5. asked \in QueueItems
    BY <1>4, SeenTypes, IdleTypes
  <1>6. row \in Listings
    BY <1>1, <1>2, MergedListing
  <1>7. rows \in [Skus -> Listings]
    BY <1>1, <1>6
  <1>8. /\ Mapped(m) = me.copy => mapper' = [mapper EXCEPT ![m] = after]
        /\ Mapped(m) # me.copy =>
             mapper' = [mapper EXCEPT ![m] =
               [after EXCEPT !.copy = Mapped(m), !.rows = [after.rows EXCEPT ![me.sku] = row]]]
    BY DEF Map, Write, Said
  <1> HIDE DEF asks, open, asked, row
  <1>9. after \in MapperStates /\ after.rows = me.rows /\ after.copy = me.copy
    BY <1>1, <1>2, <1>4, <1>5 DEF MapperStates
  <1>10. mapper' = [mapper EXCEPT ![m] = new]
    <2>1. CASE Mapped(m) = me.copy
      <3>1. rows = after.rows /\ Mapped(m) = after.copy
        BY <1>9, <2>1
      <3> HIDE DEF after, rows
      <3>2. new = after
        BY <1>9, <3>1 DEF MapperStates
      <3> QED
        BY <1>8, <2>1, <3>2
    <2>2. CASE Mapped(m) # me.copy
      <3>1. rows = [after.rows EXCEPT ![me.sku] = row]
        BY <1>9, <2>2
      <3> HIDE DEF after, rows
      <3> QED
        BY <1>8, <2>2, <3>1
    <2> QED
      BY <2>1, <2>2
  <1> HIDE DEF after
  <1>11. new \in MapperStates
    BY <1>2, <1>7, <1>9 DEF MapperStates
  <1>13. /\ new.copy = Mapped(m) /\ new.rows = rows /\ new.pc = after.pc /\ new.no = after.no
         /\ new.read = after.read /\ new.todo = after.todo /\ new.sku = after.sku /\ new.items = after.items
         /\ new.open = after.open /\ new.asked = after.asked /\ new.verdict = after.verdict
    BY <1>9 DEF MapperStates
  <1>14. /\ after.no = me.no /\ after.read = me.read /\ after.todo = me.todo /\ after.sku = me.sku
         /\ after.items = me.items
         /\ ~Open(Touched(m)) => after.pc = "look" /\ after.open = me.open /\ after.asked = me.asked
         /\ Open(Touched(m)) => after.pc = "queue" /\ after.verdict = Said(m) /\ after.open = open
                                /\ after.asked = asked
    BY <1>1 DEF MapperStates, after
  <1> HIDE DEF new, rows
  <1>15. MapsTo(m, new)
    BY <1>3, <1>10, <1>13, <1>14 DEF MapsTo, rows, row, asks, asked
  <1> QED
    BY <1>11, <1>15

\* What the queue step writes.
WrittenItem(m, i) ==
    IF mapper[m].open = 0 THEN Opened(mapper[m].verdict)
    ELSE Merge(ItemOf(m, i), mapper[m].asked, Answered(mapper[m].asked, mapper[m].verdict))
QueuesTo(m, new) ==
    LET me == mapper[m] IN
    /\ mapper' = [mapper EXCEPT ![m] = new]
    /\ new.pc = "look" /\ new.copy = NoListing /\ new.open = 0
    /\ new.no = me.no /\ new.read = me.read /\ new.todo = me.todo /\ new.rows = me.rows
    /\ new.items = [i \in Items |-> IF i \in Subject(m) THEN WrittenItem(m, i) ELSE me.items[i]]

LEMMA WrittenItems ==
    ASSUME TypeOK, NEW m \in Jobs, NEW i \in Items
    PROVE  /\ WrittenItem(m, i) \in QueueItems
           /\ mapper[m].open = 0 => WrittenItem(m, i).status = "PENDING"
           /\ mapper[m].open # 0 /\ mapper[m].asked.status = "PENDING" =>
                WrittenItem(m, i).status = IF mapper[m].verdict.outcome = "APPROVED" THEN "APPROVED"
                                           ELSE ItemOf(m, i).status
           /\ mapper[m].open # 0 /\ mapper[m].asked = ItemOf(m, i) =>
                WrittenItem(m, i) = Answered(mapper[m].asked, mapper[m].verdict)
  <1>1. ItemOf(m, i) \in QueueItems /\ mapper[m].asked \in QueueItems /\ mapper[m].verdict \in Verdicts
    BY SeenTypes, MappersAreTyped
  <1>2. /\ Answered(mapper[m].asked, mapper[m].verdict) \in QueueItems
        /\ Answered(mapper[m].asked, mapper[m].verdict).status =
             IF mapper[m].verdict.outcome = "APPROVED" THEN "APPROVED" ELSE mapper[m].asked.status
        /\ Opened(mapper[m].verdict) \in QueueItems /\ Opened(mapper[m].verdict).status = "PENDING"
    BY <1>1, AnsweredFacts
  <1>3. /\ Merge(ItemOf(m, i), mapper[m].asked, Answered(mapper[m].asked, mapper[m].verdict)) \in QueueItems
        /\ mapper[m].asked.status = "PENDING" =>
             Merge(ItemOf(m, i), mapper[m].asked, Answered(mapper[m].asked, mapper[m].verdict)).status =
               IF mapper[m].verdict.outcome = "APPROVED" THEN "APPROVED" ELSE ItemOf(m, i).status
        /\ mapper[m].asked = ItemOf(m, i) =>
             Merge(ItemOf(m, i), mapper[m].asked, Answered(mapper[m].asked, mapper[m].verdict)) =
               Answered(mapper[m].asked, mapper[m].verdict)
    BY <1>1, <1>2, MergedItem
  <1> QED
    BY <1>2, <1>3 DEF WrittenItem

LEMMA QueueStep ==
    ASSUME TypeOK, NEW m \in Jobs, Queue(m)
    PROVE  \E new \in MapperStates : QueuesTo(m, new)
  <1> DEFINE me == mapper[m]
             items == [i \in Items |-> IF i \in Subject(m) THEN WrittenItem(m, i) ELSE me.items[i]]
             new == [me EXCEPT !.pc = "look", !.sku = None, !.copy = NoListing, !.verdict = NoVerdict,
                               !.open = 0, !.asked = NoItem, !.items = items]
  <1>1. me \in MapperStates /\ items \in [Items -> QueueItems]
    BY MappersAreTyped, WrittenItems
  <1>2. mapper' = [mapper EXCEPT ![m] = new]
    BY DEF Queue, WrittenItem
  <1>3. 0 \in 0 .. MaxItems
    BY Constants
  <1> HIDE DEF items
  <1>4. new \in MapperStates
    BY <1>1, <1>3, IdleTypes DEF MapperStates
  <1>5. /\ new.pc = "look" /\ new.copy = NoListing /\ new.open = 0
        /\ new.no = me.no /\ new.read = me.read /\ new.todo = me.todo /\ new.rows = me.rows
        /\ new.items = items
    BY <1>1 DEF MapperStates
  <1> HIDE DEF new
  <1>6. QueuesTo(m, new)
    BY <1>2, <1>5 DEF QueuesTo, items
  <1> QED
    BY <1>4, <1>6

----------------------------------------------------------------------------
(* References, locks and open items, whoever overlaps whom *)

LEMMA InitSound ==
    ASSUME Init
    PROVE  Sound
  <1>1. TypeOK
    BY IdleTypes, BoundsAssumption DEF Init, TypeOK
  <1>2. ListingsFit
    BY DEF Init, ListingsFit, Sane, NoListing
  <1>3. ASSUME NEW m \in Jobs PROVE MapperFits(m) /\ OpensFew(m)
    <2>1. mapper[m] = IdleMapper
      BY DEF Init
    <2> QED
      BY <2>1 DEF MapperFits, OpensFew, IdleMapper, Mapping, At, Sane, Written, NoListing, NoRows, NoItem, NoItems
  <1>4. ItemsLocked
    BY DEF Init, ItemsLocked, IdleMapper, NoItems, NoItem, Written
  <1>5. \A r \in Reviewers : ReviewerFits(r)
    BY DEF Init, ReviewerFits, Considering, IdleReviewer
  <1>6. OneOpenItem
    BY DEF Init, OneOpenItem, NoItem
  <1> QED
    BY <1>1, <1>2, <1>3, <1>4, <1>5, <1>6 DEF Sound

\* A step of one job's process that leaves the tables alone.
LEMMA MapperSound ==
    ASSUME Sound, TypeOK', NEW m \in Jobs, NEW new \in MapperStates, mapper' = [mapper EXCEPT ![m] = new],
           UNCHANGED <<named, listing, item, reviewer>>,
           MapperFits(m)', OpensFew(m)',
           \A k \in Jobs \ {m} : \A i \in Items : Written(new.items[i]) => ~Written(mapper[k].items[i])
    PROVE  Sound'
  <1>1. mapper'[m] = new /\ \A k \in Jobs \ {m} : mapper'[k] = mapper[k]
    BY DEF Sound, TypeOK
  <1>2. ListingsFit'
    BY DEF Sound, ListingsFit
  <1>3. ASSUME NEW k \in Jobs PROVE MapperFits(k)' /\ OpensFew(k)'
    <2>1. CASE k = m
      BY <2>1
    <2>2. CASE k # m
      BY <1>1, <2>2 DEF Sound, MapperFits, OpensFew, Fresh, Mapping, At
    <2> QED
      BY <2>1, <2>2
  <1>4. ItemsLocked'
    BY <1>1 DEF Sound, ItemsLocked
  <1>5. (\A r \in Reviewers : ReviewerFits(r))' /\ OneOpenItem'
    BY DEF Sound, ReviewerFits, Considering, OneOpenItem
  <1> QED
    BY <1>2, <1>3, <1>4, <1>5 DEF Sound

LEMMA WorldSound ==
    ASSUME Sound, NEW s \in Skus,
           Relist(s) \/ \E p \in Products : Name(s, p) \/ Barcode(s, p)
    PROVE  Sound'
  <1>1. TypeOK'
    BY WorldTypes DEF Sound
  <1>2. UNCHANGED <<dbVars, mapper, reviewer>>
    BY DEF Relist, Name, Barcode
  <1>3. \A t \in Skus : named'[t] = {} \/ \E p \in Products : named'[t] = {p}
    BY DEF Sound, TypeOK, ListingsFit, Relist, Name, Barcode
  <1> QED
    BY <1>1, <1>2, <1>3
    DEF dbVars, Sound, ListingsFit, MapperFits, OpensFew, Fresh, Mapping, At, ItemsLocked, ReviewerFits,
        Considering, OneOpenItem

LEMMA StartSound ==
    ASSUME Sound, NEW m \in Jobs, Start(m)
    PROVE  Sound'
  <1>1. PICK n \in 1 .. MaxRuns[m] : mapper' = [mapper EXCEPT ![m].pc = "fetch", ![m].no = n]
    BY DEF Start
  <1>2. mapper[m] \in MapperStates
    BY MappersAreTyped DEF Sound
  <1> DEFINE new == [mapper[m] EXCEPT !.pc = "fetch", !.no = n]
  <1>3. TypeOK'
    BY StartTypes DEF Sound
  <1>4. /\ new \in MapperStates /\ mapper' = [mapper EXCEPT ![m] = new]
        /\ new.pc = "fetch" /\ new.no = n /\ new.todo = mapper[m].todo /\ new.sku = mapper[m].sku
        /\ new.copy = mapper[m].copy /\ new.open = mapper[m].open /\ new.asked = mapper[m].asked
        /\ new.rows = mapper[m].rows /\ new.items = mapper[m].items
    <2>1. mapper \in [Jobs -> MapperStates]
      BY DEF Sound, TypeOK
    <2>2. mapper' = [mapper EXCEPT ![m] = new]
      BY <1>1, <2>1 DEF Start
    <2>3. mapper' \in [Jobs -> MapperStates]
      BY <1>3 DEF TypeOK
    <2>4. new \in MapperStates
      BY <2>1, <2>2, <2>3
    <2> QED
      BY <1>2, <2>2, <2>4 DEF MapperStates
  <1>5. mapper[m].pc = "idle"
    BY DEF Start
  <1>6. MapperFits(m)'
    BY <1>4, <1>5 DEF Sound, MapperFits, Mapping, At
  <1>7. UNCHANGED <<named, listing, item, reviewer>>
    BY DEF Start, worldVars
  <1>8. OpensFew(m)'
    BY <1>4, <1>7 DEF Sound, OpensFew, Fresh
  <1>9. \A k \in Jobs \ {m} : \A i \in Items : Written(new.items[i]) => ~Written(mapper[k].items[i])
    BY <1>4 DEF Sound, ItemsLocked
  <1> HIDE DEF new
  <1> QED
    BY <1>3, <1>4, <1>6, <1>7, <1>8, <1>9, MapperSound

LEMMA FetchSound ==
    ASSUME Sound, NEW m \in Jobs, Fetch(m)
    PROVE  Sound'
  <1> DEFINE new == [mapper[m] EXCEPT !.pc = "look", !.read = report,
                                      !.todo = {s \in Skus : report[s] # "ABSENT"}]
  <1>1. mapper[m] \in MapperStates
    BY MappersAreTyped DEF Sound
  <1>2. TypeOK'
    BY FetchTypes DEF Sound
  <1>3. /\ new \in MapperStates /\ mapper' = [mapper EXCEPT ![m] = new]
        /\ new.pc = "look" /\ new.no = mapper[m].no
        /\ new.copy = mapper[m].copy /\ new.open = mapper[m].open /\ new.asked = mapper[m].asked
        /\ new.rows = mapper[m].rows /\ new.items = mapper[m].items
    <2>1. mapper \in [Jobs -> MapperStates]
      BY DEF Sound, TypeOK
    <2>2. mapper' = [mapper EXCEPT ![m] = new]
      BY <1>1, <2>1 DEF Fetch
    <2>3. mapper' \in [Jobs -> MapperStates]
      BY <1>2 DEF TypeOK
    <2>4. new \in MapperStates
      BY <2>1, <2>2, <2>3
    <2> QED
      BY <1>1, <2>2, <2>4 DEF MapperStates
  <1>4. mapper[m].pc = "fetch"
    BY DEF Fetch
  <1>5. mapper[m].rows = NoRows /\ mapper[m].items = NoItems
    BY <1>4 DEF Sound, MapperFits, Mapping
  <1>6. MapperFits(m)'
    BY <1>3, <1>4, <1>5 DEF Sound, MapperFits, Mapping, At, NoRows, NoItems, NoItem, NoListing, Written, Sane
  <1>7. UNCHANGED <<named, listing, item, reviewer>>
    BY DEF Fetch, worldVars, dbVars
  <1>8. OpensFew(m)'
    BY <1>3, <1>7 DEF Sound, OpensFew, Fresh
  <1>9. \A k \in Jobs \ {m} : \A i \in Items : Written(new.items[i]) => ~Written(mapper[k].items[i])
    BY <1>3 DEF Sound, ItemsLocked
  <1> HIDE DEF new
  <1> QED
    BY <1>2, <1>3, <1>6, <1>7, <1>8, <1>9, MapperSound

LEMMA LookSound ==
    ASSUME Sound, NEW m \in Jobs, NEW s \in Skus, Look(m, s)
    PROVE  Sound'
  <1> DEFINE new == [mapper[m] EXCEPT !.pc = "map", !.sku = s, !.copy = Listing(m, s),
                                      !.todo = mapper[m].todo \ {s}]
  <1>1. mapper[m] \in MapperStates /\ Listing(m, s) \in Listings
    BY MappersAreTyped, SeenTypes DEF Sound
  <1>2. TypeOK'
    BY LookTypes DEF Sound
  <1>3. /\ new \in MapperStates /\ mapper' = [mapper EXCEPT ![m] = new]
        /\ new.pc = "map" /\ new.no = mapper[m].no /\ new.sku = s /\ new.todo = mapper[m].todo \ {s}
        /\ new.copy = Listing(m, s) /\ new.open = mapper[m].open /\ new.asked = mapper[m].asked
        /\ new.rows = mapper[m].rows /\ new.items = mapper[m].items
    <2>1. mapper \in [Jobs -> MapperStates]
      BY DEF Sound, TypeOK
    <2>2. mapper' = [mapper EXCEPT ![m] = new]
      BY <1>1, <2>1 DEF Look
    <2>3. mapper' \in [Jobs -> MapperStates]
      BY <1>2 DEF TypeOK
    <2>4. new \in MapperStates
      BY <2>1, <2>2, <2>3
    <2> QED
      BY <1>1, <2>2, <2>4 DEF MapperStates
  <1>4. mapper[m].pc = "look" /\ s \in mapper[m].todo
    BY DEF Look
  <1>5. Sane(Listing(m, s))
    BY DEF Sound, MapperFits, ListingsFit, Listing, Over
  <1>6. MapperFits(m)'
    <2>1. MapperFits(m)
      BY DEF Sound
    <2>2. ~Written(mapper[m].rows[s])
      BY <1>4, <2>1 DEF MapperFits
    <2>3. \A i \in Items : Written(new.items[i]) => i[1] \notin new.todo /\ i[1] # s
      BY <1>3, <1>4, <2>1 DEF MapperFits
    <2>4. mapper'[m] = new
      BY <1>3 DEF Sound, TypeOK
    <2> HIDE DEF new
    <2> QED
      BY <1>3, <1>4, <1>5, <2>1, <2>2, <2>3, <2>4 DEF MapperFits, Mapping, At
  <1>7. UNCHANGED <<named, listing, item, reviewer>>
    BY DEF Look, worldVars, dbVars
  <1>8. OpensFew(m)'
    BY <1>3, <1>7 DEF Sound, OpensFew, Fresh
  <1>9. \A k \in Jobs \ {m} : \A i \in Items : Written(new.items[i]) => ~Written(mapper[k].items[i])
    BY <1>3 DEF Sound, ItemsLocked
  <1> HIDE DEF new
  <1> QED
    BY <1>2, <1>3, <1>6, <1>7, <1>8, <1>9, MapperSound

LEMMA MapSound ==
    ASSUME Sound, NEW m \in Jobs, Map(m)
    PROVE  Sound'
  <1> DEFINE me == mapper[m]
             s == mapper[m].sku
  <1>1. TypeOK /\ ListingsFit /\ MapperFits(m)
    BY DEF Sound
  <1>2. PICK new \in MapperStates : MapsTo(m, new)
    BY <1>1, MapStep
  <1>3. /\ me \in MapperStates /\ me.pc = "map" /\ s \in Skus \ me.todo /\ Sane(me.copy)
        /\ ~Written(me.rows[s])
    BY <1>1, MappersAreTyped DEF Map, MapperFits, At
  <1>4. UNCHANGED <<worldVars, dbVars, reviewer, looks, faults>>
    BY DEF Map
  <1>5. TypeOK'
    BY <1>1, <1>2, <1>4, MapperTypes DEF MapsTo, TypeOK, dbVars
  <1>6. mapper'[m] = new
    BY <1>1, <1>2 DEF TypeOK, MapsTo
  <1>7. Sane(Mapped(m)) /\ Mapped(m) \in Listings
    BY <1>1, <1>3, MappedFacts
  <1>8. Sane(Listing(m, s)) /\ Listing(m, s) \in Listings /\ me.copy \in Listings
    BY <1>1, <1>3, SeenTypes, MappersAreTyped DEF MapperFits, ListingsFit, Listing, Over
  <1>9. Sane(Merge(Listing(m, s), me.copy, Mapped(m)))
    BY <1>7, <1>8, MergedListing
  <1>10. \A t \in Skus : Sane(new.rows[t]) /\ (Written(new.rows[t]) => t \notin new.todo)
    BY <1>1, <1>2, <1>3, <1>9, MappersAreTyped DEF MapsTo, MapperFits
  <1>11. new.open # 0 => new.asked.status = "PENDING"
    BY <1>1, <1>2 DEF MapsTo, MapperFits, Pending, Numbered
  <1>12. MapperFits(m)'
    BY <1>1, <1>2, <1>3, <1>6, <1>7, <1>10, <1>11 DEF MapsTo, MapperFits, Mapping, At
  <1>13. OpensFew(m)'
    BY <1>2, <1>4, <1>6 DEF MapsTo, Sound, OpensFew, Fresh, dbVars
  <1>14. \A k \in Jobs \ {m} : \A i \in Items : Written(new.items[i]) => ~Written(mapper[k].items[i])
    BY <1>2 DEF MapsTo, Sound, ItemsLocked
  <1> QED
    BY <1>2, <1>4, <1>5, <1>12, <1>13, <1>14, MapperSound DEF MapsTo, worldVars, dbVars

\* The item the queue step is about, of the listing in hand.
LEMMA SubjectFacts ==
    ASSUME Sound, NEW m \in Jobs, mapper[m].pc = "queue", \A i \in Subject(m) : i \in Items
    PROVE  /\ \A i \in Subject(m) : i \in Items /\ i[1] = mapper[m].sku
           /\ \A i \in Items : i[1] = mapper[m].sku => ~Written(mapper[m].items[i]) /\ ItemOf(m, i) = item[i]
           /\ \A i, k \in Subject(m) : i = k
           /\ mapper[m].open = 0 /\ Pending(m, mapper[m].sku) = {} => \A i \in Subject(m) : Fresh(i)
  <1> DEFINE s == mapper[m].sku
  <1>1. MapperFits(m) /\ s \in Skus
    BY DEF Sound, MapperFits, At
  <1>2. \A i \in Subject(m) : i[1] = s
    BY DEF Subject
  <1>3. \A i \in Items : i[1] = s => ~Written(mapper[m].items[i]) /\ ItemOf(m, i) = item[i]
    BY <1>1 DEF MapperFits, At, ItemOf, Over
  <1>4. \A i, k \in Subject(m) : i = k
    BY DEF Subject
  <1>5. ASSUME mapper[m].open = 0, Pending(m, s) = {}, NEW i \in Subject(m)
        PROVE  Fresh(i)
    <2>1. i = <<s, NextItem(m, s)>> /\ i \in Items /\ i[2] = NextItem(m, s) /\ i[2] \in 1 .. MaxItems
      BY <1>5, ItemFacts DEF Subject
    <2>2. NextItem(m, s) # MaxItems + 1
      BY <2>1, Constants
    <2>3. ItemOf(m, i).status = "ABSENT"
      BY <1>1, <2>1, <2>2, NextItemFacts
    <2>4. ~Written(item[i])
      BY <1>2, <1>3, <2>1, <2>3 DEF Written
    <2>5. ASSUME NEW k \in Items, k[1] = i[1]
          PROVE  item[k].status # "PENDING" /\ (k[2] < i[2] => Written(item[k]))
      <3>1. k[1] = s /\ k = <<s, k[2]>> /\ k[2] \in 1 .. MaxItems /\ ItemOf(m, k) = item[k]
        BY <1>2, <1>3, <2>5, ItemFacts
      <3>2. item[k].status # "PENDING"
        BY <1>5, <3>1 DEF Pending, Numbered
      <3>3. ASSUME k[2] < i[2] PROVE Written(item[k])
        <4>1. k[2] \in 1 .. NextItem(m, s) - 1
          BY <2>1, <3>1, <3>3, Constants
        <4>2. ItemOf(m, <<s, k[2]>>).status # "ABSENT"
          BY <1>1, <4>1, NextItemFacts
        <4> QED
          BY <3>1, <4>2 DEF Written
      <3> QED
        BY <3>2, <3>3
    <2> QED
      BY <2>4, <2>5 DEF Fresh
  <1> QED
    BY <1>2, <1>3, <1>4, <1>5

LEMMA QueueSound ==
    ASSUME Sound, NEW m \in Jobs, Queue(m)
    PROVE  Sound'
  <1> DEFINE me == mapper[m]
             s == mapper[m].sku
  <1>1. TypeOK /\ MapperFits(m) /\ OpensFew(m) /\ ItemsLocked
    BY DEF Sound
  <1>2. PICK new \in MapperStates : QueuesTo(m, new)
    BY <1>1, QueueStep
  <1>3. me \in MapperStates /\ me.pc = "queue" /\ s \in Skus \ me.todo
    BY <1>1, MappersAreTyped DEF Queue, MapperFits, At
  <1>4. UNCHANGED <<worldVars, dbVars, reviewer, looks, faults>>
    BY DEF Queue
  <1>5. TypeOK'
    BY <1>1, <1>2, <1>4, MapperTypes DEF QueuesTo, TypeOK, dbVars
  <1>6. mapper'[m] = new
    BY <1>1, <1>2 DEF TypeOK, QueuesTo
  <1>7. /\ \A i \in Subject(m) : i \in Items /\ FreeFor(m, i)
        /\ Inserts(m) => Pending(m, s) = {}
    BY DEF Queue
  <1>8. /\ \A i \in Subject(m) : i[1] = s
        /\ \A i \in Items : i[1] = s => ~Written(me.items[i]) /\ ItemOf(m, i) = item[i]
        /\ \A i, k \in Subject(m) : i = k
    BY <1>3, <1>7, SubjectFacts
  <1>9. \A i \in Items : new.items[i] = IF i \in Subject(m) THEN WrittenItem(m, i) ELSE me.items[i]
    BY <1>2 DEF QueuesTo
  <1>10. MapperFits(m)'
    <2>1. \A i \in Items : Written(new.items[i]) => i[1] \notin me.todo
      BY <1>1, <1>3, <1>8, <1>9 DEF MapperFits
    <2>2. Sane(NoListing)
      BY DEF Sane, NoListing
    <2> QED
      BY <1>1, <1>2, <1>3, <1>6, <2>1, <2>2 DEF QueuesTo, MapperFits, Mapping, At
  <1>11. ASSUME NEW i \in Items, new.items[i].status = "PENDING"
         PROVE  item[i].status = "PENDING" \/ Fresh(i)
    <2>1. CASE i \notin Subject(m)
      BY <1>1, <1>9, <1>11, <2>1 DEF OpensFew
    <2>2. CASE i \in Subject(m) /\ me.open = 0
      <3>1. me.verdict.outcome # "APPROVED"
        BY <2>2 DEF Subject
      <3>2. Pending(m, s) = {}
        BY <1>7, <2>2, <3>1 DEF Inserts
      <3> QED
        BY <1>3, <1>7, <2>2, <3>2, SubjectFacts
    <2>3. CASE i \in Subject(m) /\ me.open # 0
      <3>1. me.asked.status = "PENDING"
        BY <1>1, <2>3 DEF MapperFits
      <3>2. WrittenItem(m, i).status = IF me.verdict.outcome = "APPROVED" THEN "APPROVED"
                                       ELSE ItemOf(m, i).status
        BY <1>1, <2>3, <3>1, WrittenItems
      <3> QED
        BY <1>8, <1>9, <1>11, <2>3, <3>2
    <2> QED
      BY <2>1, <2>2, <2>3
  <1>12. \A i, k \in Items : Written(new.items[i]) /\ Written(new.items[k]) /\ i[1] = k[1] => i = k
    BY <1>1, <1>8, <1>9 DEF OpensFew
  <1>13. OpensFew(m)'
    BY <1>4, <1>6, <1>11, <1>12 DEF OpensFew, Fresh, dbVars
  <1>14. ASSUME NEW k \in Jobs \ {m}, NEW i \in Items, Written(new.items[i])
         PROVE  ~Written(mapper[k].items[i])
    BY <1>1, <1>7, <1>9, <1>14 DEF FreeFor, Locked, ItemsLocked
  <1> QED
    BY <1>2, <1>4, <1>5, <1>10, <1>13, <1>14, MapperSound DEF QueuesTo, worldVars, dbVars

LEMMA EndSound ==
    ASSUME Sound, NEW m \in Jobs, Fail(m) \/ Crash(m)
    PROVE  Sound'
  <1>1. TypeOK'
    BY EndTypes DEF Sound
  <1>2. mapper' = [mapper EXCEPT ![m] = IdleMapper]
    BY DEF Fail, Crash
  <1>3. mapper'[m] = IdleMapper
    BY <1>2 DEF Sound, TypeOK
  <1>4. MapperFits(m)' /\ OpensFew(m)'
    BY <1>3 DEF MapperFits, OpensFew, IdleMapper, Mapping, At, Sane, Written, NoListing, NoRows, NoItem, NoItems
  <1>5. \A i \in Items : ~Written(IdleMapper.items[i])
    BY DEF IdleMapper, NoItems, NoItem, Written
  <1>6. UNCHANGED <<named, listing, item, reviewer>>
    BY DEF Fail, Crash, worldVars, dbVars
  <1> QED
    BY <1>1, <1>2, <1>4, <1>5, <1>6, IdleTypes, MapperSound

LEMMA CommitSound ==
    ASSUME Sound, NEW m \in Jobs, Commit(m)
    PROVE  Sound'
  <1> DEFINE mine(i) == mapper[m].items[i]
  <1>1. TypeOK /\ MapperFits(m) /\ OpensFew(m) /\ ItemsLocked /\ OneOpenItem
    BY DEF Sound
  <1>2. TypeOK'
    BY <1>1, CommitTypes
  <1>3. /\ mapper' = [mapper EXCEPT ![m] = IdleMapper]
        /\ UNCHANGED <<named, reviewer>>
        /\ \A i \in Items : item'[i] = IF Written(mine(i)) THEN mine(i) ELSE item[i]
        /\ \A s \in Skus : listing'[s] = Listing(m, s)
    BY DEF Commit, worldVars, ItemOf, Over
  <1>4. mapper'[m] = IdleMapper /\ \A k \in Jobs \ {m} : mapper'[k] = mapper[k]
    BY <1>1, <1>3 DEF TypeOK
  <1>5. ListingsFit'
    BY <1>1, <1>3 DEF Sound, ListingsFit, MapperFits, Listing, Over
  <1>6. \A i \in Items :
          /\ Written(mine(i)) /\ mine(i).status = "PENDING" => item[i].status = "PENDING" \/ Fresh(i)
          /\ item'[i].status = "PENDING" => item[i].status = "PENDING" \/ (Written(mine(i)) /\ Fresh(i))
          /\ Written(item[i]) => Written(item'[i])
    BY <1>1, <1>3 DEF OpensFew, Written
  <1>7. OneOpenItem'
    <2>1. ASSUME NEW i \in Items, NEW k \in Items, i[1] = k[1],
                 item'[i].status = "PENDING", item'[k].status = "PENDING"
          PROVE  i = k
      <3>1. CASE item[i].status = "PENDING" /\ item[k].status = "PENDING"
        BY <1>1, <2>1, <3>1 DEF OneOpenItem
      <3>2. CASE Written(mine(i)) /\ Fresh(i) /\ item[k].status = "PENDING"
        BY <2>1, <3>2 DEF Fresh
      <3>3. CASE Written(mine(k)) /\ Fresh(k) /\ item[i].status = "PENDING"
        BY <2>1, <3>3 DEF Fresh
      <3>4. CASE Written(mine(i)) /\ Written(mine(k))
        BY <1>1, <2>1, <3>4 DEF OpensFew
      <3> QED
        BY <1>6, <2>1, <3>1, <3>2, <3>3, <3>4
    <2> QED
      BY <2>1 DEF OneOpenItem
  <1>8. ASSUME NEW k \in Jobs \ {m}, NEW i \in Items, mapper[k].items[i].status = "PENDING"
        PROVE  item'[i].status = "PENDING" \/ Fresh(i)'
    <2>1. Written(mapper[k].items[i]) /\ ~Written(mine(i))
      BY <1>1, <1>8 DEF ItemsLocked, Written
    <2>2. item'[i] = item[i]
      BY <1>3, <2>1
    <2>3. item[i].status = "PENDING" \/ Fresh(i)
      BY <1>8 DEF Sound, OpensFew
    <2>4. ASSUME Fresh(i), NEW l \in Items, l[1] = i[1]
          PROVE  item'[l].status # "PENDING" /\ (l[2] < i[2] => Written(item'[l]))
      <3>1. item[l].status # "PENDING" /\ (l[2] < i[2] => Written(item'[l]))
        BY <1>6, <2>4 DEF Fresh
      <3>2. ASSUME Written(mine(l)), Fresh(l) PROVE FALSE
        <4>1. ~(i[2] < l[2]) /\ ~(l[2] < i[2])
          BY <2>4, <3>2 DEF Fresh
        <4>2. i[2] = l[2]
          BY <4>1, ItemFacts, Constants
        <4>3. i = l
          BY <2>4, <4>2, ItemFacts
        <4> QED
          BY <2>1, <3>2, <4>3
      <3> QED
        BY <1>6, <3>1, <3>2
    <2>5. Fresh(i) => Fresh(i)'
      BY <2>2, <2>4 DEF Fresh
    <2> QED
      BY <2>2, <2>3, <2>5
  <1>9. ASSUME NEW k \in Jobs PROVE MapperFits(k)' /\ OpensFew(k)'
    <2>1. CASE k = m
      <3>1. mapper'[k] = IdleMapper
        BY <1>4, <2>1
      <3>2. MapperFits(k)'
        BY <3>1 DEF MapperFits, IdleMapper, Mapping, At, Sane, Written, NoListing, NoRows, NoItem, NoItems
      <3>3. OpensFew(k)'
        BY <3>1 DEF OpensFew, IdleMapper, Written, NoItem, NoItems
      <3> QED
        BY <3>2, <3>3
    <2>2. CASE k # m
      <3>1. mapper'[k] = mapper[k] /\ MapperFits(k) /\ OpensFew(k)
        BY <1>4, <2>2 DEF Sound
      <3>2. MapperFits(k)'
        BY <3>1 DEF MapperFits, Mapping, At
      <3>3. OpensFew(k)'
        BY <1>8, <2>2, <3>1 DEF OpensFew
      <3> QED
        BY <3>2, <3>3
    <2> QED
      BY <2>1, <2>2
  <1>10. ItemsLocked'
    BY <1>1, <1>4 DEF ItemsLocked, IdleMapper, NoItems, NoItem, Written
  <1>11. (\A r \in Reviewers : ReviewerFits(r))'
    BY <1>3 DEF Sound, ReviewerFits, Considering
  <1> QED
    BY <1>2, <1>5, <1>7, <1>9, <1>10, <1>11 DEF Sound

LEMMA ConsiderSound ==
    ASSUME Sound, NEW r \in Reviewers, NEW i \in Items, Consider(r, i)
    PROVE  Sound'
  <1> DEFINE new == [pc |-> "decide", of |-> i, copy |-> listing[i[1]], asked |-> item[i]]
  <1>1. i[1] \in Skus /\ listing[i[1]] \in Listings /\ item[i] \in QueueItems
    BY ItemFacts DEF Sound, TypeOK
  <1>2. new \in ReviewerStates /\ reviewer' = [reviewer EXCEPT ![r] = new]
    BY <1>1 DEF ReviewerStates, Consider
  <1>3. UNCHANGED <<worldVars, dbVars, mapper, looks, faults>> /\ item[i].status = "PENDING"
    BY DEF Consider
  <1>4. TypeOK'
    BY <1>2, <1>3 DEF Sound, TypeOK, worldVars, dbVars
  <1>5. ASSUME NEW q \in Reviewers PROVE ReviewerFits(q)'
    <2>1. reviewer'[q] = IF q = r THEN new ELSE reviewer[q]
      BY <1>2 DEF Sound, TypeOK
    <2> QED
      BY <1>1, <1>3, <2>1 DEF Sound, ListingsFit, ReviewerFits, Considering
  <1> QED
    BY <1>3, <1>4, <1>5
    DEF worldVars, dbVars, Sound, ListingsFit, MapperFits, OpensFew, Fresh, Mapping, At, ItemsLocked, OneOpenItem

\* A decision closes an item that no transaction holds.
LEMMA DecisionSound ==
    ASSUME Sound, TypeOK', NEW r \in Reviewers, NEW i \in Items, NEW x \in QueueItems,
           x.status \in {"APPROVED", "REJECTED"}, item' = [item EXCEPT ![i] = x], Unlocked(i),
           UNCHANGED <<named, mapper>>, reviewer' = [reviewer EXCEPT ![r] = IdleReviewer],
           \A s \in Skus : Sane(listing'[s])
    PROVE  Sound'
  <1>1. \A k \in Items : item'[k] = IF k = i THEN x ELSE item[k]
    BY DEF Sound, TypeOK
  <1>2. ListingsFit'
    BY DEF Sound, ListingsFit
  <1>3. ASSUME NEW m \in Jobs PROVE MapperFits(m)' /\ OpensFew(m)'
    <2>1. MapperFits(m) /\ OpensFew(m) /\ ~Written(mapper[m].items[i])
      BY DEF Sound, Unlocked, Locked
    <2>2. MapperFits(m)'
      BY <2>1 DEF MapperFits, Mapping, At
    <2>3. ASSUME NEW k \in Items, mapper[m].items[k].status = "PENDING"
          PROVE  item'[k].status = "PENDING" \/ Fresh(k)'
      <3>1. k # i /\ item'[k] = item[k]
        BY <1>1, <2>1, <2>3 DEF Written
      <3>2. item[k].status = "PENDING" \/ Fresh(k)
        BY <2>1, <2>3 DEF OpensFew
      <3>3. Fresh(k) => Fresh(k)'
        BY <1>1, <3>1 DEF Fresh, Written
      <3> QED
        BY <3>1, <3>2, <3>3
    <2>4. OpensFew(m)'
      BY <2>1, <2>3 DEF OpensFew
    <2> QED
      BY <2>2, <2>4
  <1>4. OneOpenItem'
    BY <1>1 DEF Sound, OneOpenItem
  <1>5. (\A q \in Reviewers : ReviewerFits(q))'
    BY DEF Sound, TypeOK, ReviewerFits, Considering, IdleReviewer
  <1> QED
    BY <1>2, <1>3, <1>4, <1>5 DEF Sound, ItemsLocked

LEMMA DecidedFacts ==
    ASSUME Sound, NEW r \in Reviewers, Considering(r), NEW p \in Products \union {None},
           NEW status \in {"APPROVED", "REJECTED"}
    PROVE  LET i == reviewer[r].of
               x == Merge(item[i], reviewer[r].asked, Decided(reviewer[r].asked, status, p))
           IN  i \in Items /\ i[1] \in Skus /\ x \in QueueItems /\ x.status = status
  <1> DEFINE i == reviewer[r].of
             asked == reviewer[r].asked
             x == Decided(asked, status, p)
  <1>1. i \in Items /\ i[1] \in Skus /\ asked \in QueueItems /\ asked.status = "PENDING" /\ item[i] \in QueueItems
    BY ItemFacts, ReviewersAreTyped DEF Sound, TypeOK, ReviewerFits
  <1> HIDE DEF asked
  <1>2. x \in QueueItems /\ x.status = status
    BY <1>1 DEF Decided, QueueItems
  <1> HIDE DEF x
  <1>3. Merge(item[i], asked, x) \in QueueItems /\ Merge(item[i], asked, x).status = status
    BY <1>1, <1>2, MergedItem
  <1> QED
    BY <1>1, <1>3 DEF x, asked

\* What a person makes of the listing.
ByHand(l, p) == [l EXCEPT !.product = p, !.status = "APPROVED", !.method = "MANUAL_APPROVAL", !.approver = "PERSON"]

LEMMA ByHandFacts ==
    ASSUME NEW l \in Listings, NEW p \in Products
    PROVE  /\ ByHand(l, p) \in Listings /\ Sane(ByHand(l, p))
           /\ ByHand(l, p).status = "APPROVED" /\ ByHand(l, p).approver = "PERSON"
  <1>1. ByHand(l, p) \in Listings
    BY DEF ByHand, Listings, Settled
  <1>2. ByHand(l, p).status = "APPROVED" /\ ByHand(l, p).approver = "PERSON"
    BY DEF ByHand, Listings
  <1> QED
    BY <1>1, <1>2 DEF Sane

LEMMA ApproveSound ==
    ASSUME Sound, NEW r \in Reviewers, NEW p \in Products, Approve(r, p)
    PROVE  Sound'
  <1> DEFINE i == reviewer[r].of
             s == i[1]
             copy == reviewer[r].copy
             row == Merge(listing[s], copy, ByHand(copy, p))
             x == Merge(item[i], reviewer[r].asked, Decided(reviewer[r].asked, "APPROVED", p))
  <1>1. Considering(r)
    BY DEF Considering, Approve
  <1>2. i \in Items /\ s \in Skus /\ x \in QueueItems /\ x.status = "APPROVED"
    BY <1>1, DecidedFacts
  <1>3. copy \in Listings /\ Sane(copy) /\ listing[s] \in Listings /\ Sane(listing[s])
    BY <1>1, <1>2, ReviewersAreTyped DEF Sound, TypeOK, ReviewerFits, ListingsFit
  <1>4. row \in Listings /\ Sane(row)
    BY <1>3, ByHandFacts, MergedListing
  <1>5. /\ listing' = [listing EXCEPT ![s] = row] /\ item' = [item EXCEPT ![i] = x]
        /\ reviewer' = [reviewer EXCEPT ![r] = IdleReviewer] /\ Unlocked(i)
        /\ UNCHANGED <<worldVars, run, snapshots, mapper, looks, faults>>
    BY DEF Approve, Released, ByHand
  <1> HIDE DEF row, x
  <1>6. TypeOK'
    BY <1>2, <1>4, <1>5, IdleTypes DEF Sound, TypeOK, worldVars
  <1>7. \A t \in Skus : Sane(listing'[t])
    BY <1>4, <1>5 DEF Sound, TypeOK, ListingsFit
  <1> QED
    BY <1>2, <1>5, <1>6, <1>7, DecisionSound DEF worldVars

LEMMA RejectSound ==
    ASSUME Sound, NEW r \in Reviewers, Reject(r)
    PROVE  Sound'
  <1> DEFINE i == reviewer[r].of
             x == Merge(item[i], reviewer[r].asked, Decided(reviewer[r].asked, "REJECTED", None))
  <1>1. Considering(r)
    BY DEF Considering, Reject
  <1>2. i \in Items /\ x \in QueueItems /\ x.status = "REJECTED"
    BY <1>1, DecidedFacts
  <1>3. /\ item' = [item EXCEPT ![i] = x]
        /\ reviewer' = [reviewer EXCEPT ![r] = IdleReviewer] /\ Unlocked(i)
        /\ UNCHANGED <<worldVars, listing, run, snapshots, mapper, looks, faults>>
    BY DEF Reject, Released
  <1> HIDE DEF x
  <1>4. TypeOK'
    BY <1>2, <1>3, IdleTypes DEF Sound, TypeOK, worldVars
  <1>5. \A t \in Skus : Sane(listing'[t])
    BY <1>3 DEF Sound, ListingsFit
  <1> QED
    BY <1>2, <1>3, <1>4, <1>5, DecisionSound DEF worldVars

LEMMA LeaveSound ==
    ASSUME Sound, NEW r \in Reviewers, Leave(r)
    PROVE  Sound'
  <1>1. reviewer' = [reviewer EXCEPT ![r] = IdleReviewer] /\ UNCHANGED <<worldVars, dbVars, mapper, looks, faults>>
    BY DEF Leave, Released
  <1>2. TypeOK'
    BY <1>1, IdleTypes DEF Sound, TypeOK, worldVars, dbVars
  <1>3. (\A q \in Reviewers : ReviewerFits(q))'
    BY <1>1 DEF Sound, TypeOK, ReviewerFits, Considering, IdleReviewer
  <1> QED
    BY <1>1, <1>2, <1>3
    DEF worldVars, dbVars, Sound, ListingsFit, MapperFits, OpensFew, Fresh, Mapping, At, ItemsLocked, OneOpenItem

LEMMA StutterSound ==
    ASSUME Sound, UNCHANGED vars
    PROVE  Sound'
  BY DEF vars, worldVars, dbVars, Sound, TypeOK, ListingsFit, MapperFits, OpensFew, Fresh, Mapping, At,
         ItemsLocked, ReviewerFits, Considering, OneOpenItem

LEMMA SoundStep == Sound /\ [Next]_vars => Sound'
  <1> SUFFICES ASSUME Sound, [Next]_vars PROVE Sound'
    OBVIOUS
  <1>1. CASE \E s \in Skus : Relist(s) \/ \E p \in Products : Name(s, p) \/ Barcode(s, p)
    BY <1>1, WorldSound
  <1>2. CASE \E m \in Jobs : \/ Start(m) \/ Fetch(m) \/ Map(m) \/ Queue(m) \/ Commit(m)
                             \/ Fail(m) \/ Crash(m) \/ \E s \in Skus : Look(m, s)
    BY <1>2, StartSound, FetchSound, MapSound, QueueSound, CommitSound, EndSound, LookSound
  <1>3. CASE \E r \in Reviewers : \/ \E i \in Items : Consider(r, i)
                                  \/ \E p \in Products : Approve(r, p)
                                  \/ Reject(r) \/ Leave(r)
    BY <1>3, ConsiderSound, ApproveSound, RejectSound, LeaveSound
  <1>4. CASE UNCHANGED vars
    BY <1>4, StutterSound
  <1> QED
    BY <1>1, <1>2, <1>3, <1>4 DEF Next

----------------------------------------------------------------------------
(* Orderly behaviours: nobody maps or decides while another does *)

InHand(m) ==
    /\ MapperCurrent(m)
    /\ \A s \in Skus : Keeps(m, s)
    /\ Asks(m)
    /\ \A s \in Skus : mapper[m].read[s] = "ACTIVE" => Accounted(m, s)
Alone(m) == (\A k \in Jobs : Mapping(k) => k = m) /\ \A r \in Reviewers : ~Considering(r)

LEMMA MappingAlone ==
    ASSUME InOrder, NEW m \in Jobs, Mapping(m)
    PROVE  Alone(m) /\ InHand(m)
  BY DEF InOrder, OneAtWork, Alone, InHand

\* A step of one job's process that leaves the tables alone.
LEMMA MapperInOrder ==
    ASSUME Sound, InOrder, NEW m \in Jobs, NEW new \in MapperStates, mapper' = [mapper EXCEPT ![m] = new],
           UNCHANGED <<named, listing, item, reviewer>>,
           Mapping(m)' => Alone(m) /\ InHand(m)'
    PROVE  InOrder'
  <1>1. mapper'[m] = new /\ \A k \in Jobs \ {m} : mapper'[k] = mapper[k]
    BY DEF Sound, TypeOK
  <1>2. \A k \in Jobs \ {m} : Mapping(k)' = Mapping(k)
    BY <1>1 DEF Mapping
  <1>3. \A r \in Reviewers : Considering(r)' = Considering(r)
    BY DEF Considering
  <1>4. OneAtWork'
    <2>1. CASE Mapping(m)'
      BY <1>2, <1>3, <2>1 DEF Alone, OneAtWork
    <2>2. CASE ~Mapping(m)'
      BY <1>2, <1>3, <2>2 DEF InOrder, OneAtWork
    <2> QED
      BY <2>1, <2>2
  <1>5. ASSUME NEW k \in Jobs, Mapping(k)' PROVE InHand(k)'
    <2>1. CASE k = m
      BY <1>5, <2>1
    <2>2. CASE k # m
      <3>1. mapper'[k] = mapper[k] /\ InHand(k)
        BY <1>1, <1>2, <1>5, <2>2, MappingAlone
      <3> QED
        BY <3>1
        DEF InHand, MapperCurrent, Keeps, Follows, Asks, Answering, Accounted, At, Listing, ItemOf
    <2> QED
      BY <2>1, <2>2
  <1>6. /\ (\A s \in Skus : Follows(listing[s], s))'
        /\ (\A i \in Items : item[i].status = "PENDING" => Undecided(listing[i[1]]))'
        /\ (\A r \in Reviewers : ReviewerCurrent(r))'
    BY DEF InOrder, Follows, ReviewerCurrent, Considering
  <1> QED
    BY <1>4, <1>5, <1>6 DEF InOrder, InHand

LEMMA WorldInOrder ==
    ASSUME Sound, InOrder, NEW s \in Skus,
           Relist(s) \/ \E p \in Products : Name(s, p) \/ Barcode(s, p)
    PROVE  InOrder'
  <1>1. UNCHANGED <<listing, item, mapper, reviewer>>
    BY DEF Relist, Name, Barcode, dbVars
  <1>2. \A t \in Skus : named'[t] = named[t] \/ named[t] = {}
    BY DEF Sound, TypeOK, Relist, Name, Barcode
  <1>3. ASSUME NEW l, NEW t \in Skus, Follows(l, t)
        PROVE  l.approver = "SYSTEM" => named'[t] = {l.product}
    BY <1>2, <1>3 DEF Follows
  <1>4. (\A t \in Skus : Follows(listing[t], t))'
    BY <1>1, <1>3 DEF InOrder, Follows
  <1>5. ASSUME NEW m \in Jobs, Mapping(m)' PROVE InHand(m)'
    <2>1. InHand(m)
      BY <1>1, <1>5, MappingAlone DEF Mapping
    <2>2. \A t \in Skus : Keeps(m, t)'
      BY <1>1, <1>3, <2>1 DEF InHand, Keeps, Follows
    <2> QED
      BY <1>1, <2>1, <2>2 DEF InHand, MapperCurrent, Asks, Answering, Accounted, At, Listing, ItemOf
  <1> QED
    BY <1>1, <1>4, <1>5 DEF InOrder, InHand, OneAtWork, Mapping, Considering, ReviewerCurrent

LEMMA IdleInOrder ==
    ASSUME Sound, TypeOK', InOrder, NEW m \in Jobs, Start(m) \/ Fail(m) \/ Crash(m)
    PROVE  InOrder'
  <1>1. UNCHANGED <<named, listing, item, reviewer>>
    BY DEF Start, Fail, Crash, worldVars, dbVars
  <1>2. \E n \in Nat : mapper' = [mapper EXCEPT ![m].pc = "fetch", ![m].no = n]
                       \/ mapper' = [mapper EXCEPT ![m] = IdleMapper]
    BY Constants DEF Start, Fail, Crash
  <1>3. mapper' = [mapper EXCEPT ![m] = mapper'[m]] /\ mapper'[m].pc \in {"fetch", "idle"}
    BY <1>2 DEF Sound, TypeOK, MapperStates, IdleMapper
  <1>4. mapper'[m] \in MapperStates /\ ~Mapping(m)'
    BY <1>3 DEF TypeOK, Mapping
  <1> QED
    BY <1>1, <1>3, <1>4, MapperInOrder

LEMMA FetchInOrder ==
    ASSUME Sound, Orderly, InOrder, NEW m \in Jobs, Fetch(m)
    PROVE  InOrder'
  <1> DEFINE new == [mapper[m] EXCEPT !.pc = "look", !.read = report,
                                      !.todo = {s \in Skus : report[s] # "ABSENT"}]
  <1>1. mapper \in [Jobs -> MapperStates] /\ mapper[m] \in MapperStates /\ TypeOK'
    BY FetchTypes DEF Sound, TypeOK
  <1>2. mapper' = [mapper EXCEPT ![m] = new] /\ mapper'[m] = new
    BY <1>1 DEF Fetch
  <1>3. /\ new.pc = "look" /\ new.read = report /\ new.todo = {s \in Skus : report[s] # "ABSENT"}
        /\ new.rows = mapper[m].rows /\ new.items = mapper[m].items
    BY <1>1 DEF MapperStates
  <1>4. new \in MapperStates
    BY <1>1, <1>2 DEF TypeOK
  <1>5. Alone(m)
    BY DEF Fetch, MayBegin, Overlapped, Orderly, Alone, Considering, Sound, TypeOK, ReviewerStates
  <1>6. UNCHANGED <<named, listing, item, reviewer>>
    BY DEF Fetch, worldVars, dbVars
  <1>7. mapper[m].rows = NoRows /\ mapper[m].items = NoItems
    BY DEF Sound, MapperFits, Mapping, Fetch
  <1> HIDE DEF new
  <1>8. /\ \A s \in Skus : ~Written(new.rows[s]) /\ Listing(m, s)' = listing[s]
        /\ \A i \in Items : ItemOf(m, i)' = item[i]
    BY <1>2, <1>3, <1>6, <1>7 DEF Listing, ItemOf, Over, NoRows, NoItems, NoListing, NoItem, Written
  <1>9. MapperCurrent(m)' /\ \A s \in Skus : Keeps(m, s)'
    BY <1>2, <1>3, <1>8 DEF MapperCurrent, Keeps
  <1>10. Asks(m)'
    BY <1>6, <1>8, ItemFacts DEF Asks, InOrder
  <1>11. \A s \in Skus : new.read[s] = "ACTIVE" => Accounted(m, s)'
    BY <1>2, <1>3 DEF Accounted
  <1>12. InHand(m)'
    BY <1>2, <1>9, <1>10, <1>11 DEF InHand
  <1> QED
    BY <1>2, <1>4, <1>5, <1>6, <1>12, MapperInOrder

LEMMA LookInOrder ==
    ASSUME Sound, InOrder, NEW m \in Jobs, NEW s \in Skus, Look(m, s)
    PROVE  InOrder'
  <1> DEFINE new == [mapper[m] EXCEPT !.pc = "map", !.sku = s, !.copy = Listing(m, s),
                                      !.todo = mapper[m].todo \ {s}]
  <1>1. mapper \in [Jobs -> MapperStates] /\ mapper[m] \in MapperStates /\ TypeOK'
    BY LookTypes DEF Sound, TypeOK
  <1>2. mapper' = [mapper EXCEPT ![m] = new] /\ mapper'[m] = new
    BY <1>1 DEF Look
  <1>3. /\ new.pc = "map" /\ new.read = mapper[m].read /\ new.sku = s /\ new.todo = mapper[m].todo \ {s}
        /\ new.copy = Listing(m, s) /\ new.rows = mapper[m].rows /\ new.items = mapper[m].items
    BY <1>1 DEF MapperStates
  <1>4. new \in MapperStates
    BY <1>1, <1>2 DEF TypeOK
  <1>5. mapper[m].pc = "look" /\ s \in mapper[m].todo
    BY DEF Look
  <1>6. Alone(m) /\ InHand(m)
    BY <1>5, MappingAlone DEF Mapping
  <1>7. UNCHANGED <<named, listing, item, reviewer>>
    BY DEF Look, worldVars, dbVars
  <1> HIDE DEF new
  <1>8. /\ \A t \in Skus : Listing(m, t)' = Listing(m, t)
        /\ \A i \in Items : ItemOf(m, i)' = ItemOf(m, i)
    BY <1>2, <1>3, <1>7 DEF Listing, ItemOf
  <1>9. Listing(m, s) = listing[s]
    BY <1>5 DEF Sound, MapperFits, Listing, Over
  <1>10. MapperCurrent(m)' /\ \A t \in Skus : Keeps(m, t)'
    BY <1>2, <1>3, <1>6, <1>7, <1>9 DEF InHand, MapperCurrent, Keeps, Follows
  <1>11. Asks(m)'
    BY <1>5, <1>6, <1>8, ItemFacts DEF Asks, InHand, Answering
  <1>12. \A t \in Skus : new.read[t] = "ACTIVE" => Accounted(m, t)'
    BY <1>2, <1>3, <1>5, <1>6, <1>8 DEF Accounted, InHand, At
  <1>13. InHand(m)'
    BY <1>2, <1>10, <1>11, <1>12 DEF InHand
  <1> QED
    BY <1>2, <1>4, <1>6, <1>7, <1>13, MapperInOrder

\* The listing in hand is unread no longer than it is unwritten.
LEMMA MappedInOrder ==
    ASSUME Sound, InOrder, NEW m \in Jobs, Map(m)
    PROVE  LET s == mapper[m].sku IN
           /\ mapper[m].copy = listing[s] /\ Listing(m, s) = listing[s]
           /\ Merge(Listing(m, s), mapper[m].copy, Mapped(m)) = Mapped(m)
           /\ Follows(Mapped(m), s)
           /\ listing[s].status = "APPROVED" =>
                ~Open(Touched(m)) /\ MappingOf(Mapped(m)) = MappingOf(listing[s])
           /\ ~Open(Touched(m)) /\ Undecided(listing[s]) => Undecided(Mapped(m))
           /\ ~Open(Touched(m)) /\ mapper[m].read[s] = "ACTIVE" => Mapped(m).status = "APPROVED"
           /\ Open(Touched(m)) => Mapped(m).status = Said(m).outcome
  <1> DEFINE s == mapper[m].sku
             copy == mapper[m].copy
  <1>1. /\ TypeOK /\ ListingsFit /\ MapperFits(m) /\ mapper[m].pc = "map" /\ s \in Skus /\ Sane(copy)
        /\ copy \in Listings
    BY MappersAreTyped DEF Sound, MapperFits, At, Map
  <1>2. copy = listing[s] /\ Follows(listing[s], s)
    BY <1>1 DEF InOrder, MapperCurrent, Mapping
  <1>3. Listing(m, s) = listing[s]
    BY <1>1 DEF MapperFits, Listing, Over
  <1>4. /\ Touched(m) \in Listings /\ Sane(Touched(m)) /\ Written(Touched(m))
        /\ copy.status # "ABSENT" => Touched(m).status = copy.status /\ MappingOf(Touched(m)) = MappingOf(copy)
        /\ copy.status = "ABSENT" => Touched(m).status = "UNMAPPED" /\ Touched(m).approver = "NONE"
        /\ Touched(m).live = (mapper[m].read[s] = "ACTIVE")
    BY <1>1, TouchedFacts
  <1>5. /\ Mapped(m) = IF Open(Touched(m)) THEN Remapped(Touched(m), Said(m)) ELSE Touched(m)
        /\ Mapped(m) \in Listings
    BY <1>1, MappedFacts
  <1>6. /\ Said(m) \in Verdicts
        /\ Said(m).outcome = "APPROVED" => named[s] = {Said(m).product}
    BY <1>1, SaidFacts
  <1> DEFINE new == Remapped(Touched(m), Said(m))
  <1>7. /\ new.status = Said(m).outcome /\ new.product = Said(m).product
        /\ new.approver = IF Said(m).outcome = "APPROVED" THEN "SYSTEM" ELSE "NONE"
    BY <1>4, <1>6, RemappedFacts
  <1>8. Merge(Listing(m, s), copy, Mapped(m)) = Mapped(m)
    BY <1>1, <1>2, <1>3, <1>5, MergedListing
  <1>9. Follows(Touched(m), s)
    BY <1>2, <1>4 DEF Follows, MappingOf
  <1>10. Follows(Mapped(m), s)
    <2> HIDE DEF new
    <2>1. CASE Open(Touched(m))
      <3>1. Mapped(m) = new
        BY <1>5, <2>1 DEF new
      <3>2. new.approver = "SYSTEM" => Said(m).outcome = "APPROVED"
        BY <1>7
      <3> QED
        BY <1>6, <1>7, <3>1, <3>2 DEF Follows
    <2>2. CASE ~Open(Touched(m))
      BY <1>5, <1>9, <2>2
    <2> QED
      BY <2>1, <2>2
  <1>11. copy.status = "APPROVED" => ~Open(Touched(m))
    BY <1>4 DEF Open, Settled
  <1>12. ~Open(Touched(m)) /\ mapper[m].read[s] = "ACTIVE" => Touched(m).status = "APPROVED"
    BY <1>4 DEF Open, Settled, Sane, Written
  <1>13. Undecided(copy) => copy.status # "ABSENT"
    BY DEF Undecided
  <1>14. ~Open(Touched(m)) /\ Undecided(copy) => Undecided(Touched(m))
    BY <1>4, <1>13 DEF Undecided
  <1> QED
    BY <1>2, <1>3, <1>4, <1>5, <1>7, <1>8, <1>10, <1>11, <1>12, <1>14

LEMMA MapInOrder ==
    ASSUME Sound, InOrder, NEW m \in Jobs, Map(m)
    PROVE  InOrder'
  <1>0. PICK s \in Skus : s = mapper[m].sku
    BY DEF Sound, MapperFits, At, Map
  <1>1. /\ TypeOK /\ ListingsFit /\ MapperFits(m) /\ OneOpenItem
        /\ mapper[m].pc = "map" /\ s \in Skus /\ mapper[m].rows \in [Skus -> Listings]
    BY MappersAreTyped DEF Sound, Map
  <1>2. PICK new \in MapperStates : MapsTo(m, new)
    BY <1>1, MapStep
  <1>3. mapper' = [mapper EXCEPT ![m] = new] /\ mapper'[m] = new
    BY <1>1, <1>2 DEF MapsTo, TypeOK
  <1>4. UNCHANGED <<named, listing, item, reviewer>>
    BY DEF Map, worldVars, dbVars
  <1>5. Alone(m) /\ InHand(m)
    BY <1>1, MappingAlone DEF Mapping
  <1>6. /\ mapper[m].copy = listing[s] /\ Listing(m, s) = listing[s]
        /\ Merge(Listing(m, s), mapper[m].copy, Mapped(m)) = Mapped(m)
        /\ Follows(Mapped(m), s)
        /\ listing[s].status = "APPROVED" =>
             ~Open(Touched(m)) /\ MappingOf(Mapped(m)) = MappingOf(listing[s])
        /\ ~Open(Touched(m)) /\ Undecided(listing[s]) => Undecided(Mapped(m))
        /\ ~Open(Touched(m)) /\ mapper[m].read[s] = "ACTIVE" => Mapped(m).status = "APPROVED"
        /\ Open(Touched(m)) => Mapped(m).status = Said(m).outcome
    BY <1>0, MappedInOrder
  <1>7. Written(Mapped(m)) /\ Said(m) \in Verdicts
    BY <1>0, <1>1, MappedFacts, SaidFacts DEF MapperFits
  <1>8. /\ new.read = mapper[m].read /\ new.todo = mapper[m].todo /\ new.sku = s
        /\ new.items = mapper[m].items
        /\ \A t \in Skus : t # s => new.rows[t] = mapper[m].rows[t]
        /\ new.rows[s] = Mapped(m) \/ (new.rows[s] = mapper[m].rows[s] /\ Mapped(m) = listing[s])
        /\ ~Open(Touched(m)) => new.pc = "look"
        /\ Open(Touched(m)) =>
             /\ new.pc = "queue" /\ new.verdict = Said(m)
             /\ IF new.open = 0 THEN Pending(m, s) = {}
                ELSE new.open \in Pending(m, s) /\ new.asked = ItemOf(m, <<s, new.open>>)
    BY <1>0, <1>1, <1>2, <1>6 DEF MapsTo
  <1>9. /\ \A i \in Items : ItemOf(m, i)' = ItemOf(m, i)
        /\ \A t \in Skus : t # s => Listing(m, t)' = Listing(m, t)
        /\ Listing(m, s)' = Mapped(m)
    BY <1>0, <1>1, <1>3, <1>4, <1>7, <1>8 DEF ItemOf, Listing, Over, MapperFits
  <1>10. \A i \in Items : i[1] = s => ItemOf(m, i) = item[i]
    BY <1>0, <1>1 DEF MapperFits, At, ItemOf, Over
  <1>11. ASSUME NEW i \in Items, i[1] = s, item[i].status = "PENDING", Open(Touched(m))
         PROVE  new.open # 0 /\ i = <<s, new.open>>
    <2>1. i[2] \in Pending(m, s)
      BY <1>10, <1>11, ItemFacts DEF Pending, Numbered
    <2>2. new.open # 0 /\ new.open \in Pending(m, s)
      BY <1>8, <1>11, <2>1
    <2>3. <<s, new.open>> \in Items /\ <<s, new.open>>[1] = s
          /\ ItemOf(m, <<s, new.open>>).status = "PENDING"
      BY <1>1, <2>2, ItemFacts DEF Pending, Numbered
    <2> QED
      BY <1>1, <1>10, <1>11, <2>2, <2>3 DEF OneOpenItem
  <1>12. MapperCurrent(m)'
    <2>1. CASE ~Open(Touched(m))
      BY <1>3, <1>8, <2>1 DEF MapperCurrent
    <2>2. CASE Open(Touched(m))
      <3>1. new.open # 0 => new.asked = item[<<s, new.open>>]
        <4>1. new.open # 0 => <<s, new.open>> \in Items /\ <<s, new.open>>[1] = s
          BY <1>1, <1>8, <2>2, ItemFacts DEF Pending
        <4> QED
          BY <1>8, <1>10, <2>2, <4>1
      <3>2. new.open = 0 => \A i \in Items : i[1] = s => item[i].status # "PENDING"
        BY <1>11, <2>2
      <3> QED
        BY <1>3, <1>4, <1>6, <1>8, <1>9, <2>2, <3>1, <3>2 DEF MapperCurrent
    <2> QED
      BY <2>1, <2>2
  <1>13. ASSUME NEW t \in Skus PROVE Keeps(m, t)'
    <2>1. Keeps(m, t) /\ ~Written(mapper[m].rows[s])
      BY <1>0, <1>1, <1>5 DEF InHand, MapperFits
    <2> QED
      BY <1>3, <1>4, <1>6, <1>8, <2>1 DEF Keeps, Follows
  <1>14. ASSUME NEW i \in Items, ItemOf(m, i).status = "PENDING"
         PROVE  Undecided(Listing(m, i[1]))' \/ Answering(m, i)'
    <2>1. i[1] \in Skus /\ Undecided(Listing(m, i[1]))
      BY <1>1, <1>5, <1>14, ItemFacts DEF InHand, Asks, Answering
    <2>2. CASE i[1] # s
      BY <1>9, <2>1, <2>2
    <2>3. CASE i[1] = s /\ ~Open(Touched(m))
      BY <1>6, <1>9, <2>1, <2>3
    <2>4. CASE i[1] = s /\ Open(Touched(m))
      <3>1. new.open # 0 /\ i = <<s, new.open>>
        BY <1>10, <1>11, <1>14, <2>4
      <3>2. Said(m).outcome \in {"UNMAPPED", "PENDING", "APPROVED"}
        BY <1>7 DEF Verdicts
      <3>3. CASE Said(m).outcome = "APPROVED"
        BY <1>3, <1>8, <2>4, <3>1, <3>3 DEF Answering
      <3>4. CASE Said(m).outcome # "APPROVED"
        BY <1>6, <1>9, <2>4, <3>2, <3>4 DEF Undecided
      <3> QED
        BY <3>3, <3>4
    <2> QED
      BY <2>2, <2>3, <2>4
  <1>15. Asks(m)'
    BY <1>9, <1>14 DEF Asks
  <1>16. ASSUME NEW t \in Skus, new.read[t] = "ACTIVE" PROVE Accounted(m, t)'
    <2>1. Accounted(m, t)
      BY <1>5, <1>8, <1>16 DEF InHand
    <2>2. CASE t # s
      <3>1. t \in mapper[m].todo \/ Listing(m, t).status = "APPROVED"
            \/ \E i \in Items : i[1] = t /\ ItemOf(m, i).status = "PENDING"
        BY <1>0, <2>1, <2>2 DEF Accounted
      <3> QED
        BY <1>3, <1>8, <1>9, <2>2, <3>1 DEF Accounted
    <2>3. CASE t = s /\ Open(Touched(m))
      BY <1>3, <1>8, <2>3 DEF Accounted, At
    <2>4. CASE t = s /\ ~Open(Touched(m))
      BY <1>6, <1>8, <1>9, <1>16, <2>4 DEF Accounted
    <2> QED
      BY <2>2, <2>3, <2>4
  <1>17. InHand(m)'
    BY <1>3, <1>12, <1>13, <1>15, <1>16 DEF InHand
  <1> QED
    BY <1>3, <1>4, <1>5, <1>17, MapperInOrder

LEMMA QueueInOrder ==
    ASSUME Sound, InOrder, NEW m \in Jobs, Queue(m)
    PROVE  InOrder'
  <1> DEFINE me == mapper[m]
  <1>0. PICK s \in Skus : s = mapper[m].sku
    BY DEF Sound, MapperFits, At, Queue
  <1>1. /\ TypeOK /\ MapperFits(m) /\ me.pc = "queue" /\ s \in Skus /\ me.verdict \in Verdicts
    BY MappersAreTyped DEF Sound, Queue
  <1>2. PICK new \in MapperStates : QueuesTo(m, new)
    BY <1>1, QueueStep
  <1>3. mapper' = [mapper EXCEPT ![m] = new] /\ mapper'[m] = new
    BY <1>1, <1>2 DEF QueuesTo, TypeOK
  <1>4. UNCHANGED <<named, listing, item, reviewer>>
    BY DEF Queue, worldVars, dbVars
  <1>5. Alone(m) /\ InHand(m)
    BY <1>1, MappingAlone DEF Mapping
  <1>6. /\ new.pc = "look" /\ new.read = me.read /\ new.todo = me.todo /\ new.rows = me.rows
        /\ \A i \in Items : new.items[i] = IF i \in Subject(m) THEN WrittenItem(m, i) ELSE me.items[i]
    BY <1>2 DEF QueuesTo
  <1>7. /\ \A i \in Subject(m) : i \in Items /\ i[1] = s
        /\ \A i \in Items : i[1] = s => ItemOf(m, i) = item[i]
    BY <1>0, <1>1, SubjectFacts DEF Queue
  <1>8. /\ Listing(m, s).status = me.verdict.outcome
        /\ me.open # 0 => me.asked = item[<<s, me.open>>] /\ me.asked.status = "PENDING"
    BY <1>0, <1>1, <1>5 DEF InHand, MapperCurrent, MapperFits
  <1>9. ASSUME NEW i \in Subject(m)
        PROVE  WrittenItem(m, i).status = IF me.verdict.outcome = "APPROVED" THEN "APPROVED" ELSE "PENDING"
    <2>1. i \in Items
      BY <1>7
    <2>2. CASE me.open = 0
      BY <1>1, <2>1, <2>2, WrittenItems DEF Subject
    <2>3. CASE me.open # 0
      <3>1. i = <<s, me.open>>
        BY <1>0, <2>3 DEF Subject
      <3>2. ItemOf(m, i).status = "PENDING"
        BY <1>7, <1>8, <2>3, <3>1
      <3> QED
        BY <1>1, <1>8, <2>1, <2>3, <3>2, WrittenItems
    <2> QED
      BY <2>2, <2>3
  <1>10. /\ \A t \in Skus : Listing(m, t)' = Listing(m, t)
         /\ \A i \in Items \ Subject(m) : ItemOf(m, i)' = ItemOf(m, i)
         /\ \A i \in Subject(m) : ItemOf(m, i)' = WrittenItem(m, i)
    BY <1>3, <1>4, <1>6, <1>7, <1>9 DEF Listing, ItemOf, Over, Written
  <1>11. MapperCurrent(m)' /\ \A t \in Skus : Keeps(m, t)'
    BY <1>3, <1>4, <1>5, <1>6 DEF InHand, MapperCurrent, Keeps, Follows
  <1>12. ASSUME NEW i \in Items, ItemOf(m, i)'.status = "PENDING"
         PROVE  Undecided(Listing(m, i[1]))'
    <2>1. CASE i \in Subject(m)
      <3>1. me.verdict.outcome \in {"UNMAPPED", "PENDING"}
        BY <1>1, <1>9, <1>10, <1>12, <2>1 DEF Verdicts
      <3> QED
        BY <1>1, <1>7, <1>8, <1>10, <2>1, <3>1 DEF Undecided
    <2>2. CASE i \notin Subject(m)
      <3>1. ~Answering(m, i)
        BY <2>2 DEF Answering, Subject
      <3>2. Undecided(Listing(m, i[1])) /\ i[1] \in Skus
        BY <1>5, <1>10, <1>12, <2>2, <3>1, ItemFacts DEF InHand, Asks
      <3> QED
        BY <1>10, <3>2
    <2> QED
      BY <2>1, <2>2
  <1>13. Asks(m)'
    BY <1>12 DEF Asks
  <1>14. ASSUME NEW t \in Skus, new.read[t] = "ACTIVE" PROVE Accounted(m, t)'
    <2>1. Accounted(m, t)
      BY <1>5, <1>6, <1>14 DEF InHand
    <2>2. CASE t # s
      <3>1. t \in me.todo \/ Listing(m, t).status = "APPROVED"
            \/ \E i \in Items \ Subject(m) : i[1] = t /\ ItemOf(m, i).status = "PENDING"
        BY <1>0, <1>1, <1>7, <2>1, <2>2 DEF Accounted, At
      <3> QED
        BY <1>3, <1>6, <1>10, <3>1 DEF Accounted
    <2>3. CASE t = s /\ me.verdict.outcome = "APPROVED"
      BY <1>8, <1>10, <2>3 DEF Accounted
    <2>4. CASE t = s /\ me.verdict.outcome # "APPROVED"
      <3>1. PICK i \in Subject(m) : TRUE
        BY <2>4 DEF Subject
      <3>2. i \in Items /\ i[1] = t /\ ItemOf(m, i)'.status = "PENDING"
        BY <1>7, <1>9, <1>10, <2>4
      <3> QED
        BY <3>2 DEF Accounted
    <2> QED
      BY <2>2, <2>3, <2>4
  <1>15. InHand(m)'
    BY <1>3, <1>11, <1>13, <1>14 DEF InHand
  <1> QED
    BY <1>3, <1>4, <1>5, <1>15, MapperInOrder

LEMMA CommitInOrder ==
    ASSUME Sound, InOrder, NEW m \in Jobs, Commit(m)
    PROVE  InOrder'
  <1>1. mapper[m].pc = "look" /\ Alone(m) /\ InHand(m)
    BY MappingAlone DEF Commit, Mapping
  <1>2. /\ mapper' = [mapper EXCEPT ![m] = IdleMapper] /\ UNCHANGED <<named, reviewer>>
        /\ \A s \in Skus : listing'[s] = Listing(m, s)
        /\ \A i \in Items : item'[i] = ItemOf(m, i)
    BY DEF Commit, worldVars
  <1>3. mapper'[m] = IdleMapper /\ \A k \in Jobs \ {m} : mapper'[k] = mapper[k]
    BY <1>2 DEF Sound, TypeOK
  <1>4. \A k \in Jobs : ~Mapping(k)'
    BY <1>1, <1>3 DEF Alone, Mapping, IdleMapper
  <1>5. \A r \in Reviewers : ~Considering(r)'
    BY <1>1, <1>2 DEF Alone, Considering
  <1>6. (\A s \in Skus : Follows(listing[s], s))'
    BY <1>1, <1>2 DEF InOrder, InHand, Keeps, Follows, Listing, Over
  <1>7. ASSUME NEW i \in Items, item'[i].status = "PENDING" PROVE Undecided(listing'[i[1]])
    <2>1. i[1] \in Skus /\ Undecided(Listing(m, i[1]))
      BY <1>1, <1>2, <1>7, ItemFacts DEF InHand, Asks, Answering
    <2> QED
      BY <1>2, <2>1
  <1> QED
    BY <1>4, <1>5, <1>6, <1>7 DEF InOrder, OneAtWork, ReviewerCurrent

LEMMA ConsiderInOrder ==
    ASSUME Sound, Orderly, InOrder, NEW r \in Reviewers, NEW i \in Items, Consider(r, i)
    PROVE  InOrder'
  <1> DEFINE new == [pc |-> "decide", of |-> i, copy |-> listing[i[1]], asked |-> item[i]]
  <1>1. reviewer' = [reviewer EXCEPT ![r] = new] /\ UNCHANGED <<worldVars, dbVars, mapper>>
    BY DEF Consider
  <1>2. (\A m \in Jobs : ~Mapping(m)) /\ \A q \in Reviewers : ~Considering(q)
    BY DEF Consider, MayBegin, Overlapped, Orderly, Considering, Sound, TypeOK, ReviewerStates
  <1>3. \A q \in Reviewers : reviewer'[q] = IF q = r THEN new ELSE reviewer[q]
    BY <1>1 DEF Sound, TypeOK
  <1>4. \A q \in Reviewers : Considering(q)' => q = r
    BY <1>2, <1>3 DEF Considering
  <1>5. \A m \in Jobs : ~Mapping(m)'
    BY <1>1, <1>2 DEF Mapping
  <1>6. (\A q \in Reviewers : ReviewerCurrent(q))'
    BY <1>1, <1>3, <1>4 DEF ReviewerCurrent, dbVars
  <1>7. /\ (\A s \in Skus : Follows(listing[s], s))'
        /\ (\A k \in Items : item[k].status = "PENDING" => Undecided(listing[k[1]]))'
    BY <1>1 DEF InOrder, Follows, worldVars, dbVars
  <1> QED
    BY <1>4, <1>5, <1>6, <1>7 DEF InOrder, OneAtWork

\* A reviewer at work is alone, and leaves nobody at work.
LEMMA DecidingAlone ==
    ASSUME Sound, InOrder, NEW r \in Reviewers, Considering(r),
           reviewer' = [reviewer EXCEPT ![r] = IdleReviewer], UNCHANGED mapper
    PROVE  /\ ReviewerCurrent(r)
           /\ \A q \in Reviewers : ~Considering(q)'
           /\ \A m \in Jobs : ~Mapping(m) /\ ~Mapping(m)'
  BY DEF Sound, TypeOK, InOrder, OneAtWork, Considering, IdleReviewer, Mapping

LEMMA ApproveInOrder ==
    ASSUME Sound, InOrder, NEW r \in Reviewers, NEW p \in Products, Approve(r, p)
    PROVE  InOrder'
  <1> DEFINE i == reviewer[r].of
             s == i[1]
             copy == reviewer[r].copy
             x == Merge(item[i], reviewer[r].asked, Decided(reviewer[r].asked, "APPROVED", p))
  <1>1. Considering(r)
    BY DEF Considering, Approve
  <1>2. i \in Items /\ s \in Skus /\ x.status = "APPROVED"
    BY <1>1, DecidedFacts
  <1>3. /\ listing' = [listing EXCEPT ![s] = Merge(listing[s], copy, ByHand(copy, p))]
        /\ item' = [item EXCEPT ![i] = x]
        /\ reviewer' = [reviewer EXCEPT ![r] = IdleReviewer]
        /\ UNCHANGED <<worldVars, mapper>>
    BY DEF Approve, Released, ByHand
  <1> HIDE DEF x
  <1>4. /\ ReviewerCurrent(r)
        /\ \A q \in Reviewers : ~Considering(q)'
        /\ \A m \in Jobs : ~Mapping(m)'
    BY <1>1, <1>3, DecidingAlone
  <1>5. copy = listing[s] /\ item[i].status = "PENDING" /\ copy \in Listings /\ ByHand(copy, p) \in Listings
        /\ ByHand(copy, p).approver = "PERSON"
    BY <1>1, <1>2, <1>4, ByHandFacts, ReviewersAreTyped DEF ReviewerCurrent, Sound, ReviewerFits
  <1>6. \A t \in Skus : listing'[t] = IF t = s THEN ByHand(copy, p) ELSE listing[t]
    BY <1>2, <1>3, <1>5, MergedListing DEF Sound, TypeOK
  <1>7. \A k \in Items : item'[k] = IF k = i THEN x ELSE item[k]
    BY <1>3 DEF Sound, TypeOK
  <1>8. (\A t \in Skus : Follows(listing[t], t))'
    BY <1>3, <1>5, <1>6 DEF InOrder, Follows, worldVars
  <1>9. ASSUME NEW k \in Items, item'[k].status = "PENDING" PROVE Undecided(listing'[k[1]])
    <2>1. k # i /\ item[k].status = "PENDING" /\ k[1] \in Skus
      BY <1>2, <1>7, <1>9, ItemFacts
    <2>2. k[1] # s
      BY <1>2, <1>5, <2>1 DEF Sound, OneOpenItem
    <2> QED
      BY <1>6, <2>1, <2>2 DEF InOrder
  <1> QED
    BY <1>4, <1>8, <1>9 DEF InOrder, OneAtWork, ReviewerCurrent

LEMMA RejectInOrder ==
    ASSUME Sound, InOrder, NEW r \in Reviewers, Reject(r) \/ Leave(r)
    PROVE  InOrder'
  <1>1. Considering(r)
    BY DEF Considering, Reject, Leave
  <1>2. /\ reviewer' = [reviewer EXCEPT ![r] = IdleReviewer]
        /\ UNCHANGED <<worldVars, mapper, listing>>
    BY DEF Reject, Leave, Released, dbVars
  <1>3. /\ \A q \in Reviewers : ~Considering(q)'
        /\ \A m \in Jobs : ~Mapping(m)'
    BY <1>1, <1>2, DecidingAlone
  <1>4. \A k \in Items : item'[k].status = "PENDING" => item[k].status = "PENDING"
    <2> DEFINE i == reviewer[r].of
               x == Merge(item[i], reviewer[r].asked, Decided(reviewer[r].asked, "REJECTED", None))
    <2>1. x.status = "REJECTED"
      BY <1>1, DecidedFacts
    <2>2. item' = [item EXCEPT ![i] = x] \/ item' = item
      BY DEF Reject, Leave, dbVars
    <2> HIDE DEF x
    <2> QED
      BY <2>1, <2>2 DEF Sound, TypeOK
  <1>5. /\ (\A s \in Skus : Follows(listing[s], s))'
        /\ (\A k \in Items : item[k].status = "PENDING" => Undecided(listing[k[1]]))'
    BY <1>2, <1>4 DEF InOrder, Follows, worldVars
  <1> QED
    BY <1>3, <1>5 DEF InOrder, OneAtWork, ReviewerCurrent

LEMMA InitInOrder ==
    ASSUME Init
    PROVE  InOrder
  <1>1. (\A m \in Jobs : ~Mapping(m)) /\ \A r \in Reviewers : ~Considering(r)
    BY DEF Init, Mapping, Considering, IdleMapper, IdleReviewer
  <1>2. /\ \A s \in Skus : Follows(listing[s], s)
        /\ \A i \in Items : item[i].status # "PENDING"
    BY DEF Init, Follows, NoListing, NoItem
  <1> QED
    BY <1>1, <1>2 DEF InOrder, OneAtWork, ReviewerCurrent

LEMMA OrderlyStays == [Next]_vars => discipline' = discipline
  BY DEF Next, vars, Relist, Name, Barcode, Start, Fetch, Look, Map, Queue, Commit, Fail, Crash,
         Consider, Approve, Reject, Leave

LEMMA InOrderStep == IInv /\ [Next]_vars => IInv'
  <1> SUFFICES ASSUME IInv, [Next]_vars PROVE IInv'
    OBVIOUS
  <1>1. Sound /\ Sound' /\ TypeOK' /\ Orderly' = Orderly
    BY SoundStep, OrderlyStays DEF IInv, Sound, Orderly
  <1>2. ASSUME Orderly PROVE InOrder'
    <2>1. InOrder
      BY <1>2 DEF IInv
    <2>2. CASE \E s \in Skus : Relist(s) \/ \E p \in Products : Name(s, p) \/ Barcode(s, p)
      BY <1>1, <2>1, <2>2, WorldInOrder
    <2>3. CASE \E m \in Jobs : \/ Start(m) \/ Fetch(m) \/ Map(m) \/ Queue(m) \/ Commit(m)
                               \/ Fail(m) \/ Crash(m) \/ \E s \in Skus : Look(m, s)
      BY <1>1, <1>2, <2>1, <2>3,
         IdleInOrder, FetchInOrder, MapInOrder, QueueInOrder, CommitInOrder, LookInOrder
    <2>4. CASE \E r \in Reviewers : \/ \E i \in Items : Consider(r, i)
                                    \/ \E p \in Products : Approve(r, p)
                                    \/ Reject(r) \/ Leave(r)
      BY <1>1, <1>2, <2>1, <2>4, ConsiderInOrder, ApproveInOrder, RejectInOrder
    <2>5. CASE UNCHANGED vars
      BY <2>1, <2>5
      DEF vars, worldVars, dbVars, InOrder, OneAtWork, Mapping, Considering, Follows, ReviewerCurrent,
          MapperCurrent, Keeps, Asks, Answering, Accounted, At, Listing, ItemOf
    <2> QED
      BY <2>2, <2>3, <2>4, <2>5 DEF Next
  <1> QED
    BY <1>1, <1>2 DEF IInv

----------------------------------------------------------------------------
(* Theorems *)

\* The invariant behind the results below: locks, copies and open items of every
\* behaviour, and of orderly ones that what a session has read is still there.
THEOREM Invariance == Spec => []IInv
  <1>1. Init => IInv
    BY InitSound, InitInOrder DEF IInv
  <1> QED
    BY <1>1, InOrderStep, PTL DEF Spec

\* Two transactions that overlap never leave a listing with two open questions,
\* and of those that do not, none is about an approved listing; the tables keep
\* their types.
THEOREM QueueAsksWhatIsOpen == Spec => []OpenItemsAsk
  <1>1. IInv => OpenItemsAsk
    BY DEF IInv, Sound, OneOpenItem, InOrder, Undecided, OpenItemsAsk
  <1> QED
    BY <1>1, Invariance, PTL

\* Only NineYard's name approves, of runs and decisions that do not overlap.
THEOREM NamesDecide == Spec => []SystemFollowsNames
  <1>1. IInv => SystemFollowsNames
    BY DEF IInv, InOrder, Follows, SystemFollowsNames
  <1> QED
    BY <1>1, Invariance, PTL

\* AC-8.6, of runs and decisions that do not overlap: a run commits an approved
\* mapping as it found it.
THEOREM MappingsArePermanent == Spec => ApprovedMappingsStay
  <1> DEFINE Body == \A s \in Skus : Orderly /\ listing[s].status = "APPROVED" /\ ~Deciding
                                       => MappingOf(listing'[s]) = MappingOf(listing[s])
  <1>1. IInv /\ [Next]_vars => [Body]_vars
    <2> SUFFICES ASSUME IInv, Next, NEW s \in Skus, Orderly, listing[s].status = "APPROVED", ~Deciding
                 PROVE  MappingOf(listing'[s]) = MappingOf(listing[s])
      OBVIOUS
    <2>1. Sound /\ InOrder
      BY DEF IInv
    <2>2. CASE \E m \in Jobs : Commit(m)
      <3>1. PICK m \in Jobs : Commit(m)
        BY <2>2
      <3>2. Keeps(m, s)
        BY <2>1, <3>1, MappingAlone DEF Commit, Mapping, InHand
      <3>3. listing'[s] = Listing(m, s)
        BY <3>1 DEF Commit
      <3> QED
        BY <3>2, <3>3 DEF Keeps, Listing, Over
    <2>3. ASSUME NEW r \in Reviewers, NEW p \in Products, Approve(r, p) PROVE FALSE
      <3>1. reviewer[r].pc = "decide" /\ reviewer' = [reviewer EXCEPT ![r] = IdleReviewer]
        BY <2>3 DEF Approve, Released
      <3>2. reviewer'[r].pc = "idle"
        BY <2>1, <3>1 DEF Sound, TypeOK, IdleReviewer
      <3> QED
        BY <3>1, <3>2 DEF Deciding
    <2>4. CASE ~(\E m \in Jobs : Commit(m)) /\ ~(\E r \in Reviewers, p \in Products : Approve(r, p))
      <3>1. listing' = listing
        BY <2>4
        DEF Next, Relist, Name, Barcode, Start, Fetch, Look, Map, Queue, Fail, Crash, Consider, Reject, Leave, dbVars
      <3> QED
        BY <3>1
    <2> QED
      BY <2>2, <2>3, <2>4
  <1>2. Spec => [][Body]_vars
    BY <1>1, Invariance, PTL DEF Spec
  <1> QED
    BY <1>2 DEF ApprovedMappingsStay

\* Of runs that nobody overlaps: what was on sale when a run read the report is
\* mapped, in the queue, or declined by a person when it completes.
THEOREM NothingIsLeftOut == Spec => RunsLeaveNothingOut
  <1> DEFINE Body == \A r \in Runs : \A s \in Skus :
                        /\ Orderly /\ mapper[r[1]].read[s] = "ACTIVE"
                        /\ run[r] = "RUNNING" /\ run'[r] \in {"COMPLETED", "COMPLETED_WITH_ERRORS"}
                        => \/ listing'[s].status = "APPROVED"
                           \/ \E n \in 1 .. MaxItems :
                                \/ item'[<<s, n>>].status = "PENDING"
                                \/ Declined(item'[<<s, n>>], listing'[s])
  <1>1. IInv /\ [Next]_vars => [Body]_vars
    <2> SUFFICES ASSUME IInv, Next, NEW r \in Runs, NEW s \in Skus, Orderly, mapper[r[1]].read[s] = "ACTIVE",
                        run[r] = "RUNNING", run'[r] \in {"COMPLETED", "COMPLETED_WITH_ERRORS"}
                 PROVE  \/ listing'[s].status = "APPROVED"
                        \/ \E n \in 1 .. MaxItems : item'[<<s, n>>].status = "PENDING"
      OBVIOUS
    <2>1. Sound /\ InOrder /\ run \in [Runs -> {"ABSENT", "RUNNING", "COMPLETED", "COMPLETED_WITH_ERRORS", "FAILED"}]
      BY DEF IInv, Sound, TypeOK
    <2>2. ASSUME NEW m \in Jobs, Start(m) \/ Fail(m) PROVE FALSE
      BY <2>1, <2>2 DEF Start, Fail
    <2>3. CASE \E m \in Jobs : Commit(m)
      <3>1. PICK m \in Jobs : Commit(m)
        BY <2>3
      <3>2. r = <<m, mapper[m].no>>
        BY <2>1, <3>1 DEF Commit
      <3>3. r[1] = m /\ mapper[m].pc = "look" /\ mapper[m].todo = {}
        BY <3>1, <3>2 DEF Commit
      <3>4. Accounted(m, s)
        BY <2>1, <3>3, MappingAlone DEF Mapping, InHand
      <3>5. Listing(m, s).status = "APPROVED" \/ \E i \in Items : i[1] = s /\ ItemOf(m, i).status = "PENDING"
        BY <3>3, <3>4 DEF Accounted, At
      <3>6. ASSUME NEW i \in Items, i[1] = s, ItemOf(m, i).status = "PENDING"
            PROVE  \E n \in 1 .. MaxItems : item'[<<s, n>>].status = "PENDING"
        <4>1. item'[i].status = "PENDING" /\ i = <<s, i[2]>> /\ i[2] \in 1 .. MaxItems
          BY <3>1, <3>6, ItemFacts DEF Commit
        <4> QED
          BY <4>1
      <3>7. listing'[s] = Listing(m, s)
        BY <3>1 DEF Commit
      <3> QED
        BY <3>5, <3>6, <3>7
    <2>4. CASE ~(\E m \in Jobs : Commit(m) \/ Start(m) \/ Fail(m))
      <3>1. run' = run
        BY <2>4
        DEF Next, Relist, Name, Barcode, Fetch, Look, Map, Queue, Crash, Consider, Approve, Reject, Leave, dbVars
      <3> QED
        BY <3>1
    <2> QED
      BY <2>2, <2>3, <2>4
  <1>2. Spec => [][Body]_vars
    BY <1>1, Invariance, PTL DEF Spec
  <1> QED
    BY <1>2 DEF RunsLeaveNothingOut
=============================================================================
