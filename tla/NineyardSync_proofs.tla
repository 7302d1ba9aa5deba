-------------------------- MODULE NineyardSync_proofs --------------------------
(***************************************************************************)
(* Proofs about NineyardSync, for any items, products, processes and       *)
(* bounds: the catalogue's identities under two writers, the wholeness of  *)
(* a run, and what a run nobody disturbs has brought in.                   *)
(***************************************************************************)
EXTENDS NineyardSync, FiniteSetTheorems, TLAPS

\* The lock admits one writer, and what that writer has read is still true.
Alone ==
    /\ \A p, q \in Syncs : Holds(sync[p]) /\ Holds(sync[q]) => p = q
    /\ \A o, q \in Operators : Holds(operator[o]) /\ Holds(operator[q]) => o = q
    /\ \A p \in Syncs, o \in Operators : ~(Holds(sync[p]) /\ Holds(operator[o]))

\* A product that is not there is blank, one an item brought about carries its
\* id, and a product answers to its own number alone.
CatalogueOK(P) ==
    \A p \in Products :
        /\ P[p].number = None => P[p] = NoProduct
        /\ P[p].number # None /\ p \in Items => P[p].ext = p
        /\ P[p].numbers \subseteq {P[p].number}
        /\ P[p].attributes.export => P[p].numbers = {P[p].number}

\* Q keeps what the products of P are known by.
Follows(P, Q) ==
    \A p \in Products : P[p].number # None =>
        /\ P[p].ext # None => Q[p].ext = P[p].ext
        /\ P[p].upcs \subseteq Q[p].upcs
        /\ P[p].attributes.export => Q[p].attributes.export
        /\ Q[p].number = P[p].number

\* A run counts what it has seen once.
Sums(counts) == counts.seen = counts.created + counts.updated + counts.unchanged + counts.failed

WriterOK(me) ==
    /\ me.copy = product
    /\ CatalogueOK(me.new) /\ Follows(me.copy, me.new)
    /\ Sums(me.run)
    /\ records \subseteq me.records
    /\ \A y \in me.records : y \in records \/ y.run = me.no

OfRun(R, r) == {y \in R : y.run = r}
Recorded(R, r, counts) ==
    /\ IsFiniteSet(OfRun(R, r))
    /\ Cardinality(OfRun(R, r)) <= counts.created + counts.updated + counts.unchanged

RunsOK ==
    /\ \A p \in Syncs : sync[p].pc # "idle" => sync[p].no \in Runs /\ run[sync[p].no].status = "RUNNING"
    /\ \A p, q \in Syncs : sync[p].pc # "idle" /\ sync[q].pc # "idle" /\ sync[p].no = sync[q].no => p = q
    /\ \A r \in Runs :
         /\ run[r].status \in {"ABSENT", "RUNNING", "FAILED"} => OfRun(records, r) = {}
         /\ Sums(run[r]) /\ Recorded(records, r, run[r])

IInv ==
    /\ TypeOK
    /\ Alone
    /\ CatalogueOK(product)
    /\ RunsOK
    /\ \A p \in Syncs : Holds(sync[p]) => WriterOK(sync[p]) /\ Recorded(sync[p].records, sync[p].no, sync[p].run)
    /\ \A o \in Operators : Holds(operator[o]) => operator[o].copy = product

-----------------------------------------------------------------------------
(* The blank rows *)

\* A blank product, run and session have the types of the tables.
LEMMA BlankRows ==
    /\ NoProduct \in ProductRows /\ NoCatalogue \in Catalogues /\ NoRun \in RunRows
    /\ IdleSync \in SyncRows /\ IdleOperator \in OperatorRows
<1>1. NoProduct \in ProductRows
    BY DataAssumption DEF NoProduct, ProductRows
<1>2. NoCatalogue \in Catalogues
    BY <1>1 DEF NoCatalogue, Catalogues
<1>3. NoRun \in RunRows
    BY DEF NoRun, RunRows
<1>4. IdleSync \in SyncRows
    BY <1>2, <1>3 DEF IdleSync, SyncRows
<1>5. IdleOperator \in OperatorRows
    BY <1>2 DEF IdleOperator, OperatorRows
<1> QED BY <1>1, <1>2, <1>3, <1>4, <1>5

-----------------------------------------------------------------------------
(* What one item does to the catalogue *)

\* The product of an item is a product, and a new one was blank.
LEMMA ItsProduct ==
    ASSUME NEW P \in Catalogues, CatalogueOK(P), NEW e \in Items
    PROVE  /\ Its(P, e) \in Products
           /\ Owner(P, e) # {} => P[Its(P, e)].ext = e
           /\ Owner(P, e) = {} => Its(P, e) = e /\ P[e] = NoProduct
<1>1. CASE Owner(P, e) = {}
  <2>1. e \in Products /\ Its(P, e) = e
      BY <1>1 DEF Its, Products
  <2>2. P[e].ext # e
      BY <1>1, <2>1 DEF Owner
  <2> QED BY <1>1, <2>1, <2>2 DEF CatalogueOK
<1>2. CASE Owner(P, e) # {}
  <2>1. Its(P, e) \in Owner(P, e)
      BY <1>2 DEF Its
  <2> QED BY <1>2, <2>1 DEF Owner
<1> QED BY <1>1, <1>2

\* The row it gets: its own id and number, or the row with other words.
LEMMA ItsRow ==
    ASSUME NEW P \in Catalogues, CatalogueOK(P), NEW e \in Items, NEW x \in PayloadTypes
    PROVE  LET old == P[Its(P, e)]
               row == RowOf(P, e, x)
           IN  /\ row \in ProductRows
               /\ row.ext = e /\ row.number # None
               /\ row.numbers = old.numbers /\ row.upcs = old.upcs
               /\ row.attributes.export = old.attributes.export
               /\ Owner(P, e) # {} => row.number = old.number
               /\ Owner(P, e) = {} => old = NoProduct
<1> DEFINE old == P[Its(P, e)]
           row == RowOf(P, e, x)
           live == x.state = "LIVE"
<1>0. old \in ProductRows /\ x.name \in Numbers /\ None \notin Numbers /\ live \in BOOLEAN /\ e # None
    BY ItsProduct, DataAssumption DEF Catalogues, PayloadTypes, Products
<1>1. CASE Owner(P, e) = {}
  <2>1. row = [ext |-> e, number |-> x.name, title |-> x.name, active |-> live, seen |-> TRUE,
               attributes |-> [api |-> x.name, export |-> FALSE], numbers |-> {}, upcs |-> {}]
      BY <1>1 DEF RowOf, Created, Synced, NoProduct
  <2>2. old = NoProduct
      BY <1>1, ItsProduct
  <2>3. row \in ProductRows
    <3> HIDE DEF row, live
    <3> QED BY <2>1, <1>0 DEF ProductRows
  <2>4. old.numbers = {} /\ old.upcs = {} /\ old.attributes.export = FALSE
      BY <2>2 DEF NoProduct
  <2>5. row.numbers = {} /\ row.upcs = {} /\ row.attributes.export = FALSE /\ row.ext = e /\ row.number = x.name
      BY <2>1
  <2> HIDE DEF row, old
  <2> QED BY <1>0, <1>1, <2>2, <2>3, <2>4, <2>5 DEF row, old
<1>2. CASE Owner(P, e) # {}
  <2>1. row = [old EXCEPT !.title = x.name, !.attributes.api = x.name, !.active = live, !.seen = TRUE]
      BY <1>2 DEF RowOf, Synced
  <2>2. old.ext = e
      BY <1>2, ItsProduct
  <2>3. old.number # None
    <3>1. NoProduct.ext = None
        BY DEF NoProduct
    <3> QED BY <2>2, <3>1, <1>0, ItsProduct DEF CatalogueOK
  <2>4. row \in ProductRows
    <3> HIDE DEF row, live, old
    <3> QED BY <2>1, <1>0 DEF ProductRows
  <2>5. /\ row.numbers = old.numbers /\ row.upcs = old.upcs /\ row.number = old.number /\ row.ext = old.ext
        /\ row.attributes.export = old.attributes.export
    <3> HIDE DEF row, live, old
    <3> QED BY <2>1, <1>0 DEF ProductRows
  <2> HIDE DEF row, old
  <2> QED BY <1>0, <1>2, <2>2, <2>3, <2>4, <2>5 DEF row, old
<1> QED BY <1>1, <1>2

\* Other numbers or barcodes leave the rest of a row alone.
LEMMA NumbersChanged ==
    ASSUME NEW r \in ProductRows, NEW S \in SUBSET Numbers
    PROVE  LET t == [r EXCEPT !.numbers = S]
           IN  /\ t \in ProductRows /\ t.numbers = S
               /\ t.ext = r.ext /\ t.number = r.number /\ t.attributes = r.attributes /\ t.upcs = r.upcs
BY DEF ProductRows

LEMMA UpcsChanged ==
    ASSUME NEW r \in ProductRows, NEW S \in SUBSET Barcodes
    PROVE  LET t == [r EXCEPT !.upcs = S]
           IN  /\ t \in ProductRows /\ t.upcs = S
               /\ t.ext = r.ext /\ t.number = r.number /\ t.attributes = r.attributes /\ t.numbers = r.numbers
BY DEF ProductRows

\* The catalogue after an item is a catalogue, and what it read is followed.
LEMMA ItemKeeps ==
    ASSUME NEW P \in Catalogues, CatalogueOK(P), NEW C \in Catalogues, Follows(C, P),
           NEW e \in Items, NEW x \in PayloadTypes
    PROVE  LET Q == Ensured([P EXCEPT ![Its(P, e)] = RowOf(P, e, x)], Its(P, e), x)
           IN  Q \in Catalogues /\ CatalogueOK(Q) /\ Follows(C, Q)
<1> DEFINE q   == Its(P, e)
           old == P[q]
           row == RowOf(P, e, x)
           R   == [P EXCEPT ![q] = row]
           N   == NumberEnsured(R, q)
           Q   == Ensured(R, q, x)
           new == Q[q]
<1>1. q \in Products /\ e # None /\ None \notin Numbers /\ P \in [Products -> ProductRows]
    BY ItsProduct, DataAssumption DEF Catalogues, Products
<1>2. /\ row \in ProductRows /\ row.ext = e /\ row.number # None
      /\ row.numbers = old.numbers /\ row.upcs = old.upcs
      /\ row.attributes.export = old.attributes.export
      /\ Owner(P, e) # {} => row.number = old.number
      /\ Owner(P, e) = {} => old = NoProduct
    BY ItsRow
<1>3. old \in ProductRows
    BY <1>1
<1>4. row.number \in Numbers /\ x.upc \in Barcodes \union {None}
    BY <1>2 DEF ProductRows, PayloadTypes
<1>5. R \in [Products -> ProductRows] /\ R[q] = row /\ \A p \in Products \ {q} : R[p] = P[p]
    BY <1>1, <1>2
<1>6. /\ N \in [Products -> ProductRows] /\ \A p \in Products \ {q} : N[p] = P[p]
      /\ \E S \in {row.numbers, row.numbers \union {row.number}} : N[q] = [row EXCEPT !.numbers = S]
  <2>1. N = R \/ N = [R EXCEPT ![q].numbers = @ \union {R[q].number}]
      BY DEF NumberEnsured
  <2>2. row.numbers \in SUBSET Numbers /\ row = [row EXCEPT !.numbers = row.numbers]
      BY <1>2 DEF ProductRows
  <2>3. [row EXCEPT !.numbers = row.numbers \union {row.number}] \in ProductRows
      BY <1>2, <1>4, <2>2, NumbersChanged
  <2> HIDE DEF R, row, N
  <2> QED BY <2>1, <2>2, <2>3, <1>5, <1>1, <1>2
<1>6a. /\ N[q] \in ProductRows
       /\ N[q].ext = e /\ N[q].number = row.number /\ N[q].attributes = row.attributes
       /\ N[q].numbers \in {old.numbers, old.numbers \union {row.number}} /\ N[q].upcs = old.upcs
  <2>1. row.numbers \in SUBSET Numbers /\ row.numbers \union {row.number} \in SUBSET Numbers
      BY <1>2, <1>4 DEF ProductRows
  <2> HIDE DEF R, row, N, old
  <2> QED BY <2>1, <1>6, <1>2, NumbersChanged
<1>7. /\ Q \in [Products -> ProductRows] /\ \A p \in Products \ {q} : Q[p] = P[p]
      /\ \/ new = N[q]
         \/ x.upc \in Barcodes /\ new = [N[q] EXCEPT !.upcs = N[q].upcs \union {x.upc}]
  <2>1. \/ Q = N
        \/ x.upc \in Barcodes /\ Q = [N EXCEPT ![q].upcs = @ \union {x.upc}]
      BY <1>4 DEF Ensured, UpcEnsured
  <2>2. x.upc \in Barcodes => [N[q] EXCEPT !.upcs = N[q].upcs \union {x.upc}] \in ProductRows
    <3>1. N[q].upcs \in SUBSET Barcodes
        BY <1>6a DEF ProductRows
    <3> QED BY <3>1, <1>6a, UpcsChanged
  <2> HIDE DEF R, row, N, Q
  <2> QED BY <2>1, <2>2, <1>6, <1>1
<1>8. /\ new \in ProductRows
      /\ new.ext = e /\ new.number = row.number /\ new.attributes.export = old.attributes.export
      /\ new.numbers \in {old.numbers, old.numbers \union {row.number}}
      /\ old.upcs \subseteq new.upcs
  <2>1. x.upc \in Barcodes => N[q].upcs \union {x.upc} \in SUBSET Barcodes
      BY <1>6a DEF ProductRows
  <2> HIDE DEF R, row, N, Q, old, new
  <2>2. CASE new = N[q]
      BY <2>2, <1>6a, <1>2
  <2>3. CASE x.upc \in Barcodes /\ new = [N[q] EXCEPT !.upcs = N[q].upcs \union {x.upc}]
      BY <2>3, <2>1, <1>6a, <1>2, UpcsChanged
  <2> QED BY <2>2, <2>3, <1>7
<1>9. /\ NoProduct.number = None /\ NoProduct.numbers = {} /\ NoProduct.attributes.export = FALSE
    BY DEF NoProduct
<1>10. CatalogueOK(Q)
  <2> SUFFICES ASSUME NEW p \in Products
               PROVE  /\ Q[p].number = None => Q[p] = NoProduct
                      /\ Q[p].number # None /\ p \in Items => Q[p].ext = p
                      /\ Q[p].numbers \subseteq {Q[p].number}
                      /\ Q[p].attributes.export => Q[p].numbers = {Q[p].number}
      BY DEF CatalogueOK
  <2>1. CASE p # q
      BY <2>1, <1>7 DEF CatalogueOK
  <2>2. CASE p = q
    <3>1. q \in Items => q = e
      <4>1. CASE Owner(P, e) = {}
          BY <4>1, ItsProduct
      <4>2. CASE Owner(P, e) # {}
          BY <4>2, <1>1, <1>2, ItsProduct DEF CatalogueOK
      <4> QED BY <4>1, <4>2
    <3>2. /\ old.numbers \subseteq {row.number}
          /\ old.attributes.export => old.numbers = {row.number}
      <4>1. CASE Owner(P, e) = {}
          BY <4>1, <1>2, <1>9
      <4>2. CASE Owner(P, e) # {}
          BY <4>2, <1>1, <1>2 DEF CatalogueOK
      <4> QED BY <4>1, <4>2
    <3> HIDE DEF old, row, Q, q, new
    <3>3. new.number # None /\ new.numbers \subseteq {new.number}
        BY <3>2, <1>8, <1>2
    <3>4. new.attributes.export => new.numbers = {new.number}
        BY <3>2, <1>8, <1>2
    <3> QED BY <2>2, <3>1, <3>3, <3>4, <1>8 DEF new
  <2> QED BY <2>1, <2>2
<1>11. Follows(C, Q)
  <2> SUFFICES ASSUME NEW p \in Products, C[p].number # None
               PROVE  /\ C[p].ext # None => Q[p].ext = C[p].ext
                      /\ C[p].upcs \subseteq Q[p].upcs
                      /\ C[p].attributes.export => Q[p].attributes.export
                      /\ Q[p].number = C[p].number
      BY DEF Follows
  <2>1. /\ C[p].ext # None => P[p].ext = C[p].ext
        /\ C[p].upcs \subseteq P[p].upcs
        /\ C[p].attributes.export => P[p].attributes.export
        /\ P[p].number = C[p].number
      BY DEF Follows
  <2>2. CASE p # q
      BY <2>1, <2>2, <1>7
  <2>3. CASE p = q
    <3>1. Owner(P, e) # {}
        BY <2>1, <2>3, <1>2, <1>9
    <3>2. old.ext = e /\ row.number = old.number
        BY <3>1, <1>2, ItsProduct
    <3> HIDE DEF old, row, Q, new, q
    <3> QED BY <2>1, <2>3, <3>2, <1>8 DEF old, new
  <2> QED BY <2>2, <2>3
<1> QED BY <1>7, <1>10, <1>11 DEF Catalogues

\* What is counted for an item: once, and as one of the three.
LEMMA ItemCounted ==
    ASSUME NEW P, NEW e, NEW x, NEW c \in RunRows
    PROVE  LET d == Counted(P, e, x, c)
           IN  /\ d \in RunRows
               /\ d.created + d.updated + d.unchanged = c.created + c.updated + c.unchanged + 1
               /\ Sums(c) => Sums(d)
<1> DEFINE seen == [c EXCEPT !.seen = @ + 1, !.removed = IF x.state = "DELETED" THEN @ + 1 ELSE @]
           d == Counted(P, e, x, c)
<1>1. seen \in RunRows /\ seen.seen = c.seen + 1 /\ seen.created = c.created /\ seen.updated = c.updated
      /\ seen.unchanged = c.unchanged /\ seen.failed = c.failed
  <2>1. c.removed \in Nat /\ c.seen \in Nat
      BY DEF RunRows
  <2> DEFINE removed == IF x.state = "DELETED" THEN c.removed + 1 ELSE c.removed
  <2>2. removed \in Nat /\ c.seen + 1 \in Nat
      BY <2>1
  <2>3. seen = [c EXCEPT !.seen = c.seen + 1, !.removed = removed]
      OBVIOUS
  <2> HIDE DEF removed, seen
  <2> QED BY <2>2, <2>3 DEF RunRows
<1>2. \/ d = [seen EXCEPT !.created = @ + 1]
      \/ d = [seen EXCEPT !.updated = @ + 1]
      \/ d = [seen EXCEPT !.unchanged = @ + 1]
    BY DEF Counted
<1> HIDE DEF seen, d
<1>3. /\ d \in RunRows /\ d.seen = c.seen + 1 /\ d.failed = c.failed
      /\ d.created + d.updated + d.unchanged = c.created + c.updated + c.unchanged + 1
  <2>1. CASE d = [seen EXCEPT !.created = @ + 1]
      BY <2>1, <1>1 DEF RunRows
  <2>2. CASE d = [seen EXCEPT !.updated = @ + 1]
      BY <2>2, <1>1 DEF RunRows
  <2>3. CASE d = [seen EXCEPT !.unchanged = @ + 1]
      BY <2>3, <1>1 DEF RunRows
  <2> QED BY <1>2, <2>1, <2>2, <2>3
<1>4. Sums(c) => Sums(d)
    BY <1>3 DEF Sums, RunRows
<1> QED BY <1>3, <1>4 DEF d

-----------------------------------------------------------------------------
(* What a commit writes *)

\* Under the lock a transaction has read what is there, so that it writes the
\* catalogue it has made.
LEMMA MergedIsNew ==
    ASSUME NEW P \in Catalogues, NEW Q \in Catalogues, product = P
    PROVE  Merged(P, Q) = Q
<1> SUFFICES ASSUME NEW p \in Products
             PROVE  Merged(P, Q)[p] = Q[p]
    BY DEF Catalogues, Merged
<1> DEFINE m == Merged(P, Q)[p]
           u == P[p]
           v == Q[p]
<1>1. u \in ProductRows /\ v \in ProductRows
    BY DEF Catalogues
<1>2. m = [c \in DOMAIN NoProduct |->
             IF c \in {"numbers", "upcs"} THEN (u[c] \union v[c]) \ (u[c] \ v[c])
             ELSE IF v[c] = u[c] THEN u[c] ELSE v[c]]
    BY DEF Merged
<1>3. DOMAIN NoProduct = {"ext", "number", "title", "active", "seen", "attributes", "numbers", "upcs"}
    BY DEF NoProduct
<1>4. v = [c \in {"ext", "number", "title", "active", "seen", "attributes", "numbers", "upcs"} |-> v[c]]
    BY <1>1 DEF ProductRows
<1> HIDE DEF m, u, v
<1>5. \A c \in DOMAIN NoProduct : m[c] = v[c]
  <2> SUFFICES ASSUME NEW c \in DOMAIN NoProduct
               PROVE  m[c] = v[c]
      OBVIOUS
  <2>1. CASE c \in {"numbers", "upcs"}
      BY <2>1, <1>2
  <2>2. CASE c \notin {"numbers", "upcs"}
      BY <2>2, <1>2
  <2> QED BY <2>1, <2>2
<1>6. m = v
    BY <1>2, <1>3, <1>4, <1>5
<1> QED BY <1>6 DEF m, v

\* A row of an export: the product keeps its barcodes and carries its number.
LEMMA RowImportedIs ==
    ASSUME NEW r \in ProductRows, NEW x \in Rows
    PROVE  LET t == RowImported(r, x)
           IN  /\ t \in ProductRows
               /\ t.ext = x.item /\ t.number = x.number /\ t.numbers = {x.number}
               /\ t.attributes.export /\ r.upcs \subseteq t.upcs
BY DEF RowImported, ProductRows, Rows

\* An import leaves a catalogue in which every id, barcode and mark survives.
LEMMA ImportKeeps ==
    ASSUME NEW P \in Catalogues, CatalogueOK(P), NEW E \in SUBSET Rows
    PROVE  LET Q == Imported(P, E)
           IN  /\ Q \in Catalogues /\ CatalogueOK(Q)
               /\ \A p \in Products : P[p].number # None =>
                    /\ P[p].ext # None => Q[p].ext = P[p].ext
                    /\ P[p].upcs \subseteq Q[p].upcs
                    /\ P[p].attributes.export => Q[p].attributes.export
<1> DEFINE Q == Imported(P, E)
<1>1. E \subseteq Rows /\ None \notin Numbers /\ None \notin Items
    BY DataAssumption DEF Numbers
<1>2. ASSUME NEW p \in Products
      PROVE  /\ Q[p] \in ProductRows
             /\ Q[p].number = None => Q[p] = NoProduct
             /\ Q[p].number # None /\ p \in Items => Q[p].ext = p
             /\ Q[p].numbers \subseteq {Q[p].number}
             /\ Q[p].attributes.export => Q[p].numbers = {Q[p].number}
             /\ P[p].number # None =>
                  /\ P[p].ext # None => Q[p].ext = P[p].ext
                  /\ P[p].upcs \subseteq Q[p].upcs
                  /\ P[p].attributes.export => Q[p].attributes.export
  <2> DEFINE of == {x \in E : IF Target(P, x) = {} THEN p = x.item ELSE p \in Target(P, x)}
             old == P[p]
             row == Q[p]
  <2>0. old \in ProductRows
      BY DEF Catalogues
  <2>a. row = IF of = {} THEN old ELSE RowImported(old, CHOOSE x \in of : TRUE)
      BY DEF Imported
  <2>1. CASE of = {}
      BY <2>1, <2>a, <2>0 DEF CatalogueOK
  <2>2. CASE of # {}
    <3>1. PICK x \in of : row = RowImported(old, x)
        BY <2>2, <2>a
    <3>2. x \in Rows /\ (IF Target(P, x) = {} THEN p = x.item ELSE p \in Target(P, x))
        BY <1>1
    <3>3. /\ row \in ProductRows
          /\ row.ext = x.item /\ row.number = x.number /\ row.numbers = {x.number}
          /\ row.attributes.export /\ old.upcs \subseteq row.upcs
        BY <3>1, <3>2, <2>0, RowImportedIs
    <3>4. x.number # None /\ x.item # None
        BY <3>2, <1>1 DEF Rows
    <3>5. /\ old.number # None /\ old.ext # None => old.ext = x.item
          /\ p \in Items => p = x.item
      <4>0. NoProduct.ext = None
          BY DEF NoProduct
      <4>1. CASE Owner(P, x.item) # {}
        <5>1. old.ext = x.item
            BY <4>1, <3>2 DEF Target, Owner
        <5>2. old.number # None
            BY <5>1, <3>4, <4>0 DEF CatalogueOK
        <5> QED BY <5>1, <5>2 DEF CatalogueOK
      <4>2. CASE Owner(P, x.item) = {} /\ Target(P, x) # {}
        <5>1. old.ext = None /\ old.number = x.number
            BY <4>2, <3>2 DEF Target, Named
        <5> QED BY <5>1, <3>4, <1>1 DEF CatalogueOK
      <4>3. CASE Owner(P, x.item) = {} /\ Target(P, x) = {}
        <5>1. p = x.item /\ old.ext # x.item
            BY <4>3, <3>2 DEF Owner
        <5>2. old.number = None
            BY <5>1, <3>2 DEF CatalogueOK, Rows
        <5> QED BY <5>1, <5>2
      <4> QED BY <4>1, <4>2, <4>3
    <3> HIDE DEF row, of, Q
    <3> QED BY <3>3, <3>4, <3>5 DEF row
  <2> QED BY <2>1, <2>2
<1>3. Q = [p \in Products |-> Q[p]]
    BY DEF Imported
<1> HIDE DEF Q
<1>4. Q \in Catalogues /\ CatalogueOK(Q)
    BY <1>2, <1>3 DEF Catalogues, CatalogueOK
<1> QED BY <1>2, <1>4 DEF Q

-----------------------------------------------------------------------------
(* Steps of one actor that leave the tables alone *)

\* A step that changes what one sync process is doing, and nothing else.
LEMMA SyncStep ==
    ASSUME IInv, NEW p \in Syncs, NEW row \in SyncRows,
           sync' = [sync EXCEPT ![p] = row],
           UNCHANGED <<worldVars, catalogue, run, operator>>,
           row.pc # "idle" => sync[p].pc # "idle" /\ row.no = sync[p].no,
           Holds(row) => /\ WriterOK(row) /\ Recorded(row.records, row.no, row.run)
                         /\ Holds(sync[p]) \/ LockFree
    PROVE  IInv'
<1>0. /\ \A q \in Syncs \ {p} : sync'[q] = sync[q]
      /\ sync'[p] = row /\ sync \in [Syncs -> SyncRows]
      /\ product' = product /\ sku' = sku /\ records' = records /\ run' = run /\ operator' = operator
      /\ remote' = remote /\ mapped' = mapped /\ listed' = listed /\ changes' = changes
    BY DEF IInv, TypeOK, catalogue, worldVars
<1>1. TypeOK'
    BY <1>0 DEF IInv, TypeOK
<1>2. Alone'
    BY <1>0 DEF IInv, Alone, LockFree
<1>3. CatalogueOK(product)'
    BY <1>0 DEF IInv, CatalogueOK
<1>4. RunsOK'
  <2>1. ASSUME NEW q \in Syncs, sync'[q].pc # "idle"
        PROVE  sync[q].pc # "idle" /\ sync'[q].no = sync[q].no
      BY <2>1, <1>0
  <2>2. \A q \in Syncs : sync'[q].pc # "idle" => sync'[q].no \in Runs /\ run'[sync'[q].no].status = "RUNNING"
      BY <2>1, <1>0 DEF IInv, RunsOK
  <2>3. \A q, k \in Syncs : sync'[q].pc # "idle" /\ sync'[k].pc # "idle" /\ sync'[q].no = sync'[k].no => q = k
      BY <2>1 DEF IInv, RunsOK
  <2>4. \A r \in Runs :
          /\ run'[r].status \in {"ABSENT", "RUNNING", "FAILED"} => OfRun(records', r) = {}
          /\ Sums(run'[r]) /\ Recorded(records', r, run'[r])
      BY <1>0 DEF IInv, RunsOK
  <2> QED BY <2>2, <2>3, <2>4 DEF RunsOK, OfRun, Sums, Recorded
<1>5. ASSUME NEW q \in Syncs, Holds(sync'[q])
      PROVE  WriterOK(sync[q])' /\ Recorded(sync'[q].records, sync'[q].no, sync'[q].run)
  <2>1. CASE q = p
      BY <2>1, <1>5, <1>0 DEF WriterOK, CatalogueOK, Follows, Sums
  <2>2. CASE q # p
      BY <2>2, <1>5, <1>0 DEF IInv, WriterOK, CatalogueOK, Follows, Sums
  <2> QED BY <2>1, <2>2
<1>6. \A o \in Operators : Holds(operator'[o]) => operator'[o].copy = product'
    BY <1>0 DEF IInv
<1> QED BY <1>1, <1>2, <1>3, <1>4, <1>5, <1>6 DEF IInv, Holds, Recorded, OfRun

\* A step that changes what one operator is doing, and nothing else.
LEMMA OperatorStep ==
    ASSUME IInv, NEW o \in Operators, NEW row \in OperatorRows,
           operator' = [operator EXCEPT ![o] = row],
           UNCHANGED <<worldVars, catalogue, run, sync>>,
           Holds(row) => row.copy = product /\ LockFree
    PROVE  IInv'
<1>0. /\ \A q \in Operators \ {o} : operator'[q] = operator[q]
      /\ operator'[o] = row /\ operator \in [Operators -> OperatorRows]
      /\ product' = product /\ sku' = sku /\ records' = records /\ run' = run /\ sync' = sync
      /\ remote' = remote /\ mapped' = mapped /\ listed' = listed /\ changes' = changes
    BY DEF IInv, TypeOK, catalogue, worldVars
<1>1. TypeOK'
    BY <1>0 DEF IInv, TypeOK
<1>2. Alone'
    BY <1>0 DEF IInv, Alone, LockFree
<1>3. CatalogueOK(product)' /\ RunsOK'
    BY <1>0 DEF IInv, CatalogueOK, RunsOK, OfRun, Sums, Recorded
<1>4. ASSUME NEW q \in Syncs, Holds(sync'[q])
      PROVE  WriterOK(sync[q])' /\ Recorded(sync'[q].records, sync'[q].no, sync'[q].run)
    BY <1>4, <1>0 DEF IInv, WriterOK, CatalogueOK, Follows, Sums
<1>5. ASSUME NEW q \in Operators, Holds(operator'[q])
      PROVE  operator'[q].copy = product'
    BY <1>5, <1>0 DEF IInv
<1> QED BY <1>1, <1>2, <1>3, <1>4, <1>5 DEF IInv, Holds, Recorded, OfRun

-----------------------------------------------------------------------------
(* The steps of a sync *)

\* A record more is counted once.
LEMMA RecordCounted ==
    ASSUME NEW R, NEW r \in Runs, NEW c \in RunRows, NEW d \in RunRows, NEW z, Recorded(R, r, c), z.run = r,
           d.created + d.updated + d.unchanged = c.created + c.updated + c.unchanged + 1
    PROVE  Recorded(R, r, d) /\ Recorded(R \union {z}, r, d)
<1> DEFINE k == Cardinality(OfRun(R, r))
           n == Cardinality(OfRun(R, r) \union {z})
           m == c.created + c.updated + c.unchanged
<1>1. OfRun(R \union {z}, r) = OfRun(R, r) \union {z}
    BY DEF OfRun
<1>2. IsFiniteSet(OfRun(R, r)) /\ k <= m
    BY DEF Recorded
<1>3. IsFiniteSet(OfRun(R, r) \union {z}) /\ n \in {k, k + 1} /\ k \in Nat
    BY <1>2, FS_AddElement, FS_CardinalityType
<1>4. m \in Nat
    BY DEF RunRows
<1> HIDE DEF k, n, m
<1>5. k <= m + 1 /\ n <= m + 1
    BY <1>2, <1>3, <1>4
<1>6. k <= d.created + d.updated + d.unchanged /\ n <= d.created + d.updated + d.unchanged
    BY <1>5 DEF m
<1> QED BY <1>1, <1>2, <1>3, <1>6 DEF Recorded, k, n

\* One item keeps the catalogue in the making and the counts whole.
LEMMA ApplyItemStep ==
    ASSUME IInv, NEW p \in Syncs, ApplyItem(p)
    PROVE  IInv'
<1> DEFINE me == sync[p]
<1>1. /\ me \in SyncRows /\ me.pc = "apply" /\ me.no \in Runs
      /\ WriterOK(me) /\ Recorded(me.records, me.no, me.run)
    BY DEF IInv, TypeOK, RunsOK, Holds, ApplyItem
<1>2. PICK y \in me.items :
         sync' = [sync EXCEPT ![p] =
               IF y.payload.state = "BROKEN"
               THEN [me EXCEPT !.items = @ \ {y}, !.run.seen = @ + 1, !.run.failed = @ + 1]
               ELSE [me EXCEPT
                      !.items = @ \ {y},
                      !.new = Ensured([@ EXCEPT ![Its(me.new, y.item)] = RowOf(me.new, y.item, y.payload)],
                                      Its(me.new, y.item), y.payload),
                      !.run = Counted(me.new, y.item, y.payload, @),
                      !.records = IF \E k \in @ : k.item = y.item /\ k.payload = y.payload THEN @
                                  ELSE @ \union {[item |-> y.item, payload |-> y.payload, run |-> me.no]}]]
    BY DEF ApplyItem, ItemApplied
<1>3. UNCHANGED <<worldVars, catalogue, run, operator>>
    BY DEF ApplyItem
<1>4. /\ y.item \in Items /\ y.payload \in PayloadTypes
      /\ me.new \in Catalogues /\ me.copy \in Catalogues /\ me.run \in RunRows /\ me.records \in SUBSET RecordRows
    BY <1>1 DEF SyncRows
<1>5. /\ CatalogueOK(me.new) /\ Follows(me.copy, me.new) /\ Sums(me.run) /\ me.copy = product
      /\ records \subseteq me.records
      /\ \A k \in me.records : k \in records \/ k.run = me.no
    BY <1>1 DEF WriterOK
<1> HIDE DEF me
<1>6. CASE y.payload.state = "BROKEN"
  <2> DEFINE c == [me.run EXCEPT !.seen = @ + 1, !.failed = @ + 1]
             rest == me.items \ {y}
             row == [me EXCEPT !.items = rest, !.new = me.new, !.run = c, !.records = me.records]
  <2>1. /\ c \in RunRows
        /\ c.created = me.run.created /\ c.updated = me.run.updated /\ c.unchanged = me.run.unchanged
        /\ c.seen = me.run.seen + 1 /\ c.failed = me.run.failed + 1
    <3>1. /\ me.run.seen \in Nat /\ me.run.failed \in Nat
        BY <1>4 DEF RunRows
    <3>2. me.run.seen + 1 \in Nat /\ me.run.failed + 1 \in Nat
        BY <3>1
    <3> QED BY <3>2, <1>4 DEF RunRows
  <2>2. Sums(c)
    <3> HIDE DEF c
    <3> QED BY <2>1, <1>4, <1>5 DEF Sums, RunRows
  <2>3. sync' = [sync EXCEPT ![p] = row]
    <3>1. [me EXCEPT !.items = @ \ {y}, !.run.seen = @ + 1, !.run.failed = @ + 1] = row
        BY <1>1 DEF SyncRows
    <3> QED BY <3>1, <1>2, <1>6
  <2> HIDE DEF c, row
  <2>4. /\ row \in SyncRows /\ row.pc = me.pc /\ row.no = me.no /\ row.copy = me.copy
        /\ row.new = me.new /\ row.run = c /\ row.records = me.records
    <3>1. rest \in SUBSET [page : Nat, item : Items, payload : PayloadTypes]
        BY <1>1 DEF SyncRows
    <3> HIDE DEF rest
    <3> QED BY <3>1, <1>1, <1>4, <2>1 DEF row, SyncRows
  <2>5. WriterOK(row)
      BY <2>4, <2>2, <1>5 DEF WriterOK
  <2>6. Recorded(row.records, row.no, row.run)
      BY <2>4, <2>1, <1>1 DEF Recorded
  <2> QED BY <2>3, <2>4, <2>5, <2>6, <1>1, <1>3, SyncStep DEF Holds, me
<1>7. CASE y.payload.state # "BROKEN"
  <2> DEFINE N == Ensured([me.new EXCEPT ![Its(me.new, y.item)] = RowOf(me.new, y.item, y.payload)],
                          Its(me.new, y.item), y.payload)
             c == Counted(me.new, y.item, y.payload, me.run)
             z == [item |-> y.item, payload |-> y.payload, run |-> me.no]
             R == IF \E k \in me.records : k.item = y.item /\ k.payload = y.payload THEN me.records
                  ELSE me.records \union {z}
             rest == me.items \ {y}
             row == [me EXCEPT !.items = rest, !.new = N, !.run = c, !.records = R]
  <2>1. N \in Catalogues /\ CatalogueOK(N) /\ Follows(me.copy, N)
      BY <1>4, <1>5, ItemKeeps
  <2>2. /\ c \in RunRows /\ Sums(c)
        /\ c.created + c.updated + c.unchanged = me.run.created + me.run.updated + me.run.unchanged + 1
      BY <1>4, <1>5, ItemCounted
  <2>3. z \in RecordRows /\ z.run = me.no
      BY <1>1, <1>4 DEF RecordRows
  <2>4. R = me.records \/ R = me.records \union {z}
      OBVIOUS
  <2>5. sync' = [sync EXCEPT ![p] = row]
    <3>1. sync' = [sync EXCEPT ![p] =
                     [me EXCEPT
                      !.items = @ \ {y},
                      !.new = Ensured([@ EXCEPT ![Its(me.new, y.item)] = RowOf(me.new, y.item, y.payload)],
                                      Its(me.new, y.item), y.payload),
                      !.run = Counted(me.new, y.item, y.payload, @),
                      !.records = IF \E k \in @ : k.item = y.item /\ k.payload = y.payload THEN @
                                  ELSE @ \union {[item |-> y.item, payload |-> y.payload, run |-> me.no]}]]
        BY <1>2, <1>7
    <3> QED BY <3>1
  <2> HIDE DEF N, c, z, R, row
  <2>6. R \in SUBSET RecordRows
      BY <2>3, <2>4, <1>4
  <2>7. /\ row \in SyncRows /\ row.pc = me.pc /\ row.no = me.no /\ row.copy = me.copy
        /\ row.new = N /\ row.run = c /\ row.records = R
    <3>1. rest \in SUBSET [page : Nat, item : Items, payload : PayloadTypes]
        BY <1>1 DEF SyncRows
    <3> HIDE DEF rest
    <3> QED BY <3>1, <1>1, <2>1, <2>2, <2>6 DEF row, SyncRows
  <2>8. WriterOK(row)
    <3>1. records \subseteq R /\ \A k \in R : k \in records \/ k.run = me.no
        BY <2>3, <2>4, <1>5
    <3> QED BY <3>1, <2>7, <2>1, <2>2, <1>5 DEF WriterOK
  <2>9. Recorded(row.records, row.no, row.run)
    <3>1. Recorded(me.records, me.no, c) /\ Recorded(me.records \union {z}, me.no, c)
        BY <2>2, <2>3, <1>1, <1>4, RecordCounted
    <3> QED BY <3>1, <2>4, <2>7
  <2> QED BY <2>5, <2>7, <2>8, <2>9, <1>1, <1>3, SyncStep DEF Holds, me
<1> QED BY <1>6, <1>7

\* What has been read is added to what was read before.
LEMMA ReadItemsStep ==
    ASSUME IInv, NEW p \in Syncs, ReadItems(p)
    PROVE  IInv'
<1> DEFINE me == sync[p]
           read == {[page |-> me.page, item |-> y.item, payload |-> y.payload] : y \in Page(me.page)}
           row == [me EXCEPT !.items = @ \union read, !.pages = @ \union {Page(me.page)}, !.page = @ + 1,
                             !.pc = IF LastPage(me.page) THEN "skus" ELSE "items"]
<1>1. me \in SyncRows /\ me.pc = "items" /\ remote \in [Items -> PayloadTypes \union {None}]
    BY DEF IInv, TypeOK, ReadItems
<1>2. sync' = [sync EXCEPT ![p] = row] /\ UNCHANGED <<worldVars, catalogue, run, operator>>
    BY <1>1 DEF ReadItems, IInv, TypeOK
<1>3. Page(me.page) \in SUBSET [item : Items, payload : PayloadTypes]
    BY <1>1 DEF Page, There
<1>4. read \in SUBSET [page : Nat, item : Items, payload : PayloadTypes] /\ me.page + 1 \in Nat
  <2>1. me.page \in Nat /\ me.page + 1 \in Nat
      BY <1>1 DEF SyncRows
  <2> QED BY <2>1, <1>3
<1>5. row.pc # "idle" /\ row.pc # "apply" /\ row.no = me.no /\ row \in SyncRows
  <2> HIDE DEF read, me
  <2>1. me.items \union read \in SUBSET [page : Nat, item : Items, payload : PayloadTypes]
        /\ me.pages \union {Page(me.page)} \in SUBSET SUBSET [item : Items, payload : PayloadTypes]
      BY <1>1, <1>3, <1>4 DEF SyncRows
  <2> QED BY <2>1, <1>1, <1>4 DEF SyncRows
<1> HIDE DEF row
<1> QED BY <1>1, <1>2, <1>5, SyncStep DEF Holds

LEMMA ReadSkusStep ==
    ASSUME IInv, NEW p \in Syncs, ReadSkus(p)
    PROVE  IInv'
<1> DEFINE me == sync[p]
           maps == MappingRecords(me.skus)
           row == [me EXCEPT !.maps = maps, !.pc = "lock", !.pages = {}, !.page = 1]
<1>1. me \in SyncRows /\ me.pc = "skus" /\ mapped \in [Skus -> SUBSET (Items \union {None})]
    BY DEF IInv, TypeOK, ReadSkus
<1>2. sync' = [sync EXCEPT ![p] = row] /\ UNCHANGED <<worldVars, catalogue, run, operator>>
    BY DEF ReadSkus
<1>3. maps \in SUBSET (Skus \X SUBSET (Items \union {None}))
  <2>1. me.skus \subseteq Skus
      BY <1>1 DEF SyncRows
  <2> QED BY <2>1, <1>1 DEF MappingRecords
<1>4. row.pc = "lock" /\ row.no = me.no /\ row \in SyncRows
  <2> HIDE DEF maps, me
  <2> QED BY <1>1, <1>3 DEF SyncRows
<1> HIDE DEF row
<1> QED BY <1>1, <1>2, <1>4, SyncStep DEF Holds

\* The writer begins with the tables as they are.
LEMMA LockSyncStep ==
    ASSUME IInv, NEW p \in Syncs, LockSync(p)
    PROVE  IInv'
<1> DEFINE me == sync[p]
           counts == run[me.no]
           row == [me EXCEPT !.pc = "apply", !.copy = product, !.new = product, !.records = records, !.run = counts]
<1>1. /\ me \in SyncRows /\ me.pc = "lock" /\ me.no \in Runs /\ LockFree
      /\ product \in Catalogues /\ records \in SUBSET RecordRows /\ counts \in RunRows
    BY DEF IInv, TypeOK, RunsOK, LockSync
<1>2. sync' = [sync EXCEPT ![p] = row] /\ UNCHANGED <<worldVars, catalogue, run, operator>>
    BY DEF LockSync
<1>3. CatalogueOK(product) /\ Sums(counts) /\ Recorded(records, me.no, counts)
    BY <1>1 DEF IInv, RunsOK
<1> HIDE DEF counts, me
<1>4. /\ row \in SyncRows /\ row.pc = "apply" /\ row.no = me.no
      /\ row.copy = product /\ row.new = product /\ row.records = records /\ row.run = counts
    BY <1>1 DEF SyncRows
<1> HIDE DEF row
<1>5. WriterOK(row)
    BY <1>3, <1>4 DEF WriterOK, Follows
<1>6. row.pc # "idle" => sync[p].pc # "idle" /\ row.no = sync[p].no
    BY <1>1, <1>4 DEF me
<1> QED BY <1>1, <1>2, <1>3, <1>4, <1>5, <1>6, SyncStep

LEMMA CrashStep ==
    ASSUME IInv, NEW p \in Syncs, Crash(p)
    PROVE  IInv'
<1>1. IdleSync.pc = "idle" /\ IdleSync \in SyncRows
    BY BlankRows DEF IdleSync
<1> QED BY <1>1, SyncStep DEF Crash, Holds

\* A new run takes a number of its own.
LEMMA StartStep ==
    ASSUME IInv, NEW p \in Syncs, Start(p)
    PROVE  IInv'
<1>1. PICK r \in Runs :
         /\ \A k \in Runs : run[k].status = "ABSENT" <=> k >= r
         /\ run' = [run EXCEPT ![r].status = "RUNNING"]
         /\ sync' = [sync EXCEPT ![p] = [IdleSync EXCEPT !.pc = "items", !.no = r, !.skus = listed]]
    BY DEF Start
<1> DEFINE row == [IdleSync EXCEPT !.pc = "items", !.no = r, !.skus = listed]
           new == [run[r] EXCEPT !.status = "RUNNING"]
<1>2. /\ product' = product /\ sku' = sku /\ records' = records /\ operator' = operator
      /\ remote' = remote /\ mapped' = mapped /\ listed' = listed /\ changes' = changes
    BY DEF Start, worldVars, catalogue
<1>3. /\ sync \in [Syncs -> SyncRows] /\ run \in [Runs -> RunRows] /\ listed \subseteq Skus /\ sync[p].pc = "idle"
    BY DEF IInv, TypeOK, Start
<1>4. row \in SyncRows /\ row.pc = "items" /\ row.no = r
  <2>1. IdleSync \in SyncRows
      BY BlankRows
  <2>2. row.pc = "items" /\ row.no = r
      BY DEF IdleSync
  <2> QED BY <2>1, <2>2, <1>3 DEF SyncRows
<1>5. run[r].status = "ABSENT"
    BY <1>1 DEF Runs
<1>6. /\ new \in RunRows /\ new.status = "RUNNING"
      /\ new.seen = run[r].seen /\ new.created = run[r].created /\ new.updated = run[r].updated
      /\ new.unchanged = run[r].unchanged /\ new.failed = run[r].failed
    BY <1>3 DEF RunRows
<1>7. run' = [run EXCEPT ![r] = new] /\ sync' = [sync EXCEPT ![p] = row]
    BY <1>1
<1> HIDE DEF row, new
<1>8. /\ \A q \in Syncs \ {p} : sync'[q] = sync[q]
      /\ sync'[p] = row
      /\ \A k \in Runs \ {r} : run'[k] = run[k]
      /\ run'[r] = new
    BY <1>3, <1>7
<1>9. TypeOK'
    BY <1>2, <1>3, <1>4, <1>6, <1>7 DEF IInv, TypeOK
<1>10. Alone'
    BY <1>2, <1>4, <1>8 DEF IInv, Alone, Holds
<1>11. CatalogueOK(product)'
    BY <1>2 DEF IInv, CatalogueOK
<1>12. RunsOK'
  <2>1. \A q \in Syncs \ {p} : sync[q].pc # "idle" => sync[q].no \in Runs /\ sync[q].no # r
      BY <1>5 DEF IInv, RunsOK
  <2>2. \A q \in Syncs : sync'[q].pc # "idle" => sync'[q].no \in Runs /\ run'[sync'[q].no].status = "RUNNING"
      BY <2>1, <1>4, <1>6, <1>8 DEF IInv, RunsOK
  <2>3. \A q, k \in Syncs : sync'[q].pc # "idle" /\ sync'[k].pc # "idle" /\ sync'[q].no = sync'[k].no => q = k
      BY <2>1, <1>4, <1>8 DEF IInv, RunsOK
  <2>4. ASSUME NEW k \in Runs
        PROVE  /\ run'[k].status \in {"ABSENT", "RUNNING", "FAILED"} => OfRun(records', k) = {}
               /\ Sums(run'[k]) /\ Recorded(records', k, run'[k])
    <3>1. CASE k # r
        BY <3>1, <1>2, <1>8 DEF IInv, RunsOK
    <3>2. CASE k = r
        BY <3>2, <1>2, <1>5, <1>6, <1>8 DEF IInv, RunsOK, Sums, Recorded
    <3> QED BY <3>1, <3>2
  <2> QED BY <2>2, <2>3, <2>4 DEF RunsOK, OfRun, Sums, Recorded
<1>13. ASSUME NEW q \in Syncs, Holds(sync'[q])
       PROVE  WriterOK(sync[q])' /\ Recorded(sync'[q].records, sync'[q].no, sync'[q].run)
  <2>1. q # p
      BY <1>13, <1>4, <1>8 DEF Holds
  <2> QED BY <2>1, <1>13, <1>2, <1>8 DEF IInv, WriterOK, CatalogueOK, Follows, Sums
<1>14. \A o \in Operators : Holds(operator'[o]) => operator'[o].copy = product'
    BY <1>2 DEF IInv
<1> QED BY <1>9, <1>10, <1>11, <1>12, <1>13, <1>14 DEF IInv, Holds, Recorded, OfRun

\* The world changes: no process still reads it undisturbed.
LEMMA ChangeStep ==
    ASSUME IInv, Change
    PROVE  IInv'
<1>1. /\ product' = product /\ sku' = sku /\ records' = records /\ run' = run /\ operator' = operator
      /\ sync' = [p \in Syncs |-> [sync[p] EXCEPT !.quiet = FALSE]]
      /\ changes < MaxChanges /\ changes' = changes + 1
    BY DEF Change, catalogue
<1>2. remote' \in [Items -> PayloadTypes \union {None}] /\ mapped' \in [Skus -> SUBSET (Items \union {None})] /\ listed' \subseteq Skus
  <2>1. /\ remote \in [Items -> PayloadTypes \union {None}] /\ mapped \in [Skus -> SUBSET (Items \union {None})]
        /\ listed \subseteq Skus
      BY DEF IInv, TypeOK
  <2>2. CASE \E i \in Items : \E x \in Payloads[i] \union {None} : remote' = [remote EXCEPT ![i] = x] /\ UNCHANGED <<mapped, listed>>
    <3>1. PICK i \in Items : \E x \in Payloads[i] \union {None} : remote' = [remote EXCEPT ![i] = x] /\ UNCHANGED <<mapped, listed>>
        BY <2>2
    <3>2. PICK x \in Payloads[i] \union {None} : remote' = [remote EXCEPT ![i] = x] /\ UNCHANGED <<mapped, listed>>
        BY <3>1
    <3>3. x \in PayloadTypes \union {None}
        BY DataAssumption
    <3> QED BY <2>1, <3>2, <3>3
  <2>3. CASE \E s \in Skus : \E M \in Mappings[s] : mapped' = [mapped EXCEPT ![s] = M] /\ UNCHANGED <<remote, listed>>
    <3>1. PICK s \in Skus : \E M \in Mappings[s] : mapped' = [mapped EXCEPT ![s] = M] /\ UNCHANGED <<remote, listed>>
        BY <2>3
    <3>2. PICK M \in Mappings[s] : mapped' = [mapped EXCEPT ![s] = M] /\ UNCHANGED <<remote, listed>>
        BY <3>1
    <3>3. M \in SUBSET (Items \union {None})
        BY DataAssumption
    <3> QED BY <2>1, <3>2, <3>3
  <2>4. CASE \E s \in Skus : listed' = listed \ {s} /\ UNCHANGED <<remote, mapped>>
      BY <2>1, <2>4
  <2> QED BY <2>2, <2>3, <2>4 DEF Change
<1>3. changes' \in 0 .. MaxChanges
    BY <1>1, BoundsAssumption DEF IInv, TypeOK
<1>4. ASSUME NEW p \in Syncs
      PROVE  /\ sync'[p] \in SyncRows /\ sync'[p].pc = sync[p].pc /\ sync'[p].no = sync[p].no
             /\ sync'[p].copy = sync[p].copy /\ sync'[p].new = sync[p].new
             /\ sync'[p].records = sync[p].records /\ sync'[p].run = sync[p].run
  <2>1. sync[p] \in SyncRows /\ sync'[p] = [sync[p] EXCEPT !.quiet = FALSE]
      BY <1>1 DEF IInv, TypeOK
  <2> QED BY <2>1 DEF SyncRows
<1>5. TypeOK'
    BY <1>1, <1>2, <1>3, <1>4 DEF IInv, TypeOK
<1>6. Alone'
  <2>1. \A p \in Syncs : sync'[p].pc = sync[p].pc
      BY <1>4
  <2>2. operator' = operator
      BY <1>1
  <2> QED BY <2>1, <2>2 DEF IInv, Alone, Holds
<1>7. CatalogueOK(product)'
    BY <1>1 DEF IInv, CatalogueOK
<1>8. RunsOK'
  <2>1. \A q \in Syncs : sync'[q].pc # "idle" => sync'[q].no \in Runs /\ run'[sync'[q].no].status = "RUNNING"
      BY <1>1, <1>4 DEF IInv, RunsOK
  <2>2. \A q, k \in Syncs : sync'[q].pc # "idle" /\ sync'[k].pc # "idle" /\ sync'[q].no = sync'[k].no => q = k
      BY <1>4 DEF IInv, RunsOK
  <2>3. \A r \in Runs :
          /\ run'[r].status \in {"ABSENT", "RUNNING", "FAILED"} => OfRun(records', r) = {}
          /\ Sums(run'[r]) /\ Recorded(records', r, run'[r])
      BY <1>1 DEF IInv, RunsOK
  <2> QED BY <2>1, <2>2, <2>3 DEF RunsOK, OfRun, Sums, Recorded
<1>9. ASSUME NEW p \in Syncs, Holds(sync'[p])
      PROVE  WriterOK(sync[p])' /\ Recorded(sync'[p].records, sync'[p].no, sync'[p].run)
  <2>1. Holds(sync[p])
      BY <1>4, <1>9 DEF Holds
  <2> QED BY <2>1, <1>1, <1>4 DEF IInv, WriterOK, CatalogueOK, Follows, Sums
<1>10. \A o \in Operators : Holds(operator'[o]) => operator'[o].copy = product'
    BY <1>1 DEF IInv
<1> QED BY <1>5, <1>6, <1>7, <1>8, <1>9, <1>10 DEF IInv, Holds, Recorded, OfRun

\* What a sync's commit writes is what it has made of the tables it read.
LEMMA CommitWrites ==
    ASSUME IInv, NEW p \in Syncs, Commit(p)
    PROVE  /\ product' = sync[p].new /\ records' = sync[p].records
           /\ WriterOK(sync[p]) /\ Recorded(sync[p].records, sync[p].no, sync[p].run)
           /\ \A q \in Syncs \ {p} : ~Holds(sync[q])
           /\ \A o \in Operators : ~Holds(operator[o])
           /\ sku' \in [Skus -> Products \union {None}]
           /\ \A s \in Skus : sku[s] # None => sku'[s] = sku[s]
<1> DEFINE me == sync[p]
<1>1. /\ me \in SyncRows /\ Holds(me) /\ WriterOK(me) /\ Recorded(me.records, me.no, me.run)
      /\ product \in Catalogues /\ sku \in [Skus -> Products \union {None}]
    BY DEF IInv, TypeOK, Commit, Holds
<1>2. product' = me.new
  <2>1. me.copy \in Catalogues /\ me.new \in Catalogues /\ product = me.copy
      BY <1>1 DEF SyncRows, WriterOK
  <2> QED BY <2>1, MergedIsNew DEF Commit
<1>3. records' = me.records
    BY <1>1 DEF Commit, WriterOK
<1>4. (\A q \in Syncs \ {p} : ~Holds(sync[q])) /\ (\A o \in Operators : ~Holds(operator[o]))
    BY <1>1 DEF IInv, Alone
<1>5. /\ sku' \in [Skus -> Products \union {None}]
      /\ \A s \in Skus : sku[s] # None => sku'[s] = sku[s]
  <2> DEFINE of(s) == {q \in Products : \E y \in me.maps : y[1] = s /\ Cardinality(y[2]) = 1 /\ me.new[q].ext \in y[2]}
  <2>1. sku' = [s \in Skus |-> IF sku[s] # None \/ of(s) = {} THEN sku[s] ELSE CHOOSE q \in of(s) : TRUE]
      BY DEF Commit, SkuNamed
  <2>2. \A s \in Skus : of(s) # {} => (CHOOSE q \in of(s) : TRUE) \in Products
      OBVIOUS
  <2> HIDE DEF of
  <2> QED BY <2>1, <2>2, <1>1
<1> QED BY <1>1, <1>2, <1>3, <1>4, <1>5

\* A commit leaves a whole run and nobody under the lock.
LEMMA CommitStep ==
    ASSUME IInv, NEW p \in Syncs, Commit(p)
    PROVE  IInv'
<1> DEFINE me == sync[p]
           status == IF me.run.failed > 0 THEN "COMPLETED_WITH_ERRORS" ELSE "COMPLETED"
           done == [me.run EXCEPT !.status = status]
<1>1. /\ me \in SyncRows /\ me.pc = "apply" /\ me.no \in Runs /\ me.new \in Catalogues
      /\ me.run \in RunRows /\ me.records \in SUBSET RecordRows
      /\ sync \in [Syncs -> SyncRows] /\ run \in [Runs -> RunRows]
    BY DEF IInv, TypeOK, RunsOK, SyncRows, Commit
<1>2. /\ run' = [run EXCEPT ![me.no] = done] /\ sync' = [sync EXCEPT ![p] = IdleSync]
      /\ operator' = operator
      /\ remote' = remote /\ mapped' = mapped /\ listed' = listed /\ changes' = changes
    BY DEF Commit, worldVars
<1>3. /\ product' = me.new /\ records' = me.records
      /\ WriterOK(me) /\ Recorded(me.records, me.no, me.run)
      /\ \A q \in Syncs \ {p} : ~Holds(sync[q])
      /\ \A o \in Operators : ~Holds(operator[o])
      /\ sku' \in [Skus -> Products \union {None}]
    BY CommitWrites
<1>4. /\ done \in RunRows /\ done.status \in {"COMPLETED", "COMPLETED_WITH_ERRORS"}
      /\ done.seen = me.run.seen /\ done.created = me.run.created /\ done.updated = me.run.updated
      /\ done.unchanged = me.run.unchanged /\ done.failed = me.run.failed
    BY <1>1 DEF RunRows
<1>5. IdleSync \in SyncRows /\ IdleSync.pc = "idle"
    BY BlankRows DEF IdleSync
<1> HIDE DEF done, status, me
<1>6. /\ \A q \in Syncs \ {p} : sync'[q] = sync[q]
      /\ sync'[p] = IdleSync
      /\ \A k \in Runs \ {me.no} : run'[k] = run[k]
      /\ run'[me.no] = done
    BY <1>1, <1>2
<1>7. TypeOK'
  <2>1. sync' \in [Syncs -> SyncRows] /\ run' \in [Runs -> RunRows]
      BY <1>1, <1>2, <1>4, <1>5
  <2> QED BY <2>1, <1>1, <1>2, <1>3 DEF IInv, TypeOK
<1>8. (\A q \in Syncs : ~Holds(sync'[q])) /\ (\A o \in Operators : ~Holds(operator'[o]))
    BY <1>2, <1>3, <1>5, <1>6 DEF Holds
<1>9. CatalogueOK(product)'
    BY <1>3 DEF WriterOK, CatalogueOK
<1>10. RunsOK'
  <2>1. \A q \in Syncs \ {p} : sync[q].pc # "idle" => sync[q].no \in Runs /\ sync[q].no # me.no
      BY <1>1 DEF IInv, RunsOK, me
  <2>2. \A q \in Syncs : sync'[q].pc # "idle" => sync'[q].no \in Runs /\ run'[sync'[q].no].status = "RUNNING"
      BY <2>1, <1>5, <1>6 DEF IInv, RunsOK
  <2>3. \A q, k \in Syncs : sync'[q].pc # "idle" /\ sync'[k].pc # "idle" /\ sync'[q].no = sync'[k].no => q = k
      BY <1>5, <1>6 DEF IInv, RunsOK
  <2>4. ASSUME NEW k \in Runs
        PROVE  /\ run'[k].status \in {"ABSENT", "RUNNING", "FAILED"} => OfRun(records', k) = {}
               /\ Sums(run'[k]) /\ Recorded(records', k, run'[k])
    <3>1. CASE k # me.no
      <4>1. OfRun(records', k) = OfRun(records, k)
          BY <3>1, <1>3 DEF OfRun, WriterOK
      <4> QED BY <3>1, <4>1, <1>6 DEF IInv, RunsOK, Recorded
    <3>2. CASE k = me.no
      <4>1. Sums(me.run)
          BY <1>3 DEF WriterOK
      <4> QED BY <3>2, <4>1, <1>3, <1>4, <1>6 DEF Sums, Recorded
    <3> QED BY <3>1, <3>2
  <2> QED BY <2>2, <2>3, <2>4 DEF RunsOK, OfRun, Sums, Recorded
<1>11. Alone'
    BY <1>8 DEF Alone, Holds
<1> QED BY <1>7, <1>8, <1>9, <1>10, <1>11 DEF IInv, Holds

\* A run that fails has left nothing.
LEMMA FailStep ==
    ASSUME IInv, NEW p \in Syncs, Fail(p)
    PROVE  IInv'
<1> DEFINE no == sync[p].no
           failed == [NoRun EXCEPT !.status = "FAILED"]
<1>1. /\ sync[p].pc # "idle" /\ no \in Runs /\ run[no].status = "RUNNING"
      /\ sync \in [Syncs -> SyncRows] /\ run \in [Runs -> RunRows]
    BY DEF IInv, TypeOK, RunsOK, Fail
<1>2. /\ run' = [run EXCEPT ![no] = failed] /\ sync' = [sync EXCEPT ![p] = IdleSync]
      /\ product' = product /\ sku' = sku /\ records' = records /\ operator' = operator
      /\ remote' = remote /\ mapped' = mapped /\ listed' = listed /\ changes' = changes
    BY DEF Fail, RolledBack, worldVars
<1>3. /\ failed \in RunRows /\ failed.seen = 0
      /\ failed.created = 0 /\ failed.updated = 0 /\ failed.unchanged = 0 /\ failed.failed = 0
  <2>1. NoRun \in RunRows
      BY BlankRows
  <2> QED BY <2>1 DEF RunRows, NoRun
<1>4. IdleSync \in SyncRows /\ IdleSync.pc = "idle"
    BY BlankRows DEF IdleSync
<1> HIDE DEF failed, no
<1>5. /\ \A q \in Syncs \ {p} : sync'[q] = sync[q]
      /\ sync'[p] = IdleSync
      /\ \A k \in Runs \ {no} : run'[k] = run[k]
      /\ run'[no] = failed
    BY <1>1, <1>2
<1>6. TypeOK'
  <2>1. sync' \in [Syncs -> SyncRows] /\ run' \in [Runs -> RunRows]
      BY <1>1, <1>2, <1>3, <1>4
  <2> QED BY <2>1, <1>2 DEF IInv, TypeOK
<1>7. Alone'
    BY <1>2, <1>4, <1>5 DEF IInv, Alone, Holds
<1>8. CatalogueOK(product)'
    BY <1>2 DEF IInv, CatalogueOK
<1>9. RunsOK'
  <2>1. \A q \in Syncs \ {p} : sync[q].pc # "idle" => sync[q].no \in Runs /\ sync[q].no # no
      BY <1>1 DEF IInv, RunsOK, no
  <2>2. \A q \in Syncs : sync'[q].pc # "idle" => sync'[q].no \in Runs /\ run'[sync'[q].no].status = "RUNNING"
      BY <2>1, <1>4, <1>5 DEF IInv, RunsOK
  <2>3. \A q, k \in Syncs : sync'[q].pc # "idle" /\ sync'[k].pc # "idle" /\ sync'[q].no = sync'[k].no => q = k
      BY <1>4, <1>5 DEF IInv, RunsOK
  <2>4. ASSUME NEW k \in Runs
        PROVE  /\ run'[k].status \in {"ABSENT", "RUNNING", "FAILED"} => OfRun(records', k) = {}
               /\ Sums(run'[k]) /\ Recorded(records', k, run'[k])
    <3>1. CASE k # no
        BY <3>1, <1>2, <1>5 DEF IInv, RunsOK
    <3>2. CASE k = no
      <4>1. OfRun(records', k) = {}
          BY <3>2, <1>1, <1>2 DEF IInv, RunsOK
      <4>2. Sums(failed)
          BY <1>3 DEF Sums
      <4>3. Recorded(records', k, failed)
          BY <4>1, <1>3, FS_EmptySet DEF Recorded
      <4> QED BY <3>2, <4>1, <4>2, <4>3, <1>5
    <3> QED BY <3>1, <3>2
  <2> QED BY <2>2, <2>3, <2>4 DEF RunsOK, OfRun, Sums, Recorded
<1>10. ASSUME NEW q \in Syncs, Holds(sync'[q])
       PROVE  WriterOK(sync[q])' /\ Recorded(sync'[q].records, sync'[q].no, sync'[q].run)
  <2>1. q # p
      BY <1>10, <1>4, <1>5 DEF Holds
  <2> QED BY <2>1, <1>10, <1>2, <1>5 DEF IInv, WriterOK, CatalogueOK, Follows, Sums
<1>11. \A o \in Operators : Holds(operator'[o]) => operator'[o].copy = product'
    BY <1>2 DEF IInv
<1> QED BY <1>6, <1>7, <1>8, <1>9, <1>10, <1>11 DEF IInv, Holds, Recorded, OfRun

-----------------------------------------------------------------------------
(* The steps of an import *)

LEMMA ReviewStep ==
    ASSUME IInv, NEW o \in Operators, NEW E \in Exports, Review(o, E)
    PROVE  IInv'
<1> DEFINE row == [IdleOperator EXCEPT !.pc = "lock", !.export = E]
<1>1. row \in OperatorRows /\ row.pc = "lock"
    BY BlankRows, DataAssumption DEF OperatorRows, IdleOperator
<1>2. operator' = [operator EXCEPT ![o] = row] /\ UNCHANGED <<worldVars, catalogue, run, sync>>
    BY DEF Review
<1> HIDE DEF row
<1> QED BY <1>1, <1>2, OperatorStep DEF Holds

LEMMA LockImportStep ==
    ASSUME IInv, NEW o \in Operators, LockImport(o)
    PROVE  IInv'
<1> DEFINE row == [operator[o] EXCEPT !.pc = "apply", !.copy = product]
<1>1. operator[o] \in OperatorRows /\ product \in Catalogues /\ LockFree
    BY DEF IInv, TypeOK, LockImport
<1>2. row \in OperatorRows /\ row.copy = product
    BY <1>1 DEF OperatorRows
<1>3. IdleOperator \in OperatorRows /\ ~Holds(IdleOperator)
    BY BlankRows DEF IdleOperator, Holds
<1>4. /\ operator' = [operator EXCEPT ![o] = IdleOperator] \/ operator' = [operator EXCEPT ![o] = row]
      /\ UNCHANGED <<worldVars, catalogue, run, sync>>
    BY DEF LockImport
<1> HIDE DEF row
<1>5. CASE operator' = [operator EXCEPT ![o] = IdleOperator]
    BY <1>3, <1>4, <1>5, OperatorStep
<1>6. CASE operator' = [operator EXCEPT ![o] = row]
    BY <1>1, <1>2, <1>4, <1>6, OperatorStep
<1> QED BY <1>4, <1>5, <1>6

LEMMA AbandonStep ==
    ASSUME IInv, NEW o \in Operators, Abandon(o)
    PROVE  IInv'
<1>1. IdleOperator \in OperatorRows /\ ~Holds(IdleOperator)
    BY BlankRows DEF IdleOperator, Holds
<1> QED BY <1>1, OperatorStep DEF Abandon

\* What an import's commit writes is what it has made of the catalogue it read.
LEMMA CommitImportWrites ==
    ASSUME IInv, NEW o \in Operators, CommitImport(o)
    PROVE  /\ product' = Imported(product, operator[o].export) /\ operator[o].export \in SUBSET Rows
           /\ product' \in Catalogues /\ CatalogueOK(product')
           /\ \A q \in Syncs : ~Holds(sync[q])
           /\ \A q \in Operators \ {o} : ~Holds(operator[q])
<1> DEFINE me == operator[o]
<1>1. me \in OperatorRows /\ Holds(me) /\ me.copy = product /\ product \in Catalogues /\ CatalogueOK(product)
    BY DEF IInv, TypeOK, CommitImport, Holds
<1>2. me.export \in SUBSET Rows
    BY <1>1 DEF OperatorRows
<1>3. Imported(product, me.export) \in Catalogues /\ CatalogueOK(Imported(product, me.export))
    BY <1>1, <1>2, ImportKeeps
<1>4. product' = Merged(product, Imported(product, me.export))
    BY <1>1 DEF CommitImport
<1>5. product' = Imported(product, me.export)
    BY <1>1, <1>3, <1>4, MergedIsNew
<1>6. (\A q \in Syncs : ~Holds(sync[q])) /\ (\A q \in Operators \ {o} : ~Holds(operator[q]))
    BY <1>1 DEF IInv, Alone
<1> QED BY <1>2, <1>3, <1>5, <1>6

LEMMA CommitImportStep ==
    ASSUME IInv, NEW o \in Operators, CommitImport(o)
    PROVE  IInv'
<1>1. /\ product' \in Catalogues /\ CatalogueOK(product')
      /\ \A q \in Syncs : ~Holds(sync[q])
      /\ \A q \in Operators \ {o} : ~Holds(operator[q])
    BY CommitImportWrites
<1>2. /\ operator' = [operator EXCEPT ![o] = IdleOperator] /\ operator \in [Operators -> OperatorRows]
      /\ sku' = sku /\ records' = records /\ run' = run /\ sync' = sync
      /\ remote' = remote /\ mapped' = mapped /\ listed' = listed /\ changes' = changes
    BY DEF CommitImport, worldVars, IInv, TypeOK
<1>3. IdleOperator \in OperatorRows /\ ~Holds(IdleOperator)
    BY BlankRows DEF IdleOperator, Holds
<1>4. TypeOK'
  <2>1. operator' \in [Operators -> OperatorRows]
      BY <1>2, <1>3
  <2> QED BY <2>1, <1>1, <1>2 DEF IInv, TypeOK
<1>5. (\A q \in Syncs : ~Holds(sync'[q])) /\ (\A q \in Operators : ~Holds(operator'[q]))
    BY <1>1, <1>2, <1>3
<1>6. Alone'
    BY <1>5 DEF Alone, Holds
<1>7. RunsOK'
    BY <1>2 DEF IInv, RunsOK, OfRun, Sums, Recorded
<1>8. CatalogueOK(product)'
    BY <1>1 DEF CatalogueOK
<1> QED BY <1>4, <1>5, <1>6, <1>7, <1>8 DEF IInv, Holds

-----------------------------------------------------------------------------
(* The invariant *)

LEMMA InitIInv == Init => IInv
<1> SUFFICES ASSUME Init PROVE IInv
    OBVIOUS
<1>1. /\ NoProduct \in ProductRows /\ NoRun \in RunRows /\ IdleSync \in SyncRows /\ IdleOperator \in OperatorRows
      /\ NoProduct.number = None /\ NoProduct.numbers = {} /\ NoProduct.attributes.export = FALSE
      /\ NoRun.seen = 0 /\ NoRun.created = 0 /\ NoRun.updated = 0 /\ NoRun.unchanged = 0 /\ NoRun.failed = 0
      /\ IdleSync.pc = "idle" /\ IdleOperator.pc = "idle"
    BY BlankRows DEF NoProduct, NoRun, IdleSync, IdleOperator
<1>2. PICK number \in [Legacy -> LegacyNumbers] :
         product = [p \in Products |->
              IF p \in Legacy THEN [NoProduct EXCEPT !.number = number[p], !.numbers = {number[p]}, !.active = TRUE]
              ELSE NoProduct]
    BY DEF Init
<1>3. ASSUME NEW p \in Products
      PROVE  /\ product[p] \in ProductRows
             /\ product[p].number = None => product[p] = NoProduct
             /\ product[p].number # None /\ p \in Items => product[p].ext = p
             /\ product[p].numbers \subseteq {product[p].number}
             /\ product[p].attributes.export => product[p].numbers = {product[p].number}
  <2>1. CASE p \in Legacy
    <3> DEFINE n == number[p]
               row == [NoProduct EXCEPT !.number = n, !.numbers = {n}, !.active = TRUE]
    <3>1. n \in Numbers /\ n # None /\ p \notin Items
        BY <2>1, DataAssumption
    <3>2. product[p] = row
        BY <1>2, <2>1
    <3> HIDE DEF n
    <3>3. row \in ProductRows /\ row.number = n /\ row.numbers = {n}
        BY <3>1, <1>1 DEF ProductRows
    <3> QED BY <3>1, <3>2, <3>3
  <2>2. CASE p \notin Legacy
    <3>1. product[p] = NoProduct
        BY <1>2, <2>2
    <3> QED BY <3>1, <1>1
  <2> QED BY <2>1, <2>2
<1>4. product \in Catalogues /\ CatalogueOK(product)
    BY <1>2, <1>3 DEF Catalogues, CatalogueOK
<1>5. remote \in [Items -> PayloadTypes \union {None}] /\ mapped \in [Skus -> SUBSET (Items \union {None})]
  <2>1. remote \in [Items -> PayloadTypes \union {None}]
      BY DEF Init
  <2>2. mapped \in [Skus -> UNION {Mappings[s] : s \in Skus}] /\ \A s \in Skus : Mappings[s] \in SUBSET ((SUBSET Items) \union {{None}})
      BY DataAssumption DEF Init
  <2>3. UNION {Mappings[s] : s \in Skus} \subseteq SUBSET (Items \union {None})
      BY <2>2
  <2> QED BY <2>1, <2>2, <2>3
<1>6. /\ listed = Skus /\ sku = [s \in Skus |-> None] /\ records = {} /\ run = [r \in Runs |-> NoRun]
      /\ sync = [p \in Syncs |-> IdleSync] /\ operator = [o \in Operators |-> IdleOperator] /\ changes = 0
    BY DEF Init
<1>7. TypeOK
    BY <1>1, <1>4, <1>5, <1>6, BoundsAssumption DEF TypeOK
<1>8. (\A p \in Syncs : ~Holds(sync[p])) /\ (\A o \in Operators : ~Holds(operator[o]))
    BY <1>1, <1>6 DEF Holds
<1>9. Alone
    BY <1>8 DEF Alone
<1>10. RunsOK
  <2>1. \A r \in Runs : OfRun(records, r) = {} /\ Sums(run[r]) /\ Recorded(records, r, run[r])
      BY <1>1, <1>6, FS_EmptySet DEF OfRun, Sums, Recorded
  <2>2. \A p \in Syncs : sync[p].pc = "idle"
      BY <1>1, <1>6
  <2> QED BY <2>1, <2>2 DEF RunsOK
<1> QED BY <1>4, <1>7, <1>8, <1>9, <1>10 DEF IInv

LEMMA NextIInv == IInv /\ [Next]_vars => IInv'
<1> SUFFICES ASSUME IInv, [Next]_vars PROVE IInv'
    OBVIOUS
<1>1. CASE Change
    BY <1>1, ChangeStep
<1>2. ASSUME NEW p \in Syncs,
             Start(p) \/ ReadItems(p) \/ ReadSkus(p) \/ LockSync(p) \/ ApplyItem(p) \/ Commit(p) \/ Fail(p) \/ Crash(p)
      PROVE  IInv'
    BY <1>2, StartStep, ReadItemsStep, ReadSkusStep, LockSyncStep, ApplyItemStep, CommitStep, FailStep, CrashStep
<1>3. ASSUME NEW o \in Operators, LockImport(o) \/ CommitImport(o) \/ Abandon(o) \/ \E E \in Exports : Review(o, E)
      PROVE  IInv'
    BY <1>3, LockImportStep, CommitImportStep, AbandonStep, ReviewStep
<1>4. CASE UNCHANGED vars
  <2> USE <1>4 DEF vars, worldVars, catalogue
  <2>1. TypeOK' /\ Alone' /\ RunsOK'
      BY DEF IInv, TypeOK, Alone, RunsOK, Holds, OfRun, Sums, Recorded
  <2>2. CatalogueOK(product)'
      BY DEF IInv, CatalogueOK
  <2>3. ASSUME NEW p \in Syncs, Holds(sync'[p])
        PROVE  WriterOK(sync[p])' /\ Recorded(sync'[p].records, sync'[p].no, sync'[p].run)
      BY <2>3 DEF IInv, WriterOK, CatalogueOK, Follows, Sums
  <2>4. \A o \in Operators : Holds(operator'[o]) => operator'[o].copy = product'
      BY DEF IInv
  <2> QED BY <2>1, <2>2, <2>3, <2>4 DEF IInv, Holds, Recorded, OfRun
<1> QED BY <1>1, <1>2, <1>3, <1>4 DEF Next

LEMMA Invariance == Spec => []IInv
<1> QED BY InitIInv, NextIInv, PTL DEF Spec

-----------------------------------------------------------------------------
(* Theorems *)

\* A product answers to its own number alone, however many syncs and imports
\* run together (ADR 0017).
THEOREM NumbersAreOwnTheorem == Spec => []NumbersAreOwn
<1>1. IInv => NumbersAreOwn
    BY DEF IInv, CatalogueOK, NumbersAreOwn, Exists
<1> QED BY <1>1, Invariance, PTL

\* A run leaves everything or nothing, and has counted what it recorded (AC-2.4,
\* AC-3.6).
THEOREM RunsAreWholeTheorem == Spec => []RunsAreWhole
<1>1. IInv => RunsAreWhole
    BY DEF IInv, RunsOK, RunsAreWhole, OfRun, Sums, Recorded
<1> QED BY <1>1, Invariance, PTL

\* No step takes an external id, a barcode, the mark of an export or the product
\* of a SKU away, and an import alone changes a number.
THEOREM IdentitiesSurviveSyncsTheorem == Spec => IdentitiesSurviveSyncs
<1> DEFINE Survive ==
        /\ \A p \in Products : Exists(product, p) =>
             /\ product[p].ext # None => product'[p].ext = product[p].ext
             /\ product[p].upcs \subseteq product'[p].upcs
             /\ product[p].attributes.export => product'[p].attributes.export
             /\ product'[p].number # product[p].number => \E o \in Operators : operator[o].pc = "apply" /\ operator'[o].pc = "idle"
        /\ \A s \in Skus : sku[s] # None => sku'[s] = sku[s]
<1>1. IInv /\ [Next]_vars => [Survive]_vars
  <2> SUFFICES ASSUME IInv, Next PROVE Survive
      OBVIOUS
  <2>1. CASE product' = product /\ sku' = sku
      BY <2>1
  <2>2. ASSUME NEW p \in Syncs, Commit(p)
        PROVE  Survive
    <3>1. /\ product' = sync[p].new /\ Follows(product, sync[p].new)
          /\ \A s \in Skus : sku[s] # None => sku'[s] = sku[s]
        BY <2>2, CommitWrites DEF WriterOK
    <3> QED BY <3>1 DEF Follows, Exists
  <2>3. ASSUME NEW o \in Operators, CommitImport(o)
        PROVE  Survive
    <3>1. product' = Imported(product, operator[o].export) /\ operator[o].export \in SUBSET Rows
        BY <2>3, CommitImportWrites
    <3>2. \A p \in Products : product[p].number # None =>
            /\ product[p].ext # None => product'[p].ext = product[p].ext
            /\ product[p].upcs \subseteq product'[p].upcs
            /\ product[p].attributes.export => product'[p].attributes.export
        BY <3>1, ImportKeeps DEF IInv, TypeOK
    <3>3. operator[o].pc = "apply" /\ operator'[o].pc = "idle" /\ sku' = sku
        BY <2>3 DEF CommitImport, IdleOperator, IInv, TypeOK
    <3> QED BY <3>2, <3>3 DEF Exists
  <2> QED BY <2>1, <2>2, <2>3
        DEF Next, Change, Start, ReadItems, ReadSkus, LockSync, ApplyItem, Fail, Crash,
            Review, LockImport, Abandon, catalogue
<1> QED BY <1>1, Invariance, PTL DEF Spec, IdentitiesSurviveSyncs

-----------------------------------------------------------------------------
(* A run nobody disturbs *)

\* Item i is in the catalogue the writer is making, as NineYard has it.
Applied(me, i) ==
    /\ \E q \in Products : me.new[q].ext = i /\ me.new[q].active = (remote[i].state = "LIVE")
    /\ \E k \in me.records : k.item = i /\ k.payload = remote[i]

InHand(me, i) == \E y \in me.items : y.item = i

\* What a process has read is what is there: of the pages before its own every
\* item, and after the last page all of them, until they are applied.
ReadOK(me) ==
    me.quiet /\ me.pc # "idle" =>
        /\ me.skus = listed
        /\ \A y \in me.items : remote[y.item] = y.payload
        /\ me.pc = "items" =>
             me.page > 0 /\ \A i \in There : Place(i) <= (me.page - 1) * PerPage => InHand(me, i)
        /\ me.pc \in {"skus", "lock"} => \A i \in There : InHand(me, i)
        /\ me.pc \in {"lock", "apply"} => me.maps = MappingRecords(listed)
        /\ me.pc = "apply" =>
             \A i \in There : InHand(me, i) \/ remote[i].state = "BROKEN" \/ Applied(me, i)

QuietInv == IInv /\ \A p \in Syncs : ReadOK(sync[p])

\* The places of the items NineYard has are the numbers from 1 on, without a gap.
LEMMA PlacesAreFilled ==
    LET n == Cardinality(There)
    IN  /\ n \in Nat
        /\ \A i \in There : Place(i) \in 1 .. n
        /\ \A k \in 1 .. n : \E i \in There : Place(i) = k
<1> DEFINE n == Cardinality(There)
           Upto(i) == {j \in There : Position[j] <= Position[i]}
<1>1. /\ Position \in [Items -> Nat] /\ There \subseteq Items
      /\ \A i, j \in There : Position[i] = Position[j] => i = j
    BY OrderAssumption DEF There
<1>2. IsFiniteSet(There) /\ n \in Nat
    BY <1>1, OrderAssumption, FS_Subset, FS_CardinalityType
<1>3. ASSUME NEW i \in There
      PROVE  IsFiniteSet(Upto(i)) /\ Place(i) = Cardinality(Upto(i)) /\ Place(i) \in 1 .. n
  <2>1. Upto(i) \in SUBSET There
      OBVIOUS
  <2>2. IsFiniteSet(Upto(i)) /\ Cardinality(Upto(i)) <= n
      BY <2>1, <1>2, FS_Subset
  <2>3. i \in Upto(i)
      BY <1>1
  <2>4. Cardinality(Upto(i)) \in Nat /\ Cardinality(Upto(i)) # 0
      BY <2>2, <2>3, FS_CardinalityType, FS_EmptySet
  <2>5. Place(i) = Cardinality(Upto(i))
      BY DEF Place
  <2> HIDE DEF Upto
  <2> QED BY <2>2, <2>4, <2>5, <1>2
<1>4. ASSUME NEW i \in There, NEW j \in There, Place(i) = Place(j)
      PROVE  i = j
  <2>1. Position[i] \in Nat /\ Position[j] \in Nat
      BY <1>1
  <2>2. Upto(i) \subseteq Upto(j) \/ Upto(j) \subseteq Upto(i)
      BY <2>1, <1>1
  <2>3. Upto(i) = Upto(j)
    <3> HIDE DEF Upto
    <3> QED BY <2>2, <1>3, <1>4, FS_Subset
  <2>4. i \in Upto(j) /\ j \in Upto(i)
      BY <2>1, <2>3
  <2> QED BY <2>1, <2>4, <1>1
<1> HIDE DEF Upto, n
<1> DEFINE f == [i \in There |-> Place(i)]
<1>5. f \in Injection(There, 1 .. n)
    BY <1>3, <1>4 DEF Injection, IsInjective
<1>6. IsFiniteSet(1 .. n) /\ Cardinality(1 .. n) = n
    BY <1>2, FS_Interval
<1>7. f \in Surjection(There, 1 .. n)
    BY <1>5, <1>6, FS_Injection DEF n
<1>8. \A k \in 1 .. n : \E i \in There : f[i] = k
    BY <1>7 DEF Surjection
<1> QED BY <1>2, <1>3, <1>8 DEF n

\* After the last page nothing is left: no item's place lies behind it.
LEMMA LastPageIsLast ==
    ASSUME NEW m \in Nat \ {0}, LastPage(m), NEW i \in There
    PROVE  Place(i) <= m * PerPage
<1> DEFINE n == Cardinality(There)
           before == (m - 1) * PerPage
<1>1. n \in Nat /\ Place(i) \in 1 .. n /\ \A k \in 1 .. n : \E j \in There : Place(j) = k
    BY PlacesAreFilled
<1>2. before \in Nat /\ m * PerPage = before + PerPage /\ PerPage \in Nat \ {0}
    BY BoundsAssumption, Z3
<1>3. CASE m * PerPage >= n
    BY <1>1, <1>2, <1>3
<1>4. CASE Page(m) = {}
  <2>1. \A j \in There : ~(Place(j) > before /\ Place(j) <= m * PerPage)
      BY <1>4 DEF Page
  <2>2. n <= before
    <3> SUFFICES ASSUME n > before PROVE FALSE
        BY <1>1, <1>2
    <3> HIDE DEF n, before
    <3>1. before + 1 \in 1 .. n
        BY <1>1, <1>2
    <3>2. PICK j \in There : Place(j) = before + 1
        BY <3>1, <1>1
    <3> QED BY <3>2, <2>1, <1>2
  <2> HIDE DEF n, before
  <2> QED BY <2>2, <1>1, <1>2
<1> QED BY <1>3, <1>4 DEF LastPage

\* What an item does: its product has its id and its state, others stay.
LEMMA ItemIsApplied ==
    ASSUME NEW P \in Catalogues, CatalogueOK(P), NEW e \in Items, NEW x \in PayloadTypes
    PROVE  LET q == Its(P, e)
               Q == Ensured([P EXCEPT ![q] = RowOf(P, e, x)], q, x)
           IN  /\ q \in Products /\ Q[q].ext = e /\ Q[q].active = (x.state = "LIVE")
               /\ \A p \in Products : p # q => Q[p] = P[p]
               /\ P[q].ext \in {e, None}
<1> DEFINE q   == Its(P, e)
           row == RowOf(P, e, x)
           R   == [P EXCEPT ![q] = row]
           N   == NumberEnsured(R, q)
           Q   == Ensured(R, q, x)
<1>1. q \in Products /\ P \in [Products -> ProductRows]
    BY ItsProduct DEF Catalogues
<1>2. row \in ProductRows /\ row.ext = e
    BY ItsRow
<1>3. row.active = (x.state = "LIVE")
  <2>1. CASE Owner(P, e) = {}
      BY <2>1 DEF RowOf, Created, Synced, NoProduct
  <2>2. CASE Owner(P, e) # {}
    <3> DEFINE old == P[q]
               live == x.state = "LIVE"
    <3>1. row = [old EXCEPT !.title = x.name, !.attributes.api = x.name, !.active = live, !.seen = TRUE]
        BY <2>2 DEF RowOf, Synced
    <3>2. old \in ProductRows
        BY <1>1
    <3> HIDE DEF old, live, row
    <3>3. row.active = live
        BY <3>1, <3>2 DEF ProductRows
    <3> QED BY <3>3 DEF live
  <2> QED BY <2>1, <2>2
<1>4. R \in [Products -> ProductRows] /\ R[q] = row /\ \A p \in Products : p # q => R[p] = P[p]
    BY <1>1, <1>2
<1>5. N = R \/ N = [R EXCEPT ![q].numbers = @ \union {R[q].number}]
    BY DEF NumberEnsured
<1>6. N[q].ext = row.ext /\ N[q].active = row.active /\ \A p \in Products : p # q => N[p] = P[p]
  <2> HIDE DEF R, N, row
  <2> QED BY <1>1, <1>2, <1>4, <1>5 DEF ProductRows
<1>7. DOMAIN N = Products /\ DOMAIN N[q] = DOMAIN row
  <2> HIDE DEF R, N, row
  <2> QED BY <1>1, <1>2, <1>4, <1>5
<1>8. Q = N \/ Q = [N EXCEPT ![q].upcs = @ \union {x.upc}]
    BY DEF Ensured, UpcEnsured
<1>9. Q[q].ext = N[q].ext /\ Q[q].active = N[q].active /\ \A p \in Products : p # q => Q[p] = N[p]
  <2>1. {"ext", "active"} \subseteq DOMAIN row
      BY <1>2 DEF ProductRows
  <2> HIDE DEF R, N, Q, row
  <2> QED BY <2>1, <1>1, <1>7, <1>8
<1>10. P[q].ext \in {e, None}
  <2>1. CASE Owner(P, e) = {}
      BY <2>1, ItsProduct DEF NoProduct
  <2>2. CASE Owner(P, e) # {}
      BY <2>2, ItsProduct
  <2> QED BY <2>1, <2>2
<1> HIDE DEF R, N, Q, row, q
<1> QED BY <1>1, <1>2, <1>3, <1>6, <1>9, <1>10 DEF R, N, Q, row, q

\* What one process does leaves true what the others have read.
LEMMA QuietStep ==
    ASSUME QuietInv, UNCHANGED worldVars, NEW p \in Syncs, NEW row,
           sync' = [sync EXCEPT ![p] = row], ReadOK(row)
    PROVE  \A q \in Syncs : ReadOK(sync[q])'
<1>1. /\ remote' = remote /\ mapped' = mapped /\ listed' = listed
      /\ sync \in [Syncs -> SyncRows]
    BY DEF worldVars, QuietInv, IInv, TypeOK
<1>2. There' = There /\ MappingRecords(listed)' = MappingRecords(listed)
    BY <1>1 DEF There, MappingRecords
<1>3. \A i : Place(i)' = Place(i)
    BY <1>2 DEF Place
<1> SUFFICES ASSUME NEW q \in Syncs PROVE ReadOK(sync[q])'
    OBVIOUS
<1> DEFINE me == sync'[q]
<1>4. ReadOK(me)
    BY <1>1 DEF QuietInv
<1>5. me = sync'[q]
    OBVIOUS
<1> HIDE DEF me
<1> QED BY <1>1, <1>2, <1>3, <1>4, <1>5 DEF ReadOK, InHand, Applied

\* A new run knows the listed SKUs and has read no page.
LEMMA QuietStart ==
    ASSUME QuietInv, NEW p \in Syncs, Start(p)
    PROVE  \A q \in Syncs : ReadOK(sync[q])'
<1>1. PICK r \in Runs : sync' = [sync EXCEPT ![p] = [IdleSync EXCEPT !.pc = "items", !.no = r, !.skus = listed]]
    BY DEF Start
<1> DEFINE row == [IdleSync EXCEPT !.pc = "items", !.no = r, !.skus = listed]
<1>2. row.pc = "items" /\ row.skus = listed /\ row.items = {} /\ row.page = 1
    BY DEF IdleSync
<1>3. \A i \in There : ~(Place(i) <= (1 - 1) * PerPage)
    BY PlacesAreFilled, BoundsAssumption
<1> HIDE DEF row
<1>4. ReadOK(row)
    BY <1>2, <1>3 DEF ReadOK
<1> QED BY <1>1, <1>4, QuietStep DEF Start, row

\* A page brings the items of its places; the last one ends the reading.
LEMMA QuietReadItems ==
    ASSUME QuietInv, NEW p \in Syncs, ReadItems(p)
    PROVE  \A q \in Syncs : ReadOK(sync[q])'
<1> DEFINE me == sync[p]
           read == {[page |-> me.page, item |-> y.item, payload |-> y.payload] : y \in Page(me.page)}
           row == [me EXCEPT !.items = @ \union read, !.pages = @ \union {Page(me.page)}, !.page = @ + 1,
                             !.pc = IF LastPage(me.page) THEN "skus" ELSE "items"]
<1>1. /\ me \in SyncRows /\ me.pc = "items" /\ remote \in [Items -> PayloadTypes \union {None}]
      /\ ReadOK(me) /\ me.page \in Nat
    BY DEF QuietInv, IInv, TypeOK, ReadItems, SyncRows
<1>2. sync' = [sync EXCEPT ![p] = row] /\ UNCHANGED worldVars
    BY <1>1 DEF ReadItems
<1>3. /\ \A y \in read : remote[y.item] = y.payload
      /\ \A i \in There : Place(i) > (me.page - 1) * PerPage /\ Place(i) <= me.page * PerPage =>
            \E y \in read : y.item = i
  <2>1. ASSUME NEW y \in read PROVE remote[y.item] = y.payload
    <3>1. PICK x \in Page(me.page) : y = [page |-> me.page, item |-> x.item, payload |-> x.payload]
        OBVIOUS
    <3>2. remote[x.item] = x.payload
        BY DEF Page
    <3> QED BY <3>1, <3>2
  <2>2. ASSUME NEW i \in There, Place(i) > (me.page - 1) * PerPage, Place(i) <= me.page * PerPage
        PROVE  \E y \in read : y.item = i
    <3>1. [item |-> i, payload |-> remote[i]] \in Page(me.page)
        BY <2>2 DEF Page
    <3>2. [page |-> me.page, item |-> i, payload |-> remote[i]] \in read
        BY <3>1
    <3> QED BY <3>2
  <2> QED BY <2>1, <2>2
<1> HIDE DEF me, read
<1>4. /\ row.items = me.items \union read /\ row.page = me.page + 1 /\ row.skus = me.skus /\ row.quiet = me.quiet
      /\ row.pc = IF LastPage(me.page) THEN "skus" ELSE "items"
    BY <1>1 DEF SyncRows
<1> HIDE DEF row
<1>5. ReadOK(row)
  <2> SUFFICES ASSUME row.quiet PROVE ReadOK(row)
      BY DEF ReadOK
  <2>1. /\ me.skus = listed /\ me.page > 0
        /\ \A y \in me.items : remote[y.item] = y.payload
        /\ \A i \in There : Place(i) <= (me.page - 1) * PerPage => InHand(me, i)
      BY <1>1, <1>4 DEF ReadOK
  <2>2. \A i \in There : Place(i) <= me.page * PerPage => InHand(row, i)
    <3>1. SUFFICES ASSUME NEW i \in There, Place(i) <= me.page * PerPage
                   PROVE  InHand(row, i)
        OBVIOUS
    <3>2. Place(i) \in Nat /\ (me.page - 1) * PerPage \in Int
        BY PlacesAreFilled, BoundsAssumption, <1>1
    <3> QED BY <3>1, <3>2, <2>1, <1>3, <1>4 DEF InHand
  <2>3. \A y \in row.items : remote[y.item] = y.payload
      BY <2>1, <1>3, <1>4
  <2>4. CASE LastPage(me.page)
    <3>1. \A i \in There : InHand(row, i)
        BY <2>4, <2>1, <2>2, <1>1, LastPageIsLast
    <3> QED BY <3>1, <2>1, <2>3, <2>4, <1>4 DEF ReadOK
  <2>5. CASE ~LastPage(me.page)
    <3>1. row.page - 1 = me.page /\ row.page > 0
        BY <1>1, <1>4, <2>1
    <3> QED BY <3>1, <2>1, <2>2, <2>3, <2>5, <1>4 DEF ReadOK
  <2> QED BY <2>4, <2>5
<1> QED BY <1>2, <1>5, QuietStep

LEMMA QuietReadSkus ==
    ASSUME QuietInv, NEW p \in Syncs, ReadSkus(p)
    PROVE  \A q \in Syncs : ReadOK(sync[q])'
<1> DEFINE me == sync[p]
           maps == MappingRecords(me.skus)
           row == [me EXCEPT !.maps = maps, !.pc = "lock", !.pages = {}, !.page = 1]
<1>1. me \in SyncRows /\ me.pc = "skus" /\ ReadOK(me)
    BY DEF QuietInv, IInv, TypeOK, ReadSkus
<1>2. sync' = [sync EXCEPT ![p] = row] /\ UNCHANGED worldVars
    BY DEF ReadSkus
<1> HIDE DEF me, maps
<1>3. /\ row.maps = maps /\ row.pc = "lock" /\ row.skus = me.skus /\ row.items = me.items /\ row.quiet = me.quiet
    BY <1>1 DEF SyncRows
<1> HIDE DEF row
<1>4. ReadOK(row)
    BY <1>1, <1>3 DEF ReadOK, InHand, maps
<1> QED BY <1>2, <1>4, QuietStep

LEMMA QuietLockSync ==
    ASSUME QuietInv, NEW p \in Syncs, LockSync(p)
    PROVE  \A q \in Syncs : ReadOK(sync[q])'
<1> DEFINE me == sync[p]
           row == [me EXCEPT !.pc = "apply", !.copy = product, !.new = product, !.records = records, !.run = run[me.no]]
<1>1. me \in SyncRows /\ me.pc = "lock" /\ ReadOK(me)
    BY DEF QuietInv, IInv, TypeOK, LockSync
<1>2. sync' = [sync EXCEPT ![p] = row] /\ UNCHANGED worldVars
    BY DEF LockSync
<1> HIDE DEF me
<1>3. /\ row.pc = "apply" /\ row.maps = me.maps /\ row.skus = me.skus /\ row.items = me.items /\ row.quiet = me.quiet
    BY <1>1 DEF SyncRows
<1> HIDE DEF row
<1>4. ReadOK(row)
    BY <1>1, <1>3 DEF ReadOK, InHand
<1> QED BY <1>2, <1>4, QuietStep DEF me

\* A session that has ended claims nothing.
LEMMA QuietEnd ==
    ASSUME QuietInv, NEW p \in Syncs, Commit(p) \/ Fail(p) \/ Crash(p)
    PROVE  \A q \in Syncs : ReadOK(sync[q])'
<1>1. ReadOK(IdleSync)
    BY DEF ReadOK, IdleSync
<1>2. sync' = [sync EXCEPT ![p] = IdleSync] /\ UNCHANGED worldVars
    BY DEF Commit, Fail, Crash
<1> QED BY <1>1, <1>2, QuietStep

\* An item leaves the hand and is in the catalogue, or cannot be read; the
\* products of other items are not touched.
LEMMA QuietApplyItem ==
    ASSUME QuietInv, NEW p \in Syncs, ApplyItem(p)
    PROVE  \A q \in Syncs : ReadOK(sync[q])'
<1> DEFINE me == sync[p]
<1>1. /\ me \in SyncRows /\ me.pc = "apply" /\ ReadOK(me) /\ CatalogueOK(me.new)
      /\ remote \in [Items -> PayloadTypes \union {None}]
    BY DEF QuietInv, IInv, TypeOK, WriterOK, Holds, ApplyItem
<1>2. PICK y \in me.items :
         sync' = [sync EXCEPT ![p] =
               IF y.payload.state = "BROKEN"
               THEN [me EXCEPT !.items = @ \ {y}, !.run.seen = @ + 1, !.run.failed = @ + 1]
               ELSE [me EXCEPT
                      !.items = @ \ {y},
                      !.new = Ensured([@ EXCEPT ![Its(me.new, y.item)] = RowOf(me.new, y.item, y.payload)],
                                      Its(me.new, y.item), y.payload),
                      !.run = Counted(me.new, y.item, y.payload, @),
                      !.records = IF \E k \in @ : k.item = y.item /\ k.payload = y.payload THEN @
                                  ELSE @ \union {[item |-> y.item, payload |-> y.payload, run |-> me.no]}]]
    BY DEF ApplyItem, ItemApplied
<1>3. UNCHANGED worldVars
    BY DEF ApplyItem
<1>4. /\ y.item \in Items /\ y.payload \in PayloadTypes /\ me.new \in Catalogues
      /\ There \subseteq Items /\ None \notin Items
    BY <1>1, DataAssumption DEF SyncRows, There, Products
<1> HIDE DEF me
<1> DEFINE N == Ensured([me.new EXCEPT ![Its(me.new, y.item)] = RowOf(me.new, y.item, y.payload)],
                        Its(me.new, y.item), y.payload)
           z == [item |-> y.item, payload |-> y.payload, run |-> me.no]
           R == IF \E k \in me.records : k.item = y.item /\ k.payload = y.payload THEN me.records
                ELSE me.records \union {z}
           rest == me.items \ {y}
<1>5. CASE y.payload.state = "BROKEN"
  <2> DEFINE row == [me EXCEPT !.items = rest, !.run.seen = @ + 1, !.run.failed = @ + 1]
  <2>1. sync' = [sync EXCEPT ![p] = row]
      BY <1>2, <1>5
  <2>2. /\ row.items = rest /\ row.pc = "apply" /\ row.maps = me.maps /\ row.skus = me.skus /\ row.quiet = me.quiet
        /\ row.new = me.new /\ row.records = me.records
      BY <1>1 DEF SyncRows
  <2> HIDE DEF row
  <2>3. ReadOK(row)
    <3> SUFFICES ASSUME row.quiet, NEW i \in There
                 PROVE  InHand(row, i) \/ remote[i].state = "BROKEN" \/ Applied(row, i)
        BY <1>1, <2>2 DEF ReadOK
    <3>1. remote[y.item] = y.payload /\ (InHand(me, i) \/ remote[i].state = "BROKEN" \/ Applied(me, i))
        BY <1>1, <2>2 DEF ReadOK
    <3>2. Applied(me, i) => Applied(row, i)
        BY <2>2 DEF Applied
    <3> QED BY <3>1, <3>2, <2>2, <1>5 DEF InHand
  <2> QED BY <2>1, <2>3, <1>3, QuietStep
<1>6. CASE y.payload.state # "BROKEN"
  <2> DEFINE c == Counted(me.new, y.item, y.payload, me.run)
             row == [me EXCEPT !.items = rest, !.new = N, !.run = c, !.records = R]
  <2>1. sync' = [sync EXCEPT ![p] = row]
    <3>1. sync' = [sync EXCEPT ![p] =
                     [me EXCEPT
                      !.items = @ \ {y},
                      !.new = Ensured([@ EXCEPT ![Its(me.new, y.item)] = RowOf(me.new, y.item, y.payload)],
                                      Its(me.new, y.item), y.payload),
                      !.run = Counted(me.new, y.item, y.payload, @),
                      !.records = IF \E k \in @ : k.item = y.item /\ k.payload = y.payload THEN @
                                  ELSE @ \union {[item |-> y.item, payload |-> y.payload, run |-> me.no]}]]
        BY <1>2, <1>6
    <3> QED BY <3>1
  <2>2. /\ \E q \in Products : N[q].ext = y.item /\ N[q].active = (y.payload.state = "LIVE")
        /\ \A q \in Products : me.new[q].ext \notin {y.item, None} => N[q] = me.new[q]
      BY <1>1, <1>4, ItemIsApplied
  <2>3. me.records \subseteq R /\ \E k \in R : k.item = y.item /\ k.payload = y.payload
    <3>1. z \in {z} /\ z.item = y.item /\ z.payload = y.payload
        OBVIOUS
    <3> HIDE DEF z
    <3> QED BY <3>1
  <2> HIDE DEF N, R, c
  <2>4. /\ row.items = rest /\ row.pc = "apply" /\ row.maps = me.maps /\ row.skus = me.skus /\ row.quiet = me.quiet
        /\ row.new = N /\ row.records = R
      BY <1>1 DEF SyncRows
  <2> HIDE DEF row
  <2>5. ReadOK(row)
    <3> SUFFICES ASSUME row.quiet, NEW i \in There
                 PROVE  InHand(row, i) \/ remote[i].state = "BROKEN" \/ Applied(row, i)
        BY <1>1, <2>4 DEF ReadOK
    <3>1. remote[y.item] = y.payload /\ (InHand(me, i) \/ remote[i].state = "BROKEN" \/ Applied(me, i))
        BY <1>1, <2>4 DEF ReadOK
    <3>2. CASE i = y.item
      <4>1. Applied(row, i)
          BY <3>1, <3>2, <2>2, <2>3, <2>4 DEF Applied
      <4> QED BY <4>1
    <3>3. CASE i # y.item
      <4>1. Applied(me, i) => Applied(row, i)
          BY <3>3, <2>2, <2>3, <2>4, <1>4 DEF Applied
      <4>2. InHand(me, i) => InHand(row, i)
          BY <3>3, <2>4 DEF InHand
      <4> QED BY <4>1, <4>2, <3>1
    <3> QED BY <3>2, <3>3
  <2> QED BY <2>1, <2>5, <1>3, QuietStep
<1> QED BY <1>5, <1>6

LEMMA QuietNext == QuietInv /\ [Next]_vars => QuietInv'
<1> SUFFICES ASSUME QuietInv, [Next]_vars PROVE \A q \in Syncs : ReadOK(sync[q])'
    BY NextIInv DEF QuietInv
<1>1. CASE Change
  <2>1. \A q \in Syncs : sync[q] \in SyncRows /\ sync'[q] = [sync[q] EXCEPT !.quiet = FALSE]
      BY <1>1 DEF Change, QuietInv, IInv, TypeOK
  <2>2. \A q \in Syncs : ~sync'[q].quiet
      BY <2>1 DEF SyncRows
  <2> QED BY <2>2 DEF ReadOK
<1>2. ASSUME NEW p \in Syncs,
             Start(p) \/ ReadItems(p) \/ ReadSkus(p) \/ LockSync(p) \/ ApplyItem(p) \/ Commit(p) \/ Fail(p) \/ Crash(p)
      PROVE  \A q \in Syncs : ReadOK(sync[q])'
    BY <1>2, QuietStart, QuietReadItems, QuietReadSkus, QuietLockSync, QuietApplyItem, QuietEnd
<1>3. CASE UNCHANGED <<worldVars, sync>>
  <2> SUFFICES ASSUME NEW q \in Syncs PROVE ReadOK(sync[q])'
      OBVIOUS
  <2>1. sync' = [sync EXCEPT ![q] = sync[q]] /\ ReadOK(sync[q])
      BY <1>3 DEF QuietInv, IInv, TypeOK
  <2> QED BY <2>1, <1>3, QuietStep
<1>4. CASE UNCHANGED vars
    BY <1>3, <1>4 DEF vars
<1> QED BY <1>1, <1>2, <1>3, <1>4 DEF Next, LockImport, CommitImport, Abandon, Review

\* A run during which nothing changes at NineYard or Amazon brings every item
\* that can be read, and the SKUs of one item, into the catalogue (AC-2.3).
THEOREM QuietRunsCatchUpTheorem == Spec => QuietRunsCatchUp
<1> DEFINE CatchUp ==
       \A p \in Syncs :
         sync[p].pc = "apply" /\ sync[p].quiet /\ sync'[p].pc = "idle" /\ run'[sync[p].no].status \in {"COMPLETED", "COMPLETED_WITH_ERRORS"} =>
           /\ \A i \in Items : remote[i] # None /\ remote[i].state # "BROKEN" =>
                /\ \E q \in Products : product'[q].ext = i /\ product'[q].active = (remote[i].state = "LIVE")
                /\ \E y \in records' : y.item = i /\ y.payload = remote[i]
           /\ \A s \in listed : \A i \in mapped[s] \intersect Items :
                mapped[s] = {i} /\ Owner(product', i) # {} => sku'[s] \in Owner(product', i) \/ sku[s] # None
<1>1. Init => QuietInv
  <2> SUFFICES ASSUME Init PROVE QuietInv
      OBVIOUS
  <2>1. sync = [p \in Syncs |-> IdleSync]
      BY DEF Init
  <2>2. \A p \in Syncs : sync[p].pc = "idle"
      BY <2>1 DEF IdleSync
  <2> QED BY <2>2, InitIInv DEF QuietInv, ReadOK
<1>2. QuietInv /\ [Next]_vars => [CatchUp]_vars
  <2> DEFINE ItemIn(i) == /\ \E q \in Products : product'[q].ext = i /\ product'[q].active = (remote[i].state = "LIVE")
                         /\ \E y \in records' : y.item = i /\ y.payload = remote[i]
  <2> SUFFICES ASSUME QuietInv, Next, NEW p \in Syncs,
                      sync[p].pc = "apply", sync[p].quiet, sync'[p].pc = "idle",
                      run'[sync[p].no].status \in {"COMPLETED", "COMPLETED_WITH_ERRORS"}
               PROVE  /\ \A i \in Items : remote[i] # None /\ remote[i].state # "BROKEN" => ItemIn(i)
                      /\ \A s \in listed : \A i \in mapped[s] \intersect Items :
                           mapped[s] = {i} /\ Owner(product', i) # {} => sku'[s] \in Owner(product', i) \/ sku[s] # None
      OBVIOUS
  <2> DEFINE me == sync[p]
  <2>0. /\ me \in SyncRows /\ me.no \in Runs /\ run[me.no].status = "RUNNING" /\ ReadOK(me)
        /\ sync \in [Syncs -> SyncRows] /\ run \in [Runs -> RunRows]
        /\ listed \subseteq Skus /\ sku \in [Skus -> Products \union {None}]
      BY DEF QuietInv, IInv, TypeOK, RunsOK
  <2>1. Commit(p)
    <3>1. sync'[p].pc # sync[p].pc
        OBVIOUS
    <3>2. ~UNCHANGED sync /\ ~Change
      <4>1. Change => sync'[p] = [sync[p] EXCEPT !.quiet = FALSE]
          BY DEF Change
      <4> QED BY <4>1, <3>1, <2>0 DEF SyncRows
    <3>3. PICK q \in Syncs : Start(q) \/ ReadItems(q) \/ ReadSkus(q) \/ LockSync(q) \/ ApplyItem(q)
                              \/ Commit(q) \/ Fail(q) \/ Crash(q)
        BY <3>2 DEF Next, LockImport, CommitImport, Abandon, Review
    <3>4. \A k \in Syncs : k # q => sync'[k] = sync[k]
      <4> USE <2>0
      <4>1. CASE Start(q)
          BY <4>1 DEF Start
      <4>2. CASE ReadItems(q) \/ ReadSkus(q) \/ LockSync(q)
          BY <4>2 DEF ReadItems, ReadSkus, LockSync
      <4>3. CASE ApplyItem(q)
          BY <4>3 DEF ApplyItem
      <4>4. CASE Commit(q) \/ Fail(q) \/ Crash(q)
          BY <4>4 DEF Commit, Fail, Crash
      <4> QED BY <3>3, <4>1, <4>2, <4>3, <4>4
    <3>5. q = p
        BY <3>1, <3>4
    <3>6. run' # run
        BY <2>0
    <3>7. Commit(p) \/ Fail(p) \/ Start(p)
        BY <3>3, <3>5, <3>6 DEF ReadItems, ReadSkus, LockSync, ApplyItem, Crash
    <3>8. ~Fail(p)
      <4>1. Fail(p) => run'[me.no] = [NoRun EXCEPT !.status = "FAILED"]
          BY <2>0 DEF Fail
      <4> QED BY <4>1 DEF NoRun
    <3>9. ~Start(p)
        BY DEF Start
    <3> QED BY <3>7, <3>8, <3>9
  <2>2. product' = me.new /\ records' = me.records
      BY <2>1, CommitWrites DEF QuietInv
  <2>3. me.items = {} /\ sku' = SkuNamed(me.new, sku, me.maps)
      BY <2>1 DEF Commit
  <2>4. /\ \A i \in There : ~InHand(me, i)
        /\ \A i \in There : InHand(me, i) \/ remote[i].state = "BROKEN" \/ Applied(me, i)
        /\ me.maps = MappingRecords(listed)
      BY <2>0, <2>3 DEF ReadOK, InHand
  <2> HIDE DEF me
  <2>5. ASSUME NEW i \in Items, remote[i] # None, remote[i].state # "BROKEN"
        PROVE  ItemIn(i)
    <3>1. Applied(me, i)
        BY <2>4, <2>5 DEF There
    <3> QED BY <3>1, <2>2 DEF Applied
  <2>6. ASSUME NEW s \in listed, NEW i \in Items, mapped[s] = {i}, Owner(product', i) # {}, sku[s] = None
        PROVE  sku'[s] \in Owner(product', i)
    <3> DEFINE of == {q \in Products : \E y \in me.maps : y[1] = s /\ Cardinality(y[2]) = 1 /\ me.new[q].ext \in y[2]}
    <3>1. sku'[s] = IF sku[s] # None \/ of = {} THEN sku[s] ELSE CHOOSE q \in of : TRUE
        BY <2>0, <2>3 DEF SkuNamed
    <3>2. i # None /\ Cardinality({i}) = 1
        BY DataAssumption, FS_Singleton DEF Products
    <3>3. \A y \in me.maps : y[1] = s => y[2] = {i}
        BY <2>4, <2>6 DEF MappingRecords
    <3>4. <<s, {i}>> \in me.maps
      <4>1. mapped[s] # {None}
          BY <3>2, <2>6
      <4> QED BY <4>1, <2>4, <2>6 DEF MappingRecords
    <3>5. of = Owner(me.new, i)
      <4>1. ASSUME NEW q \in of PROVE q \in Owner(me.new, i)
          BY <3>3 DEF Owner
      <4>2. ASSUME NEW q \in Owner(me.new, i) PROVE q \in of
        <5>1. <<s, {i}>>[1] = s /\ <<s, {i}>>[2] = {i} /\ q \in Products /\ me.new[q].ext \in {i}
            BY DEF Owner
        <5> QED BY <5>1, <3>2, <3>4
      <4> QED BY <4>1, <4>2
    <3> HIDE DEF of
    <3> QED BY <3>1, <3>5, <2>2, <2>6
  <2> QED BY <2>5, <2>6
<1> QED BY <1>1, <1>2, QuietNext, PTL DEF Spec, QuietRunsCatchUp

-----------------------------------------------------------------------------
(* The writers take turns *)

\* What is at hand is what NineYard, or a file, has said.  That is not needed to
\* keep the catalogue whole, and SerialCatalogue knows of no other descriptions.
Said(me) == \A y \in me.items : y.payload \in Payloads[y.item]
Described ==
    /\ \A i \in Items : remote[i] # None => remote[i] \in Payloads[i]
    /\ \A p \in Syncs : Said(sync[p])
    /\ \A o \in Operators : operator[o].pc # "idle" => operator[o].export \in Exports

SerialInv == IInv /\ Described

\* Idle processes have nothing at hand.
LEMMA IdleSaid == Said(IdleSync) /\ IdleOperator.pc = "idle"
BY DEF Said, IdleSync, IdleOperator

LEMMA InitDescribed == Init => Described
<1> SUFFICES ASSUME Init PROVE Described
    OBVIOUS
<1>1. \A i \in Items : remote[i] # None => remote[i] \in Payloads[i]
    BY DEF Init
<1>2. (\A p \in Syncs : sync[p] = IdleSync) /\ \A o \in Operators : operator[o] = IdleOperator
    BY DEF Init
<1> QED BY <1>1, <1>2, IdleSaid DEF Described

\* A process that changes no remote payload keeps what the others have at hand.
LEMMA SyncSaid ==
    ASSUME SerialInv, NEW p \in Syncs, NEW row, sync' = [sync EXCEPT ![p] = row], Said(row),
           UNCHANGED <<remote, operator>>
    PROVE  Described'
<1>1. sync \in [Syncs -> SyncRows]
    BY DEF SerialInv, IInv, TypeOK
<1>2. \A q \in Syncs : sync'[q] = IF q = p THEN row ELSE sync[q]
    BY <1>1
<1>3. ASSUME NEW q \in Syncs
      PROVE  \A y \in sync'[q].items : y.payload \in Payloads[y.item]
    BY <1>2 DEF SerialInv, Described, Said
<1>4. /\ \A i \in Items : remote'[i] # None => remote'[i] \in Payloads[i]
      /\ \A o \in Operators : operator'[o].pc # "idle" => operator'[o].export \in Exports
    BY DEF SerialInv, Described
<1> QED BY <1>3, <1>4 DEF Described, Said

LEMMA OperatorSaid ==
    ASSUME SerialInv, NEW o \in Operators, NEW row, operator' = [operator EXCEPT ![o] = row],
           row.pc # "idle" => row.export \in Exports,
           UNCHANGED <<remote, sync>>
    PROVE  Described'
<1>1. operator \in [Operators -> OperatorRows]
    BY DEF SerialInv, IInv, TypeOK
<1>2. \A q \in Operators : operator'[q] = IF q = o THEN row ELSE operator[q]
    BY <1>1
<1>3. \A q \in Operators : operator'[q].pc # "idle" => operator'[q].export \in Exports
    BY <1>2 DEF SerialInv, Described
<1>4. \A q \in Syncs : \A y \in sync'[q].items : y.payload \in Payloads[y.item]
    BY DEF SerialInv, Described, Said
<1>5. \A i \in Items : remote'[i] # None => remote'[i] \in Payloads[i]
    BY DEF SerialInv, Described
<1> QED BY <1>3, <1>4, <1>5 DEF Described, Said

\* An item leaves what is at hand, and its catalogue is the draft's next.
LEMMA ItemTaken ==
    ASSUME sync \in [Syncs -> SyncRows], NEW p \in Syncs, ApplyItem(p)
    PROVE  \E y \in sync[p].items, row \in {sync'[p]} :
             /\ sync' = [sync EXCEPT ![p] = row]
             /\ row.pc = "apply" /\ row.items = sync[p].items \ {y}
             /\ row.new = IF y.payload.state = "BROKEN" THEN sync[p].new ELSE ItemApplied(sync[p].new, y)
<1> DEFINE me == sync[p]
           counted(y) == [me.run EXCEPT !.seen = @ + 1, !.failed = @ + 1]
           recorded(y) == IF \E k \in me.records : k.item = y.item /\ k.payload = y.payload THEN me.records
                          ELSE me.records \union {[item |-> y.item, payload |-> y.payload, run |-> me.no]}
           after(y) == IF y.payload.state = "BROKEN"
                       THEN [me EXCEPT !.items = me.items \ {y}, !.run = counted(y)]
                       ELSE [me EXCEPT !.items = me.items \ {y}, !.new = ItemApplied(me.new, y),
                                       !.run = Counted(me.new, y.item, y.payload, me.run), !.records = recorded(y)]
<1>1. me \in SyncRows /\ me.pc = "apply"
    BY DEF ApplyItem
<1>2. PICK y \in me.items :
         sync' = [sync EXCEPT ![p] =
               IF y.payload.state = "BROKEN"
               THEN [me EXCEPT !.items = @ \ {y}, !.run.seen = @ + 1, !.run.failed = @ + 1]
               ELSE [me EXCEPT
                      !.items = @ \ {y},
                      !.new = ItemApplied(@, y),
                      !.run = Counted(me.new, y.item, y.payload, @),
                      !.records = IF \E k \in @ : k.item = y.item /\ k.payload = y.payload THEN @
                                  ELSE @ \union {[item |-> y.item, payload |-> y.payload, run |-> me.no]}]]
    BY DEF ApplyItem
<1>3. sync' = [sync EXCEPT ![p] = after(y)]
  <2>1. CASE y.payload.state = "BROKEN"
    <3>1. [me EXCEPT !.items = @ \ {y}, !.run.seen = @ + 1, !.run.failed = @ + 1] = after(y)
      <4> HIDE DEF me
      <4> QED BY <1>1, <2>1 DEF SyncRows
    <3> QED BY <3>1, <1>2, <2>1
  <2>2. CASE y.payload.state # "BROKEN"
    <3>1. sync' = [sync EXCEPT ![p] =
                     [me EXCEPT
                      !.items = @ \ {y},
                      !.new = ItemApplied(@, y),
                      !.run = Counted(me.new, y.item, y.payload, @),
                      !.records = IF \E k \in @ : k.item = y.item /\ k.payload = y.payload THEN @
                                  ELSE @ \union {[item |-> y.item, payload |-> y.payload, run |-> me.no]}]]
        BY <1>2, <2>2
    <3> QED BY <3>1, <2>2
  <2> QED BY <2>1, <2>2
<1>4. /\ after(y).pc = "apply" /\ after(y).items = me.items \ {y}
      /\ after(y).new = IF y.payload.state = "BROKEN" THEN me.new ELSE ItemApplied(me.new, y)
  <2> HIDE DEF me, counted, recorded
  <2> QED BY <1>1 DEF SyncRows
<1>5. sync'[p] = after(y)
    BY <1>3
<1> HIDE DEF after
<1> QED BY <1>3, <1>4, <1>5

LEMMA NextDescribed == SerialInv /\ [Next]_vars => Described'
<1> SUFFICES ASSUME SerialInv, [Next]_vars PROVE Described'
    OBVIOUS
<1>0. /\ sync \in [Syncs -> SyncRows] /\ operator \in [Operators -> OperatorRows]
      /\ remote \in [Items -> PayloadTypes \union {None}]
      /\ \A p \in Syncs : Said(sync[p])
      /\ \A i \in Items : remote[i] # None => remote[i] \in Payloads[i]
    BY DEF SerialInv, IInv, TypeOK, Described
<1>1. CASE Change
  <2>1. \A i \in Items : remote'[i] # None => remote'[i] \in Payloads[i]
    <3>1. CASE \E i \in Items : \E x \in Payloads[i] \union {None} : remote' = [remote EXCEPT ![i] = x]
        BY <3>1, <1>0
    <3>2. CASE remote' = remote
        BY <3>2, <1>0
    <3> QED BY <3>1, <3>2, <1>1 DEF Change
  <2>2. ASSUME NEW q \in Syncs
        PROVE  sync'[q].items = sync[q].items
    <3>1. sync[q] \in SyncRows /\ sync'[q] = [sync[q] EXCEPT !.quiet = FALSE]
        BY <1>0, <1>1 DEF Change
    <3> QED BY <3>1 DEF SyncRows
  <2>3. \A q \in Syncs : \A y \in sync'[q].items : y.payload \in Payloads[y.item]
      BY <2>2, <1>0 DEF Said
  <2>4. \A o \in Operators : operator'[o].pc # "idle" => operator'[o].export \in Exports
      BY <1>1 DEF Change, SerialInv, Described
  <2> QED BY <2>1, <2>3, <2>4 DEF Described, Said
<1>2. ASSUME NEW p \in Syncs, Start(p)
      PROVE  Described'
  <2>1. PICK r \in Runs : sync' = [sync EXCEPT ![p] = [IdleSync EXCEPT !.pc = "items", !.no = r, !.skus = listed]]
      BY <1>2 DEF Start
  <2>2. Said([IdleSync EXCEPT !.pc = "items", !.no = r, !.skus = listed])
      BY DEF Said, IdleSync
  <2> QED BY <2>1, <2>2, <1>2, SyncSaid DEF Start, worldVars
<1>3. ASSUME NEW p \in Syncs, ReadItems(p)
      PROVE  Described'
  <2> DEFINE me == sync[p]
             read == {[page |-> me.page, item |-> y.item, payload |-> y.payload] : y \in Page(me.page)}
             pages == me.pages \union {Page(me.page)}
             pc == IF LastPage(me.page) THEN "skus" ELSE "items"
             row == [me EXCEPT !.items = me.items \union read, !.pages = pages, !.page = @ + 1, !.pc = pc]
  <2>1. sync' = [sync EXCEPT ![p] = row]
      BY <1>0, <1>3 DEF ReadItems
  <2>2. \A y \in read : y.payload \in Payloads[y.item]
      BY <1>0 DEF Page, There
  <2>3. me \in SyncRows /\ Said(me)
      BY <1>0
  <2> HIDE DEF read, pages, pc, me
  <2>4. row.items = me.items \union read
      BY <2>3 DEF SyncRows
  <2> HIDE DEF row
  <2>5. Said(row)
      BY <2>2, <2>3, <2>4 DEF Said
  <2> QED BY <2>1, <2>5, <1>3, SyncSaid DEF ReadItems, worldVars
<1>4. ASSUME NEW p \in Syncs, ReadSkus(p) \/ LockSync(p)
      PROVE  Described'
  <2>1. PICK row : sync' = [sync EXCEPT ![p] = row] /\ row.items = sync[p].items
      BY <1>0, <1>4 DEF ReadSkus, LockSync, SyncRows
  <2> QED BY <2>1, <1>0, <1>4, SyncSaid DEF ReadSkus, LockSync, worldVars, Said
<1>5. ASSUME NEW p \in Syncs, ApplyItem(p)
      PROVE  Described'
  <2>1. PICK y \in sync[p].items, row \in {sync'[p]} :
            /\ sync' = [sync EXCEPT ![p] = row] /\ row.items = sync[p].items \ {y}
      BY <1>0, <1>5, ItemTaken
  <2> QED BY <2>1, <1>0, <1>5, SyncSaid DEF ApplyItem, worldVars, Said
<1>6. ASSUME NEW p \in Syncs, Commit(p) \/ Fail(p) \/ Crash(p)
      PROVE  Described'
    BY <1>6, IdleSaid, SyncSaid DEF Commit, Fail, Crash, worldVars
<1>7. ASSUME NEW o \in Operators, NEW E \in Exports, Review(o, E)
      PROVE  Described'
  <2>1. [IdleOperator EXCEPT !.pc = "lock", !.export = E].export = E
      BY DEF IdleOperator
  <2> QED BY <2>1, <1>7, OperatorSaid DEF Review, worldVars
<1>8. ASSUME NEW o \in Operators, LockImport(o)
      PROVE  Described'
  <2>1. operator[o].export \in Exports /\ operator[o] \in OperatorRows
      BY <1>0, <1>8 DEF LockImport, SerialInv, Described
  <2>2. [operator[o] EXCEPT !.pc = "apply", !.copy = product].export = operator[o].export
      BY <2>1 DEF OperatorRows
  <2>3. CASE operator' = [operator EXCEPT ![o] = IdleOperator]
      BY <2>3, <1>8, IdleSaid, OperatorSaid DEF LockImport, worldVars
  <2>4. CASE operator' = [operator EXCEPT ![o].pc = "apply", ![o].copy = product]
    <3>1. operator' = [operator EXCEPT ![o] = [operator[o] EXCEPT !.pc = "apply", !.copy = product]]
        BY <2>4, <1>0
    <3> QED BY <3>1, <2>1, <2>2, <1>8, OperatorSaid DEF LockImport, worldVars
  <2> QED BY <2>3, <2>4, <1>8 DEF LockImport
<1>9. ASSUME NEW o \in Operators, CommitImport(o) \/ Abandon(o)
      PROVE  Described'
    BY <1>9, IdleSaid, OperatorSaid DEF CommitImport, Abandon, worldVars
<1>10. CASE UNCHANGED vars
  <2>1. remote' = remote /\ sync' = sync /\ operator' = operator
      BY <1>10 DEF vars, worldVars
  <2> QED BY <2>1 DEF SerialInv, Described, Said
<1> QED BY <1>1, <1>2, <1>3, <1>4, <1>5, <1>6, <1>7, <1>8, <1>9, <1>10 DEF Next

\* The sync and the import at work, as SerialCatalogue has them.
Drafts(S) == {[writer |-> p, is |-> S[p].new] : p \in {p \in Syncs : Holds(S[p])}}
FilesOf(T) == {[writer |-> o, is |-> T[o].export] : o \in {o \in Operators : Holds(T[o])}}

\* The steps of SerialCatalogue, in terms of what the processes here do.
LEMMA SerialMoves ==
    ASSUME TRUE
    PROVE
    /\ product' = product /\ Drafts(sync') = Drafts(sync) /\ FilesOf(operator') = FilesOf(operator)
       => UNCHANGED Serial!vars
    /\ \A p \in Syncs :
         Drafts(sync) = {} /\ FilesOf(operator) = {} /\ product' = product /\ FilesOf(operator') = {}
         /\ Drafts(sync') = {[writer |-> p, is |-> product]} => Serial!BeginSync(p)
    /\ \A p \in Syncs, y \in Readable :
         Drafts(sync) = {[writer |-> p, is |-> sync[p].new]} /\ product' = product
         /\ FilesOf(operator') = FilesOf(operator)
         /\ Drafts(sync') = {[writer |-> p, is |-> ItemApplied(sync[p].new, y)]} => Serial!Apply
    /\ \A p \in Syncs :
         Drafts(sync) = {[writer |-> p, is |-> sync[p].new]} /\ product' = sync[p].new /\ Unique(product')
         /\ FilesOf(operator') = FilesOf(operator) /\ Drafts(sync') = {} => Serial!Publish
    /\ \A o \in Operators, E \in Exports :
         Drafts(sync) = {} /\ FilesOf(operator) = {} /\ product' = product /\ Drafts(sync') = {}
         /\ ~Blocked(product, E) /\ FilesOf(operator') = {[writer |-> o, is |-> E]} => Serial!BeginImport(o, E)
    /\ \A o \in Operators :
         FilesOf(operator) = {[writer |-> o, is |-> operator[o].export]}
         /\ product' = Imported(product, operator[o].export) /\ Unique(product')
         /\ Drafts(sync') = Drafts(sync) /\ FilesOf(operator') = {} => Serial!PublishFile
    /\ product' = product /\ Drafts(sync') = {} /\ FilesOf(operator') = {} => Serial!Discard
<1>1. product' = product /\ Drafts(sync') = Drafts(sync) /\ FilesOf(operator') = FilesOf(operator)
       => UNCHANGED Serial!vars
    BY DEF Serial!vars, Drafts, FilesOf
<1>2. ASSUME NEW p \in Syncs, Drafts(sync) = {}, FilesOf(operator) = {}, product' = product, FilesOf(operator') = {},
             Drafts(sync') = {[writer |-> p, is |-> product]}
      PROVE  Serial!BeginSync(p)
    BY <1>2, Zenon DEF Serial!BeginSync, Serial!Free, Drafts, FilesOf
<1>3. ASSUME NEW p \in Syncs, NEW y \in Readable, Drafts(sync) = {[writer |-> p, is |-> sync[p].new]}, product' = product,
             FilesOf(operator') = FilesOf(operator),
             Drafts(sync') = {[writer |-> p, is |-> ItemApplied(sync[p].new, y)]}
      PROVE  Serial!Apply
  <2> DEFINE d == [writer |-> p, is |-> sync[p].new]
  <2>1. d \in Drafts(sync) /\ Drafts(sync') = {[writer |-> d.writer, is |-> ItemApplied(d.is, y)]}
      BY <1>3
  <2> HIDE DEF d
  <2>2. \E e \in Drafts(sync), z \in Readable : Drafts(sync') = {[writer |-> e.writer, is |-> ItemApplied(e.is, z)]}
      BY <2>1
  <2> QED BY <2>2, <1>3, Zenon DEF Serial!Apply, Drafts, FilesOf
<1>4. ASSUME NEW p \in Syncs, Drafts(sync) = {[writer |-> p, is |-> sync[p].new]}, product' = sync[p].new, Unique(product'),
             FilesOf(operator') = FilesOf(operator), Drafts(sync') = {}
      PROVE  Serial!Publish
  <2>1. \E d \in Drafts(sync) : product' = d.is
      BY <1>4
  <2> QED BY <2>1, <1>4, Zenon DEF Serial!Publish, Drafts, FilesOf
<1>5. ASSUME NEW o \in Operators, NEW E \in Exports, Drafts(sync) = {}, FilesOf(operator) = {}, product' = product,
             Drafts(sync') = {}, ~Blocked(product, E), FilesOf(operator') = {[writer |-> o, is |-> E]}
      PROVE  Serial!BeginImport(o, E)
    BY <1>5, Zenon DEF Serial!BeginImport, Serial!Free, Drafts, FilesOf
<1>6. ASSUME NEW o \in Operators, FilesOf(operator) = {[writer |-> o, is |-> operator[o].export]},
             product' = Imported(product, operator[o].export), Unique(product'),
             Drafts(sync') = Drafts(sync), FilesOf(operator') = {}
      PROVE  Serial!PublishFile
  <2>1. \E f \in FilesOf(operator) : product' = Imported(product, f.is)
      BY <1>6
  <2> QED BY <2>1, <1>6, Zenon DEF Serial!PublishFile, Drafts, FilesOf
<1>7. ASSUME product' = product, Drafts(sync') = {}, FilesOf(operator') = {}
      PROVE  Serial!Discard
    BY <1>7, Zenon DEF Serial!Discard, Drafts, FilesOf
<1> QED BY <1>1, <1>2, <1>3, <1>4, <1>5, <1>6, <1>7

\* Nobody at work leaves no draft, one sync at work leaves its own, and a draft
\* is what it was as long as its sync has neither come, gone nor applied an item.
LEMMA DraftsOf ==
    ASSUME NEW S
    PROVE  /\ (\A p \in Syncs : ~Holds(S[p])) => Drafts(S) = {}
           /\ \A p \in Syncs : Holds(S[p]) /\ (\A q \in Syncs : Holds(S[q]) => q = p)
                => Drafts(S) = {[writer |-> p, is |-> S[p].new]}
           /\ \A T : (\A p \in Syncs : (Holds(T[p]) <=> Holds(S[p])) /\ (Holds(S[p]) => T[p].new = S[p].new))
                => Drafts(T) = Drafts(S)
<1>1. (\A p \in Syncs : ~Holds(S[p])) => Drafts(S) = {}
    BY DEF Drafts
<1>2. ASSUME NEW p \in Syncs, Holds(S[p]), \A q \in Syncs : Holds(S[q]) => q = p
      PROVE  Drafts(S) = {[writer |-> p, is |-> S[p].new]}
    BY <1>2 DEF Drafts
<1>3. ASSUME NEW T, \A p \in Syncs : (Holds(T[p]) <=> Holds(S[p])) /\ (Holds(S[p]) => T[p].new = S[p].new)
      PROVE  Drafts(T) = Drafts(S)
    BY <1>3 DEF Drafts
<1> QED BY <1>1, <1>2, <1>3

LEMMA FilesAre ==
    ASSUME NEW S
    PROVE  /\ (\A o \in Operators : ~Holds(S[o])) => FilesOf(S) = {}
           /\ \A o \in Operators : Holds(S[o]) /\ (\A q \in Operators : Holds(S[q]) => q = o)
                => FilesOf(S) = {[writer |-> o, is |-> S[o].export]}
           /\ \A T : (\A o \in Operators : (Holds(T[o]) <=> Holds(S[o])) /\ (Holds(S[o]) => T[o].export = S[o].export))
                => FilesOf(T) = FilesOf(S)
<1>1. (\A o \in Operators : ~Holds(S[o])) => FilesOf(S) = {}
    BY DEF FilesOf
<1>2. ASSUME NEW o \in Operators, Holds(S[o]), \A q \in Operators : Holds(S[q]) => q = o
      PROVE  FilesOf(S) = {[writer |-> o, is |-> S[o].export]}
    BY <1>2 DEF FilesOf
<1>3. ASSUME NEW T, \A o \in Operators : (Holds(T[o]) <=> Holds(S[o])) /\ (Holds(S[o]) => T[o].export = S[o].export)
      PROVE  FilesOf(T) = FilesOf(S)
    BY <1>3 DEF FilesOf
<1> QED BY <1>1, <1>2, <1>3

\* A sync that is not under the lock and stays away from it is not seen.
LEMMA UnseenSync ==
    ASSUME IInv, NEW p \in Syncs, NEW row, sync' = [sync EXCEPT ![p] = row],
           Holds(row) <=> Holds(sync[p]), Holds(row) => row.new = sync[p].new,
           UNCHANGED <<product, operator>>
    PROVE  UNCHANGED Serial!vars
<1>1. sync \in [Syncs -> SyncRows] /\ \A q \in Syncs : sync'[q] = IF q = p THEN row ELSE sync[q]
    BY DEF IInv, TypeOK
<1>2. \A q \in Syncs : (Holds(sync'[q]) <=> Holds(sync[q])) /\ (Holds(sync[q]) => sync'[q].new = sync[q].new)
    BY <1>1
<1>3. Drafts(sync') = Drafts(sync)
    BY <1>2, DraftsOf
<1> QED BY <1>3, SerialMoves

LEMMA UnseenOperator ==
    ASSUME IInv, NEW o \in Operators, NEW row, operator' = [operator EXCEPT ![o] = row],
           ~Holds(row), ~Holds(operator[o]),
           UNCHANGED <<product, sync>>
    PROVE  UNCHANGED Serial!vars
<1>1. operator \in [Operators -> OperatorRows] /\ \A q \in Operators : operator'[q] = IF q = o THEN row ELSE operator[q]
    BY DEF IInv, TypeOK
<1>2. \A q \in Operators : (Holds(operator'[q]) <=> Holds(operator[q])) /\ (Holds(operator[q]) => operator'[q].export = operator[q].export)
    BY <1>1
<1>3. FilesOf(operator') = FilesOf(operator)
    BY <1>2, FilesAre
<1> QED BY <1>3, SerialMoves

\* The sync under the lock is the only writer, and its draft the only one.
LEMMA SyncAtWork ==
    ASSUME IInv, NEW p \in Syncs, Holds(sync[p])
    PROVE  /\ Drafts(sync) = {[writer |-> p, is |-> sync[p].new]} /\ FilesOf(operator) = {}
           /\ \A q \in Syncs : Holds(sync[q]) => q = p
           /\ \A o \in Operators : ~Holds(operator[o])
<1>1. (\A q \in Syncs : Holds(sync[q]) => q = p) /\ \A o \in Operators : ~Holds(operator[o])
    BY DEF IInv, Alone
<1> QED BY <1>1, DraftsOf, FilesAre

LEMMA OperatorAtWork ==
    ASSUME IInv, NEW o \in Operators, Holds(operator[o])
    PROVE  /\ FilesOf(operator) = {[writer |-> o, is |-> operator[o].export]} /\ Drafts(sync) = {}
           /\ \A q \in Operators : Holds(operator[q]) => q = o
           /\ \A p \in Syncs : ~Holds(sync[p])
<1>1. (\A q \in Operators : Holds(operator[q]) => q = o) /\ \A p \in Syncs : ~Holds(sync[p])
    BY DEF IInv, Alone
<1> QED BY <1>1, DraftsOf, FilesAre

\* Whoever is under the lock and ends without a commit takes the draft along.
LEMMA DraftDiscarded ==
    ASSUME IInv, NEW p \in Syncs, sync' = [sync EXCEPT ![p] = IdleSync], UNCHANGED <<product, operator>>
    PROVE  [Serial!Next]_(Serial!vars)
<1>0. IdleSync.pc = "idle" /\ sync \in [Syncs -> SyncRows]
    BY DEF IdleSync, IInv, TypeOK
<1>1. CASE ~Holds(sync[p])
    BY <1>0, <1>1, UnseenSync DEF Holds
<1>2. CASE Holds(sync[p])
  <2>1. (\A q \in Syncs : ~Holds(sync'[q])) /\ \A o \in Operators : ~Holds(operator'[o])
      BY <1>0, <1>2, SyncAtWork DEF Holds
  <2>2. Drafts(sync') = {} /\ FilesOf(operator') = {}
      BY <2>1, DraftsOf, FilesAre
  <2>3. Serial!Discard
      BY <2>2, SerialMoves
  <2> QED BY <2>3 DEF Serial!Next
<1> QED BY <1>1, <1>2

\* Every step of the two writers is a step of SerialCatalogue or none of its.
LEMMA SyncIsSerial ==
    ASSUME SerialInv, NEW p \in Syncs,
           Start(p) \/ ReadItems(p) \/ ReadSkus(p) \/ LockSync(p) \/ ApplyItem(p) \/ Commit(p) \/ Fail(p) \/ Crash(p)
    PROVE  [Serial!Next]_(Serial!vars)
<1>0. /\ IInv /\ sync \in [Syncs -> SyncRows] /\ sync[p] \in SyncRows /\ Said(sync[p])
      /\ IdleSync.pc = "idle" /\ UNCHANGED operator
    BY DEF SerialInv, IInv, TypeOK, Described, IdleSync, Start, ReadItems, ReadSkus, LockSync, ApplyItem, Commit, Fail, Crash
<1>1. CASE Start(p)
  <2>1. PICK r \in Runs : sync' = [sync EXCEPT ![p] = [IdleSync EXCEPT !.pc = "items", !.no = r, !.skus = listed]]
      BY <1>1 DEF Start
  <2>2. [IdleSync EXCEPT !.pc = "items", !.no = r, !.skus = listed].pc = "items" /\ sync[p].pc = "idle" /\ product' = product
      BY <1>1 DEF IdleSync, Start, catalogue
  <2> QED BY <2>1, <2>2, <1>0, UnseenSync DEF Holds
<1>2. CASE ReadItems(p)
  <2>1. PICK row : sync' = [sync EXCEPT ![p] = row] /\ row.pc \in {"items", "skus"}
    <3> DEFINE me == sync[p]
               items == me.items \union {[page |-> me.page, item |-> y.item, payload |-> y.payload] : y \in Page(me.page)}
               pages == me.pages \union {Page(me.page)}
               pc == IF LastPage(me.page) THEN "skus" ELSE "items"
               row == [me EXCEPT !.items = items, !.pages = pages, !.page = me.page + 1, !.pc = pc]
    <3>1. sync' = [sync EXCEPT ![p] = row]
        BY <1>0, <1>2 DEF ReadItems
    <3>2. pc \in {"items", "skus"}
        OBVIOUS
    <3> HIDE DEF items, pages, pc
    <3>3. row.pc = pc
        BY <1>0 DEF SyncRows
    <3> QED BY <3>1, <3>2, <3>3
  <2>2. sync[p].pc = "items" /\ product' = product
      BY <1>2 DEF ReadItems, catalogue
  <2> QED BY <2>1, <2>2, <1>0, UnseenSync DEF Holds
<1>3. CASE ReadSkus(p)
  <2>1. PICK row : sync' = [sync EXCEPT ![p] = row] /\ row.pc = "lock"
      BY <1>0, <1>3 DEF ReadSkus, SyncRows
  <2>2. sync[p].pc = "skus" /\ product' = product
      BY <1>3 DEF ReadSkus, catalogue
  <2> QED BY <2>1, <2>2, <1>0, UnseenSync DEF Holds
<1>4. CASE LockSync(p)
  <2>1. PICK row : sync' = [sync EXCEPT ![p] = row] /\ row.pc = "apply" /\ row.new = product
    <3> DEFINE me == sync[p]
               row == [me EXCEPT !.pc = "apply", !.copy = product, !.new = product, !.records = records, !.run = run[me.no]]
    <3>1. sync' = [sync EXCEPT ![p] = row]
        BY <1>4 DEF LockSync
    <3>2. row.pc = "apply" /\ row.new = product
        BY <1>0 DEF SyncRows
    <3> QED BY <3>1, <3>2
  <2>2. LockFree /\ product' = product
      BY <1>4 DEF LockSync, catalogue
  <2>3. Drafts(sync) = {} /\ FilesOf(operator) = {}
      BY <2>2, DraftsOf, FilesAre DEF LockFree
  <2>4. Holds(sync'[p]) /\ sync'[p].new = product /\ \A q \in Syncs : Holds(sync'[q]) => q = p
      BY <2>1, <2>2, <1>0 DEF LockFree, Holds
  <2>5. Drafts(sync') = {[writer |-> p, is |-> product]}
      BY <2>4, DraftsOf
  <2>6. Serial!BeginSync(p)
      BY <2>2, <2>3, <2>5, <1>0, SerialMoves
  <2> QED BY <2>6 DEF Serial!Next
<1>5. CASE ApplyItem(p)
  <2>1. PICK y \in sync[p].items, row \in {sync'[p]} :
            /\ sync' = [sync EXCEPT ![p] = row]
            /\ row.pc = "apply" /\ row.items = sync[p].items \ {y}
            /\ row.new = IF y.payload.state = "BROKEN" THEN sync[p].new ELSE ItemApplied(sync[p].new, y)
      BY <1>0, <1>5, ItemTaken
  <2>2. Holds(sync[p]) /\ Holds(row) /\ product' = product
      BY <2>1, <1>5 DEF ApplyItem, Holds, catalogue
  <2>3. CASE y.payload.state = "BROKEN"
      BY <2>1, <2>2, <2>3, <1>0, UnseenSync
  <2>4. CASE y.payload.state # "BROKEN"
    <3> DEFINE x == [item |-> y.item, payload |-> y.payload]
    <3>1. y.item \in Items /\ y.payload \in Payloads[y.item]
        BY <1>0, <2>1 DEF SyncRows, Said
    <3>2. x \in Readable
        BY <3>1, <2>4 DEF Readable
    <3>3. ItemApplied(sync[p].new, y) = ItemApplied(sync[p].new, x)
        BY DEF ItemApplied
    <3>4. Holds(sync'[p]) /\ sync'[p].new = ItemApplied(sync[p].new, x) /\ \A q \in Syncs : Holds(sync'[q]) => q = p
        BY <2>1, <2>2, <2>4, <3>3, <1>0, SyncAtWork
    <3>5. Drafts(sync') = {[writer |-> p, is |-> ItemApplied(sync[p].new, x)]}
        BY <3>4, DraftsOf
    <3>6. Drafts(sync) = {[writer |-> p, is |-> sync[p].new]}
        BY <2>2, <1>0, SyncAtWork
    <3> HIDE DEF x
    <3>7. Serial!Apply
        BY <3>2, <3>5, <3>6, <2>2, <1>0, SerialMoves
    <3> QED BY <3>7 DEF Serial!Next
  <2> QED BY <2>3, <2>4
<1>6. CASE Commit(p)
  <2>1. Holds(sync[p]) /\ product' = sync[p].new /\ Unique(product') /\ sync' = [sync EXCEPT ![p] = IdleSync]
      BY <1>0, <1>6, CommitWrites DEF Commit, Holds
  <2>2. \A q \in Syncs : ~Holds(sync'[q])
      BY <2>1, <1>0, SyncAtWork DEF Holds
  <2>3. Drafts(sync) = {[writer |-> p, is |-> sync[p].new]} /\ Drafts(sync') = {}
      BY <2>1, <2>2, <1>0, SyncAtWork, DraftsOf
  <2>4. Serial!Publish
      BY <2>1, <2>3, <1>0, SerialMoves
  <2> QED BY <2>4 DEF Serial!Next
<1>7. CASE Fail(p) \/ Crash(p)
    BY <1>0, <1>7, DraftDiscarded DEF Fail, Crash, catalogue
<1> QED BY <1>1, <1>2, <1>3, <1>4, <1>5, <1>6, <1>7

LEMMA ImportIsSerial ==
    ASSUME SerialInv, NEW o \in Operators,
           LockImport(o) \/ CommitImport(o) \/ Abandon(o) \/ \E E \in Exports : Review(o, E)
    PROVE  [Serial!Next]_(Serial!vars)
<1>0. /\ IInv /\ operator \in [Operators -> OperatorRows] /\ operator[o] \in OperatorRows
      /\ IdleOperator.pc = "idle" /\ UNCHANGED sync
    BY DEF SerialInv, IInv, TypeOK, IdleOperator, LockImport, CommitImport, Abandon, Review
<1>1. CASE \E E \in Exports : Review(o, E)
  <2>1. PICK E \in Exports : Review(o, E)
      BY <1>1
  <2>2. [IdleOperator EXCEPT !.pc = "lock", !.export = E].pc = "lock" /\ operator[o].pc = "idle" /\ product' = product
      BY <2>1 DEF IdleOperator, Review, catalogue
  <2> QED BY <2>1, <2>2, <1>0, UnseenOperator DEF Review, Holds
<1>2. CASE LockImport(o)
  <2>1. operator[o].pc = "lock" /\ LockFree /\ product' = product /\ operator[o].export \in Exports
      BY <1>2 DEF LockImport, catalogue, SerialInv, Described
  <2>2. CASE Blocked(product, operator[o].export)
      BY <2>1, <2>2, <1>0, <1>2, UnseenOperator DEF LockImport, Holds
  <2>3. CASE ~Blocked(product, operator[o].export)
    <3>1. PICK row : operator' = [operator EXCEPT ![o] = row] /\ row.pc = "apply" /\ row.export = operator[o].export
        BY <1>0, <1>2, <2>3 DEF LockImport, OperatorRows
    <3>2. Drafts(sync) = {} /\ FilesOf(operator) = {}
        BY <2>1, DraftsOf, FilesAre DEF LockFree
    <3>3. Holds(operator'[o]) /\ operator'[o].export = operator[o].export /\ \A q \in Operators : Holds(operator'[q]) => q = o
        BY <3>1, <2>1, <1>0 DEF LockFree, Holds
    <3>4. FilesOf(operator') = {[writer |-> o, is |-> operator[o].export]}
        BY <3>3, FilesAre
    <3>5. PICK E \in Exports : E = operator[o].export
        BY <2>1
    <3>6. Drafts(sync') = {}
        BY <3>2, <1>0
    <3>7. Serial!BeginImport(o, E)
        BY <2>1, <2>3, <3>2, <3>4, <3>5, <3>6, SerialMoves
    <3> QED BY <3>7 DEF Serial!Next
  <2> QED BY <2>2, <2>3
<1>3. CASE CommitImport(o)
  <2>1. /\ Holds(operator[o]) /\ product' = Imported(product, operator[o].export) /\ Unique(product')
        /\ operator' = [operator EXCEPT ![o] = IdleOperator]
      BY <1>0, <1>3, CommitImportWrites DEF CommitImport, Holds
  <2>2. \A q \in Operators : ~Holds(operator'[q])
      BY <2>1, <1>0, OperatorAtWork DEF Holds
  <2>3. FilesOf(operator) = {[writer |-> o, is |-> operator[o].export]} /\ FilesOf(operator') = {}
      BY <2>1, <2>2, <1>0, OperatorAtWork, FilesAre
  <2>4. Serial!PublishFile
      BY <2>1, <2>3, <1>0, SerialMoves
  <2> QED BY <2>4 DEF Serial!Next
<1>4. CASE Abandon(o)
  <2>1. operator' = [operator EXCEPT ![o] = IdleOperator] /\ product' = product
      BY <1>4 DEF Abandon, catalogue
  <2>2. CASE ~Holds(operator[o])
      BY <2>1, <2>2, <1>0, UnseenOperator DEF Holds
  <2>3. CASE Holds(operator[o])
    <3>1. (\A q \in Operators : ~Holds(operator'[q])) /\ \A p \in Syncs : ~Holds(sync'[p])
        BY <2>1, <2>3, <1>0, OperatorAtWork DEF Holds
    <3>2. Drafts(sync') = {} /\ FilesOf(operator') = {}
        BY <3>1, DraftsOf, FilesAre
    <3>3. Serial!Discard
        BY <2>1, <3>2, SerialMoves
    <3> QED BY <3>3 DEF Serial!Next
  <2> QED BY <2>2, <2>3
<1> QED BY <1>1, <1>2, <1>3, <1>4

LEMMA NextIsSerial == SerialInv /\ [Next]_vars => [Serial!Next]_(Serial!vars)
<1> SUFFICES ASSUME SerialInv, [Next]_vars PROVE [Serial!Next]_(Serial!vars)
    OBVIOUS
<1>1. CASE Change
  <2>1. ASSUME NEW q \in Syncs
        PROVE  Holds(sync'[q]) = Holds(sync[q]) /\ sync'[q].new = sync[q].new
    <3>1. sync[q] \in SyncRows /\ sync'[q] = [sync[q] EXCEPT !.quiet = FALSE]
        BY <1>1 DEF Change, SerialInv, IInv, TypeOK
    <3> QED BY <3>1 DEF SyncRows, Holds
  <2>2. Drafts(sync') = Drafts(sync)
      BY <2>1, DraftsOf
  <2> QED BY <2>2, <1>1, SerialMoves DEF Change, catalogue
<1>2. CASE UNCHANGED vars
    BY <1>2, SerialMoves DEF vars, catalogue
<1> QED BY <1>1, <1>2, SyncIsSerial, ImportIsSerial DEF Next

\* What the table holds before the first writer is a catalogue it admits.
LEMMA InitIsSerial == Init => Serial!Init
<1> SUFFICES ASSUME Init PROVE Serial!Init
    OBVIOUS
<1>1. PICK number \in [Legacy -> LegacyNumbers] :
         /\ \A p, q \in Legacy : number[p] = number[q] => p = q
         /\ product = [p \in Products |->
              IF p \in Legacy THEN [NoProduct EXCEPT !.number = number[p], !.numbers = {number[p]}, !.active = TRUE]
              ELSE NoProduct]
    BY DEF Init
<1>2. \A p \in Products :
        /\ product[p].ext = None
        /\ p \in Legacy => product[p].number = number[p] /\ product[p].numbers = {number[p]}
        /\ p \notin Legacy => product[p].number = None /\ product[p].numbers = {}
    BY <1>1 DEF NoProduct
<1>3. \A p \in Legacy : number[p] # None
    BY DataAssumption
<1>4. Unique(product)
  <2> SUFFICES ASSUME NEW p \in Products, NEW q \in Products, p # q
               PROVE  /\ product[p].number = product[q].number => product[p].number = None
                      /\ product[p].ext = product[q].ext => product[p].ext = None
                      /\ product[p].numbers \intersect product[q].numbers = {}
      BY DEF Unique
  <2>1. CASE p \in Legacy /\ q \in Legacy
    <3>1. number[p] # number[q]
        BY <1>1, <2>1
    <3>2. product[p].number = number[p] /\ product[q].number = number[q]
          /\ product[p].numbers = {number[p]} /\ product[q].numbers = {number[q]}
        BY <1>2, <2>1
    <3> QED BY <1>2, <3>1, <3>2
  <2>2. CASE p \notin Legacy
    <3>1. product[p].number = None /\ product[p].numbers = {}
        BY <1>2, <2>2
    <3> QED BY <1>2, <3>1
  <2>3. CASE p \in Legacy /\ q \notin Legacy
    <3>1. product[q].number = None /\ product[q].numbers = {} /\ product[p].number # None
        BY <1>2, <1>3, <2>3
    <3> QED BY <1>2, <3>1
  <2> QED BY <2>1, <2>2, <2>3
<1>5. (\A p \in Syncs : ~Holds(sync[p])) /\ \A o \in Operators : ~Holds(operator[o])
    BY DEF Init, IdleSync, IdleOperator, Holds
<1>6. Drafts(sync) = {} /\ FilesOf(operator) = {}
    BY <1>5, DraftsOf, FilesAre
<1> QED BY <1>4, <1>6, Zenon DEF Serial!Init, Drafts, FilesOf

\* services/nineyard_identity.py:9: for any items, products, files, processes and
\* changes at NineYard, the catalogue changes as if its syncs and imports had run
\* one after the other, each on the catalogue the one before left.
THEOREM CatalogueIsSerial == Spec => SerialSpec
<1>1. Init => SerialInv
    BY InitIInv, InitDescribed DEF SerialInv
<1>2. SerialInv /\ [Next]_vars => SerialInv'
    BY NextIInv, NextDescribed DEF SerialInv
<1> QED BY <1>1, <1>2, InitIsSerial, NextIsSerial, PTL DEF Spec, SerialSpec, Serial!Spec
=============================================================================
