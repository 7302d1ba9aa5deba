--------------------------- MODULE LaggingMirror ---------------------------
(***************************************************************************)
(* What a job that copies changing records promises, however many of them  *)
(* overlap.  The copy of a record moves only towards its source and never  *)
(* past it; the records one store creates carry that store's label, which  *)
(* no other record has; and a pull that finishes has brought over          *)
(* everything its source did not change meanwhile.  Windows, batches, run  *)
(* rows, locks and timeouts do not appear here; AmazonOrders is shown to   *)
(* implement this specification.                                           *)
(***************************************************************************)
EXTENDS Naturals

CONSTANTS
    Keys,       \* the records
    Pullers,    \* who copies them
    Labels,     \* what tells one store from another
    NoLabel     \* of a record that is not there

VARIABLES
    source,     \* record -> its version, 0 before it exists
    copy,       \* record -> the version copied, 0 before it is
    label,      \* record -> the store that created its copy
    pulling,    \* the pulls under way
    changed     \* pull -> the records that changed since it began

vars == <<source, copy, label, pulling, changed>>

Init ==
    /\ source \in [Keys -> Nat]
    /\ copy = [k \in Keys |-> 0]
    /\ label = [k \in Keys |-> NoLabel]
    /\ pulling = {}
    /\ changed = [p \in Pullers |-> {}]

\* A record is created or changes.
SourceMoves(k) ==
    /\ source' = [source EXCEPT ![k] = @ + 1]
    /\ changed' = [p \in Pullers |->
           IF p \in pulling THEN changed[p] \union {k} ELSE changed[p]]
    /\ UNCHANGED <<copy, label, pulling>>

Begin(p) ==
    /\ p \notin pulling
    /\ pulling' = pulling \union {p}
    /\ UNCHANGED <<source, copy, label, changed>>

\* Some copies catch up, as far as they do; those it creates are labelled.
Stored ==
    /\ copy' \in [Keys -> Nat]
    /\ \A k \in Keys : copy'[k] \in copy[k] .. source[k]
    /\ \E new \in Labels :
         /\ \A k \in Keys : label[k] # new
         /\ label' = [k \in Keys |->
                IF copy[k] = 0 /\ copy'[k] > 0 THEN new ELSE label[k]]

Store(p) ==
    /\ p \in pulling
    /\ Stored
    /\ UNCHANGED <<source, pulling, changed>>

Leave(p) ==
    /\ p \in pulling
    /\ pulling' = pulling \ {p}
    /\ changed' = [changed EXCEPT ![p] = {}]
    /\ UNCHANGED source

Finish(p) ==
    /\ Stored
    /\ \A k \in Keys \ changed[p] : copy'[k] = source[k]
    /\ Leave(p)

GiveUp(p) ==
    /\ UNCHANGED <<copy, label>>
    /\ Leave(p)

Next ==
    \/ \E k \in Keys : SourceMoves(k)
    \/ \E p \in Pullers : Begin(p) \/ Store(p) \/ Finish(p) \/ GiveUp(p)

Spec == Init /\ [][Next]_vars
=============================================================================
