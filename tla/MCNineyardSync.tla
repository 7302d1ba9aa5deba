---------------------------- MODULE MCNineyardSync ----------------------------
EXTENDS NineyardSync, TLC

CONSTANTS i1, i2, legacy, n1, n2, b1, s1, s2

MCPosition == (i1 :> 1) @@ (i2 :> 2)

\* Item 1 is deleted; item 2 has no name of its own, is named like item 1, or
\* comes without an id.
MCPayloads ==
    i1 :> {[state |-> "LIVE", name |-> n1, upc |-> None], [state |-> "DELETED", name |-> n1, upc |-> None]} @@
    i2 :> {[state |-> "LIVE", name |-> i2, upc |-> b1], [state |-> "LIVE", name |-> n1, upc |-> None],
           [state |-> "BROKEN", name |-> i2, upc |-> None]}
MCMappings == s1 :> {{i1}, {i2}, {i1, i2}} @@ s2 :> {{None}}

\* A file that names item 1 anew, and item 2 by its id.
MCExports == {{[item |-> i1, number |-> n2, upcs |-> {b1}], [item |-> i2, number |-> i2, upcs |-> {b1}]}}

Symmetry == Permutations(Syncs)
=============================================================================
