--------------------------- MODULE MCAmazonListings ---------------------------
EXTENDS AmazonListings, TLC

CONSTANTS s1, s2, p1, p2

\* One SKU with a UPC that FBA reports twice, one merchant-fulfilled SKU without an ASIN.
MCShape == (s1 :> [withAsin |-> 2, withoutAsin |-> 0, fbm |-> FALSE, asin |-> TRUE, gtin |-> TRUE])
               @@ (s2 :> [withAsin |-> 0, withoutAsin |-> 0, fbm |-> TRUE, asin |-> FALSE, gtin |-> FALSE])

OneAndTwo == "FBA_INVENTORY" :> 1 @@ "LISTINGS_REPORT" :> 2

Symmetry == Permutations(Products)
=============================================================================
