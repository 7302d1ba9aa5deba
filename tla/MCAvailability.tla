---------------------------- MODULE MCAvailability ----------------------------
(* Instances of Availability for TLC: lines a and b of vendor v, c of vendor w. *)
EXTENDS Availability

CONSTANTS a, b, c, v, w, p, q

VendorsOfLines == [l \in Lines |-> IF l = c THEN w ELSE v]

R(line, status, product) == [line |-> line, status |-> status, product |-> product]
InAndOut == {"AVAILABLE", "OUT_OF_STOCK"}

\* The same product from two vendors.
TwoVendors == {<<R(l, s, p)>> : l \in {a, c}, s \in InAndOut}

\* A vendor with two lines of the product, another one with a third.
ThreeLines ==
    {<<R(a, s, p), R(b, "AVAILABLE", p)>> : s \in InAndOut}
        \union {<<R(c, "AVAILABLE", p)>>, <<R(c, "UNKNOWN", p)>>, <<R(c, "AVAILABLE", None)>>}

Symmetry == Permutations(Workers) \union Permutations(Buyers)
===============================================================================
