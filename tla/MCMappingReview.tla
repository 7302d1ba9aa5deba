-------------------------- MODULE MCMappingReview --------------------------
(* Instances of MappingReview for TLC. *)
EXTENDS MappingReview, TLC

CONSTANTS p, q, s1

R(sku, hits, similar) == [sku |-> sku, hits |-> hits, similar |-> similar]

\* One row: its identifier names p, or q, or it has none and a similar name.
EvidenceFiles ==
    {<<R(s1, {p}, {})>>, <<R(s1, {q}, {})>>, <<R(s1, {}, {q})>>}

\* Its identifier names p, it has a similar name only, or no SKU and two
\* products: a proposal, a suggestion and an ambiguity no line can hold.
ReviewFiles ==
    {<<R(s1, {p}, {})>>, <<R(s1, {}, {q})>>, <<R(None, {p, q}, {})>>}

Symmetry == Permutations(Reviewers) \union Permutations(Matchers)
=============================================================================
