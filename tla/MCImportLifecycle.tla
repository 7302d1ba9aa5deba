------------------------- MODULE MCImportLifecycle -------------------------
(* Instances of ImportLifecycle for TLC. *)
EXTENDS ImportInvariant, TLC

\* "long", "mixed" and "book" fill two chunks; "dirty" has an invalid row in its
\* only chunk and "mixed" in its last one; "book" is a workbook.
MCChunksOf == [c \in Contents |-> IF c \in {"long", "mixed", "book"} THEN 2 ELSE 1]
MCBadChunkOf == [c \in Contents |-> CASE c = "dirty" -> 1 [] c = "mixed" -> 2 [] OTHER -> 0]
MCReadable == Contents \ {"unreadable"}
MCWorkbooks == Contents \intersect {"book"}

RequestSymmetry == Permutations(Requests)
=============================================================================
