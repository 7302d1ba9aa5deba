--------------------------- MODULE MCMailedImports ---------------------------
(* Instances of MailedImports for TLC. *)
EXTENDS MailedImports

\* "long" fills two chunks; "dirty" has an invalid row in its only one.
MCChunksOf == [c \in Contents |-> IF c \in {"long", "mixed"} THEN 2 ELSE 1]
MCBadChunkOf == [c \in Contents |-> CASE c = "dirty" -> 1 [] c = "mixed" -> 2 [] OTHER -> 0]
MCReadable == Contents
=============================================================================
