----------------------------- MODULE MCVendorMail -----------------------------
(* Instances of VendorMail for TLC: sources s1 and s2, worksheets f1 and f2 of  *)
(* vendors v1 and v2.                                                           *)
EXTENDS VendorMail, TLC

CONSTANTS s1, s2, f1, f2, v1, v2, c1, c2, bad

VendorsOfFeeds == f1 :> v1 @@ f2 :> v2
FeedsOfSources == [x \in Sources |-> IF x = s1 THEN f1 ELSE f2]

\* A message for the sources of S, each with the files of F.
Msgs(S, F, readable) ==
    [matched |-> S, files |-> [x \in Sources |-> IF x \in S THEN F ELSE {}],
     readable |-> readable]

\* For s1: content c1, content c2, and a message that cannot be read.
First == Msgs({s1}, {c1}, TRUE)
Second == Msgs({s1}, {c2}, TRUE)
Broken == Msgs({s1}, {c2}, FALSE)

\* For both vendors: a file each of them awaits, and one that s2 has no use for.
Contested == Msgs({s1, s2}, {c1}, TRUE)
ForOne == [Msgs({s1, s2}, {c2}, TRUE) EXCEPT !.files[s2] = {}]

\* Content that reappears, an unreadable message, and shared messages.
Mixed == {<<First, Second, First>>, <<Contested, ForOne, Broken>>}

\* Two messages with one file, none or two, with and without error rows.
AnyFiles == [Messages -> {Msgs({s1}, F, TRUE) : F \in SUBSET {c1, bad}}]

Symmetry == Permutations(Pollers)
===============================================================================
