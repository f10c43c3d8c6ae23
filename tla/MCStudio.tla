------------------------------ MODULE MCStudio -------------------------------
(***************************************************************************)
(* Instance of Studio: two of nearly everything.                           *)
(***************************************************************************)
EXTENDS Studio

CONSTANTS x, y, d1, d2, d3, d4

Two == {x, y}

\* Folders three deep, two of them of one name.
Below(d, name) == [parent |-> d, name |-> name]
Chain == [d \in Folder |-> CASE d = d1 -> Below("root", "x") [] d = d2 -> Below(d1, "x")
                             [] d = d3 -> Below(d2, "y") [] OTHER -> New]
OneTree == {Chain}

\* A site without a feed, one with an address and one without.
News(link, day) == [link |-> link, day |-> day]
Pages == {NoAnswer,
          [site |-> "s", entries |-> << News(None, 1), News(None, None), News("l", 2) >>],
          [site |-> None, entries |-> << News(None, None), News(None, 1) >>]}

\* A file of a row that is in order and one with a date that is none, and
\* what a row of it may read as under another mapping.
Written(caption, date, accounts) == [caption |-> caption, date |-> date, accounts |-> accounts]
File == << Written(TRUE, "ok", Two), Written(TRUE, "bad", {x}) >>
Misread == {Written(FALSE, "none", {}), Written(TRUE, "none", {})}
=============================================================================
