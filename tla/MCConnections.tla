--------------------------- MODULE MCConnections ----------------------------
(***************************************************************************)
(* Instance of Connections.                                                *)
(***************************************************************************)
EXTENDS Connections

CONSTANTS a1, a2, p1, f1

Accounts == {a1, a2}
Mixed    == { [x \in Accounts |-> IF x = a1 THEN site ELSE "mastodon"] : site \in {"pinterest", "bluesky"} }
Posts    == {p1}
Trips    == {f1}
Threads  == {"h1", "h2"}
Engine   == {"engine"}
=============================================================================
