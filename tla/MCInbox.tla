------------------------------ MODULE MCInbox -------------------------------
(***************************************************************************)
(* Instance of Inbox.                                                      *)
(***************************************************************************)
EXTENDS Inbox

CONSTANTS m1, m2

Letters == {m1, m2}
Replies == [m \in Letters |-> m1]
Three   == {"instagram", "linkedin", "youtube"}
Threads == {"web"}
=============================================================================
