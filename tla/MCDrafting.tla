----------------------------- MODULE MCDrafting ------------------------------
(***************************************************************************)
(* Instance of Drafting with a medium in the organization's library.       *)
(***************************************************************************)
EXTENDS Drafting
=============================================================================
