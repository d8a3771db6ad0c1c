------------------------------ MODULE MCWidget ------------------------------
(***************************************************************************)
(* A host page with two users, for ObiEmbed.                               *)
(***************************************************************************)
EXTENDS ObiEmbed, TLC

Users == Permutations(TokenUrls)
=============================================================================
