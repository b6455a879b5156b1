---------------------------- MODULE MCTokenCache ----------------------------
(***************************************************************************)
(* Two repositories of one owner: a token found for one of them reads the  *)
(* other.                                                                  *)
(***************************************************************************)
EXTENDS TokenCache

CONSTANT owner

MCOwnerOf == [r \in Repos |-> owner]
=============================================================================
