---------------------------- MODULE MCPageStore ----------------------------
(***************************************************************************)
(* Small stores.                                                           *)
(***************************************************************************)
EXTENDS PageStoreProps, TLC

Alike == Permutations(Chats) \cup Permutations(Keys)
=============================================================================
