----------------------------- MODULE MCAdminList -----------------------------
(* An instance of AdminList for TLC. *)
EXTENDS AdminList, TLC

Alike == Permutations(Txs) \cup Permutations(Forwarders)
=============================================================================
