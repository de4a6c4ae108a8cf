----------------------------- MODULE MC_TxPool -----------------------------
(***************************************************************************)
(* The transactions of MC_Ledger, in blocks and in the pool.               *)
(***************************************************************************)
EXTENDS MC_Ledger, TxPool

EmptyBodies == {<<>>}
=============================================================================
