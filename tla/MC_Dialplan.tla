----------------------------- MODULE MC_Dialplan -----------------------------
(* TLC instance of Dialplan: two companies that use the same two numbers. *)
EXTENDS Dialplan
==============================================================================
