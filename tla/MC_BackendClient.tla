--------------------------- MODULE MC_BackendClient ---------------------------
(* TLC instance of BackendClient: one message, one retry of every request.      *)
EXTENDS BackendClient
===============================================================================
