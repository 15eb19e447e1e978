--------------------------- MODULE MC_OutboundEvents ---------------------------
(* TLC instance of OutboundEvents: two attempts that share the monitor, and two
   lost replies, disconnects, restarts or events out of order. *)
EXTENDS OutboundEvents
================================================================================
