---------------------------- MODULE MC_CallSession ----------------------------
(* TLC instance of CallSession: two items that may overtake one another, and one
   that is too long to be stored. *)
EXTENDS CallSession
===============================================================================
