---------------------------- MODULE MC_Provisioner ----------------------------
(* TLC instance of Provisioner: two requests of the backend, a registering
   connection and a disabled extension, and two failures or crashes, enough for a
   step and its rollback to fail both. *)
EXTENDS Provisioner
===============================================================================
