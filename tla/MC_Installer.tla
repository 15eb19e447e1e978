----------------------------- MODULE MC_Installer -----------------------------
(* TLC instance of Installer: two losses of the secrets, two phone numbers.      *)
EXTENDS Installer
===============================================================================
