------------------------------ MODULE MCCaching ------------------------------
(* Small instances of Caching for TLC; the .cfg files give the constants.    *)
EXTENDS Caching, TLC
=============================================================================
