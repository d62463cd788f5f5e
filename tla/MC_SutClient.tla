----------------------------- MODULE MC_SutClient -----------------------------
(* SutClient for TLC; the bounds are in the configurations.                  *)
EXTENDS SutClient
=============================================================================
