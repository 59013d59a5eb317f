----------------------------- MODULE MCSyncTick -----------------------------
(* TLC's root module: the constants are all numbers, given in the .cfg.    *)
EXTENDS SyncTick
=============================================================================
