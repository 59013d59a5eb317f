----------------------------- MODULE MCStartup -----------------------------
(* Two communities on two networks, two identities, one new release.      *)
EXTENDS Startup, TLC
CONSTANTS home, other
=============================================================================
