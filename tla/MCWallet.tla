------------------------------ MODULE MCWallet ------------------------------
(* Two backups, two passphrases, two identities.  Stops are looked at in both *)
(* builds, cut writes with the xor vault (whose text then still reads as an   *)
(* identity), refused ones with the sealed vault.                             *)
EXTENDS Wallet, TLC

CONSTANTS p1, p2, config, other

MCEnvironments == [sealed : BOOLEAN, kind : {"crash"}] \cup
  {[sealed |-> FALSE, kind |-> "short"], [sealed |-> TRUE, kind |-> "refused"]}

PathSymmetry == Permutations({p1, p2})
=============================================================================
