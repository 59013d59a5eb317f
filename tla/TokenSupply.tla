---------------------------- MODULE TokenSupply ----------------------------
(***************************************************************************)
(* What the ledger promises, without blocks, proofs, nonces or fees: units *)
(* enter only by minting within the supply, leave only by burning, and     *)
(* otherwise move between holders, never from one who has too few.         *)
(***************************************************************************)
EXTENDS Integers

CONSTANTS Holders, MaxSupply

VARIABLES balance, issued, burned

vars == <<balance, issued, burned>>

Init ==
  /\ balance = [h \in Holders |-> 0]
  /\ issued = 0
  /\ burned = 0

Mint(h) ==
  \E units \in 1..(MaxSupply - issued) :
    /\ balance' = [balance EXCEPT ![h] = @ + units]
    /\ issued' = issued + units
    /\ UNCHANGED burned

Burn(h) ==
  \E units \in 1..balance[h] :
    /\ balance' = [balance EXCEPT ![h] = @ - units]
    /\ burned' = burned + units
    /\ UNCHANGED issued

\* What leaves one holder reaches the other, less what is burned on the way.
Move(h, g) ==
  \E units \in 1..balance[h] : \E fee \in 0..(units - 1) :
    /\ balance' = [[balance EXCEPT ![h] = @ - units] EXCEPT ![g] = @ + (units - fee)]
    /\ burned' = burned + fee
    /\ UNCHANGED issued

Next == \E h \in Holders : Mint(h) \/ Burn(h) \/ \E g \in Holders : Move(h, g)

Spec == Init /\ [][Next]_vars
=============================================================================
