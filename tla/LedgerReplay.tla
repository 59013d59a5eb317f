---------------------------- MODULE LedgerReplay ----------------------------
(***************************************************************************)
(* The economic loop of Store::materialize_views, one event per step.      *)
(*                                                                         *)
(* Replay starts from an empty ledger and walks the stored events in an    *)
(* order fixed beforehand; the order is whatever the timeline and the      *)
(* envelopes give, so here any event may come next.  The set of confirmed  *)
(* blocks is fixed for the whole replay.  accepted is a history variable:  *)
(* the events that took effect, in order.                                  *)
(***************************************************************************)
EXTENDS Ledger, Sequences

CONSTANTS
  Units,          \* rewards, amounts, fees and values the events may carry
  MaxNonce,       \* bound on the nonces the events may carry
  MaxAccepted     \* bound on the number of accepted events

ASSUME ReplayConstants ==
  /\ Units \subseteq Int
  /\ MaxNonce \in Nat
  /\ MaxAccepted \in Nat

VARIABLES
  confirmed,      \* indices of the confirmed blocks
  ledger,
  accepted

vars == <<confirmed, ledger, accepted>>

Init ==
  /\ confirmed \in SUBSET BlockIndices
  /\ ledger = EmptyLedger
  /\ accepted = <<>>

Replay(e) ==
  /\ Len(accepted) < MaxAccepted
  /\ ledger' = ApplyEvent(ledger, e, confirmed)
  /\ accepted' = IF Accepted(ledger, e, confirmed) THEN Append(accepted, e) ELSE accepted
  /\ UNCHANGED confirmed

ReplayClaim ==
  \E e \in [kind : {"claim"}, author : Cids, block : BlockIndices,
            reward : Units, proof_ok : BOOLEAN] : Replay(e)

ReplayTransfer ==
  \E e \in [kind : {"transfer"}, author : Cids, to : Cids \cup {NoCid}, amount : Units,
            fee : Units, nonce : 0..MaxNonce, witness_ok : BOOLEAN] : Replay(e)

ReplayPost ==
  \E e \in [kind : {"post"}, author : Cids, value : Units] : Replay(e)

Next == ReplayClaim \/ ReplayTransfer \/ ReplayPost

Spec == Init /\ [][Next]_vars

-----------------------------------------------------------------------------
(* Properties.                                                             *)

Claims == {p \in DOMAIN accepted : accepted[p].kind = "claim"}
TransfersOf(c) == {p \in DOMAIN accepted :
                     accepted[p].kind = "transfer" /\ accepted[p].author = c}

\* Every variable holds a value of its type.
TypeOK ==
  /\ confirmed \subseteq BlockIndices
  /\ ledger \in LedgerState
  /\ accepted \in Seq(ClaimEvent \cup TransferEvent \cup PostEvent)

\* No mix of claims, transfers (to oneself too), fees and posts overdraws a
\* balance: the amount and the fee are checked together.
NoOverdraft == \A c \in Cids : ledger.balance[c] >= 0

\* Claims never issue more than the supply, whichever blocks are claimed and in
\* whichever order: the last claim is cut to what is left.
SupplyCapped == ledger.issued <= MaxSupply

\* A block pays out once, to the author the ledger remembers, and only if it
\* was confirmed, even when several authors claim it.
BlockPaidOnce ==
  /\ \A p, q \in Claims : accepted[p].block = accepted[q].block => p = q
  /\ \A p \in Claims : /\ ledger.claimed[accepted[p].block] = accepted[p].author
                       /\ accepted[p].block \in confirmed

\* The accepted transfers of an author carry the nonces 1, 2, ... in order and
\* without a gap, so that no transfer takes effect twice, and a rejected one
\* uses up no nonce.
NoncesGapless ==
  \A c \in Cids :
    /\ \A p, q \in TransfersOf(c) : p < q => accepted[p].nonce < accepted[q].nonce
    /\ \A n \in 1..ledger.nonce[c] : \E p \in TransfersOf(c) : accepted[p].nonce = n
    /\ \A p \in TransfersOf(c) : accepted[p].nonce \in 1..ledger.nonce[c]

\* The ledger is a token with a capped supply: issued units are held or burned,
\* and none moves that its holder did not have (module TokenSupply).
Token == INSTANCE TokenSupply WITH
  Holders <- Cids,
  balance <- ledger.balance, issued <- ledger.issued, burned <- ledger.burned

TokenSpec == Token!Spec
=============================================================================
