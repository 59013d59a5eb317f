------------------------------- MODULE Ledger -------------------------------
(***************************************************************************)
(* The economic rules of Store::materialize_views as operators: what one   *)
(* claim, transfer or post does to the ledger that replay rebuilds.        *)
(*                                                                         *)
(* A payload is reduced to the fields the rules read.  A missing or        *)
(* unparsable block index, proof of work or witness is the flag proof_ok   *)
(* or witness_ok; a missing nonce is 0, as the code treats it; a missing   *)
(* target is NoCid.  Amounts are unbounded integers here: amount + fee is  *)
(* assumed not to overflow int64 (see the README).                         *)
(***************************************************************************)
EXTENDS Integers

CONSTANTS
  Cids,           \* author and target identities
  NoCid,          \* the empty cid
  BlockIndices,   \* indices of the blocks a claim may name
  RawSubsidy,     \* block_reward_units_ after the decay, per block index
  MinSubsidy,     \* min_subsidy_units_, at least 1
  MaxSupply,      \* max_token_supply_units_, 69359946 in the code
  FeeDivisor      \* a transfer burns amount / FeeDivisor, 100 in the code

ASSUME LedgerConstants ==
  /\ NoCid \notin Cids
  /\ BlockIndices \subseteq Nat
  /\ RawSubsidy \in [BlockIndices -> Nat]
  /\ MinSubsidy \in Nat \ {0}
  /\ MaxSupply \in Nat
  /\ FeeDivisor \in Nat \ {0}

\* The replayable economic events.
ClaimEvent == [kind : {"claim"}, author : Cids, block : BlockIndices,
               reward : Int, proof_ok : BOOLEAN]
TransferEvent == [kind : {"transfer"}, author : Cids, to : Cids \cup {NoCid},
                  amount : Int, fee : Int, nonce : Nat, witness_ok : BOOLEAN]
PostEvent == [kind : {"post"}, author : Cids, value : Int]

\* claimed_blocks_ (NoCid: not claimed), reward_balances_, issued_reward_total_,
\* burned_fee_total_ and transfer_nonce_by_cid_.
LedgerState == [claimed : [BlockIndices -> Cids \cup {NoCid}],
                balance : [Cids -> Int],
                issued : Int, burned : Int,
                nonce : [Cids -> Nat]]

EmptyLedger == [claimed |-> [b \in BlockIndices |-> NoCid],
                balance |-> [c \in Cids |-> 0],
                issued |-> 0, burned |-> 0,
                nonce |-> [c \in Cids |-> 0]]

Credit(balance, c, units) == [balance EXCEPT ![c] = @ + units]
Debit(balance, c, units) == [balance EXCEPT ![c] = @ - units]

-----------------------------------------------------------------------------
(* Block reward claims.                                                    *)

ScheduledReward(b) == IF b = 0 THEN 0
                      ELSE IF RawSubsidy[b] < MinSubsidy THEN MinSubsidy
                      ELSE RawSubsidy[b]

\* Mutant: the last reward is not cut to what is left of the supply.
ExpectedRewardUncut(b, issued) ==
  IF issued >= MaxSupply THEN 0 ELSE ScheduledReward(b)

ExpectedClaimReward(b, issued) ==
  IF issued >= MaxSupply THEN 0
  ELSE IF ScheduledReward(b) <= MaxSupply - issued THEN ScheduledReward(b)
  ELSE MaxSupply - issued

\* Mutant: an author may claim a block again that it already claimed.
ClaimAcceptedFromOwner(L, e, confirmed) ==
  /\ e.reward > 0
  /\ e.reward = ExpectedClaimReward(e.block, L.issued)
  /\ e.block \in confirmed
  /\ L.claimed[e.block] \in {NoCid, e.author}
  /\ e.proof_ok

\* confirmed: the indices of the confirmed blocks when the replay runs.
ClaimAccepted(L, e, confirmed) ==
  /\ e.reward > 0
  /\ e.reward = ExpectedClaimReward(e.block, L.issued)
  /\ e.block \in confirmed
  /\ L.claimed[e.block] = NoCid
  /\ e.proof_ok

ApplyClaim(L, e) ==
  [L EXCEPT !.claimed = [L.claimed EXCEPT ![e.block] = e.author],
            !.balance = Credit(L.balance, e.author, e.reward),
            !.issued = @ + e.reward]

-----------------------------------------------------------------------------
(* Transfers, which burn a fee, and posts, which burn their value.         *)

BurnFee(amount) == IF amount <= 0 THEN 0
                   ELSE IF amount \div FeeDivisor > 1 THEN amount \div FeeDivisor
                   ELSE 1

\* Mutant: any later nonce is taken, not only the next one.
TransferAcceptedLaterNonce(L, e) ==
  /\ e.to # NoCid /\ e.amount > 0 /\ e.fee >= 0 /\ e.nonce # 0
  /\ e.nonce > L.nonce[e.author]
  /\ e.fee = BurnFee(e.amount)
  /\ e.witness_ok
  /\ L.balance[e.author] >= e.amount + e.fee

\* Mutant: the balance has to cover the amount but not the fee.
TransferAcceptedWithoutFee(L, e) ==
  /\ e.to # NoCid /\ e.amount > 0 /\ e.fee >= 0 /\ e.nonce # 0
  /\ e.nonce = L.nonce[e.author] + 1
  /\ e.fee = BurnFee(e.amount)
  /\ e.witness_ok
  /\ L.balance[e.author] >= e.amount

TransferAccepted(L, e) ==
  /\ e.to # NoCid /\ e.amount > 0 /\ e.fee >= 0 /\ e.nonce # 0
  /\ e.nonce = L.nonce[e.author] + 1
  /\ e.fee = BurnFee(e.amount)
  /\ e.witness_ok
  /\ L.balance[e.author] >= e.amount + e.fee

\* Mutant: both balances are read before either is written, so a transfer to
\* oneself credits the amount over the debited balance.
ApplyTransferStale(L, e) ==
  [L EXCEPT !.balance = [Debit(L.balance, e.author, e.amount + e.fee)
                           EXCEPT ![e.to] = L.balance[e.to] + e.amount],
            !.burned = @ + e.fee,
            !.nonce = [L.nonce EXCEPT ![e.author] = e.nonce]]

\* The debit comes first: a transfer to oneself credits what the debit left.
ApplyTransfer(L, e) ==
  [L EXCEPT !.balance = Credit(Debit(L.balance, e.author, e.amount + e.fee), e.to, e.amount),
            !.burned = @ + e.fee,
            !.nonce = [L.nonce EXCEPT ![e.author] = e.nonce]]

PostAccepted(L, e) == e.value >= 0 /\ (e.value > 0 => L.balance[e.author] >= e.value)

ApplyPost(L, e) == [L EXCEPT !.balance = Debit(L.balance, e.author, e.value),
                          !.burned = @ + e.value]

-----------------------------------------------------------------------------
Accepted(L, e, confirmed) ==
  \/ e.kind = "claim" /\ ClaimAccepted(L, e, confirmed)
  \/ e.kind = "transfer" /\ TransferAccepted(L, e)
  \/ e.kind = "post" /\ PostAccepted(L, e)

\* The body of the economic loop: a rejected event only lands in
\* invalid_economic_events_.
ApplyEvent(L, e, confirmed) ==
  IF ~Accepted(L, e, confirmed) THEN L
  ELSE CASE e.kind = "claim" -> ApplyClaim(L, e)
         [] e.kind = "transfer" -> ApplyTransfer(L, e)
         [] e.kind = "post" -> ApplyPost(L, e)
=============================================================================
