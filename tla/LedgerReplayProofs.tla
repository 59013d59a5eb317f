------------------------- MODULE LedgerReplayProofs -------------------------
(***************************************************************************)
(* Theorems about LedgerReplay, for every set of identities and blocks,    *)
(* every reward schedule, supply and fee, and replays of every length.     *)
(***************************************************************************)
EXTENDS LedgerReplay, TLAPS

AnyEvent == ClaimEvent \cup TransferEvent \cup PostEvent

\* The inductive invariant is the conjunction of the properties themselves.
IInv == TypeOK /\ NoOverdraft /\ SupplyCapped /\ BlockPaidOnce /\ NoncesGapless

-----------------------------------------------------------------------------
(* The operators of Ledger.                                                *)

LEMMA EmptyLedgerType ==
  /\ EmptyLedger \in LedgerState
  /\ EmptyLedger.issued = 0 /\ EmptyLedger.burned = 0
  /\ \A c \in Cids : EmptyLedger.balance[c] = 0 /\ EmptyLedger.nonce[c] = 0
BY DEF EmptyLedger, LedgerState

LEMMA RewardType ==
  ASSUME NEW b \in BlockIndices
  PROVE  ScheduledReward(b) \in Nat
BY LedgerConstants DEF LedgerConstants, ScheduledReward

\* A claim never takes more than what the supply has left.
LEMMA ExpectedRewardBounded ==
  ASSUME NEW b \in BlockIndices, NEW issued \in Int, issued <= MaxSupply
  PROVE  /\ ExpectedClaimReward(b, issued) \in Nat
         /\ issued + ExpectedClaimReward(b, issued) <= MaxSupply
BY RewardType, LedgerConstants DEF LedgerConstants, ExpectedClaimReward

LEMMA BurnFeeType ==
  ASSUME NEW amount \in Int
  PROVE  BurnFee(amount) \in Nat
BY LedgerConstants DEF LedgerConstants, BurnFee

LEMMA ApplyClaimFields ==
  ASSUME NEW L \in LedgerState, NEW e \in ClaimEvent
  PROVE  LET M == ApplyClaim(L, e)
         IN  /\ M \in LedgerState
             /\ M.claimed = [L.claimed EXCEPT ![e.block] = e.author]
             /\ M.balance = [L.balance EXCEPT ![e.author] = @ + e.reward]
             /\ M.issued = L.issued + e.reward
             /\ M.burned = L.burned
             /\ M.nonce = L.nonce
<1> DEFINE claimed == [L.claimed EXCEPT ![e.block] = e.author]
           balance == Credit(L.balance, e.author, e.reward)
<1>1. /\ claimed \in [BlockIndices -> Cids \cup {NoCid}]
      /\ balance \in [Cids -> Int]
      /\ balance = [L.balance EXCEPT ![e.author] = @ + e.reward]
  BY DEF LedgerState, ClaimEvent, Credit
<1>2. ApplyClaim(L, e) = [L EXCEPT !.claimed = claimed, !.balance = balance,
                                   !.issued = @ + e.reward]
  BY DEF ApplyClaim
<1>3. L.issued + e.reward \in Int
  BY DEF LedgerState, ClaimEvent
<1> HIDE DEF claimed, balance
<1>4. /\ ApplyClaim(L, e) \in LedgerState
      /\ ApplyClaim(L, e).claimed = claimed
      /\ ApplyClaim(L, e).balance = balance
      /\ ApplyClaim(L, e).issued = L.issued + e.reward
      /\ ApplyClaim(L, e).burned = L.burned
      /\ ApplyClaim(L, e).nonce = L.nonce
  BY <1>1, <1>2, <1>3 DEF LedgerState
<1> QED
  BY <1>1, <1>4 DEF claimed

LEMMA ApplyTransferFields ==
  ASSUME NEW L \in LedgerState, NEW e \in TransferEvent, e.to # NoCid
  PROVE  LET M == ApplyTransfer(L, e)
         IN  /\ M \in LedgerState
             /\ M.claimed = L.claimed
             /\ M.balance = [[L.balance EXCEPT ![e.author] = @ - (e.amount + e.fee)]
                               EXCEPT ![e.to] = @ + e.amount]
             /\ M.issued = L.issued
             /\ M.burned = L.burned + e.fee
             /\ M.nonce = [L.nonce EXCEPT ![e.author] = e.nonce]
<1> DEFINE paid == Debit(L.balance, e.author, e.amount + e.fee)
           balance == Credit(paid, e.to, e.amount)
           nonce == [L.nonce EXCEPT ![e.author] = e.nonce]
<1>1. /\ e.author \in Cids /\ e.to \in Cids
      /\ e.amount \in Int /\ e.fee \in Int /\ e.nonce \in Nat
  BY DEF TransferEvent
<1>2. /\ paid \in [Cids -> Int]
      /\ paid = [L.balance EXCEPT ![e.author] = @ - (e.amount + e.fee)]
  BY <1>1 DEF LedgerState, Debit
<1> HIDE DEF paid
<1>3. /\ balance \in [Cids -> Int]
      /\ balance = [paid EXCEPT ![e.to] = @ + e.amount]
      /\ nonce \in [Cids -> Nat]
  BY <1>1, <1>2 DEF LedgerState, Credit
<1>4. ApplyTransfer(L, e) = [L EXCEPT !.balance = balance, !.burned = @ + e.fee, !.nonce = nonce]
  BY DEF ApplyTransfer, paid
<1>5. L.burned + e.fee \in Int
  BY <1>1 DEF LedgerState
<1> HIDE DEF balance, nonce
<1>6. /\ ApplyTransfer(L, e) \in LedgerState
      /\ ApplyTransfer(L, e).claimed = L.claimed
      /\ ApplyTransfer(L, e).balance = balance
      /\ ApplyTransfer(L, e).issued = L.issued
      /\ ApplyTransfer(L, e).burned = L.burned + e.fee
      /\ ApplyTransfer(L, e).nonce = nonce
  BY <1>3, <1>4, <1>5 DEF LedgerState
<1> QED
  BY <1>2, <1>3, <1>6 DEF nonce

LEMMA ApplyPostFields ==
  ASSUME NEW L \in LedgerState, NEW e \in PostEvent
  PROVE  LET M == ApplyPost(L, e)
         IN  /\ M \in LedgerState
             /\ M.claimed = L.claimed
             /\ M.balance = [L.balance EXCEPT ![e.author] = @ - e.value]
             /\ M.issued = L.issued
             /\ M.burned = L.burned + e.value
             /\ M.nonce = L.nonce
<1> DEFINE balance == Debit(L.balance, e.author, e.value)
<1>1. e.author \in Cids /\ e.value \in Int
  BY DEF PostEvent
<1>2. /\ balance \in [Cids -> Int]
      /\ balance = [L.balance EXCEPT ![e.author] = @ - e.value]
      /\ L.burned + e.value \in Int
  BY <1>1 DEF LedgerState, Debit
<1>3. ApplyPost(L, e) = [L EXCEPT !.balance = balance, !.burned = @ + e.value]
  BY DEF ApplyPost
<1> HIDE DEF balance
<1>4. /\ ApplyPost(L, e) \in LedgerState
      /\ ApplyPost(L, e).claimed = L.claimed
      /\ ApplyPost(L, e).balance = balance
      /\ ApplyPost(L, e).issued = L.issued
      /\ ApplyPost(L, e).burned = L.burned + e.value
      /\ ApplyPost(L, e).nonce = L.nonce
  BY <1>2, <1>3 DEF LedgerState
<1> QED
  BY <1>2, <1>4

\* The kinds exclude each other, so an accepted event passed its own checks.
LEMMA AcceptedByKind ==
  ASSUME NEW e \in AnyEvent, Accepted(ledger, e, confirmed)
  PROVE  \/ /\ e \in ClaimEvent /\ ClaimAccepted(ledger, e, confirmed)
            /\ ApplyEvent(ledger, e, confirmed) = ApplyClaim(ledger, e)
         \/ /\ e \in TransferEvent /\ TransferAccepted(ledger, e)
            /\ ApplyEvent(ledger, e, confirmed) = ApplyTransfer(ledger, e)
         \/ /\ e \in PostEvent /\ PostAccepted(ledger, e)
            /\ ApplyEvent(ledger, e, confirmed) = ApplyPost(ledger, e)
BY DEF AnyEvent, ClaimEvent, TransferEvent, PostEvent, Accepted, ApplyEvent

\* An event of any of the three actions is one of the typed events.
LEMMA NextIsReplay == Next => \E e \in AnyEvent : Replay(e)
<1>1. ASSUME ReplayClaim PROVE \E e \in AnyEvent : Replay(e)
  <2>1. [kind : {"claim"}, author : Cids, block : BlockIndices,
         reward : Units, proof_ok : BOOLEAN] \subseteq ClaimEvent
    BY ReplayConstants DEF ReplayConstants, ClaimEvent
  <2> QED
    BY <1>1, <2>1 DEF ReplayClaim, AnyEvent
<1>2. ASSUME ReplayTransfer PROVE \E e \in AnyEvent : Replay(e)
  <2>1. [kind : {"transfer"}, author : Cids, to : Cids \cup {NoCid}, amount : Units,
         fee : Units, nonce : 0..MaxNonce, witness_ok : BOOLEAN] \subseteq TransferEvent
    <3> DEFINE nonces == 0..MaxNonce
    <3>1. nonces \subseteq Nat /\ Units \subseteq Int
      BY ReplayConstants DEF ReplayConstants
    <3> HIDE DEF nonces
    <3>2. ASSUME NEW r \in [kind : {"transfer"}, author : Cids, to : Cids \cup {NoCid},
                            amount : Units, fee : Units, nonce : nonces, witness_ok : BOOLEAN]
          PROVE  r \in TransferEvent
      BY <3>1 DEF TransferEvent
    <3> QED
      BY <3>2 DEF nonces
  <2> QED
    BY <1>2, <2>1 DEF ReplayTransfer, AnyEvent
<1>3. ASSUME ReplayPost PROVE \E e \in AnyEvent : Replay(e)
  <2>1. [kind : {"post"}, author : Cids, value : Units] \subseteq PostEvent
    BY ReplayConstants DEF ReplayConstants, PostEvent
  <2> QED
    BY <1>3, <2>1 DEF ReplayPost, AnyEvent
<1> QED
  BY <1>1, <1>2, <1>3 DEF Next

-----------------------------------------------------------------------------
(* BlockPaidOnce and NoncesGapless as operators of what they read.         *)

PaidOnce(C, acc, claimed, blocks) ==
  /\ \A p, q \in C : acc[p].block = acc[q].block => p = q
  /\ \A p \in C : claimed[acc[p].block] = acc[p].author /\ acc[p].block \in blocks

Gapless(T, acc, N) ==
  /\ \A p, q \in T : p < q => acc[p].nonce < acc[q].nonce
  /\ \A n \in 1..N : \E p \in T : acc[p].nonce = n
  /\ \A p \in T : acc[p].nonce \in 1..N

LEMMA PaidOnceForm ==
  /\ BlockPaidOnce <=> PaidOnce(Claims, accepted, ledger.claimed, confirmed)
  /\ BlockPaidOnce' <=> PaidOnce(Claims', accepted', ledger'.claimed, confirmed')
BY DEF BlockPaidOnce, PaidOnce

LEMMA GaplessForm ==
  /\ NoncesGapless <=> \A c \in Cids : Gapless(TransfersOf(c), accepted, ledger.nonce[c])
  /\ NoncesGapless' <=> \A c \in Cids : Gapless(TransfersOf(c)', accepted', ledger'.nonce[c])
BY DEF NoncesGapless, Gapless

LEMMA PaidOnceKept ==
  ASSUME NEW C, NEW acc, NEW after, NEW claimed, NEW blocks,
         PaidOnce(C, acc, claimed, blocks), \A p \in C : after[p] = acc[p]
  PROVE  PaidOnce(C, after, claimed, blocks)
BY DEF PaidOnce

LEMMA GaplessKept ==
  ASSUME NEW T, NEW acc, NEW after, NEW N,
         Gapless(T, acc, N), \A p \in T : after[p] = acc[p]
  PROVE  Gapless(T, after, N)
BY DEF Gapless

\* The next nonce after the last accepted transfer keeps the run gapless.
LEMMA GaplessExtended ==
  ASSUME NEW T, NEW acc, NEW after, NEW N \in Nat, NEW n \in Nat,
         T \subseteq 1..n, Gapless(T, acc, N), \A p \in T : after[p] = acc[p],
         after[n + 1].nonce = N + 1
  PROVE  Gapless(T \cup {n + 1}, after, N + 1)
<1>1. \A p \in T : p \in 1..n /\ after[p].nonce \in 1..N
  BY DEF Gapless
<1>2. ASSUME NEW p \in T \cup {n + 1}, NEW q \in T \cup {n + 1}, p < q
      PROVE  after[p].nonce < after[q].nonce
  <2>1. p \in T
    BY <1>1, <1>2
  <2>2. CASE q \in T
    BY <2>1, <2>2, <1>2 DEF Gapless
  <2>3. CASE q = n + 1
    <3>1. after[q].nonce = N + 1
      BY <2>3
    <3>2. after[p].nonce \in 1..N
      BY <1>1, <2>1
    <3> QED
      BY <3>1, <3>2
  <2> QED
    BY <2>2, <2>3
<1>3. ASSUME NEW k \in 1..(N + 1)
      PROVE  \E p \in T \cup {n + 1} : after[p].nonce = k
  <2>1. CASE k = N + 1
    BY <2>1
  <2>2. CASE k \in 1..N
    BY <2>2 DEF Gapless
  <2> QED
    BY <2>1, <2>2
<1>4. \A p \in T \cup {n + 1} : after[p].nonce \in 1..(N + 1)
  BY <1>1
<1> QED
  BY <1>2, <1>3, <1>4 DEF Gapless

-----------------------------------------------------------------------------
(* The steps: what a step that accepts an event does to the invariant.     *)

LEMMA AcceptExtends ==
  ASSUME TypeOK, NEW e \in AnyEvent, accepted' = Append(accepted, e)
  PROVE  /\ accepted' \in Seq(AnyEvent)
         /\ Len(accepted) \in Nat
         /\ DOMAIN accepted = 1..Len(accepted)
         /\ DOMAIN accepted' = 1..(Len(accepted) + 1)
         /\ accepted'[Len(accepted) + 1] = e
         /\ \A p \in 1..Len(accepted) : accepted'[p] = accepted[p]
<1>1. accepted \in Seq(AnyEvent)
  BY DEF TypeOK, AnyEvent
<1> QED
  BY <1>1

LEMMA ClaimStep ==
  ASSUME IInv, NEW e \in ClaimEvent, ClaimAccepted(ledger, e, confirmed),
         ledger' = ApplyClaim(ledger, e), accepted' = Append(accepted, e),
         confirmed' = confirmed
  PROVE  IInv' /\ \E h \in Cids : Token!Mint(h)
<1> DEFINE n == Len(accepted)
<1>1. ledger \in LedgerState /\ e \in AnyEvent
  BY DEF IInv, TypeOK, AnyEvent
<1>2. /\ accepted' \in Seq(AnyEvent)
      /\ n \in Nat
      /\ DOMAIN accepted = 1..n
      /\ DOMAIN accepted' = 1..(n + 1)
      /\ accepted'[n + 1] = e
      /\ \A p \in 1..n : accepted'[p] = accepted[p]
  BY <1>1, AcceptExtends DEF IInv
<1> HIDE DEF n
<1>3. /\ ledger' \in LedgerState
      /\ ledger'.claimed = [ledger.claimed EXCEPT ![e.block] = e.author]
      /\ ledger'.balance = [ledger.balance EXCEPT ![e.author] = @ + e.reward]
      /\ ledger'.issued = ledger.issued + e.reward
      /\ ledger'.burned = ledger.burned
      /\ ledger'.nonce = ledger.nonce
  BY <1>1, ApplyClaimFields
<1>4. /\ e.kind = "claim" /\ e.author \in Cids /\ e.block \in BlockIndices /\ e.reward \in Int
  BY DEF ClaimEvent
<1>5. /\ ledger.claimed \in [BlockIndices -> Cids \cup {NoCid}]
      /\ ledger.balance \in [Cids -> Int]
      /\ ledger.issued \in Int
  BY <1>1 DEF LedgerState
<1>6. /\ e.reward > 0 /\ e.block \in confirmed /\ ledger.claimed[e.block] = NoCid
      /\ e.reward = ExpectedClaimReward(e.block, ledger.issued)
  BY DEF ClaimAccepted
<1>7. TypeOK'
  BY <1>2, <1>3 DEF IInv, TypeOK, AnyEvent
<1>8. NoOverdraft'
  BY <1>3, <1>4, <1>5, <1>6 DEF IInv, NoOverdraft
<1>9. ledger.issued + e.reward <= MaxSupply
  BY <1>4, <1>5, <1>6, ExpectedRewardBounded DEF IInv, SupplyCapped
<1>10. SupplyCapped'
  BY <1>3, <1>9 DEF SupplyCapped
<1>11. BlockPaidOnce'
  <2>1. Claims' = Claims \cup {n + 1}
    BY <1>2, <1>4 DEF Claims
  <2>2. \A p \in Claims : accepted[p].block # e.block
    <3>1. \A p \in Claims : ledger.claimed[accepted[p].block] = accepted[p].author /\ accepted[p] \in ClaimEvent
      BY <1>2 DEF IInv, BlockPaidOnce, Claims, TypeOK, ClaimEvent, TransferEvent, PostEvent
    <3> QED
      BY <3>1, <1>6, LedgerConstants DEF ClaimEvent, LedgerConstants
  <2>3. \A p \in Claims : p \in 1..n /\ accepted'[p] = accepted[p] /\ accepted[p] \in ClaimEvent
    BY <1>2 DEF Claims, IInv, TypeOK, ClaimEvent, TransferEvent, PostEvent
  <2>4. \A p, q \in Claims' : accepted'[p].block = accepted'[q].block => p = q
    BY <1>2, <2>1, <2>2, <2>3 DEF IInv, BlockPaidOnce
  <2>5. \A p \in Claims' : ledger'.claimed[accepted'[p].block] = accepted'[p].author
    <3>1. \A p \in Claims : accepted[p].block \in BlockIndices
      BY <2>3 DEF ClaimEvent
    <3> QED
      BY <1>2, <1>3, <1>4, <1>5, <2>1, <2>2, <2>3, <3>1 DEF IInv, BlockPaidOnce
  <2>6. \A p \in Claims' : accepted'[p].block \in confirmed'
    BY <1>2, <1>6, <2>1, <2>3 DEF IInv, BlockPaidOnce
  <2> QED
    BY <2>4, <2>5, <2>6 DEF BlockPaidOnce
<1>12. NoncesGapless'
  <2>1. \A c \in Cids : TransfersOf(c)' = TransfersOf(c)
    BY <1>2, <1>4 DEF TransfersOf
  <2> SUFFICES ASSUME NEW c \in Cids
               PROVE  Gapless(TransfersOf(c)', accepted', ledger'.nonce[c])
    BY GaplessForm
  <2>2. \A p \in TransfersOf(c) : accepted'[p] = accepted[p]
    BY <1>2 DEF TransfersOf
  <2>3. Gapless(TransfersOf(c), accepted, ledger.nonce[c])
    BY GaplessForm DEF IInv
  <2>4. Gapless(TransfersOf(c), accepted', ledger.nonce[c])
    BY <2>2, <2>3, GaplessKept
  <2> QED
    BY <1>3, <2>1, <2>4
<1>13. Token!Mint(e.author)
  <2>1. MaxSupply - ledger.issued \in Int /\ e.reward \in 1..(MaxSupply - ledger.issued)
    BY <1>4, <1>5, <1>6, <1>9, LedgerConstants DEF LedgerConstants
  <2> QED
    BY <1>3, <2>1 DEF Token!Mint
<1> QED
  BY <1>4, <1>7, <1>8, <1>10, <1>11, <1>12, <1>13 DEF IInv

LEMMA TransferStep ==
  ASSUME IInv, NEW e \in TransferEvent, TransferAccepted(ledger, e),
         ledger' = ApplyTransfer(ledger, e), accepted' = Append(accepted, e),
         confirmed' = confirmed
  PROVE  IInv' /\ \E h, g \in Cids : Token!Move(h, g)
<1> DEFINE n == Len(accepted)
<1>1. ledger \in LedgerState /\ e \in AnyEvent
  BY DEF IInv, TypeOK, AnyEvent
<1>2. /\ accepted' \in Seq(AnyEvent)
      /\ n \in Nat
      /\ DOMAIN accepted = 1..n
      /\ DOMAIN accepted' = 1..(n + 1)
      /\ accepted'[n + 1] = e
      /\ \A p \in 1..n : accepted'[p] = accepted[p]
  BY <1>1, AcceptExtends DEF IInv
<1> HIDE DEF n
<1>3. /\ ledger' \in LedgerState
      /\ ledger'.claimed = ledger.claimed
      /\ ledger'.balance = [[ledger.balance EXCEPT ![e.author] = @ - (e.amount + e.fee)]
                               EXCEPT ![e.to] = @ + e.amount]
      /\ ledger'.issued = ledger.issued
      /\ ledger'.burned = ledger.burned + e.fee
      /\ ledger'.nonce = [ledger.nonce EXCEPT ![e.author] = e.nonce]
  BY <1>1, ApplyTransferFields DEF TransferAccepted
<1>4. /\ e.kind = "transfer" /\ e.author \in Cids /\ e.to \in Cids
      /\ e.amount \in Int /\ e.fee \in Int /\ e.nonce \in Nat
  BY DEF TransferEvent, TransferAccepted
<1>5. /\ ledger.balance \in [Cids -> Int]
      /\ ledger.nonce \in [Cids -> Nat]
      /\ ledger.burned \in Int
  BY <1>1 DEF LedgerState
<1>6. /\ e.amount > 0 /\ e.fee >= 0
      /\ e.nonce = ledger.nonce[e.author] + 1
      /\ ledger.balance[e.author] >= e.amount + e.fee
  BY DEF TransferAccepted
<1>7. TypeOK'
  BY <1>2, <1>3 DEF IInv, TypeOK, AnyEvent
<1>8. NoOverdraft'
  <2> DEFINE paid == [ledger.balance EXCEPT ![e.author] = @ - (e.amount + e.fee)]
  <2>1. paid \in [Cids -> Int] /\ \A c \in Cids : paid[c] >= 0
    BY <1>4, <1>5, <1>6 DEF IInv, NoOverdraft
  <2>2. ledger'.balance = [paid EXCEPT ![e.to] = @ + e.amount]
    BY <1>3
  <2> HIDE DEF paid
  <2> QED
    BY <1>4, <1>6, <2>1, <2>2 DEF NoOverdraft
<1>9. SupplyCapped'
  BY <1>3 DEF IInv, SupplyCapped
<1>10. BlockPaidOnce'
  <2>1. Claims' = Claims /\ \A p \in Claims : accepted'[p] = accepted[p]
    BY <1>2, <1>4 DEF Claims
  <2>2. PaidOnce(Claims, accepted, ledger.claimed, confirmed)
    BY PaidOnceForm DEF IInv
  <2>3. PaidOnce(Claims, accepted', ledger.claimed, confirmed)
    BY <2>1, <2>2, PaidOnceKept
  <2> QED
    BY <1>3, <2>1, <2>3, PaidOnceForm
<1>11. NoncesGapless'
  <2>1. \A c \in Cids : TransfersOf(c)' = IF c = e.author THEN TransfersOf(c) \cup {n + 1}
                                                          ELSE TransfersOf(c)
    BY <1>2, <1>4 DEF TransfersOf
  <2> SUFFICES ASSUME NEW c \in Cids
               PROVE  Gapless(TransfersOf(c)', accepted', ledger'.nonce[c])
    BY GaplessForm
  <2>2. TransfersOf(c) \subseteq 1..n /\ \A p \in TransfersOf(c) : accepted'[p] = accepted[p]
    BY <1>2 DEF TransfersOf
  <2>3. Gapless(TransfersOf(c), accepted, ledger.nonce[c])
    BY GaplessForm DEF IInv
  <2>4. CASE c # e.author
    <3>1. ledger'.nonce[c] = ledger.nonce[c] /\ TransfersOf(c)' = TransfersOf(c)
      BY <1>3, <1>5, <2>1, <2>4
    <3>2. Gapless(TransfersOf(c), accepted', ledger.nonce[c])
      BY <2>2, <2>3, GaplessKept
    <3> QED
      BY <3>1, <3>2
  <2>5. CASE c = e.author
    <3>1. /\ ledger.nonce[c] \in Nat
          /\ ledger'.nonce[c] = ledger.nonce[c] + 1
          /\ e.nonce = ledger.nonce[c] + 1
          /\ TransfersOf(c)' = TransfersOf(c) \cup {n + 1}
      BY <1>3, <1>4, <1>5, <1>6, <2>1, <2>5
    <3>2. Gapless(TransfersOf(c) \cup {n + 1}, accepted', ledger.nonce[c] + 1)
      <4> DEFINE N == ledger.nonce[c]
      <4>1. N \in Nat /\ n \in Nat /\ accepted'[n + 1].nonce = N + 1
        BY <1>2, <3>1
      <4>2. Gapless(TransfersOf(c), accepted, N)
        BY <2>3
      <4> HIDE DEF N
      <4>3. Gapless(TransfersOf(c) \cup {n + 1}, accepted', N + 1)
        BY <2>2, <4>1, <4>2, GaplessExtended
      <4> QED
        BY <4>3 DEF N
    <3> QED
      BY <3>1, <3>2
  <2> QED
    BY <2>4, <2>5
<1>12. Token!Move(e.author, e.to)
  <2> DEFINE units == e.amount + e.fee
  <2>1. /\ units \in 1..ledger.balance[e.author]
        /\ e.fee \in 0..(units - 1)
        /\ units - e.fee = e.amount
    BY <1>4, <1>5, <1>6
  <2>2. ledger'.balance = [[ledger.balance EXCEPT ![e.author] = @ - units]
                             EXCEPT ![e.to] = @ + (units - e.fee)]
    BY <1>3, <2>1
  <2> HIDE DEF units
  <2> QED
    BY <1>3, <2>1, <2>2 DEF Token!Move
<1> QED
  BY <1>4, <1>7, <1>8, <1>9, <1>10, <1>11, <1>12 DEF IInv

LEMMA PostStep ==
  ASSUME IInv, NEW e \in PostEvent, PostAccepted(ledger, e),
         ledger' = ApplyPost(ledger, e), accepted' = Append(accepted, e),
         confirmed' = confirmed
  PROVE  /\ IInv'
         /\ \/ \E h \in Cids : Token!Burn(h)
            \/ UNCHANGED <<ledger.balance, ledger.issued, ledger.burned>>
<1> DEFINE n == Len(accepted)
<1>1. ledger \in LedgerState /\ e \in AnyEvent
  BY DEF IInv, TypeOK, AnyEvent
<1>2. /\ accepted' \in Seq(AnyEvent)
      /\ n \in Nat
      /\ DOMAIN accepted = 1..n
      /\ DOMAIN accepted' = 1..(n + 1)
      /\ accepted'[n + 1] = e
      /\ \A p \in 1..n : accepted'[p] = accepted[p]
  BY <1>1, AcceptExtends DEF IInv
<1> HIDE DEF n
<1>3. /\ ledger' \in LedgerState
      /\ ledger'.claimed = ledger.claimed
      /\ ledger'.balance = [ledger.balance EXCEPT ![e.author] = @ - e.value]
      /\ ledger'.issued = ledger.issued
      /\ ledger'.burned = ledger.burned + e.value
      /\ ledger'.nonce = ledger.nonce
  BY <1>1, ApplyPostFields
<1>4. e.kind = "post" /\ e.author \in Cids /\ e.value \in Int
  BY DEF PostEvent
<1>5. ledger.balance \in [Cids -> Int] /\ ledger.burned \in Int
  BY <1>1 DEF LedgerState
<1>6. e.value >= 0 /\ (e.value > 0 => ledger.balance[e.author] >= e.value)
  BY DEF PostAccepted
<1>7. TypeOK'
  BY <1>2, <1>3 DEF IInv, TypeOK, AnyEvent
<1>8. NoOverdraft'
  BY <1>3, <1>4, <1>5, <1>6 DEF IInv, NoOverdraft
<1>9. SupplyCapped'
  BY <1>3 DEF IInv, SupplyCapped
<1>10. BlockPaidOnce'
  <2>1. Claims' = Claims /\ \A p \in Claims : accepted'[p] = accepted[p]
    BY <1>2, <1>4 DEF Claims
  <2>2. PaidOnce(Claims, accepted, ledger.claimed, confirmed)
    BY PaidOnceForm DEF IInv
  <2>3. PaidOnce(Claims, accepted', ledger.claimed, confirmed)
    BY <2>1, <2>2, PaidOnceKept
  <2> QED
    BY <1>3, <2>1, <2>3, PaidOnceForm
<1>11. NoncesGapless'
  <2>1. \A c \in Cids : TransfersOf(c)' = TransfersOf(c)
    BY <1>2, <1>4 DEF TransfersOf
  <2> SUFFICES ASSUME NEW c \in Cids
               PROVE  Gapless(TransfersOf(c)', accepted', ledger'.nonce[c])
    BY GaplessForm
  <2>2. \A p \in TransfersOf(c) : accepted'[p] = accepted[p]
    BY <1>2 DEF TransfersOf
  <2>3. Gapless(TransfersOf(c), accepted, ledger.nonce[c])
    BY GaplessForm DEF IInv
  <2>4. Gapless(TransfersOf(c), accepted', ledger.nonce[c])
    BY <2>2, <2>3, GaplessKept
  <2> QED
    BY <1>3, <2>1, <2>4
<1>12. CASE e.value > 0
  <2>1. e.value \in 1..ledger.balance[e.author]
    BY <1>4, <1>5, <1>6, <1>12
  <2>2. Token!Burn(e.author)
    BY <1>3, <2>1 DEF Token!Burn
  <2> QED
    BY <1>4, <1>7, <1>8, <1>9, <1>10, <1>11, <2>2 DEF IInv
<1>13. CASE e.value = 0
  <2>1. ledger'.balance = ledger.balance
    BY <1>3, <1>4, <1>5, <1>13
  <2>2. ledger'.burned = ledger.burned
    BY <1>3, <1>5, <1>13
  <2> QED
    BY <1>3, <1>7, <1>8, <1>9, <1>10, <1>11, <2>1, <2>2 DEF IInv
<1> QED
  BY <1>4, <1>6, <1>12, <1>13

-----------------------------------------------------------------------------
(* The invariant, and the step simulation of the abstract token.           *)

LEMMA InitIInv == Init => IInv /\ Token!Init
<1> SUFFICES ASSUME Init PROVE IInv /\ Token!Init
  OBVIOUS
<1>1. TypeOK
  BY EmptyLedgerType DEF Init, TypeOK
<1>2. Claims = {} /\ \A c \in Cids : TransfersOf(c) = {}
  BY DEF Init, Claims, TransfersOf
<1>3. NoOverdraft /\ SupplyCapped /\ BlockPaidOnce
  BY <1>2, EmptyLedgerType, LedgerConstants
     DEF Init, NoOverdraft, SupplyCapped, BlockPaidOnce, LedgerConstants
<1>4. NoncesGapless
  <2>1. \A c \in Cids : ledger.nonce[c] = 0
    BY EmptyLedgerType DEF Init
  <2>2. \A acc : Gapless({}, acc, 0)
    BY DEF Gapless
  <2> QED
    BY <1>2, <2>1, <2>2, GaplessForm
<1>5. Token!Init
  BY DEF Init, EmptyLedger, Token!Init
<1> QED
  BY <1>1, <1>3, <1>4, <1>5 DEF IInv

LEMMA NextIInv ==
  ASSUME IInv, [Next]_vars
  PROVE  IInv' /\ [Token!Next]_(Token!vars)
<1>1. CASE UNCHANGED vars
  BY <1>1 DEF vars, IInv, TypeOK, NoOverdraft, SupplyCapped, BlockPaidOnce, NoncesGapless,
     Claims, TransfersOf, Token!vars
<1>2. ASSUME NEW e \in AnyEvent, Replay(e)
      PROVE  IInv' /\ [Token!Next]_(Token!vars)
  <2>1. CASE ~Accepted(ledger, e, confirmed)
    <3>1. UNCHANGED vars
      BY <1>2, <2>1 DEF Replay, ApplyEvent, vars
    <3> QED
      BY <1>1, <3>1
  <2>2. CASE Accepted(ledger, e, confirmed)
    <3>1. /\ accepted' = Append(accepted, e)
          /\ ledger' = ApplyEvent(ledger, e, confirmed)
          /\ confirmed' = confirmed
      BY <1>2, <2>2 DEF Replay
    <3>2. CASE e \in ClaimEvent /\ ClaimAccepted(ledger, e, confirmed)
               /\ ledger' = ApplyClaim(ledger, e)
      BY <3>1, <3>2, ClaimStep DEF Token!Next
    <3>3. CASE e \in TransferEvent /\ TransferAccepted(ledger, e)
               /\ ledger' = ApplyTransfer(ledger, e)
      BY <3>1, <3>3, TransferStep DEF Token!Next
    <3>4. CASE e \in PostEvent /\ PostAccepted(ledger, e)
               /\ ledger' = ApplyPost(ledger, e)
      BY <3>1, <3>4, PostStep DEF Token!Next, Token!vars
    <3> QED
      BY <1>2, <2>2, <3>1, <3>2, <3>3, <3>4, AcceptedByKind
  <2> QED
    BY <2>1, <2>2
<1> QED
  BY <1>1, <1>2, NextIsReplay

LEMMA AlwaysIInv == Spec => []IInv
BY InitIInv, NextIInv, PTL DEF Spec

-----------------------------------------------------------------------------
(* The theorems.                                                           *)

\* Replay keeps every field of the ledger in its type.
THEOREM LedgerTyped == Spec => []TypeOK
BY AlwaysIInv, PTL DEF IInv

\* No replay order overdraws a balance: materialize_views checks the balance
\* against the amount and the fee before it debits.
THEOREM NeverOverdrawn == Spec => []NoOverdraft
BY AlwaysIInv, PTL DEF IInv

\* Accepted claims never issue more than max_token_supply_units_, for every
\* schedule of rewards.
THEOREM SupplyNeverExceeded == Spec => []SupplyCapped
BY AlwaysIInv, PTL DEF IInv

\* claimed_blocks_ lets at most one claim of a block through.
THEOREM EachBlockPaidOnce == Spec => []BlockPaidOnce
BY AlwaysIInv, PTL DEF IInv

\* transfer_nonce_by_cid_ makes an author's accepted transfers a gapless
\* sequence: none takes effect twice and none is skipped.
THEOREM TransferNoncesGapless == Spec => []NoncesGapless
BY AlwaysIInv, PTL DEF IInv

\* The economic loop implements the abstract token: every accepted event mints
\* within the supply, moves units their holder has, or burns them.
THEOREM ReplayImplementsToken == Spec => TokenSpec
BY InitIInv, NextIInv, AlwaysIInv, PTL DEF Spec, TokenSpec, Token!Spec
=============================================================================
